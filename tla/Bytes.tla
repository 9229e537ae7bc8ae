-------------------------------- MODULE Bytes --------------------------------
(***************************************************************************)
(* Bytes, words and their bits, as the processor of the machine sees them. *)
(* A flag is 0 or 1; a bit is named by its weight.                         *)
(***************************************************************************)
EXTENDS Integers

Byte == 0 .. 255
Word == 0 .. 65535
Bool == {0, 1}

Flag(p) == IF p THEN 1 ELSE 0

Low(w) == w % 256
High(w) == (w \div 256) % 256

Bit(x, w) == (x \div w) % 2
Weights == {1, 2, 4, 8, 16, 32, 64, 128}
Bits(x) == {w \in Weights : Bit(x, w) = 1}

FromBits(B) ==
    LET Of(w) == IF w \in B THEN w ELSE 0
    IN  Of(1) + Of(2) + Of(4) + Of(8) + Of(16) + Of(32) + Of(64) + Of(128)

And(x, y) == FromBits(Bits(x) \cap Bits(y))
Or(x, y) == FromBits(Bits(x) \cup Bits(y))
Xor(x, y) == FromBits((Bits(x) \cup Bits(y)) \ (Bits(x) \cap Bits(y)))

\* A byte read as a signed number
Signed(b) == IF b >= 128 THEN b - 256 ELSE b

(***************************************************************************)
(* An instruction with the bytes that memory delivers to it: the operand   *)
(* (b and h), a pointer or an address popped (lo and hi), the byte read or *)
(* popped (m), and one more byte (k).                                      *)
(***************************************************************************)
Modes == {"none", "imm", "zero", "zero_x", "zero_y", "abs", "abs_x", "abs_y",
          "ind_x", "ind_y"}

Instruction == [op : STRING, mode : Modes, b : Byte, h : Byte,
                lo : Byte, hi : Byte, m : Byte, k : Byte]

Length(i) ==
    CASE i.mode = "none" -> 1
      [] i.mode \in {"abs", "abs_x", "abs_y"} -> 3
      [] OTHER -> 2

Operand(i) == i.b + 256 * i.h
Pointer(i) == i.lo + 256 * i.hi
Value(i) == IF i.mode = "imm" THEN i.b ELSE i.m
=============================================================================
