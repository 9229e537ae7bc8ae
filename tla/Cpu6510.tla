------------------------------- MODULE Cpu6510 -------------------------------
(***************************************************************************)
(* The line-based core of CPUC64.cpp and CPU_emulline.i: registers in      *)
(* machine words, flags in the encoding of the program (n_flag and z_flag  *)
(* are bytes: bit 7 of the one is N, the other is zero when Z is set), and *)
(* the memory configuration in four switches.  One step is one opcode, an  *)
(* interrupt entry, a reset, or the saving and loading of a state.         *)
(*                                                                         *)
(* pc is pc - pc_base of the program, which is not cut to sixteen bits;    *)
(* base is the memory that pc_base belongs to.  Opcodes and operands are   *)
(* what the memory there delivers, any of Inputs.                          *)
(***************************************************************************)
EXTENDS Bytes

CONSTANTS
    Inputs,         \* instructions with what memory delivers to them
    ResetVector,    \* in the kernal ROM
    Snapshots,      \* states saved by an earlier run
    MaxSteps, MaxSaves

ASSUME InputsAreInstructions == Inputs # {} /\ Inputs \subseteq Instruction
ASSUME VectorAssumption == ResetVector \in Word
ASSUME BoundsAssumption == MaxSteps \in Nat /\ MaxSaves \in Nat

VARIABLES
    a, x, y, sp,
    n_flag, z_flag, v_flag, d_flag, i_flag, c_flag,
    pc, base,
    ram01,          \* cells 0 and 1 of ram: ddr and pr
    banks,          \* basic_in, kernal_in, char_in, io_in
    saved,          \* an MOS6510State
    in, bus,        \* as in Mos6502
    steps, saves

axys == <<a, x, y, sp>>
flags == <<n_flag, z_flag, v_flag, d_flag, i_flag, c_flag>>
memory == <<ram01, banks>>
vars == <<axys, flags, pc, base, ram01, banks, saved, in, bus, steps, saves>>

-----------------------------------------------------------------------------
(* Memory *)

\* Port bits are those of ~ram[0] | ram[1]
new_config(p) ==
    LET High01(w) == Bit(p.ddr, w) = 0 \/ Bit(p.pr, w) = 1
        any == High01(1) \/ High01(2)
    IN  [basic_in  |-> Flag(High01(1) /\ High01(2)),
         kernal_in |-> Flag(High01(2)),
         char_in   |-> Flag(any /\ ~High01(4)),
         io_in     |-> Flag(any /\ High01(4))]

\* The chip behind a page of the I/O area
IoChip(adr) ==
    LET page == (adr \div 256) % 16
    IN  CASE page < 4  -> "VIC"
          [] page \in 4 .. 7 -> "SID"
          [] page \in 8 .. 11 -> "colour"
          [] page = 12 -> "CIA1"
          [] page = 13 -> "CIA2"
          [] OTHER -> "open"

\* Where read_byte finds the byte of an address
read_byte(adr) ==
    LET page == adr \div 4096
        place == CASE page \in {10, 11} /\ banks.basic_in = 1 -> "basic"
                   [] page = 13 /\ banks.io_in = 1 -> IoChip(adr)
                   [] page = 13 /\ banks.io_in = 0 /\ banks.char_in = 1 -> "char"
                   [] page \in {14, 15} /\ banks.kernal_in = 1 -> "kernal"
                   [] OTHER -> "ram"
    IN  << place, adr >>

\* Where write_byte puts one
write_byte(adr, v) ==
    << IF adr < 53248 \/ banks.io_in = 0 \/ adr >= 57344 THEN "ram" ELSE IoChip(adr), adr, v >>

zp(adr) == << "ram", adr >>

\* write_zp and the RAM branch of write_byte
StoresRam(adr, v) ==
    LET p == [ddr |-> IF adr = 0 THEN v ELSE ram01.ddr, pr |-> IF adr = 1 THEN v ELSE ram01.pr]
    IN  IF adr < 2 THEN ram01' = p /\ banks' = new_config(p)
        ELSE UNCHANGED memory

\* jump() with the configuration c: the base that pc points into
BaseOf(c, adr) ==
    LET page == adr \div 4096
    IN  CASE page \in {10, 11} /\ c.basic_in = 1 -> "basic"
          [] page = 13 /\ c.io_in = 1 -> "io"
          [] page = 13 /\ c.io_in = 0 /\ c.char_in = 1 -> "char"
          [] page \in {14, 15} /\ c.kernal_in = 1 -> "kernal"
          [] OTHER -> "ram"

jump(c, adr) == pc' = adr /\ base' = BaseOf(c, adr)

-----------------------------------------------------------------------------
(* Addressing modes *)

\* The cells read_zp_word uses
Via(i) ==
    LET read_zp_word(adr) == << adr % 256, (adr + 1) % 256 >>
    IN  CASE i.mode = "ind_x" -> read_zp_word(i.b + x)
          [] i.mode = "ind_y" -> read_zp_word(i.b)
          [] OTHER -> << >>

read_adr(i) ==
    CASE i.mode = "zero"   -> i.b
      [] i.mode = "zero_x" -> (i.b + x) % 256
      [] i.mode = "zero_y" -> (i.b + y) % 256
      [] i.mode = "abs"    -> Operand(i)
      [] i.mode = "abs_x"  -> (Operand(i) + x) % 65536
      [] i.mode = "abs_y"  -> (Operand(i) + y) % 65536
      [] i.mode = "ind_x"  -> Pointer(i)
      [] OTHER             -> (Pointer(i) + y) % 65536

ZeroPage(i) == i.mode \in {"zero", "zero_x", "zero_y"}
Loaded(i) == IF ZeroPage(i) THEN zp(read_adr(i)) ELSE read_byte(read_adr(i))
StoredAt(i, v) ==
    IF ZeroPage(i) THEN << "ram", read_adr(i), v >> ELSE write_byte(read_adr(i), v)

Bus(via, rd, wr) == bus' = [via |-> via, rd |-> rd, wr |-> wr]

\* pc behind the instruction; ReadsByte, WritesByte and Modifies are the three
\* ways to use an operand
Passes(i) == pc' = pc + Length(i) /\ UNCHANGED base

Quiet(i) == Passes(i) /\ Bus(<< >>, << >>, << >>) /\ UNCHANGED memory

ReadsByte(i) ==
    /\ Passes(i) /\ UNCHANGED memory
    /\ Bus(Via(i), IF i.mode = "imm" THEN << >> ELSE << Loaded(i) >>, << >>)

WritesByte(i, v) ==
    /\ Passes(i) /\ StoresRam(read_adr(i), v)
    /\ Bus(Via(i), << >>, << StoredAt(i, v) >>)

Modifies(i, v) ==
    /\ Passes(i) /\ StoresRam(read_adr(i), v)
    /\ Bus(Via(i), << Loaded(i) >>, << StoredAt(i, v) >>)

-----------------------------------------------------------------------------
(* The documented opcodes, group by group *)

set_nz(v) == n_flag' = v /\ z_flag' = v

\* A register that is loaded
SetA(v) == a' = v /\ set_nz(v) /\ UNCHANGED <<x, y, sp>>
SetX(v) == x' = v /\ set_nz(v) /\ UNCHANGED <<a, y, sp>>
SetY(v) == y' = v /\ set_nz(v) /\ UNCHANGED <<a, x, sp>>

LoadGroup(i) ==
    /\ ReadsByte(i) /\ UNCHANGED <<v_flag, d_flag, i_flag, c_flag>>
    /\ \/ i.op = "LDA" /\ SetA(Value(i))
       \/ i.op = "LDX" /\ SetX(Value(i))
       \/ i.op = "LDY" /\ SetY(Value(i))

StoreGroup(i) ==
    /\ UNCHANGED <<axys, flags>>
    /\ \/ i.op = "STA" /\ WritesByte(i, a)
       \/ i.op = "STX" /\ WritesByte(i, x)
       \/ i.op = "STY" /\ WritesByte(i, y)

TransferGroup(i) ==
    /\ Quiet(i) /\ UNCHANGED <<v_flag, d_flag, i_flag, c_flag>>
    /\ \/ i.op = "TAX" /\ SetX(a)
       \/ i.op = "TXA" /\ SetA(x)
       \/ i.op = "TAY" /\ SetY(a)
       \/ i.op = "TYA" /\ SetA(y)
       \/ i.op = "TSX" /\ SetX(sp)
       \/ i.op = "TXS" /\ sp' = x /\ UNCHANGED <<a, x, y, n_flag, z_flag>>

do_adc_bcd(byte, c) ==
    LET low == (a % 16) + (byte % 16) + c
        al == IF low > 9 THEN low + 6 ELSE low
        up == (a \div 16) + (byte \div 16) + Flag(al > 15)
        ah == IF up > 9 THEN up + 6 ELSE up
    IN  /\ z_flag' = (a + byte + c) % 256
        /\ n_flag' = (16 * up) % 256
        /\ v_flag' = Flag(Bit(16 * up, 128) # Bit(a, 128) /\ Bit(a, 128) = Bit(byte, 128))
        /\ c_flag' = Flag(ah > 15)
        /\ a' = (16 * ah + (al % 16)) % 256

\* A bug: the borrow of the lower digit is not taken from the upper one
do_sbc_bcd_digits(byte, c) ==
    LET low == ((a % 16) - (byte % 16) - (1 - c)) % 65536
        up == ((a \div 16) - (byte \div 16)) % 65536
        tmp == (a - byte - (1 - c)) % 65536
    IN  /\ set_nz(tmp % 256) /\ c_flag' = Flag(tmp < 256) /\ v_flag' = 0
        /\ a' = (16 * (up - 6 * Bit(up, 16)) + ((low - 6 * Bit(low, 16)) % 16)) % 256

do_sbc_bcd(byte, c) ==
    LET tmp == (a - byte - (1 - c)) % 65536
        low == ((a % 16) - (byte % 16) - (1 - c)) % 65536
        up == ((a \div 16) - (byte \div 16) - Bit(low, 16)) % 65536
        al == (low - 6 * Bit(low, 16)) % 65536
        ah == (up - 6 * Bit(up, 16)) % 65536
    IN  /\ set_nz(tmp % 256)
        /\ c_flag' = Flag(tmp < 256)
        /\ v_flag' = Flag(Bit(a, 128) # Bit(tmp, 128) /\ Bit(a, 128) # Bit(byte, 128))
        /\ a' = (16 * ah + (al % 16)) % 256

DoAdc(m, c) ==
    LET tmp16 == a + m + c
    IN  IF d_flag = 1 THEN do_adc_bcd(m, c)
        ELSE /\ c_flag' = Flag(tmp16 > 255)
             /\ v_flag' = Flag(Bit(a, 128) = Bit(m, 128) /\ Bit(a, 128) # Bit(tmp16, 128))
             /\ set_nz(tmp16 % 256) /\ a' = tmp16 % 256

DoSbc(m, c) ==
    LET tmp2 == (a - m - (1 - c)) % 65536
    IN  IF d_flag = 1 THEN do_sbc_bcd(m, c)
        ELSE /\ c_flag' = Flag(tmp2 < 256)
             /\ v_flag' = Flag(Bit(a, 128) # Bit(tmp2, 128) /\ Bit(a, 128) # Bit(m, 128))
             /\ set_nz(tmp2 % 256) /\ a' = tmp2 % 256

ArithmeticGroup(i) ==
    /\ ReadsByte(i) /\ UNCHANGED <<x, y, sp, d_flag, i_flag>>
    /\ \/ i.op = "ADC" /\ DoAdc(Value(i), c_flag)
       \/ i.op = "SBC" /\ DoSbc(Value(i), c_flag)

IncDecGroup(i) ==
    LET Counts(v) == Modifies(i, v) /\ set_nz(v) /\ UNCHANGED axys
    IN  /\ UNCHANGED <<v_flag, d_flag, i_flag, c_flag>>
        /\ \/ i.op = "INX" /\ Quiet(i) /\ SetX((x + 1) % 256)
           \/ i.op = "DEX" /\ Quiet(i) /\ SetX((x - 1) % 256)
           \/ i.op = "INY" /\ Quiet(i) /\ SetY((y + 1) % 256)
           \/ i.op = "DEY" /\ Quiet(i) /\ SetY((y - 1) % 256)
           \/ i.op = "INC" /\ Counts((i.m + 1) % 256)
           \/ i.op = "DEC" /\ Counts((i.m - 1) % 256)

LogicGroup(i) ==
    /\ ReadsByte(i) /\ UNCHANGED <<v_flag, d_flag, i_flag, c_flag>>
    /\ \/ i.op = "AND" /\ SetA(And(a, Value(i)))
       \/ i.op = "ORA" /\ SetA(Or(a, Value(i)))
       \/ i.op = "EOR" /\ SetA(Xor(a, Value(i)))

\* adr is the unsigned sixteen-bit difference
Compared(v, m) ==
    LET adr == (v - m) % 65536
    IN  set_nz(adr % 256) /\ c_flag' = Flag(adr < 256) /\ UNCHANGED <<v_flag, d_flag, i_flag>>

CompareGroup(i) ==
    /\ ReadsByte(i) /\ UNCHANGED axys
    /\ \/ i.op = "CMP" /\ Compared(a, Value(i))
       \/ i.op = "CPX" /\ Compared(x, Value(i))
       \/ i.op = "CPY" /\ Compared(y, Value(i))

BitGroup(i) ==
    /\ i.op = "BIT" /\ ReadsByte(i) /\ UNCHANGED <<axys, d_flag, i_flag, c_flag>>
    /\ z_flag' = And(a, Value(i)) /\ n_flag' = Value(i) /\ v_flag' = Bit(Value(i), 64)

\* tmp << 1 and tmp >> 1; the rotations move c_flag in
ShiftedLeft(m) == (2 * m) % 256
ShiftedRight(m) == m \div 2
RotatedLeft(m) == ((2 * m) % 256) + c_flag
RotatedRight(m) == (m \div 2) + 128 * c_flag

ShiftGroup(i) ==
    LET m == i.m
        Gives(v, c) == Modifies(i, v) /\ set_nz(v) /\ c_flag' = c /\ UNCHANGED axys
        GivesA(v, c) == Quiet(i) /\ SetA(v) /\ c_flag' = c
    IN  /\ UNCHANGED <<v_flag, d_flag, i_flag>>
        /\ \/ i.op = "ASL_A" /\ GivesA(ShiftedLeft(a), Bit(a, 128))
           \/ i.op = "ASL" /\ Gives(ShiftedLeft(m), Bit(m, 128))
           \/ i.op = "LSR_A" /\ GivesA(ShiftedRight(a), Bit(a, 1))
           \/ i.op = "LSR" /\ Gives(ShiftedRight(m), Bit(m, 1))
           \/ i.op = "ROL_A" /\ GivesA(RotatedLeft(a), Bit(a, 128))
           \/ i.op = "ROL" /\ Gives(RotatedLeft(m), Bit(m, 128))
           \/ i.op = "ROR_A" /\ GivesA(RotatedRight(a), Bit(a, 1))
           \/ i.op = "ROR" /\ Gives(RotatedRight(m), Bit(m, 1))

\* sp is a byte, and the stack is page one
Below(n) == (sp - n) % 256
Above(n) == (sp + n) % 256
push_byte(s, v) == << "ram", 256 + s, v >>
pop_byte(s) == << "ram", 256 + s >>

\* The byte that push_flags and GetState build
push_flags(b) ==
    32 + 128 * Bit(n_flag, 128) + 64 * v_flag + 16 * b + 8 * d_flag + 4 * i_flag
       + 2 * Flag(z_flag = 0) + c_flag
pop_flags(tmp) ==
    /\ n_flag' = tmp /\ v_flag' = Bit(tmp, 64) /\ d_flag' = Bit(tmp, 8) /\ i_flag' = Bit(tmp, 4)
    /\ z_flag' = Flag(Bit(tmp, 2) = 0) /\ c_flag' = Bit(tmp, 1)

StackGroup(i) ==
    /\ Passes(i) /\ UNCHANGED <<memory, x, y>>
    /\ \/ /\ i.op = "PHA" /\ sp' = Below(1) /\ UNCHANGED <<a, flags>>
          /\ Bus(<< >>, << >>, << push_byte(sp, a) >>)
       \/ /\ i.op = "PHP" /\ sp' = Below(1) /\ UNCHANGED <<a, flags>>
          /\ Bus(<< >>, << >>, << push_byte(sp, push_flags(1)) >>)
       \/ /\ sp' = Above(1) /\ Bus(<< >>, << pop_byte(Above(1)) >>, << >>)
          /\ \/ /\ i.op = "PLA" /\ a' = i.m /\ set_nz(i.m)
                /\ UNCHANGED <<v_flag, d_flag, i_flag, c_flag>>
             \/ i.op = "PLP" /\ pop_flags(i.m) /\ UNCHANGED a

\* The regular BRK, and the entry of an interrupt at the start of a line
Enters(i, from, vector, b) ==
    /\ sp' = Below(3) /\ i_flag' = 1
    /\ UNCHANGED <<a, x, y, n_flag, z_flag, v_flag, d_flag, c_flag, memory>>
    /\ jump(banks, Pointer(i))
    /\ Bus(<< >>, << read_byte(vector), read_byte(vector + 1) >>,
           << push_byte(sp, High(from)), push_byte(Below(1), Low(from)),
              push_byte(Below(2), push_flags(b)) >>)

JumpGroup(i) ==
    \/ i.op = "BRK" /\ Enters(i, pc + 2, 65534, 1)
    \/ /\ UNCHANGED <<a, x, y, memory>>
       /\ \/ /\ i.op = "JMP" /\ jump(banks, Operand(i)) /\ UNCHANGED <<sp, flags>>
             /\ Bus(<< >>, << >>, << >>)
          \/ /\ i.op = "JMP_IND" /\ jump(banks, Pointer(i)) /\ UNCHANGED <<sp, flags>>
             /\ LET adr == Operand(i)
                IN  Bus(<< >>, << read_byte(adr),
                                  read_byte(((adr + 1) % 256) + 256 * (adr \div 256)) >>, << >>)
          \/ /\ i.op = "JSR" /\ jump(banks, Operand(i)) /\ sp' = Below(2) /\ UNCHANGED flags
             /\ Bus(<< >>, << >>,
                    << push_byte(sp, High(pc + 2)), push_byte(Below(1), Low(pc + 2)) >>)
          \/ /\ i.op = "RTS" /\ jump(banks, (Pointer(i) + 1) % 65536)
             /\ sp' = Above(2) /\ UNCHANGED flags
             /\ Bus(<< >>, << pop_byte(Above(1)), pop_byte(Above(2)) >>, << >>)
          \/ /\ i.op = "RTI" /\ jump(banks, Pointer(i)) /\ sp' = Above(3) /\ pop_flags(i.m)
             /\ Bus(<< >>, << pop_byte(Above(1)), pop_byte(Above(2)), pop_byte(Above(3)) >>, << >>)

Interrupts(i) ==
    \/ i.op = "NMI" /\ Enters(i, pc, 65530, 0)
    \/ i.op = "IRQ" /\ i_flag = 0 /\ Enters(i, pc, 65534, 0)

Branch(i, flag) ==
    /\ pc' = pc + 2 + IF flag THEN Signed(i.b) ELSE 0
    /\ Bus(<< >>, << >>, << >>) /\ UNCHANGED <<axys, flags, memory, base>>

BranchGroup(i) ==
    \/ i.op = "BCS" /\ Branch(i, c_flag = 1)
    \/ i.op = "BCC" /\ Branch(i, c_flag = 0)
    \/ i.op = "BEQ" /\ Branch(i, z_flag = 0)
    \/ i.op = "BNE" /\ Branch(i, z_flag # 0)
    \/ i.op = "BVS" /\ Branch(i, v_flag = 1)
    \/ i.op = "BVC" /\ Branch(i, v_flag = 0)
    \/ i.op = "BMI" /\ Branch(i, Bit(n_flag, 128) = 1)
    \/ i.op = "BPL" /\ Branch(i, Bit(n_flag, 128) = 0)

FlagsGroup(i) ==
    /\ Quiet(i) /\ UNCHANGED <<axys, n_flag, z_flag>>
    /\ \/ i.op = "SEC" /\ c_flag' = 1 /\ UNCHANGED <<v_flag, d_flag, i_flag>>
       \/ i.op = "CLC" /\ c_flag' = 0 /\ UNCHANGED <<v_flag, d_flag, i_flag>>
       \/ i.op = "SED" /\ d_flag' = 1 /\ UNCHANGED <<v_flag, i_flag, c_flag>>
       \/ i.op = "CLD" /\ d_flag' = 0 /\ UNCHANGED <<v_flag, i_flag, c_flag>>
       \/ i.op = "SEI" /\ i_flag' = 1 /\ UNCHANGED <<v_flag, d_flag, c_flag>>
       \/ i.op = "CLI" /\ i_flag' = 0 /\ UNCHANGED <<v_flag, d_flag, c_flag>>
       \/ i.op = "CLV" /\ v_flag' = 0 /\ UNCHANGED <<d_flag, i_flag, c_flag>>

\* Those with an operand step over it and read nothing
NopGroup(i) == i.op = "NOP" /\ Quiet(i) /\ UNCHANGED <<axys, flags>>

-----------------------------------------------------------------------------
(* The undocumented opcodes *)

LoadAXGroup(i) ==
    /\ i.op = "LAX" /\ ReadsByte(i) /\ a' = Value(i) /\ x' = Value(i) /\ set_nz(Value(i))
    /\ UNCHANGED <<y, sp, v_flag, d_flag, i_flag, c_flag>>

StoreAXGroup(i) == i.op = "SAX" /\ WritesByte(i, And(a, x)) /\ UNCHANGED <<axys, flags>>

ShiftLeftOr(i) ==
    /\ i.op = "SLO" /\ Modifies(i, ShiftedLeft(i.m))
    /\ SetA(Or(a, ShiftedLeft(i.m))) /\ c_flag' = Bit(i.m, 128)
    /\ UNCHANGED <<v_flag, d_flag, i_flag>>

RotateLeftAnd(i) ==
    /\ i.op = "RLA" /\ Modifies(i, RotatedLeft(i.m))
    /\ SetA(And(a, RotatedLeft(i.m))) /\ c_flag' = Bit(i.m, 128)
    /\ UNCHANGED <<v_flag, d_flag, i_flag>>

ShiftRightEor(i) ==
    /\ i.op = "SRE" /\ Modifies(i, ShiftedRight(i.m))
    /\ SetA(Xor(a, ShiftedRight(i.m))) /\ c_flag' = Bit(i.m, 1)
    /\ UNCHANGED <<v_flag, d_flag, i_flag>>

RoRightAdc(i) ==
    /\ i.op = "RRA" /\ Modifies(i, RotatedRight(i.m))
    /\ DoAdc(RotatedRight(i.m), Bit(i.m, 1)) /\ UNCHANGED <<x, y, sp, d_flag, i_flag>>

DecCompare(i) ==
    LET tmp == (i.m - 1) % 256
    IN  i.op = "DCP" /\ Modifies(i, tmp) /\ Compared(a, tmp) /\ UNCHANGED axys

IncSbc(i) ==
    LET tmp == (i.m + 1) % 256
    IN  /\ i.op = "ISB" /\ Modifies(i, tmp) /\ DoSbc(tmp, c_flag)
        /\ UNCHANGED <<x, y, sp, d_flag, i_flag>>

arr_bcd(tmp) ==
    LET ror == RotatedRight(tmp)
        fixed == IF (tmp % 16) + (tmp % 2) > 5 THEN 16 * (ror \div 16) + ((ror + 6) % 16) ELSE ror
        carry == tmp + 16 * Bit(tmp, 16) >= 96
    IN  /\ n_flag' = 128 * c_flag /\ z_flag' = ror /\ v_flag' = Flag(Bit(tmp, 64) # Bit(ror, 64))
        /\ c_flag' = Flag(carry) /\ a' = IF carry THEN (fixed + 96) % 256 ELSE fixed
        /\ UNCHANGED <<x, y, sp>>

Complex(i) ==
    /\ ReadsByte(i) /\ UNCHANGED <<d_flag, i_flag>>
    /\ LET m == Value(i)
           and == And(a, m)
       IN  \/ i.op = "ANC" /\ SetA(and) /\ c_flag' = Bit(and, 128) /\ UNCHANGED v_flag
           \/ i.op = "ASR" /\ SetA(ShiftedRight(and)) /\ c_flag' = Bit(and, 1) /\ UNCHANGED v_flag
           \/ /\ i.op = "ARR" /\ d_flag = 0
              /\ LET ror == RotatedRight(and)
                 IN  SetA(ror) /\ c_flag' = Bit(ror, 64) /\ v_flag' = Flag(Bit(ror, 64) # Bit(ror, 32))
           \/ i.op = "ARR" /\ d_flag = 1 /\ arr_bcd(and)
           \/ /\ i.op = "ANE" /\ SetA(And(And(m, x), Or(a, 238))) /\ UNCHANGED <<v_flag, c_flag>>
           \/ /\ i.op = "LXA" /\ UNCHANGED <<y, sp, v_flag, c_flag>>
              /\ LET v == And(Or(a, 238), m) IN a' = v /\ x' = v /\ set_nz(v)
           \/ /\ i.op = "LAS" /\ UNCHANGED <<y, v_flag, c_flag>>
              /\ LET v == And(m, sp) IN a' = v /\ x' = v /\ sp' = v /\ set_nz(v)
           \/ /\ i.op = "SBX" /\ UNCHANGED <<a, y, sp, v_flag>>
              /\ LET adr == (And(x, a) - m) % 65536
                 IN  c_flag' = Flag(adr < 256) /\ x' = adr % 256 /\ set_nz(adr % 256)

\* The stores that mask the byte with the address.  SHA (ind),Y takes the high
\* byte of the pointer from the cell after pc[0], which for 255 is in page one
MaskedStores(i) ==
    LET high == IF i.mode = "ind_y" THEN IF i.b = 255 THEN i.k ELSE i.hi ELSE i.h
        mask == (high + 1) % 256
    IN  /\ UNCHANGED <<a, x, y, flags>>
        /\ \/ i.op = "SHA" /\ WritesByte(i, And(And(a, x), mask)) /\ UNCHANGED sp
           \/ i.op = "SHX" /\ WritesByte(i, And(x, mask)) /\ UNCHANGED sp
           \/ i.op = "SHY" /\ WritesByte(i, And(y, mask)) /\ UNCHANGED sp
           \/ i.op = "SHS" /\ WritesByte(i, And(And(a, x), mask)) /\ sp' = And(a, x)

-----------------------------------------------------------------------------
(* Reset, and the opcode that calls the drive *)

\* 'CBM80' in a cartridge's place, here m = 1, is deleted
Reset(i) ==
    LET p == [ddr |-> 0, pr |-> 0]
    IN  /\ ram01' = p /\ banks' = new_config(p) /\ jump(new_config(p), ResetVector)
        /\ Bus(<< >>, << <<"kernal", 65532>>, <<"kernal", 65533>> >>,
               IF i.m = 1 THEN << <<"ram", 32772, 0>> >> ELSE << >>)
        /\ UNCHANGED <<axys, flags>>

\* The asynchronous reset, and an opcode that no 6510 survives
Resets(i) == i.op \in {"RESET", "ILLEGAL"} /\ Reset(i)

\* $f2 in the kernal: b is the number of the call, k what the drive returns
Extension(i) ==
    LET called == pc + 1 >= 57344 /\ i.b < 8
        Returns(adr) == jump(banks, adr) /\ UNCHANGED <<memory, x, y, sp, v_flag, d_flag, i_flag>>
        Status == Bus(<< >>, << zp(144) >>, << <<"ram", 144, Or(i.m, i.k)>> >>)
    IN  /\ i.op = "IEC"
        /\ \/ /\ called /\ i.b \in 0 .. 2 /\ Returns(60844) /\ Status
              /\ c_flag' = 0 /\ UNCHANGED <<a, n_flag, z_flag>>
           \/ /\ called /\ i.b = 3 /\ Returns(60844) /\ Status
              /\ c_flag' = 0 /\ a' = i.lo /\ set_nz(i.lo)
           \/ /\ called /\ i.b \in 4 .. 7 /\ Returns(IF i.b = 4 THEN 60923 ELSE 60844)
              /\ Bus(<< >>, << >>, << >>) /\ UNCHANGED <<a, n_flag, z_flag, c_flag>>
           \/ ~called /\ Reset(i)

-----------------------------------------------------------------------------
(* The state of a snapshot *)

GetState ==
    [a |-> a, x |-> x, y |-> y, sp |-> 256 + sp, p |-> push_flags(0),
     ddr |-> ram01.ddr, pr |-> ram01.pr, pc |-> pc % 65536, banks |-> banks]

SetState(s) ==
    /\ a' = s.a /\ x' = s.x /\ y' = s.y /\ sp' = s.sp % 256
    /\ n_flag' = 128 * Bit(s.p, 128) /\ v_flag' = Bit(s.p, 64) /\ d_flag' = Bit(s.p, 8)
    /\ i_flag' = Bit(s.p, 4) /\ z_flag' = Flag(Bit(s.p, 2) = 0) /\ c_flag' = Bit(s.p, 1)
    /\ ram01' = [ddr |-> s.ddr, pr |-> s.pr] /\ banks' = s.banks
    /\ jump(s.banks, s.pc)

Save == saved' = GetState /\ UNCHANGED <<axys, flags, memory, pc, base, in, bus>>
Restore == SetState(saved) /\ UNCHANGED <<saved, in, bus>>

-----------------------------------------------------------------------------
Group(i) ==
    \/ LoadGroup(i) \/ StoreGroup(i) \/ TransferGroup(i) \/ ArithmeticGroup(i)
    \/ IncDecGroup(i) \/ LogicGroup(i) \/ CompareGroup(i) \/ BitGroup(i)
    \/ ShiftGroup(i) \/ StackGroup(i) \/ JumpGroup(i) \/ BranchGroup(i)
    \/ FlagsGroup(i) \/ NopGroup(i)
    \/ LoadAXGroup(i) \/ StoreAXGroup(i) \/ ShiftLeftOr(i) \/ RotateLeftAnd(i)
    \/ ShiftRightEor(i) \/ RoRightAdc(i) \/ DecCompare(i) \/ IncSbc(i)
    \/ Complex(i) \/ MaskedStores(i)
    \/ Interrupts(i) \/ Resets(i) \/ Extension(i)

Init ==
    LET p == [ddr |-> 0, pr |-> 0]
    IN  /\ a = 0 /\ x = 0 /\ y = 0 /\ sp = 255
        /\ n_flag = 0 /\ z_flag = 0 /\ v_flag = 0 /\ d_flag = 0 /\ i_flag = 1 /\ c_flag = 0
        /\ ram01 = p /\ banks = new_config(p)
        /\ pc = ResetVector /\ base = BaseOf(new_config(p), ResetVector)
        /\ saved \in Snapshots /\ in = CHOOSE i \in Inputs : TRUE
        /\ bus = [via |-> << >>, rd |-> << >>, wr |-> << >>]
        /\ steps = 0 /\ saves = 0

Executes ==
    /\ steps < MaxSteps /\ steps' = steps + 1
    /\ \E i \in Inputs : in' = i /\ Group(i)
    /\ UNCHANGED <<saved, saves>>

Next ==
    \/ Executes
    \/ saves < MaxSaves /\ saves' = saves + 1 /\ UNCHANGED steps /\ Save
    \/ UNCHANGED <<steps, saves>> /\ Restore

Spec == Init /\ [][Next]_vars

-----------------------------------------------------------------------------
(* Properties *)

Ports == [ddr : Byte, pr : Byte]
Banks == [basic_in : Bool, kernal_in : Bool, char_in : Bool, io_in : Bool]
State == [a : Byte, x : Byte, y : Byte, sp : 256 .. 511, p : Byte, ddr : Byte, pr : Byte,
          pc : Word, banks : Banks]

\* A file holds what GetState wrote
ASSUME SnapshotsAssumption ==
    /\ Snapshots \subseteq State
    /\ \A s \in Snapshots : s.banks = new_config([ddr |-> s.ddr, pr |-> s.pr])

\* Registers are bytes and flags are bits (MOS6510 in CPUC64.h); pc is a
\* difference of pointers and may leave sixteen bits
TypeOK ==
    /\ a \in Byte /\ x \in Byte /\ y \in Byte /\ sp \in Byte
    /\ n_flag \in Byte /\ z_flag \in Byte
    /\ v_flag \in Bool /\ d_flag \in Bool /\ i_flag \in Bool /\ c_flag \in Bool
    /\ ram01 \in Ports /\ banks \in Banks
    /\ pc \in Int /\ base \in {"ram", "basic", "kernal", "char", "io"}
    /\ saved \in State /\ in \in Instruction
    /\ steps \in Nat /\ saves \in Nat

Mos == INSTANCE Mos6502 WITH
    A <- a, X <- x, Y <- y, S <- sp, N <- Bit(n_flag, 128), V <- v_flag, D <- d_flag,
    I <- i_flag, Z <- Flag(z_flag = 0), C <- c_flag,
    pc <- pc % 65536, code <- base, port <- ram01,
    saved <- << saved.a, saved.x, saved.y, saved.sp - 256, saved.p, saved.pc,
                [ddr |-> saved.ddr, pr |-> saved.pr] >>

\* Every opcode, interrupt entry, reset, saving and loading of the line-based
\* core is what a 6510 does: the words that wrap, the flags kept as bytes, the
\* decimal correction, the pointers that stay in their page, the memory that
\* answers and the order on the stack come to the numbers of Mos6502.
ImplementsMos6502 == Mos!Spec
=============================================================================
