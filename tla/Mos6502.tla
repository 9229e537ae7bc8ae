------------------------------- MODULE Mos6502 -------------------------------
(***************************************************************************)
(* What a 6510 in a Commodore 64 does, told in numbers: the sum and the    *)
(* difference of bytes and of two-digit decimals, what the flags say of    *)
(* them, which cells of which chip an instruction uses, and where the      *)
(* program goes on.  Where the processor's behaviour is not defined (a     *)
(* digit that is no decimal, V and N in decimal mode, the unstable         *)
(* opcodes) any outcome is allowed.                                        *)
(*                                                                         *)
(* Memory is what it delivers, "in", and what is asked of it, "bus".       *)
(***************************************************************************)
EXTENDS Bytes

CONSTANT
    ResetVector     \* in the kernal ROM

VARIABLES
    A, X, Y, S,
    N, V, D, I, Z, C,   \* the flags
    pc,
    code,           \* the memory the program is fetched from
    port,           \* the processor port: cells 0 and 1
    saved,          \* the registers and the port of a snapshot
    in,
    bus             \* the pointer's cells, the cells read, the cells written

axys == <<A, X, Y, S>>
flags == <<N, V, D, I, Z, C>>
vars == <<axys, flags, pc, code, port, saved, in, bus>>

-----------------------------------------------------------------------------
(* Memory *)

\* The three lines of the port that choose the memory; an input line is high
Mode(p) ==
    LET Line(w) == Flag(Bit(p.ddr, w) = 0 \/ Bit(p.pr, w) = 1)
    IN  Line(1) + 2 * Line(2) + 4 * Line(4)

\* What is seen at an address
Area(mode, adr) ==
    CASE adr \in 40960 .. 49151 /\ mode \in {3, 7} -> "basic"
      [] adr \in 53248 .. 57343 /\ mode \in {1, 2, 3} -> "char"
      [] adr \in 53248 .. 57343 /\ mode \in {5, 6, 7} -> "io"
      [] adr \in 57344 .. 65535 /\ mode \in {2, 3, 6, 7} -> "kernal"
      [] OTHER -> "ram"

Chip(adr) ==
    CASE adr \in 53248 .. 54271 -> "VIC"
      [] adr \in 54272 .. 55295 -> "SID"
      [] adr \in 55296 .. 56319 -> "colour"
      [] adr \in 56320 .. 56575 -> "CIA1"
      [] adr \in 56576 .. 56831 -> "CIA2"
      [] OTHER -> "open"

Seen(adr) ==
    LET area == Area(Mode(port), adr) IN IF area = "io" THEN Chip(adr) ELSE area

\* A byte written reaches an I/O chip or the RAM under everything else
Reached(adr) ==
    IF Area(Mode(port), adr) = "io" THEN Chip(adr) ELSE "ram"

Cell(adr) == << Seen(adr), adr >>
Put(adr, v) == << Reached(adr), adr, v >>

Bus(via, rd, wr) == bus' = [via |-> via, rd |-> rd, wr |-> wr]
Quiet == Bus(<< >>, << >>, << >>)

\* A write to the cells 0 and 1 is a write to the port
Stored(adr, v) ==
    port' = CASE adr = 0 -> [port EXCEPT !.ddr = v]
              [] adr = 1 -> [port EXCEPT !.pr = v]
              [] OTHER -> port

\* The cells that hold a pointer do not leave the zero page
Via(i) ==
    CASE i.mode = "ind_x" -> << (i.b + X) % 256, (i.b + X + 1) % 256 >>
      [] i.mode = "ind_y" -> << i.b, (i.b + 1) % 256 >>
      [] OTHER -> << >>

Address(i) ==
    CASE i.mode = "zero"   -> i.b
      [] i.mode = "zero_x" -> (i.b + X) % 256
      [] i.mode = "zero_y" -> (i.b + Y) % 256
      [] i.mode = "abs"    -> Operand(i)
      [] i.mode = "abs_x"  -> (Operand(i) + X) % 65536
      [] i.mode = "abs_y"  -> (Operand(i) + Y) % 65536
      [] i.mode = "ind_x"  -> Pointer(i)
      [] OTHER             -> (Pointer(i) + Y) % 65536

Follows(i) == pc' = (pc + Length(i)) % 65536 /\ code' = code

\* Where a jump goes, the program is fetched from what is seen there
Continues(a) == pc' = a /\ code' = Area(Mode(port'), a)

-----------------------------------------------------------------------------
(* Sums, differences and flags *)

NZ(v) == N' = Flag(v >= 128) /\ Z' = Flag(v = 0)

LoadA(v) == A' = v /\ NZ(v) /\ UNCHANGED <<X, Y, S>>
LoadX(v) == X' = v /\ NZ(v) /\ UNCHANGED <<A, Y, S>>
LoadY(v) == Y' = v /\ NZ(v) /\ UNCHANGED <<A, X, S>>
LoadAX(v) == A' = v /\ X' = v /\ NZ(v) /\ UNCHANGED <<Y, S>>

Compares(v, m) == C' = Flag(v >= m) /\ Z' = Flag(v = m) /\ N' = Flag((v - m) % 256 >= 128)

IsDecimal(b) == (b % 16) < 10 /\ (b \div 16) < 10
Decimal(b) == 10 * (b \div 16) + (b % 16)

\* A number of two digits is in A, if the operands were such numbers; n is the
\* sum or difference, which a carry or a borrow brings back to 0 .. 99
Digits(m, n) ==
    IsDecimal(A) /\ IsDecimal(m) => IsDecimal(A') /\ Decimal(A') = n % 100

\* ADC and SBC of m, with the carry given
Adds(m, carry) ==
    LET sum == A + m + carry
        decimal == Decimal(A) + Decimal(m) + carry
    IN  IF D = 1
        THEN /\ A' \in Byte /\ C' \in Bool /\ N' \in Bool /\ V' \in Bool
             /\ Digits(m, decimal) /\ Z' = Flag(sum % 256 = 0)
             /\ IsDecimal(A) /\ IsDecimal(m) => C' = Flag(decimal > 99)
        ELSE /\ A' = sum % 256 /\ NZ(sum % 256) /\ C' = Flag(sum > 255)
             /\ V' = Flag(Signed(A) + Signed(m) + carry \notin -128 .. 127)

Subtracts(m, carry) ==
    LET difference == A - m - (1 - carry)
        decimal == Decimal(A) - Decimal(m) - (1 - carry)
    IN  IF D = 1
        THEN /\ A' \in Byte /\ C' = Flag(difference >= 0) /\ N' \in Bool /\ V' \in Bool
             /\ Digits(m, decimal) /\ Z' = Flag(difference % 256 = 0)
        ELSE /\ A' = difference % 256 /\ NZ(difference % 256) /\ C' = Flag(difference >= 0)
             /\ V' = Flag(Signed(A) - Signed(m) - (1 - carry) \notin -128 .. 127)

Left(m) == (2 * m) % 256
Right(m) == m \div 2
RotatedLeft(m) == (2 * m + C) % 256
RotatedRight(m) == (m \div 2) + 128 * C

-----------------------------------------------------------------------------
(* Instructions by the way they use their operand *)

\* Those that load a register
Loads(op, m) ==
    /\ UNCHANGED <<V, C>>
    /\ \/ op = "LDA" /\ LoadA(m)
       \/ op = "LDX" /\ LoadX(m)
       \/ op = "LDY" /\ LoadY(m)
       \/ op = "AND" /\ LoadA(And(A, m))
       \/ op = "ORA" /\ LoadA(Or(A, m))
       \/ op = "EOR" /\ LoadA(Xor(A, m))
       \/ op = "LAX" /\ LoadAX(m)
       \/ op = "LAS" /\ S' = And(m, S) /\ A' = S' /\ X' = S' /\ NZ(S') /\ UNCHANGED Y
       \/ op = "ANE" /\ (\E v \in Byte : LoadA(v))
       \/ op = "LXA" /\ (\E v \in Byte : LoadAX(v))

\* Those that set the carry too
Computes(op, m) ==
    \/ op = "ADC" /\ Adds(m, C) /\ UNCHANGED <<X, Y, S>>
    \/ op = "SBC" /\ Subtracts(m, C) /\ UNCHANGED <<X, Y, S>>
    \/ op = "CMP" /\ Compares(A, m) /\ UNCHANGED <<axys, V>>
    \/ op = "CPX" /\ Compares(X, m) /\ UNCHANGED <<axys, V>>
    \/ op = "CPY" /\ Compares(Y, m) /\ UNCHANGED <<axys, V>>
    \/ /\ op = "BIT" /\ UNCHANGED <<axys, C>>
       /\ Z' = Flag(And(A, m) = 0) /\ N' = Bit(m, 128) /\ V' = Bit(m, 64)
    \/ LET v == And(A, m)
       IN  \/ op = "ANC" /\ LoadA(v) /\ C' = Flag(v >= 128) /\ UNCHANGED V
           \/ op = "ASR" /\ LoadA(Right(v)) /\ C' = Bit(v, 1) /\ UNCHANGED V
           \/ /\ op = "ARR" /\ D = 0
              /\ LET w == RotatedRight(v)
                 IN  LoadA(w) /\ C' = Bit(w, 64) /\ V' = Flag(Bit(w, 64) # Bit(w, 32))
           \/ /\ op = "ARR" /\ D = 1 /\ UNCHANGED <<X, Y, S>>
              /\ A' \in Byte /\ C' \in Bool /\ V' \in Bool
              /\ N' = C /\ Z' = Flag(RotatedRight(v) = 0)
    \/ /\ op = "SBX" /\ UNCHANGED <<A, Y, S, V>>
       /\ LET v == And(X, A) IN Compares(v, m) /\ X' = (v - m) % 256

Reads(i) ==
    /\ Follows(i) /\ UNCHANGED <<port, D, I>>
    /\ Bus(Via(i), IF i.mode = "imm" THEN << >> ELSE << Cell(Address(i)) >>, << >>)
    /\ Loads(i.op, Value(i)) \/ Computes(i.op, Value(i))

\* Of those that mask the byte with the address, only the mask is uncertain
Masked(v, w) == \E mask \in Byte : v = And(w, mask)

Writes(i) ==
    /\ Follows(i) /\ UNCHANGED <<A, X, Y, flags>>
    /\ \E v \in Byte :
        /\ \/ /\ UNCHANGED S
              /\ \/ i.op = "STA" /\ v = A
                 \/ i.op = "STX" /\ v = X
                 \/ i.op = "STY" /\ v = Y
                 \/ i.op = "SAX" /\ v = And(A, X)
                 \/ i.op = "SHA" /\ Masked(v, And(A, X))
                 \/ i.op = "SHX" /\ Masked(v, X)
                 \/ i.op = "SHY" /\ Masked(v, Y)
           \/ i.op = "SHS" /\ Masked(v, And(A, X)) /\ S' = And(A, X)
        /\ Stored(Address(i), v)
        /\ Bus(Via(i), << >>, << Put(Address(i), v) >>)

\* Instructions that read a byte m and write v in its place
Rewrites(op, m, v) ==
    \/ op = "INC" /\ v = (m + 1) % 256 /\ NZ(v) /\ UNCHANGED <<A, C, V>>
    \/ op = "DEC" /\ v = (m - 1) % 256 /\ NZ(v) /\ UNCHANGED <<A, C, V>>
    \/ op = "ASL" /\ v = Left(m) /\ NZ(v) /\ C' = Bit(m, 128) /\ UNCHANGED <<A, V>>
    \/ op = "LSR" /\ v = Right(m) /\ NZ(v) /\ C' = Bit(m, 1) /\ UNCHANGED <<A, V>>
    \/ op = "ROL" /\ v = RotatedLeft(m) /\ NZ(v) /\ C' = Bit(m, 128) /\ UNCHANGED <<A, V>>
    \/ op = "ROR" /\ v = RotatedRight(m) /\ NZ(v) /\ C' = Bit(m, 1) /\ UNCHANGED <<A, V>>
    \/ op = "SLO" /\ v = Left(m) /\ A' = Or(A, v) /\ NZ(A') /\ C' = Bit(m, 128) /\ UNCHANGED V
    \/ op = "RLA" /\ v = RotatedLeft(m) /\ A' = And(A, v) /\ NZ(A') /\ C' = Bit(m, 128) /\ UNCHANGED V
    \/ op = "SRE" /\ v = Right(m) /\ A' = Xor(A, v) /\ NZ(A') /\ C' = Bit(m, 1) /\ UNCHANGED V
    \/ op = "RRA" /\ v = RotatedRight(m) /\ Adds(v, Bit(m, 1))
    \/ op = "DCP" /\ v = (m - 1) % 256 /\ Compares(A, v) /\ UNCHANGED <<A, V>>
    \/ op = "ISB" /\ v = (m + 1) % 256 /\ Subtracts(v, C)

Modifies(i) ==
    /\ Follows(i) /\ UNCHANGED <<X, Y, S, D, I>>
    /\ \E v \in Byte :
        /\ Rewrites(i.op, i.m, v)
        /\ Stored(Address(i), v)
        /\ Bus(Via(i), << Cell(Address(i)) >>, << Put(Address(i), v) >>)

\* Instructions on the registers and the flags alone
Moves(op) ==
    /\ UNCHANGED <<V, D, I, C>>
    /\ \/ op = "TAX" /\ LoadX(A)
       \/ op = "TXA" /\ LoadA(X)
       \/ op = "TAY" /\ LoadY(A)
       \/ op = "TYA" /\ LoadA(Y)
       \/ op = "TSX" /\ LoadX(S)
       \/ op = "INX" /\ LoadX((X + 1) % 256)
       \/ op = "DEX" /\ LoadX((X - 1) % 256)
       \/ op = "INY" /\ LoadY((Y + 1) % 256)
       \/ op = "DEY" /\ LoadY((Y - 1) % 256)
       \/ op = "TXS" /\ S' = X /\ UNCHANGED <<A, X, Y, N, Z>>
       \/ op = "NOP" /\ UNCHANGED <<axys, N, Z>>

Shifts(op) ==
    /\ UNCHANGED <<V, D, I>>
    /\ \/ op = "ASL_A" /\ LoadA(Left(A)) /\ C' = Bit(A, 128)
       \/ op = "LSR_A" /\ LoadA(Right(A)) /\ C' = Bit(A, 1)
       \/ op = "ROL_A" /\ LoadA(RotatedLeft(A)) /\ C' = Bit(A, 128)
       \/ op = "ROR_A" /\ LoadA(RotatedRight(A)) /\ C' = Bit(A, 1)

Sets(op) ==
    /\ UNCHANGED <<axys, N, Z>>
    /\ \/ op = "SEC" /\ C' = 1 /\ UNCHANGED <<V, D, I>>
       \/ op = "CLC" /\ C' = 0 /\ UNCHANGED <<V, D, I>>
       \/ op = "SED" /\ D' = 1 /\ UNCHANGED <<V, I, C>>
       \/ op = "CLD" /\ D' = 0 /\ UNCHANGED <<V, I, C>>
       \/ op = "SEI" /\ I' = 1 /\ UNCHANGED <<V, D, C>>
       \/ op = "CLI" /\ I' = 0 /\ UNCHANGED <<V, D, C>>
       \/ op = "CLV" /\ V' = 0 /\ UNCHANGED <<D, I, C>>

Implied(i) ==
    /\ Follows(i) /\ Quiet /\ UNCHANGED port
    /\ Moves(i.op) \/ Shifts(i.op) \/ Sets(i.op)

-----------------------------------------------------------------------------
(* The stack, which does not leave page one, and the flow of control *)

Down(n) == (S - n) % 256
Up(n) == (S + n) % 256
Top(s) == << "ram", 256 + s >>
Push(s, v) == << "ram", 256 + s, v >>

Status(b) == C + 2 * Z + 4 * I + 8 * D + 16 * b + 32 + 64 * V + 128 * N

Unpacks(p) ==
    /\ C' = Bit(p, 1) /\ Z' = Bit(p, 2) /\ I' = Bit(p, 4) /\ D' = Bit(p, 8)
    /\ V' = Bit(p, 64) /\ N' = Bit(p, 128)

Pushes(op) ==
    /\ S' = Down(1) /\ UNCHANGED <<A, X, Y, flags>>
    /\ \/ op = "PHA" /\ Bus(<< >>, << >>, << Push(S, A) >>)
       \/ op = "PHP" /\ Bus(<< >>, << >>, << Push(S, Status(1)) >>)

Pops(op, m) ==
    /\ S' = Up(1) /\ UNCHANGED <<X, Y>> /\ Bus(<< >>, << Top(Up(1)) >>, << >>)
    /\ \/ op = "PLA" /\ A' = m /\ NZ(m) /\ UNCHANGED <<V, D, I, C>>
       \/ op = "PLP" /\ Unpacks(m) /\ UNCHANGED A

Stack(i) ==
    /\ Follows(i) /\ UNCHANGED port
    /\ Pushes(i.op) \/ Pops(i.op, i.m)

\* An interrupt: an address and the flags are pushed, and the vector read
Enters(i, from, vector, b) ==
    /\ Continues(Pointer(i))
    /\ S' = Down(3) /\ I' = 1 /\ UNCHANGED <<A, X, Y, N, V, D, Z, C, port>>
    /\ Bus(<< >>, << Cell(vector), Cell(vector + 1) >>,
           << Push(S, High(from)), Push(Down(1), Low(from)), Push(Down(2), Status(b)) >>)

Interrupts(i) ==
    \/ i.op = "BRK" /\ Enters(i, pc + 2, 65534, 1)
    \/ i.op = "NMI" /\ Enters(i, pc, 65530, 0)
    \/ i.op = "IRQ" /\ I = 0 /\ Enters(i, pc, 65534, 0)

Jumps(i) ==
    /\ UNCHANGED <<A, X, Y, port>>
    /\ \/ /\ i.op = "JMP" /\ Continues(Operand(i)) /\ Quiet /\ UNCHANGED <<S, flags>>
       \* through a pointer that does not leave its page
       \/ /\ i.op = "JMP_IND" /\ Continues(Pointer(i)) /\ UNCHANGED <<S, flags>>
          /\ Bus(<< >>, << Cell(Operand(i)), Cell(256 * i.h + ((i.b + 1) % 256)) >>, << >>)
       \/ /\ i.op = "JSR" /\ Continues(Operand(i)) /\ S' = Down(2) /\ UNCHANGED flags
          /\ Bus(<< >>, << >>, << Push(S, High(pc + 2)), Push(Down(1), Low(pc + 2)) >>)
       \/ /\ i.op = "RTS" /\ Continues((Pointer(i) + 1) % 65536)
          /\ S' = Up(2) /\ UNCHANGED flags
          /\ Bus(<< >>, << Top(Up(1)), Top(Up(2)) >>, << >>)
       \/ /\ i.op = "RTI" /\ Continues(Pointer(i)) /\ S' = Up(3) /\ Unpacks(i.m)
          /\ Bus(<< >>, << Top(Up(1)), Top(Up(2)), Top(Up(3)) >>, << >>)

Branches(i) ==
    /\ UNCHANGED <<axys, flags, port, code>> /\ Quiet
    /\ LET On(p) == pc' = (pc + 2 + IF p THEN Signed(i.b) ELSE 0) % 65536
       IN  \/ i.op = "BCS" /\ On(C = 1)
           \/ i.op = "BCC" /\ On(C = 0)
           \/ i.op = "BEQ" /\ On(Z = 1)
           \/ i.op = "BNE" /\ On(Z = 0)
           \/ i.op = "BVS" /\ On(V = 1)
           \/ i.op = "BVC" /\ On(V = 0)
           \/ i.op = "BMI" /\ On(N = 1)
           \/ i.op = "BPL" /\ On(N = 0)

\* The processor starts again at its vector, with every line of the port an input
Resets(i) ==
    /\ i.op \in {"IEC", "ILLEGAL", "RESET"}
    /\ port' = [ddr |-> 0, pr |-> 0] /\ Continues(ResetVector) /\ UNCHANGED <<axys, flags>>
    /\ bus'.rd = << <<"kernal", 65532>>, <<"kernal", 65533>> >>

\* The opcode that calls the drive; its status is added to that of the kernal
Calls(i) ==
    /\ i.op = "IEC" /\ UNCHANGED <<port, X, Y, S, V, D, I>>
    /\ Continues(60844) \/ Continues(60923)
    /\ \/ /\ bus'.wr = << <<"ram", 144, Or(i.m, i.k)>> >> /\ C' = 0
          /\ \/ UNCHANGED <<A, N, Z>>
             \/ A' = i.lo /\ NZ(i.lo)
       \/ Quiet /\ UNCHANGED <<A, N, Z, C>>

Instructs(i) ==
    \/ Reads(i) \/ Writes(i) \/ Modifies(i) \/ Implied(i) \/ Stack(i)
    \/ Interrupts(i) \/ Jumps(i) \/ Branches(i) \/ Calls(i) \/ Resets(i)

-----------------------------------------------------------------------------
Port == [ddr : Byte, pr : Byte]

Init ==
    /\ A \in Byte /\ X \in Byte /\ Y \in Byte /\ S \in Byte
    /\ N \in Bool /\ V \in Bool /\ D \in Bool /\ I = 1 /\ Z \in Bool /\ C \in Bool
    /\ port = [ddr |-> 0, pr |-> 0] /\ pc = ResetVector /\ code = Area(7, pc)
    /\ in \in Instruction

\* The registers, the packed flags and the port are kept, and there again
Save ==
    /\ saved' = << A, X, Y, S, Status(0), pc, port >>
    /\ UNCHANGED <<axys, flags, pc, code, port, in, bus>>

Restore ==
    /\ A' = saved[1] /\ X' = saved[2] /\ Y' = saved[3] /\ S' = saved[4] /\ Unpacks(saved[5])
    /\ port' = saved[7] /\ Continues(saved[6])
    /\ UNCHANGED <<saved, in, bus>>

Next ==
    \/ in' \in Instruction /\ Instructs(in') /\ UNCHANGED saved
    \/ Save
    \/ Restore

Spec == Init /\ [][Next]_vars
=============================================================================
