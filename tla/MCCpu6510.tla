----------------------------- MODULE MCCpu6510 -----------------------------
(***************************************************************************)
(* Cpu6510 with every opcode in every addressing mode it has, on operands  *)
(* and registers at the edges: zero, the sign, carries, decimal digits,    *)
(* the ends of a page, the processor port and the borders of the map.      *)
(***************************************************************************)
EXTENDS Cpu6510

\* Bytes of operands and registers
Edges == {0, 25, 127, 128, 153, 255}

Plain(op) == [op |-> op, mode |-> "none", b |-> 1, h |-> 216, lo |-> 255, hi |-> 159, m |-> 1, k |-> 2]

\* The places an operand is read from or written to: the port, a page's end,
\* BASIC, the chips, the kernal
Places == {[b |-> 0, h |-> 0, lo |-> 1, hi |-> 0], [b |-> 1, h |-> 160, lo |-> 255, hi |-> 223],
           [b |-> 255, h |-> 215, lo |-> 0, hi |-> 224]}

With(op, mode, place, m) ==
    [op |-> op, mode |-> mode, b |-> place.b, h |-> place.h,
     lo |-> place.lo, hi |-> place.hi, m |-> m, k |-> 7]

Uses(ops, modes, bytes) ==
    {With(op, mode, place, m) : op \in ops, mode \in modes, place \in Places, m \in bytes}
Immediate(ops) == {[With(op, "imm", [b |-> m, h |-> 0, lo |-> 0, hi |-> 0], m) EXCEPT !.b = m] :
                      op \in ops, m \in Edges}

Memory == {"zero", "zero_x", "abs", "abs_x"}
Indexed == Memory \cup {"abs_y", "ind_x", "ind_y"}

MCInputs ==
    Uses({"LDA", "ADC", "SBC", "CMP"}, Indexed, Edges)
    \cup Uses({"AND", "ORA", "EOR"}, Indexed, {170})
    \cup Uses({"LDX", "LAX"}, {"zero", "zero_y", "abs", "abs_y"}, {0, 128})
    \cup Uses({"LDY", "CPX", "CPY", "BIT"}, {"zero", "zero_x", "abs"}, {64, 128})
    \cup Uses({"STA", "STX", "STY", "SAX"}, Indexed \cup {"zero_y"}, {0})
    \cup Uses({"INC", "DEC", "ASL", "LSR", "ROL", "ROR"}, Memory, {0, 127, 255})
    \cup Uses({"SLO", "RLA", "SRE", "RRA", "DCP", "ISB"}, Indexed, {0, 153, 255})
    \cup Uses({"SHA", "SHX", "SHY", "SHS", "LAS"}, {"abs_x", "abs_y", "ind_y"}, {5})
    \cup Immediate({"LDA", "LDX", "LDY", "ADC", "SBC", "AND", "ORA", "EOR", "CMP", "CPX", "CPY",
                    "ANC", "ASR", "ARR", "ANE", "LXA", "SBX"})
    \cup {[Plain(op) EXCEPT !.m = m] : op \in {"PLA", "PLP", "RTI"}, m \in Edges}
    \cup {[Plain(op) EXCEPT !.mode = "imm", !.b = b] :
            op \in {"BCS", "BCC", "BEQ", "BNE", "BVS", "BVC", "BMI", "BPL"}, b \in {5, 250}}
    \cup {[Plain("IEC") EXCEPT !.b = b] : b \in 0 .. 8}
    \cup {[Plain(op) EXCEPT !.b = b] : op \in {"JMP", "JMP_IND", "JSR", "RTS"}, b \in {0, 255}}
    \cup {[Plain("NOP") EXCEPT !.mode = mode] : mode \in {"none", "zero", "abs"}}
    \cup {Plain(op) : op \in {"TAX", "TXA", "TAY", "TYA", "TSX", "TXS", "INX", "DEX", "INY", "DEY",
            "ASL_A", "LSR_A", "ROL_A", "ROR_A", "PHA", "PHP", "BRK", "NMI", "IRQ", "RESET",
            "ILLEGAL", "SEC", "CLC", "SED", "CLD", "SEI", "CLI", "CLV"}}

\* Registers with every pair of an accumulator and a carry, in binary and in
\* decimal; the port in each row of the table
MCSnapshots ==
    {[a |-> acc, x |-> 2, y |-> 253, sp |-> 257, p |-> 32 + carry + decimal, ddr |-> 7, pr |-> 7,
      pc |-> 57342, banks |-> new_config([ddr |-> 7, pr |-> 7])] :
        acc \in Edges, carry \in {1, 194}, decimal \in {0, 8}}
    \cup
    {[a |-> 255, x |-> 255, y |-> 1, sp |-> top, p |-> 37, ddr |-> 47, pr |-> row, pc |-> 65535,
      banks |-> new_config([ddr |-> 47, pr |-> row])] : top \in {256, 511}, row \in 0 .. 7}
=============================================================================
