--------------------------- MODULE CpuInterrupts ---------------------------
(***************************************************************************)
(* The interrupts of the 6510: the lines that the VIC and the two CIAs     *)
(* drive, and MOS6510::EmulateLine, which looks at them when a raster line *)
(* begins and again after CLI, PLP and RTI.                                *)
(*                                                                         *)
(* A chip is reduced to its interrupt registers; what makes a source       *)
(* pending is up to the environment (Cia has the timers).  The program is  *)
(* reduced to the instructions that matter here, in any order.             *)
(***************************************************************************)
EXTENDS Naturals, FiniteSets

CONSTANTS
    Sources,        \* the interrupt sources of the VIC
    CiaSources,     \* those of a CIA
    Saved           \* what snapshots hold

VARIABLES
    vicFlag, vicMaster, vicMask,    \* irq_flag bits 0 to 3, its bit 7, irq_mask
    icr, ir, int_mask,              \* the same of CIA 1 and CIA 2
    intr,           \* interrupt.intr: the asserted entries
    nmi_state,
    i_flag,
    pc,             \* "chips": between two lines; "line", "run": EmulateLine
    resetting,      \* the CIA that a reset on the UI thread comes to next, or 0
    ignored         \* history: the CIAs that were reset while the CPU kept their lines

vic == <<vicFlag, vicMaster, vicMask>>
cia == <<icr, ir, int_mask>>
cpu == <<intr, nmi_state, i_flag>>
resets == <<resetting, ignored>>
vars == <<vic, cia, cpu, pc, resets>>

IRQs == {"VICIRQ", "CIAIRQ"}

Init ==
    /\ vicFlag = {} /\ vicMaster = FALSE /\ vicMask = {}
    /\ icr = [c \in {1, 2} |-> {}] /\ ir = [c \in {1, 2} |-> FALSE]
    /\ int_mask = [c \in {1, 2} |-> {}]
    /\ intr = {} /\ nmi_state = FALSE /\ i_flag = TRUE
    /\ pc = "chips" /\ resetting = 0 /\ ignored = {}

\* Snapshots are written by this program, and so they hold what its state can be
ASSUME InterruptsAssumption ==
    \A s \in Saved :
        /\ s.vicFlag \subseteq Sources /\ s.vicMask \subseteq Sources
        /\ s.vicMaster \in BOOLEAN
        /\ {s.icr, s.int_mask} \subseteq [{1, 2} -> SUBSET CiaSources]
        /\ s.ir \in [{1, 2} -> BOOLEAN]
        /\ s.intr \subseteq IRQs \cup {"NMI", "RESET"}
        /\ s.nmi_state \in BOOLEAN /\ s.i_flag \in BOOLEAN /\ s.ignored \subseteq {1, 2}
        /\ "VICIRQ" \in s.intr => s.vicFlag \cap s.vicMask # {}
        /\ "CIAIRQ" \in s.intr => s.ir[1] \/ 1 \in s.ignored
        /\ s.nmi_state => s.ir[2] \/ 2 \in s.ignored

-----------------------------------------------------------------------------
(* The lines *)

\* TriggerNMI: only an edge counts
TriggerNMI ==
    /\ nmi_state' = TRUE
    /\ intr' = IF nmi_state THEN intr ELSE intr \cup {"NMI"}

\* Broken variant: CIA 2 gets an entry of its own
RaiseOwnEntry(c) ==
    /\ intr' = intr \cup {IF c = 1 THEN "CIAIRQ" ELSE "CIANMI"}
    /\ UNCHANGED nmi_state

\* TriggerCIAIRQ of CIA 1, TriggerNMI of CIA 2
RaiseCia(c) ==
    IF c = 1 THEN intr' = intr \cup {"CIAIRQ"} /\ UNCHANGED nmi_state
             ELSE TriggerNMI

\* A CIA's TriggerInterrupt: timers, which may both underflow in a line, and alarm
\* between two lines, and the "fake SDR interrupt" when the program writes that register
CiaEvent(c, events) ==
    /\ pc \in {"chips", "run"}
    /\ icr' = [icr EXCEPT ![c] = @ \cup events]
    /\ IF events \cap int_mask[c] # {}
       THEN ir' = [ir EXCEPT ![c] = TRUE] /\ RaiseCia(c)
       ELSE UNCHANGED <<ir, intr, nmi_state>>
    /\ UNCHANGED <<vic, int_mask, i_flag, pc, resets>>

\* raster_irq and sprite collisions while the line is drawn; raster_irq from a write
\* of the raster compare and the light pen while the CPU runs
VicEvent(events) ==
    /\ pc \in {"chips", "run"}
    /\ vicFlag' = vicFlag \cup events
    /\ IF events \cap vicMask # {}
       THEN vicMaster' = TRUE /\ intr' = intr \cup {"VICIRQ"}
       ELSE UNCHANGED <<vicMaster, intr>>
    /\ UNCHANGED <<vicMask, cia, nmi_state, i_flag, pc, resets>>

\* AsyncNMI: the RESTORE key, polled in the vertical blank
AsyncNMI ==
    /\ pc = "chips"
    /\ intr' = IF nmi_state THEN intr ELSE intr \cup {"NMI"}
    /\ UNCHANGED <<vic, cia, nmi_state, i_flag, pc, resets>>

\* C64::Reset on the emulation thread, for a key polled in the vertical blank or an
\* illegal opcode of the 1541: the CIAs at once, the CPU when it looks at its interrupts,
\* the VIC not at all
Reset ==
    /\ pc \in {"chips", "run"}
    /\ intr' = intr \cup {"RESET"}
    /\ icr' = [c \in {1, 2} |-> {}] /\ ir' = [c \in {1, 2} |-> FALSE]
    /\ int_mask' = [c \in {1, 2} |-> {}]
    /\ ignored' = {1, 2}
    /\ UNCHANGED <<vic, nmi_state, i_flag, pc, resetting>>

\* C64::Reset on the UI thread, when a game is chosen: the emulation goes on meanwhile.
\* First AsyncReset ...
AsyncReset ==
    /\ resetting = 0 /\ resetting' = 1
    /\ intr' = intr \cup {"RESET"}
    /\ UNCHANGED <<vic, cia, nmi_state, i_flag, pc, ignored>>

\* ... then one CIA after the other, perhaps when the CPU has been reset already
ResetCia ==
    /\ resetting # 0 /\ resetting' = IF resetting = 1 THEN 2 ELSE 0
    /\ icr' = [icr EXCEPT ![resetting] = {}] /\ ir' = [ir EXCEPT ![resetting] = FALSE]
    /\ int_mask' = [int_mask EXCEPT ![resetting] = {}]
    /\ ignored' = ignored \cup {resetting}
    /\ UNCHANGED <<vic, cpu, pc>>

\* LoadSnapshot in the vertical blank: the registers of all the chips and the entries
\* of the CPU are restored together
LoadSnapshot(s) ==
    /\ pc = "chips"
    /\ vicFlag' = s.vicFlag /\ vicMaster' = s.vicMaster /\ vicMask' = s.vicMask
    /\ icr' = s.icr /\ ir' = s.ir /\ int_mask' = s.int_mask
    /\ intr' = s.intr /\ nmi_state' = s.nmi_state /\ i_flag' = s.i_flag
    /\ ignored' = s.ignored
    /\ UNCHANGED <<pc, resetting>>

\* The chips are done with the line
EmulateLine ==
    /\ pc = "chips"
    /\ pc' = "line"
    /\ UNCHANGED <<vic, cia, cpu, resets>>

-----------------------------------------------------------------------------
(* handle_int *)

TakeNMI ==
    /\ "NMI" \in intr
    /\ intr' = intr \ {"NMI"}
    /\ i_flag' = TRUE
    /\ UNCHANGED <<nmi_state, resets>>

TakeIRQ ==
    /\ "NMI" \notin intr /\ intr \cap IRQs # {} /\ ~i_flag
    /\ i_flag' = TRUE
    /\ UNCHANGED <<intr, nmi_state, resets>>

\* Broken variant: the request is not cleared
TakeResetAgain ==
    /\ "NMI" \notin intr /\ (intr \cap IRQs = {} \/ i_flag)
    /\ "RESET" \in intr
    /\ nmi_state' = FALSE
    /\ ignored' = {}
    /\ UNCHANGED <<intr, i_flag, resetting>>

\* MOS6510::Reset: all entries are cleared, and the NMI input; i_flag is kept
TakeReset ==
    /\ "NMI" \notin intr /\ (intr \cap IRQs = {} \/ i_flag)
    /\ "RESET" \in intr
    /\ intr' = {} /\ nmi_state' = FALSE
    /\ ignored' = {}
    /\ UNCHANGED <<i_flag, resetting>>

TakeNothing ==
    /\ intr \cap {"NMI", "RESET"} = {} /\ (intr \cap IRQs = {} \/ i_flag)
    /\ UNCHANGED <<cpu, resets>>

HandleInt == TakeNMI \/ TakeIRQ \/ TakeReset \/ TakeNothing

\* EmulateLine: "Any pending interrupts?"
BeginLine ==
    /\ pc = "line"
    /\ HandleInt
    /\ pc' = "run"
    /\ UNCHANGED <<vic, cia>>

-----------------------------------------------------------------------------
(* Instructions *)

\* SEI, and PLP, RTI that pop a set flag
SetI ==
    /\ pc = "run" /\ ~i_flag
    /\ i_flag' = TRUE
    /\ UNCHANGED <<vic, cia, intr, nmi_state, pc, resets>>

\* CLI, and PLP, RTI that pop a clear flag: back to handle_int if anything is
\* pending
ClearI ==
    /\ pc = "run"
    /\ i_flag' = FALSE
    /\ pc' = IF intr # {} THEN "line" ELSE "run"
    /\ UNCHANGED <<vic, cia, intr, nmi_state, resets>>

\* Broken variant: the NMI input is not released
ReadIcrKeepsNmi(c) ==
    /\ pc = "run"
    /\ icr' = [icr EXCEPT ![c] = {}] /\ ir' = [ir EXCEPT ![c] = FALSE]
    /\ IF c = 1 THEN intr' = intr \ {"CIAIRQ"} ELSE UNCHANGED intr
    /\ ignored' = ignored \ {c}
    /\ UNCHANGED <<vic, int_mask, nmi_state, i_flag, pc, resetting>>

\* A read of a CIA's ICR: read and clear, and clear the line
ReadIcr(c) ==
    /\ pc = "run"
    /\ icr' = [icr EXCEPT ![c] = {}] /\ ir' = [ir EXCEPT ![c] = FALSE]
    /\ IF c = 1 THEN intr' = intr \ {"CIAIRQ"} /\ UNCHANGED nmi_state
                ELSE nmi_state' = FALSE /\ UNCHANGED intr
    /\ ignored' = ignored \ {c}
    /\ UNCHANGED <<vic, int_mask, i_flag, pc, resetting>>

\* Writes of a CIA's ICR (CIAIRQHack is off)
EnableCia(c, source) ==
    /\ pc = "run"
    /\ int_mask' = [int_mask EXCEPT ![c] = @ \cup {source}]
    /\ IF icr[c] \cap int_mask'[c] # {}
       THEN ir' = [ir EXCEPT ![c] = TRUE] /\ RaiseCia(c)
       ELSE UNCHANGED <<ir, intr, nmi_state>>
    /\ UNCHANGED <<vic, icr, i_flag, pc, resets>>

DisableCia(c, source) ==
    /\ pc = "run"
    /\ int_mask' = [int_mask EXCEPT ![c] = @ \ {source}]
    /\ UNCHANGED <<vic, icr, ir, cpu, pc, resets>>

\* Broken variant: the line is left when the flags are cleared
AckVicKeepsLine(flags) ==
    /\ pc = "run"
    /\ vicFlag' = vicFlag \ flags
    /\ vicMaster' = (vicFlag' \cap vicMask # {})
    /\ UNCHANGED <<vicMask, cia, cpu, pc, resets>>

\* $D019: flags are cleared; "clear interrupt (hack!)", even if another source
\* is pending, of which only bit 7 is left to tell
AckVic(flags) ==
    /\ pc = "run"
    /\ vicFlag' = vicFlag \ flags
    /\ vicMaster' = (vicFlag' \cap vicMask # {})
    /\ intr' = intr \ {"VICIRQ"}
    /\ UNCHANGED <<vicMask, cia, nmi_state, i_flag, pc, resets>>

\* $D01A: the mask; a pending source now interrupts, without bit 7
MaskVic(mask) ==
    /\ pc = "run"
    /\ vicMask' = mask
    /\ IF vicFlag \cap mask # {}
       THEN intr' = intr \cup {"VICIRQ"} /\ UNCHANGED vicMaster
       ELSE intr' = intr \ {"VICIRQ"} /\ vicMaster' = FALSE
    /\ UNCHANGED <<vicFlag, cia, nmi_state, i_flag, pc, resets>>

\* illegal_op: C64::Reset, and then the CPU's own at once
IllegalOpcode ==
    /\ pc = "run"
    /\ icr' = [c \in {1, 2} |-> {}] /\ ir' = [c \in {1, 2} |-> FALSE]
    /\ int_mask' = [c \in {1, 2} |-> {}]
    /\ intr' = {} /\ nmi_state' = FALSE
    /\ ignored' = {}
    /\ UNCHANGED <<vic, i_flag, pc, resetting>>

\* The cycles of the line are used up
EndLine ==
    /\ pc = "run"
    /\ pc' = "chips"
    /\ UNCHANGED <<vic, cia, cpu, resets>>

-----------------------------------------------------------------------------
Chips ==
    \/ AsyncNMI
    \/ \E s \in Saved : LoadSnapshot(s)

Instruction ==
    \/ SetI \/ ClearI \/ IllegalOpcode
    \/ \E c \in {1, 2} : ReadIcr(c)
    \/ \E c \in {1, 2}, s \in CiaSources : EnableCia(c, s) \/ DisableCia(c, s)
    \/ \E flags \in SUBSET Sources : AckVic(flags) \/ MaskVic(flags)

Next ==
    \/ Chips \/ EmulateLine \/ BeginLine \/ Instruction \/ EndLine
    \/ Reset \/ AsyncReset \/ ResetCia
    \/ \E events \in SUBSET Sources : VicEvent(events)
    \/ \E c \in {1, 2}, events \in SUBSET CiaSources : CiaEvent(c, events)

Spec == Init /\ [][Next]_vars

\* Lines follow each other: instructions take time, so none keeps a line from
\* ending for ever
FairSpec ==
    Spec /\ WF_vars(EmulateLine) /\ WF_vars(BeginLine) /\ SF_vars(EndLine)

-----------------------------------------------------------------------------
TypeOK ==
    /\ vicFlag \subseteq Sources /\ vicMask \subseteq Sources
    /\ vicMaster \in BOOLEAN
    /\ icr \in [{1, 2} -> SUBSET CiaSources] /\ int_mask \in [{1, 2} -> SUBSET CiaSources]
    /\ ir \in [{1, 2} -> BOOLEAN]
    /\ intr \subseteq IRQs \cup {"NMI", "RESET"}
    /\ nmi_state \in BOOLEAN /\ i_flag \in BOOLEAN
    /\ resetting \in 0 .. 2 /\ ignored \subseteq {1, 2}
    /\ pc \in {"chips", "line", "run"}

\* The CPU is never interrupted for nothing: an asserted VIC line has a pending
\* source that is enabled, an asserted CIA line is reported by ICR.
NoSpuriousIrq ==
    /\ "VICIRQ" \in intr => vicFlag \cap vicMask # {}
    /\ "CIAIRQ" \in intr => ir[1] \/ 1 \in ignored

\* The NMI input is never stuck: nmi_state, which shuts out every further NMI and
\* the RESTORE key, is only set while ICR of CIA 2 still says so, so a program
\* that reads it opens the input again.
NmiOpens == nmi_state => ir[2] \/ 2 \in ignored

\* A requested reset is carried out although it has the lowest priority of all:
\* neither an IRQ that is never acknowledged nor handlers that end at once keep
\* it from its turn, unless NMIs never end.
ResetTaken == <>[]("NMI" \notin intr) => []<>("RESET" \notin intr)
=============================================================================
