-------------------------------- MODULE Cia --------------------------------
(***************************************************************************)
(* One 6526 CIA: its two timers, its interrupt control register and the    *)
(* interrupt line it drives.  The C64's program writes registers within a  *)
(* raster line; between lines C64::thread_func counts the timers down by a *)
(* line's worth of cycles (the single-cycle core is compiled out).         *)
(*                                                                         *)
(* The line is CIAIRQ of the CPU for CIA 1 and nmi_state for CIA 2.  The   *)
(* control registers are kept as their fields; a register value that the   *)
(* emulation does not look at is left out, as are the ports (KeyInput,     *)
(* IEC bus) and the clock, which here only rings: CiaChip puts it in.      *)
(***************************************************************************)
EXTENDS Naturals

CONSTANTS
    MaxTimer,       \* 0xffff: the largest value of a 16-bit timer
    CiaCycles,      \* ThePrefs.CIACycles: cycles counted per raster line
    Latches,        \* the values the program writes to the latches
    CIAIRQHack,     \* ThePrefs.CIAIRQHack
    MaxWrites       \* bound: accesses to the registers by the program

ASSUME CiaAssumption ==
    /\ MaxTimer \in Nat /\ CiaCycles \in 1 .. MaxTimer
    /\ Latches \subseteq 0 .. MaxTimer
    /\ CIAIRQHack \in BOOLEAN
    /\ MaxWrites \in Nat

Sources == {"ta", "tb", "alarm", "sdr"}     \* bits 0 to 3 of ICR

\* What the emulation reads of CRA and CRB: bit 0, bit 3 and the input selected
\* by bit 5 (CRA) or bits 5 and 6 (CRB)
Control(inputs) == [start : BOOLEAN, oneshot : BOOLEAN, input : inputs]
ControlA == Control({"phi2", "cnt"})
ControlB == Control({"phi2", "cnt", "ta", "ta cnt"})

VARIABLES
    ta, tb, latcha, latchb,                 \* timers and latches
    cra, crb,                               \* control registers
    ta_cnt_phi2, tb_cnt_phi2, tb_cnt_ta,    \* what the timers count, if anything
    icr,                                    \* bits 0 to 3 of icr
    ir,                                     \* bit 7 of icr
    int_mask,
    line,           \* the CPU sees the interrupt line asserted
    resetting,      \* history: no read of ICR since this chip or the CPU was reset
    writes

timerA == <<ta, latcha, cra, ta_cnt_phi2>>
timerB == <<tb, latchb, crb, tb_cnt_phi2, tb_cnt_ta>>
interrupts == <<icr, ir, int_mask, line, resetting>>
vars == <<timerA, timerB, interrupts, writes>>

Stopped == [start |-> FALSE, oneshot |-> FALSE, input |-> "phi2"]

Init ==
    /\ ta = MaxTimer /\ tb = MaxTimer
    /\ latcha = 1 /\ latchb = 1
    /\ cra = Stopped /\ crb = Stopped
    /\ ta_cnt_phi2 = FALSE /\ tb_cnt_phi2 = FALSE /\ tb_cnt_ta = FALSE
    /\ icr = {} /\ ir = FALSE /\ int_mask = {}
    /\ line = FALSE /\ resetting = FALSE
    /\ writes = 0

-----------------------------------------------------------------------------
(* Interrupts *)

\* TriggerInterrupt, for each of the sources: the ICR bits are set and, when one
\* of them is enabled, bit 7 and the CPU's line
TriggerInterrupt(sources) ==
    /\ icr' = icr \cup sources
    /\ IF sources \cap int_mask # {}
       THEN ir' = TRUE /\ line' = TRUE
       ELSE UNCHANGED <<ir, line>>

Access == writes < MaxWrites /\ writes' = writes + 1

\* Broken variant: reading clears the register but not the CPU's line
ReadIcrKeepsLine ==
    /\ Access
    /\ icr' = {} /\ ir' = FALSE
    /\ resetting' = FALSE
    /\ UNCHANGED <<timerA, timerB, int_mask, line>>

\* ReadRegister(0x0d): read and clear ICR, clear the CPU's line
ReadIcr ==
    /\ Access
    /\ icr' = {} /\ ir' = FALSE /\ line' = FALSE
    /\ resetting' = FALSE
    /\ UNCHANGED <<timerA, timerB, int_mask>>

\* Broken variant: a pending interrupt that is enabled is not raised
EnableQuietly(bits) ==
    /\ Access
    /\ int_mask' = int_mask \cup bits
    /\ icr' = IF CIAIRQHack THEN {} ELSE icr
    /\ UNCHANGED <<timerA, timerB, ir, line, resetting>>

\* WriteRegister(0x0d), bit 7 set: enable; a pending source now interrupts.
\* With CIAIRQHack the register is cleared first, bit 7 included.
Enable(bits) ==
    LET pending == IF CIAIRQHack THEN {} ELSE icr IN
    /\ Access
    /\ int_mask' = int_mask \cup bits
    /\ icr' = pending
    /\ IF pending \cap int_mask' # {}
       THEN ir' = TRUE /\ line' = TRUE
       ELSE ir' = (ir /\ ~CIAIRQHack) /\ UNCHANGED line
    /\ UNCHANGED <<timerA, timerB, resetting>>

\* WriteRegister(0x0d), bit 7 clear: disable; what is asserted stays asserted
Disable(bits) ==
    /\ Access
    /\ int_mask' = int_mask \ bits
    /\ icr' = IF CIAIRQHack THEN {} ELSE icr
    /\ ir' = (ir /\ ~CIAIRQHack)
    /\ UNCHANGED <<timerA, timerB, line, resetting>>

\* WriteRegister(0x0c): "fake SDR interrupt for programs that need it"
WriteSdr ==
    /\ Access
    /\ TriggerInterrupt({"sdr"})
    /\ UNCHANGED <<timerA, timerB, int_mask, resetting>>

\* CountTOD reaches the alarm time, in the vertical blank
Alarm ==
    /\ TriggerInterrupt({"alarm"})
    /\ UNCHANGED <<timerA, timerB, int_mask, resetting, writes>>

-----------------------------------------------------------------------------
(* The program sets the timers up *)

\* WriteRegister(0x04) and (0x05): the high byte also loads a stopped timer
WriteLatchA(value, high) ==
    /\ Access
    /\ latcha' = value
    /\ ta' = IF high /\ ~cra.start THEN value ELSE ta
    /\ UNCHANGED <<cra, ta_cnt_phi2, timerB, interrupts>>

WriteLatchB(value, high) ==
    /\ Access
    /\ latchb' = value
    /\ tb' = IF high /\ ~crb.start THEN value ELSE tb
    /\ UNCHANGED <<crb, tb_cnt_phi2, tb_cnt_ta, timerA, interrupts>>

\* WriteRegister(0x0e)
WriteCra(control, forceLoad) ==
    /\ Access
    /\ cra' = control
    /\ ta' = IF forceLoad THEN latcha ELSE ta
    /\ ta_cnt_phi2' = (control.start /\ control.input = "phi2")
    /\ UNCHANGED <<latcha, timerB, interrupts>>

\* WriteRegister(0x0f)
WriteCrb(control, forceLoad) ==
    /\ Access
    /\ crb' = control
    /\ tb' = IF forceLoad THEN latchb ELSE tb
    /\ tb_cnt_phi2' = (control.start /\ control.input = "phi2")
    /\ tb_cnt_ta' = (control.start /\ control.input = "ta")
    /\ UNCHANGED <<latchb, timerA, interrupts>>

ResetRegisters ==
    /\ Access
    /\ ta' = MaxTimer /\ tb' = MaxTimer /\ latcha' = 1 /\ latchb' = 1
    /\ cra' = Stopped /\ crb' = Stopped
    /\ ta_cnt_phi2' = FALSE /\ tb_cnt_phi2' = FALSE /\ tb_cnt_ta' = FALSE
    /\ icr' = {} /\ ir' = FALSE /\ int_mask' = {}

\* Reset: the chip's own state; the CPU is reset at another time and keeps its line
Reset == ResetRegisters /\ resetting' = TRUE /\ UNCHANGED line

\* illegal_op of the 6510: the chips are reset and then the CPU, within one instruction
IllegalOpcode == ResetRegisters /\ resetting' = FALSE /\ line' = FALSE

\* MOS6510::Reset: the CPU clears its entries and nmi_state, before or after this chip
\* is reset, because C64::Reset is also called on the UI thread
CpuReset ==
    /\ line' = FALSE
    /\ resetting' = TRUE
    /\ UNCHANGED <<timerA, timerB, icr, ir, int_mask, writes>>

\* An access to a register of the ports or of the clock
AccessElsewhere == Access /\ UNCHANGED <<timerA, timerB, interrupts>>

-----------------------------------------------------------------------------
(* Between two lines *)

\* Broken variant: the timer wraps without being noticed
UnderflowsNever(timer) == FALSE

\* The unsigned difference exceeds 0xffff
Underflows(timer) == timer < CiaCycles

Minus(timer, n) == (timer + MaxTimer + 1 - n) % (MaxTimer + 1)

TaUnderflow == ta_cnt_phi2 /\ Underflows(ta)
TbUnderflow ==
    \/ TaUnderflow /\ tb_cnt_ta /\ tb = 0
    \/ tb_cnt_phi2 /\ Underflows(tb)

\* Broken variant: a one-shot timer keeps counting
CountTaForEver ==
    /\ ta' = CASE ~ta_cnt_phi2 -> ta
               [] TaUnderflow  -> latcha
               [] OTHER        -> Minus(ta, CiaCycles)
    /\ cra' = IF TaUnderflow /\ cra.oneshot THEN [cra EXCEPT !.start = FALSE] ELSE cra
    /\ UNCHANGED ta_cnt_phi2

\* EmulateLine, timer A: reloaded at an underflow, and stopped if it is one-shot
CountTa ==
    /\ ta' = CASE ~ta_cnt_phi2 -> ta
               [] TaUnderflow  -> latcha
               [] OTHER        -> Minus(ta, CiaCycles)
    /\ IF TaUnderflow /\ cra.oneshot
       THEN cra' = [cra EXCEPT !.start = FALSE] /\ ta_cnt_phi2' = FALSE
       ELSE UNCHANGED <<cra, ta_cnt_phi2>>

\* EmulateLine, timer B: counts cycles, or underflows of timer A
CountTb ==
    /\ tb' = IF TbUnderflow THEN latchb
             ELSE IF tb_cnt_phi2 THEN Minus(tb, CiaCycles)
             ELSE IF TaUnderflow /\ tb_cnt_ta THEN Minus(tb, 1)
             ELSE tb
    /\ IF TbUnderflow /\ crb.oneshot
       THEN /\ crb' = [crb EXCEPT !.start = FALSE]
            /\ tb_cnt_phi2' = FALSE /\ tb_cnt_ta' = FALSE
       ELSE UNCHANGED <<crb, tb_cnt_phi2, tb_cnt_ta>>

\* EmulateLine as a whole
CountLine ==
    /\ CountTa /\ CountTb
    /\ TriggerInterrupt((IF TaUnderflow THEN {"ta"} ELSE {})
                        \cup (IF TbUnderflow THEN {"tb"} ELSE {}))
    /\ UNCHANGED <<latcha, latchb, int_mask, resetting, writes>>

\* "an optimization which will avoid calling EmulateLine"
NeedToEmulateLine == ta_cnt_phi2 \/ tb_cnt_phi2

EmulateLine == NeedToEmulateLine /\ CountLine

-----------------------------------------------------------------------------
Program ==
    \/ ReadIcr \/ WriteSdr \/ AccessElsewhere
    \/ \E source \in {"ta", "tb", "alarm"} : Enable({source}) \/ Disable({source})
    \/ \E value \in Latches, high \in BOOLEAN :
          WriteLatchA(value, high) \/ WriteLatchB(value, high)
    \/ \E force \in BOOLEAN :
          \/ \E control \in ControlA : WriteCra(control, force)
          \/ \E control \in ControlB : WriteCrb(control, force)

Next == EmulateLine \/ Program \/ Alarm \/ Reset \/ IllegalOpcode \/ CpuReset

Spec == Init /\ [][Next]_vars

\* Raster lines are emulated for ever, whatever the program does
FairSpec == Spec /\ WF_vars(EmulateLine)

-----------------------------------------------------------------------------
TypeOK ==
    /\ {ta, tb, latcha, latchb} \subseteq 0 .. MaxTimer
    /\ cra \in ControlA /\ crb \in ControlB
    /\ {ta_cnt_phi2, tb_cnt_phi2, tb_cnt_ta, ir, line, resetting} \subseteq BOOLEAN
    /\ icr \subseteq Sources /\ int_mask \subseteq Sources
    /\ writes \in 0 .. MaxWrites

\* Part of the invariant of the proofs: the three flags that EmulateLine goes by agree
\* with the control registers, which one-shot timers change behind the program's back: a
\* stopped timer never counts, a running one is never forgotten.
CountersFollowControl ==
    /\ ta_cnt_phi2 <=> cra.start /\ cra.input = "phi2"
    /\ tb_cnt_phi2 <=> crb.start /\ crb.input = "phi2"
    /\ tb_cnt_ta <=> crb.start /\ crb.input = "ta"

\* A source that is pending and enabled has raised bit 7, in whichever order it
\* became pending and enabled; so an interrupt that came too early is not lost.
PendingIsRaised == icr \cap int_mask # {} => ir

\* Bit 7 of ICR and the CPU's line rise and fall together: a program that
\* acknowledges by reading ICR can neither miss an interrupt nor be interrupted
\* for nothing.  (A reset clears the chip and the CPU at different times.)
LineFollowsIcr == ~resetting => (line <=> ir)

\* A timer only interrupts while it runs: the source ta or tb comes up in ICR
\* only by an underflow of a started timer, and a one-shot timer is stopped by it.
OneShotStops ==
    [][/\ "ta" \in icr' \ icr => cra.start /\ (cra.oneshot => ~ta_cnt_phi2')
       /\ "tb" \in icr' \ icr => crb.start
             /\ (crb.oneshot => ~tb_cnt_phi2' /\ ~tb_cnt_ta')]_vars

\* A timer A that is left running interrupts in the end, whatever its latch and
\* the cycles of a line are, although it may never be exactly zero.
RunningTimerFires == <>[]ta_cnt_phi2 => <>("ta" \in icr)
=============================================================================
