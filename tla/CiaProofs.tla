----------------------------- MODULE CiaProofs -----------------------------
(***************************************************************************)
(* Proofs about Cia for every width of the timers, every number of cycles  *)
(* per line and every value of the latches; that a chip with its clock is  *)
(* such a Cia; that its clock steps through the day; and that such a CIA   *)
(* beside the processor is one of those that CpuInterrupts speaks of.      *)
(***************************************************************************)
EXTENDS CiaChip, TLAPS

\* The invariant falls into two halves, each of which is kept by itself: the timers
\* with what makes them count, ...
Timers ==
    /\ ta \in 0 .. MaxTimer /\ tb \in 0 .. MaxTimer
    /\ latcha \in 0 .. MaxTimer /\ latchb \in 0 .. MaxTimer
    /\ cra \in ControlA /\ crb \in ControlB
    /\ ta_cnt_phi2 \in BOOLEAN /\ tb_cnt_phi2 \in BOOLEAN /\ tb_cnt_ta \in BOOLEAN
    /\ CountersFollowControl

\* ... and the interrupts.  With the hack the line and ICR do part, so that half is
\* only kept without it.
Interrupts ==
    /\ ir \in BOOLEAN /\ line \in BOOLEAN /\ resetting \in BOOLEAN
    /\ icr \subseteq Sources /\ int_mask \subseteq Sources
    /\ writes \in 0 .. MaxWrites
    /\ PendingIsRaised
    /\ ~CIAIRQHack => LineFollowsIcr

IInv == Timers /\ Interrupts

LEMMA InitIInv == Init => IInv
<1> SUFFICES ASSUME Init PROVE IInv
  OBVIOUS
<1> USE CiaAssumption DEF Init
<1>1. Stopped \in ControlA /\ Stopped \in ControlB
  BY DEF Stopped, ControlA, ControlB, Control
<1>2. CountersFollowControl
  BY DEF CountersFollowControl, Stopped
<1>3. Timers
  <2>1. 1 \in 0 .. MaxTimer /\ MaxTimer \in 0 .. MaxTimer
    OBVIOUS
  <2>2. /\ ta \in 0 .. MaxTimer /\ tb \in 0 .. MaxTimer
        /\ latcha \in 0 .. MaxTimer /\ latchb \in 0 .. MaxTimer
    BY <2>1
  <2>3. /\ cra \in ControlA /\ crb \in ControlB
        /\ ta_cnt_phi2 \in BOOLEAN /\ tb_cnt_phi2 \in BOOLEAN /\ tb_cnt_ta \in BOOLEAN
    BY <1>1
  <2> HIDE DEF Init
  <2> QED BY <1>2, <2>2, <2>3 DEF Timers
<1>4. Interrupts
  <2>1. PendingIsRaised /\ LineFollowsIcr
    BY DEF PendingIsRaised, LineFollowsIcr
  <2>2. /\ icr \subseteq Sources /\ int_mask \subseteq Sources
        /\ writes \in 0 .. MaxWrites
    OBVIOUS
  <2>3. ir \in BOOLEAN /\ line \in BOOLEAN /\ resetting \in BOOLEAN
    OBVIOUS
  <2> HIDE DEF Init
  <2> QED BY <2>1, <2>2, <2>3 DEF Interrupts
<1> QED BY <1>3, <1>4 DEF IInv

-----------------------------------------------------------------------------
(* The timers *)

\* A timer that is counted down without an underflow stays in its range.
LEMMA MinusInRange ==
    ASSUME NEW timer \in 0 .. MaxTimer, NEW n \in 0 .. timer
    PROVE  Minus(timer, n) = timer - n
<1>1. MaxTimer + 1 \in Nat /\ MaxTimer + 1 > 0
  BY CiaAssumption
<1>2. timer - n \in 0 .. MaxTimer
  BY CiaAssumption
<1>3. timer + MaxTimer + 1 - n = (MaxTimer + 1) + (timer - n)
  BY CiaAssumption
<1>4. ((MaxTimer + 1) + (timer - n)) % (MaxTimer + 1) = timer - n
  BY <1>1, <1>2, CiaAssumption
<1> QED BY <1>3, <1>4 DEF Minus

LEMMA CountTaStep ==
    ASSUME Timers, CountTa
    PROVE  /\ ta' \in 0 .. MaxTimer /\ cra' \in ControlA /\ ta_cnt_phi2' \in BOOLEAN
           /\ ta_cnt_phi2' <=> cra'.start /\ cra'.input = "phi2"
<1> USE CiaAssumption DEF Timers
<1>1. ta' \in 0 .. MaxTimer
  <2>1. CASE ~ta_cnt_phi2 \/ TaUnderflow
    BY <2>1 DEF CountTa, TaUnderflow
  <2>2. CASE ta_cnt_phi2 /\ ~TaUnderflow
    <3>1. CiaCycles \in 0 .. ta
      BY <2>2 DEF TaUnderflow, Underflows
    <3> QED BY <2>2, <3>1, MinusInRange DEF CountTa
  <2> QED BY <2>1, <2>2
<1>2. CASE TaUnderflow /\ cra.oneshot
  BY <1>1, <1>2 DEF CountTa, ControlA, Control
<1>3. CASE ~(TaUnderflow /\ cra.oneshot)
  BY <1>1, <1>3 DEF CountTa, CountersFollowControl
<1> QED BY <1>2, <1>3

LEMMA CountTbStep ==
    ASSUME Timers, CountTb
    PROVE  /\ tb' \in 0 .. MaxTimer /\ crb' \in ControlB
           /\ tb_cnt_phi2' \in BOOLEAN /\ tb_cnt_ta' \in BOOLEAN
           /\ tb_cnt_phi2' <=> crb'.start /\ crb'.input = "phi2"
           /\ tb_cnt_ta' <=> crb'.start /\ crb'.input = "ta"
<1> USE CiaAssumption DEF Timers
<1>1. tb' \in 0 .. MaxTimer
  <2>1. CASE TbUnderflow
    BY <2>1 DEF CountTb
  <2>2. CASE ~TbUnderflow /\ tb_cnt_phi2
    <3>1. CiaCycles \in 0 .. tb
      BY <2>2 DEF TbUnderflow, Underflows
    <3> QED BY <2>2, <3>1, MinusInRange DEF CountTb
  <2>3. CASE ~TbUnderflow /\ ~tb_cnt_phi2 /\ TaUnderflow /\ tb_cnt_ta
    <3>1. 1 \in 0 .. tb
      BY <2>3 DEF TbUnderflow
    <3> QED BY <2>3, <3>1, MinusInRange DEF CountTb
  <2>4. CASE ~TbUnderflow /\ ~tb_cnt_phi2 /\ ~(TaUnderflow /\ tb_cnt_ta)
    BY <2>4 DEF CountTb
  <2> QED BY <2>1, <2>2, <2>3, <2>4
<1>2. CASE TbUnderflow /\ crb.oneshot
  BY <1>1, <1>2 DEF CountTb, ControlB, Control
<1>3. CASE ~(TbUnderflow /\ crb.oneshot)
  BY <1>1, <1>3 DEF CountTb, CountersFollowControl
<1> QED BY <1>2, <1>3

LEMMA CountLineStep ==
    ASSUME Timers, CountLine
    PROVE  Timers'
<1>1. CountTa /\ CountTb /\ UNCHANGED <<latcha, latchb>>
  BY DEF CountLine
<1> QED BY <1>1, CountTaStep, CountTbStep DEF Timers, CountersFollowControl

LEMMA WriteTimerStep ==
    ASSUME Timers, NEW value \in Latches, NEW high \in BOOLEAN,
           WriteLatchA(value, high) \/ WriteLatchB(value, high)
    PROVE  Timers'
<1> USE CiaAssumption DEF Timers
<1>1. value \in 0 .. MaxTimer
  OBVIOUS
<1>2. CASE WriteLatchA(value, high)
  BY <1>1, <1>2 DEF WriteLatchA, timerB, CountersFollowControl
<1>3. CASE WriteLatchB(value, high)
  BY <1>1, <1>3 DEF WriteLatchB, timerA, CountersFollowControl
<1> QED BY <1>2, <1>3

LEMMA WriteControlStep ==
    ASSUME Timers, NEW force \in BOOLEAN,
           \/ \E control \in ControlA : WriteCra(control, force)
           \/ \E control \in ControlB : WriteCrb(control, force)
    PROVE  Timers'
<1>1. ASSUME NEW control \in ControlA, WriteCra(control, force) PROVE Timers'
  <2>1. /\ cra' = control /\ (ta_cnt_phi2' <=> control.start /\ control.input = "phi2")
        /\ ta' \in {ta, latcha} /\ ta_cnt_phi2' \in BOOLEAN
        /\ UNCHANGED <<latcha, tb, latchb, crb, tb_cnt_phi2, tb_cnt_ta>>
    BY <1>1 DEF WriteCra, timerB
  <2> QED BY <2>1 DEF Timers, CountersFollowControl
<1>2. ASSUME NEW control \in ControlB, WriteCrb(control, force) PROVE Timers'
  <2>1. /\ crb' = control /\ (tb_cnt_phi2' <=> control.start /\ control.input = "phi2")
        /\ (tb_cnt_ta' <=> control.start /\ control.input = "ta")
        /\ tb' \in {tb, latchb} /\ tb_cnt_phi2' \in BOOLEAN /\ tb_cnt_ta' \in BOOLEAN
        /\ UNCHANGED <<latchb, ta, latcha, cra, ta_cnt_phi2>>
    BY <1>2 DEF WriteCrb, timerA
  <2> QED BY <2>1 DEF Timers, CountersFollowControl
<1> QED BY <1>1, <1>2

LEMMA TimersStep == Timers /\ [Next]_vars => Timers'
<1> SUFFICES ASSUME Timers, [Next]_vars PROVE Timers'
  OBVIOUS
<1>1. CASE EmulateLine
  BY <1>1, CountLineStep DEF EmulateLine
<1>2. CASE ResetRegisters
  <2>1. Stopped \in ControlA /\ Stopped \in ControlB
    BY DEF Stopped, ControlA, ControlB, Control
  <2>2. CountersFollowControl'
    BY <1>2 DEF ResetRegisters, CountersFollowControl, Stopped
  <2>3. 1 \in 0 .. MaxTimer /\ MaxTimer \in 0 .. MaxTimer
    BY CiaAssumption
  <2>4. /\ ta' = MaxTimer /\ tb' = MaxTimer /\ latcha' = 1 /\ latchb' = 1
        /\ cra' = Stopped /\ crb' = Stopped
    BY <1>2 DEF ResetRegisters
  <2>5. ta_cnt_phi2' \in BOOLEAN /\ tb_cnt_phi2' \in BOOLEAN /\ tb_cnt_ta' \in BOOLEAN
    BY <1>2 DEF ResetRegisters
  <2> QED BY <2>1, <2>2, <2>3, <2>4, <2>5 DEF Timers
<1>3. CASE \E value \in Latches, high \in BOOLEAN :
             WriteLatchA(value, high) \/ WriteLatchB(value, high)
  BY <1>3, WriteTimerStep
<1>4. CASE \E force \in BOOLEAN :
             \/ \E control \in ControlA : WriteCra(control, force)
             \/ \E control \in ControlB : WriteCrb(control, force)
  BY <1>4, WriteControlStep
<1>5. CASE UNCHANGED <<timerA, timerB>>
  BY <1>5 DEF timerA, timerB, Timers, CountersFollowControl
<1>6. \/ EmulateLine \/ ResetRegisters
      \/ \E value \in Latches, high \in BOOLEAN :
            WriteLatchA(value, high) \/ WriteLatchB(value, high)
      \/ \E force \in BOOLEAN :
            \/ \E control \in ControlA : WriteCra(control, force)
            \/ \E control \in ControlB : WriteCrb(control, force)
      \/ UNCHANGED <<timerA, timerB>>
  BY DEF Next, Program, Alarm, ReadIcr, WriteSdr, Enable, Disable, Reset, IllegalOpcode,
         CpuReset, AccessElsewhere, vars
<1> QED BY <1>1, <1>2, <1>3, <1>4, <1>5, <1>6

-----------------------------------------------------------------------------
(* The interrupts *)

LEMMA TriggerStep ==
    ASSUME Interrupts, NEW sources \in SUBSET Sources, TriggerInterrupt(sources),
           UNCHANGED <<int_mask, resetting>>, writes' \in 0 .. MaxWrites
    PROVE  Interrupts'
<1>1. CASE sources \cap int_mask # {}
  BY <1>1 DEF TriggerInterrupt, Interrupts, PendingIsRaised, LineFollowsIcr
<1>2. CASE sources \cap int_mask = {}
  BY <1>2 DEF TriggerInterrupt, Interrupts, PendingIsRaised, LineFollowsIcr
<1> QED BY <1>1, <1>2

LEMMA EnableStep ==
    ASSUME Interrupts, NEW bits \in SUBSET Sources, Enable(bits)
    PROVE  Interrupts'
<1> DEFINE pending == IF CIAIRQHack THEN {} ELSE icr
<1>1. /\ int_mask' = int_mask \cup bits /\ icr' = pending
      /\ writes' \in 0 .. MaxWrites /\ UNCHANGED resetting
  BY CiaAssumption DEF Enable, Access, Interrupts
<1>2. CASE pending \cap int_mask' # {}
  <2>1. ir' = TRUE /\ line' = TRUE
    BY <1>2 DEF Enable
  <2> QED BY <1>1, <2>1 DEF Interrupts, PendingIsRaised, LineFollowsIcr
<1>3. CASE pending \cap int_mask' = {}
  <2>1. ir' = (ir /\ ~CIAIRQHack) /\ UNCHANGED line
    BY <1>3 DEF Enable
  <2> QED BY <1>1, <1>3, <2>1 DEF Interrupts, PendingIsRaised, LineFollowsIcr
<1> QED BY <1>2, <1>3

LEMMA DisableStep ==
    ASSUME Interrupts, NEW bits \in SUBSET Sources, Disable(bits)
    PROVE  Interrupts'
<1>1. writes' \in 0 .. MaxWrites
  BY CiaAssumption DEF Disable, Access, Interrupts
<1> QED BY <1>1, CiaAssumption
        DEF Disable, Interrupts, PendingIsRaised, LineFollowsIcr

LEMMA InterruptsStep == Interrupts /\ [Next]_vars => Interrupts'
<1> SUFFICES ASSUME Interrupts, [Next]_vars PROVE Interrupts'
  OBVIOUS
<1>1. Access => writes' \in 0 .. MaxWrites
  BY CiaAssumption DEF Access, Interrupts
<1>2. writes \in 0 .. MaxWrites
  BY DEF Interrupts
<1>3. CASE EmulateLine
  <2> DEFINE sources == (IF TaUnderflow THEN {"ta"} ELSE {})
                        \cup (IF TbUnderflow THEN {"tb"} ELSE {})
  <2>1. TriggerInterrupt(sources) /\ UNCHANGED <<int_mask, resetting, writes>>
    BY <1>3 DEF EmulateLine, CountLine
  <2>2. sources \in SUBSET Sources
    BY DEF Sources
  <2> HIDE DEF sources
  <2> QED BY <1>2, <2>1, <2>2, TriggerStep
<1>4. CASE Alarm
  BY <1>2, <1>4, TriggerStep DEF Alarm, Sources
<1>5. CASE WriteSdr
  BY <1>1, <1>5, TriggerStep DEF WriteSdr, Sources
<1>6. CASE ReadIcr
  BY <1>1, <1>6 DEF ReadIcr, Interrupts, PendingIsRaised, LineFollowsIcr
<1>7. CASE Reset \/ IllegalOpcode \/ CpuReset
  BY <1>1, <1>2, <1>7
     DEF Reset, IllegalOpcode, ResetRegisters, CpuReset, Interrupts, PendingIsRaised, LineFollowsIcr
<1>8. CASE \E source \in {"ta", "tb", "alarm"} : Enable({source}) \/ Disable({source})
  BY <1>8, EnableStep, DisableStep DEF Sources
<1>9. CASE UNCHANGED interrupts /\ (Access \/ UNCHANGED writes)
  BY <1>1, <1>9 DEF interrupts, Interrupts, PendingIsRaised, LineFollowsIcr
<1>10. \/ EmulateLine \/ Alarm \/ WriteSdr \/ ReadIcr \/ Reset \/ IllegalOpcode \/ CpuReset
       \/ \E source \in {"ta", "tb", "alarm"} : Enable({source}) \/ Disable({source})
       \/ UNCHANGED interrupts /\ (Access \/ UNCHANGED writes)
  BY DEF Next, Program, WriteLatchA, WriteLatchB, WriteCra, WriteCrb,
         AccessElsewhere, vars
<1> QED BY <1>3, <1>4, <1>5, <1>6, <1>7, <1>8, <1>9, <1>10

-----------------------------------------------------------------------------
\* The inductive invariant holds in every reachable state.
THEOREM CiaInvariant == Spec => []IInv
<1>1. IInv /\ [Next]_vars => IInv'
  BY TimersStep, InterruptsStep DEF IInv
<1> QED BY InitIInv, <1>1, PTL DEF Spec

\* Timers, latches and registers keep their types, the timers their width.
THEOREM CiaTypeOK == Spec => []TypeOK
<1>1. IInv => TypeOK
  BY DEF IInv, Timers, Interrupts, TypeOK
<1> QED BY CiaInvariant, <1>1, PTL

\* For every timer width and line length, what EmulateLine counts is what the
\* control registers say.
THEOREM CiaCountersFollowControl == Spec => []CountersFollowControl
<1>1. IInv => CountersFollowControl
  BY DEF IInv, Timers
<1> QED BY CiaInvariant, <1>1, PTL

\* In whichever order sources come up and are enabled, with the hack or without,
\* ICR says so when one of them is both.
THEOREM CiaPendingIsRaised == Spec => []PendingIsRaised
<1>1. IInv => PendingIsRaised
  BY DEF IInv, Interrupts
<1> QED BY CiaInvariant, <1>1, PTL

\* Without the hack the CPU's line is asserted exactly when ICR says so.
THEOREM CiaLineFollowsIcr ==
    ASSUME ~CIAIRQHack
    PROVE  Spec => []LineFollowsIcr
<1>1. IInv => LineFollowsIcr
  BY DEF IInv, Interrupts
<1> QED BY CiaInvariant, <1>1, PTL

\* A timer's source only comes up by an underflow of the running timer, which
\* stops it if it is one-shot.
THEOREM CiaOneShotStops == Spec => OneShotStops
<1> DEFINE Step ==
      /\ "ta" \in icr' \ icr => cra.start /\ (cra.oneshot => ~ta_cnt_phi2')
      /\ "tb" \in icr' \ icr => crb.start
            /\ (crb.oneshot => ~tb_cnt_phi2' /\ ~tb_cnt_ta')
<1>1. IInv /\ [Next]_vars => [Step]_vars
  <2> SUFFICES ASSUME IInv, [Next]_vars PROVE Step
    OBVIOUS
  <2>1. CASE EmulateLine
    <3>1. /\ CountTa /\ CountTb
          /\ icr' = icr \cup (IF TaUnderflow THEN {"ta"} ELSE {})
                        \cup (IF TbUnderflow THEN {"tb"} ELSE {})
      BY <2>1 DEF EmulateLine, CountLine, TriggerInterrupt
    <3>2. "ta" \in icr' \ icr => TaUnderflow
      BY <3>1
    <3>3. "tb" \in icr' \ icr => TbUnderflow
      BY <3>1
    <3>4. TaUnderflow => cra.start /\ (cra.oneshot => ~ta_cnt_phi2')
      BY <3>1 DEF TaUnderflow, CountTa, IInv, Timers, CountersFollowControl
    <3>5. TbUnderflow => crb.start /\ (crb.oneshot => ~tb_cnt_phi2' /\ ~tb_cnt_ta')
      BY <3>1 DEF TbUnderflow, CountTb, IInv, Timers, CountersFollowControl
    <3> QED BY <3>2, <3>3, <3>4, <3>5
  <2>2. CASE ~EmulateLine
    <3>1. "ta" \notin icr' \ icr /\ "tb" \notin icr' \ icr
      BY <2>2 DEF Next, Program, Alarm, ReadIcr, WriteSdr, Enable, Disable,
         Reset, IllegalOpcode, ResetRegisters, CpuReset,
         WriteLatchA, WriteLatchB, WriteCra, WriteCrb, TriggerInterrupt,
         AccessElsewhere, interrupts, vars
    <3> QED BY <3>1
  <2> QED BY <2>1, <2>2
<1> QED BY CiaInvariant, <1>1, PTL DEF Spec, OneShotStops

-----------------------------------------------------------------------------
\* With its clock, the alarm of which shares ICR, and a control register and a reset
\* that act on both, the chip does nothing that Cia does not allow: whatever is proved
\* of Cia holds of the whole chip.
THEOREM ChipImplementsCia == ChipSpec => Spec
<1>1. ChipInit => Init
  BY DEF ChipInit
<1>2. [ChipNext]_chip => [Next]_vars
  <2> SUFFICES ASSUME [ChipNext]_chip PROVE [Next]_vars
    OBVIOUS
  <2>1. CASE Line
    BY <2>1 DEF Line, Next
  <2>2. CASE VBlank
    BY <2>2 DEF VBlank, Next
  <2>3. CASE AccessClock
    BY <2>3 DEF AccessClock, Next, Program
  <2>4. CASE AccessCra
    <3>1. \E control \in ControlA, force \in BOOLEAN : WriteCra(control, force)
      BY <2>4 DEF AccessCra
    <3> QED BY <3>1 DEF Next, Program
  <2>5. CASE AccessOther
    BY <2>5 DEF AccessOther, Next, Program
  <2>6. CASE ResetChip \/ ResetCpu
    BY <2>6 DEF ResetChip, ResetCpu, Next
  <2>7. CASE UNCHANGED chip
    BY <2>7 DEF chip
  <2> QED BY <2>1, <2>2, <2>3, <2>4, <2>5, <2>6, <2>7 DEF ChipNext
<1> QED BY <1>1, <1>2, PTL DEF ChipSpec, Spec

-----------------------------------------------------------------------------
(* The clock *)

\* The divider and the frames since the last tick make up four at least, whatever the
\* frequency bit was when the divider was reloaded
DividerInv ==
    /\ tod_divider \in Nat /\ since \in Nat /\ frames \in Nat
    /\ tod_divider + since >= 4

LEMMA ClockInitDivider == ClockInit => DividerInv
BY DEF ClockInit, DividerInv

\* What the chip does to its clock
LEMMA ClockSteps ==
    ASSUME [ChipNext]_chip
    PROVE  \/ CountTOD
           \/ UNCHANGED frames /\ (ClockReset \/ UNCHANGED <<tod_divider, since>>)
BY DEF ChipNext, chip, Line, VBlank, AccessClock, AccessCra, AccessOther, ResetChip, ResetCpu,
       ReadTime, SetTime, SetAlarm, SetFrequency, ClockReset, clock

LEMMA DividerStep == DividerInv /\ [ChipNext]_chip => DividerInv'
<1> SUFFICES ASSUME DividerInv, [ChipNext]_chip PROVE DividerInv'
  OBVIOUS
<1>1. CASE CountTOD /\ tod_divider > 0
  BY <1>1 DEF CountTOD, Saturated, DividerInv
<1>2. CASE CountTOD /\ ~(tod_divider > 0)
  BY <1>2 DEF CountTOD, Divider, DividerInv
<1>3. CASE UNCHANGED frames /\ ClockReset
  BY <1>3 DEF ClockReset, DividerInv
<1>4. CASE UNCHANGED <<frames, tod_divider, since>>
  BY <1>4 DEF DividerInv
<1> QED BY <1>1, <1>2, <1>3, <1>4, ClockSteps

LEMMA LaterInTime ==
    ASSUME NEW t \in Time
    PROVE  Later(t) \in Time
<1>1. t.tenths \in 0 .. 15 /\ t.sec \in 0 .. 127 /\ t.min \in 0 .. 127 /\ t.hr \in 0 .. 255
  BY DEF Time
<1>2. \A b \in 0 .. 255 : BcdNext(b) \in Nat
  BY DEF BcdNext
<1>3. Hour(t.hr) \in 0 .. 255
  <2>1. t.hr % 32 \in 0 .. 31 /\ t.hr \div 128 \in 0 .. 1
    BY <1>1
  <2>2. BcdNext(t.hr % 32) \in Nat
    BY <1>2, <2>1
  <2> HIDE DEF BcdNext
  <2> QED BY <2>1, <2>2 DEF Hour
<1>4. Later(t) = [tenths |-> Later(t).tenths, sec |-> Later(t).sec,
                  min |-> Later(t).min, hr |-> Later(t).hr]
  BY DEF Later
<1>5. /\ Later(t).tenths \in 0 .. 15 /\ Later(t).sec \in 0 .. 127
      /\ Later(t).min \in 0 .. 127 /\ Later(t).hr \in 0 .. 255
  <2>1. BcdNext(t.sec) \in Nat /\ BcdNext(t.min) \in Nat
    BY <1>1, <1>2
  <2> QED BY <1>1, <1>3, <2>1 DEF Later
<1> QED BY <1>4, <1>5 DEF Time

\* The registers keep their widths, whatever they are set to
TodInTime == tod \in Time

LEMMA TodStaysInTime == ChipSpec => []TodInTime
<1>1. ClockInit => TodInTime
  BY DEF ClockInit, Midnight, Time, TodInTime
<1>2. TodInTime /\ [ChipNext]_chip => TodInTime'
  <2> SUFFICES ASSUME tod \in Time, [ChipNext]_chip PROVE tod' \in Time
    BY DEF TodInTime
  <2>1. tod' \in {tod, Later(tod), Midnight} \cup Times
    BY DEF ChipNext, chip, clock, Line, VBlank, AccessClock, AccessCra, AccessOther, ResetChip, ResetCpu,
           ReadTime, SetTime, SetAlarm, SetFrequency, ClockReset, CountTOD
  <2>2. Later(tod) \in Time
    BY LaterInTime
  <2>3. Midnight \in Time
    BY DEF Midnight, Time
  <2> QED BY <2>1, <2>2, <2>3, TimeOfDayAssumption
<1> QED BY <1>1, <1>2, PTL DEF ChipSpec, ChipInit

\* One more in packed BCD is one more: the digits stay digits, and 59 is followed by $60
LEMMA BcdNextCounts ==
    ASSUME NEW b \in 0 .. 95, b % 16 <= 9
    PROVE  /\ BcdNext(b) \in 0 .. 96 /\ BcdNext(b) % 16 <= 9
           /\ Bcd(BcdNext(b)) = Bcd(b) + 1 /\ Bcd(b) \in 0 .. 59
           /\ BcdNext(b) >= 96 <=> Bcd(b) = 59
BY DEF BcdNext, Bcd

\* The hours of a day, with the afternoon in bit 7
HourOf(hr) == Bcd(hr % 32) + IF hr >= 128 THEN 12 ELSE 0

LEMMA HourCounts ==
    ASSUME NEW hr \in 0 .. 255, hr % 16 <= 9, hr % 128 <= 17
    PROVE  /\ Hour(hr) \in 0 .. 255 /\ Hour(hr) % 16 <= 9 /\ Hour(hr) % 128 <= 17
           /\ HourOf(hr) \in 0 .. 23
           /\ HourOf(Hour(hr)) = IF HourOf(hr) = 23 THEN 0 ELSE HourOf(hr) + 1
<1>1. CASE hr < 128
  BY <1>1 DEF Hour, HourOf, BcdNext, Bcd
<1>2. CASE hr >= 128
  BY <1>2 DEF Hour, HourOf, BcdNext, Bcd
<1> QED BY <1>1, <1>2

\* A clock of tenths, seconds, minutes and hours, and its next tenth
LEMMA NextTenth ==
    ASSUME NEW d \in 0 .. 9, NEW s \in 0 .. 59, NEW m \in 0 .. 59, NEW h \in 0 .. 23,
           NEW e \in Nat, e = d + 10 * (s + 60 * (m + 60 * h))
    PROVE  (e + 1) % TenthsOfDay =
           IF d < 9 THEN (d + 1) + 10 * (s + 60 * (m + 60 * h))
           ELSE IF s < 59 THEN 10 * ((s + 1) + 60 * (m + 60 * h))
           ELSE IF m < 59 THEN 10 * (60 * ((m + 1) + 60 * h))
           ELSE IF h < 23 THEN 10 * (60 * (60 * (h + 1)))
           ELSE 0
<1>1. e + 1 \in 1 .. TenthsOfDay /\ TenthsOfDay \in Nat \ {0}
      /\ (e + 1 = TenthsOfDay <=> d = 9 /\ s = 59 /\ m = 59 /\ h = 23)
  <2>1. TenthsOfDay = 10 + 10 * (59 + 60 * (59 + 60 * 23))
    BY SMT DEF TenthsOfDay
  <2> DEFINE k == m + 60 * h
             l == s + 60 * k
  <2>2. k \in Nat /\ k <= 59 + 60 * 23 /\ (k = 59 + 60 * 23 <=> m = 59 /\ h = 23)
    BY SMT
  <2> HIDE DEF k
  <2>3. /\ l \in Nat /\ l <= 59 + 60 * (59 + 60 * 23)
        /\ l = 59 + 60 * (59 + 60 * 23) <=> s = 59 /\ k = 59 + 60 * 23
    BY <2>2, SMT
  <2>4. e = d + 10 * l
    BY SMT DEF k, l
  <2> DEFINE last == 59 + 60 * (59 + 60 * 23)
  <2>5. last \in Nat /\ TenthsOfDay = 10 + 10 * last /\ l <= last
        /\ (l = last <=> s = 59 /\ m = 59 /\ h = 23)
    BY <2>1, <2>2, <2>3, SMT
  <2> HIDE DEF l, last
  <2>6. TenthsOfDay \in Nat /\ e + 1 >= 1 /\ e + 1 <= TenthsOfDay
    BY <2>3, <2>4, <2>5, SMT
  <2>7. e + 1 = TenthsOfDay <=> d = 9 /\ l = last
    BY <2>3, <2>4, <2>5, SMT
  <2> QED BY <2>5, <2>6, <2>7, SMT
<1>2. (e + 1) % TenthsOfDay = IF e + 1 = TenthsOfDay THEN 0 ELSE e + 1
  BY <1>1, SMT
<1> QED BY <1>1, <1>2, SMT

\* From a proper time, a tenth later is the next tenth of the day
LEMMA LaterCounts ==
    ASSUME NEW t \in Time, Proper(t)
    PROVE  Proper(Later(t)) /\ Elapsed(Later(t)) = (Elapsed(t) + 1) % TenthsOfDay
<1>1. /\ t.tenths \in 0 .. 9
      /\ t.sec \in 0 .. 95 /\ t.sec % 16 <= 9 /\ t.min \in 0 .. 95 /\ t.min % 16 <= 9
      /\ t.hr \in 0 .. 255 /\ t.hr % 16 <= 9 /\ t.hr % 128 <= 17
  BY DEF Time, Proper
<1> DEFINE sec == BcdNext(t.sec)
           min == BcdNext(t.min)
           hour == Hour(t.hr)
<1>2. /\ sec \in 0 .. 96 /\ sec % 16 <= 9
      /\ Bcd(sec) = Bcd(t.sec) + 1 /\ Bcd(t.sec) \in 0 .. 59 /\ (sec >= 96 <=> Bcd(t.sec) = 59)
  BY <1>1, BcdNextCounts
<1>3. /\ min \in 0 .. 96 /\ min % 16 <= 9
      /\ Bcd(min) = Bcd(t.min) + 1 /\ Bcd(t.min) \in 0 .. 59 /\ (min >= 96 <=> Bcd(t.min) = 59)
  BY <1>1, BcdNextCounts
<1>4. /\ hour % 16 <= 9 /\ hour % 128 <= 17 /\ HourOf(t.hr) \in 0 .. 23
      /\ HourOf(hour) = IF HourOf(t.hr) = 23 THEN 0 ELSE HourOf(t.hr) + 1
  BY <1>1, HourCounts
<1>5. Bcd(0) = 0 /\ 0 % 16 = 0
  BY DEF Bcd
<1>6. \A u : Elapsed(u) = u.tenths + 10 * (Bcd(u.sec) + 60 * (Bcd(u.min) + 60 * HourOf(u.hr)))
  BY DEF Elapsed, HourOf
<1>7. Later(t) =
        [tenths |-> IF t.tenths = 9 THEN 0 ELSE t.tenths + 1,
         sec    |-> IF t.tenths = 9 /\ sec >= 96 THEN 0 ELSE IF t.tenths = 9 THEN sec ELSE t.sec,
         min    |-> IF t.tenths = 9 /\ sec >= 96 /\ min >= 96 THEN 0
                    ELSE IF t.tenths = 9 /\ sec >= 96 THEN min ELSE t.min,
         hr     |-> IF t.tenths = 9 /\ sec >= 96 /\ min >= 96 THEN hour ELSE t.hr]
  <2>1. t.tenths + 1 > 9 <=> t.tenths = 9
    BY <1>1
  <2> QED BY <2>1 DEF Later
<1> HIDE DEF sec, min, hour
<1>8. Proper(Later(t))
  BY <1>1, <1>2, <1>3, <1>4, <1>5, <1>7 DEF Proper
<1> DEFINE u == Later(t)
<1>9. /\ u.tenths = IF t.tenths = 9 THEN 0 ELSE t.tenths + 1
      /\ Bcd(u.sec) = IF t.tenths # 9 THEN Bcd(t.sec)
                      ELSE IF Bcd(t.sec) = 59 THEN 0 ELSE Bcd(t.sec) + 1
      /\ Bcd(u.min) = IF t.tenths # 9 \/ Bcd(t.sec) # 59 THEN Bcd(t.min)
                      ELSE IF Bcd(t.min) = 59 THEN 0 ELSE Bcd(t.min) + 1
      /\ HourOf(u.hr) = IF t.tenths # 9 \/ Bcd(t.sec) # 59 \/ Bcd(t.min) # 59 THEN HourOf(t.hr)
                        ELSE IF HourOf(t.hr) = 23 THEN 0 ELSE HourOf(t.hr) + 1
  BY <1>2, <1>3, <1>4, <1>5, <1>7
<1> DEFINE d == t.tenths
           s == Bcd(t.sec)
           m == Bcd(t.min)
           h == HourOf(t.hr)
<1>10. d \in 0 .. 9 /\ s \in 0 .. 59 /\ m \in 0 .. 59 /\ h \in 0 .. 23
  BY <1>1, <1>2, <1>3, <1>4
<1>11. Elapsed(t) = d + 10 * (s + 60 * (m + 60 * h))
  BY <1>6
<1>12. Elapsed(u) = u.tenths + 10 * (Bcd(u.sec) + 60 * (Bcd(u.min) + 60 * HourOf(u.hr)))
  BY <1>6
<1> HIDE DEF d, s, m, h, u
<1>13. Elapsed(u) = (Elapsed(t) + 1) % TenthsOfDay
  <2>1. (Elapsed(t) + 1) % TenthsOfDay =
           IF d < 9 THEN (d + 1) + 10 * (s + 60 * (m + 60 * h))
           ELSE IF s < 59 THEN 10 * ((s + 1) + 60 * (m + 60 * h))
           ELSE IF m < 59 THEN 10 * (60 * ((m + 1) + 60 * h))
           ELSE IF h < 23 THEN 10 * (60 * (60 * (h + 1)))
           ELSE 0
    <3>1. Elapsed(t) \in Nat
      BY <1>10, <1>11
    <3> QED BY <1>10, <1>11, <3>1, NextTenth
  <2>2. /\ u.tenths = IF d = 9 THEN 0 ELSE d + 1
        /\ Bcd(u.sec) = IF d # 9 THEN s ELSE IF s = 59 THEN 0 ELSE s + 1
        /\ Bcd(u.min) = IF d # 9 \/ s # 59 THEN m ELSE IF m = 59 THEN 0 ELSE m + 1
        /\ HourOf(u.hr) = IF d # 9 \/ s # 59 \/ m # 59 THEN h
                          ELSE IF h = 23 THEN 0 ELSE h + 1
    BY <1>9 DEF d, s, m, h
  <2> QED BY <1>10, <1>12, <2>1, <2>2
<1> QED BY <1>8, <1>13 DEF u

\* For every pattern of frequencies and every time the clock is set to, the registers
\* step like a clock, and never faster than once in five frames.
THEOREM ChipTicksLikeClock == ChipSpec => TicksLikeClock
<1> DEFINE Tick == frames' = frames + 1 /\ tod' # tod =>
                     /\ since >= 4
                     /\ Proper(tod) =>
                           Proper(tod') /\ Elapsed(tod') = (Elapsed(tod) + 1) % TenthsOfDay
<1>1. DividerInv /\ TodInTime /\ [ChipNext]_chip => [Tick]_clock
  <2> SUFFICES ASSUME DividerInv, tod \in Time, [ChipNext]_chip, frames' = frames + 1, tod' # tod
               PROVE  Tick
    BY DEF TodInTime
  <2>1. frames' # frames
    BY DEF DividerInv
  <2>2. CountTOD
    BY <2>1, ClockSteps
  <2>3. ~(tod_divider > 0) /\ tod' = Later(tod)
    BY <2>2 DEF CountTOD
  <2>4. since >= 4
    BY <2>3 DEF DividerInv
  <2> QED BY <2>3, <2>4, LaterCounts
<1>2. ChipSpec => []DividerInv
  BY ClockInitDivider, DividerStep, PTL DEF ChipSpec, ChipInit
<1> QED BY <1>1, <1>2, TodStaysInTime, PTL DEF ChipSpec, TicksLikeClock

-----------------------------------------------------------------------------
(* The CIA with the processor                                              *)
(*                                                                         *)
(* One CIA is the Cia of the theorems above, CIA 1 or CIA 2; the VIC, the  *)
(* other CIA and the processor are those of CpuInterrupts.                 *)

CONSTANTS
    Number,         \* which of the CIAs it is
    VicSources      \* the interrupt sources of the VIC

VARIABLES
    vicFlag, vicMaster, vicMask,
    other,          \* the registers of the other CIA
    entries,        \* interrupt.intr without what this CIA asserts
    nmi_input,      \* nmi_state, unless this CIA is the one that drives it
    i_flag, pc,
    launch,         \* the progress of a reset on the UI thread
    ignored

outside == <<vicFlag, vicMaster, vicMask, other, nmi_input, i_flag, pc, launch>>
system == <<vars, outside, entries, ignored>>

\* A register of both CIAs
Both(mine, others) == [c \in {1, 2} |-> IF c = Number THEN mine ELSE others]

Irq == INSTANCE CpuInterrupts WITH
    Sources <- VicSources, CiaSources <- Sources, Saved <- {},
    icr <- Both(icr, other.icr), ir <- Both(ir, other.ir),
    int_mask <- Both(int_mask, other.int_mask),
    intr <- entries \cup (IF Number = 1 /\ line THEN {"CIAIRQ"} ELSE {}),
    nmi_state <- IF Number = 2 THEN line ELSE nmi_input,
    resetting <- launch

Own == Number = 1 => "CIAIRQ" \notin entries

SystemInit ==
    /\ Init
    /\ vicFlag = {} /\ vicMaster = FALSE /\ vicMask = {}
    /\ other = [icr |-> {}, ir |-> FALSE, int_mask |-> {}]
    /\ entries = {} /\ nmi_input = FALSE /\ i_flag = TRUE
    /\ pc = "chips" /\ launch = 0 /\ ignored = {}

\* The line of CIA 1 is an entry, an edge of CIA 2's is an NMI
Edge == entries' = IF Number = 2 /\ line' /\ ~line THEN entries \cup {"NMI"} ELSE entries

\* The CIA by itself: between two lines its timers and its clock, in the line the program
ChipStep ==
    /\ \/ pc = "chips" /\ (EmulateLine \/ Alarm)
       \/ pc = "run" /\ Program
    /\ Edge
    /\ ignored' = IF ReadIcr THEN ignored \ {Number} ELSE ignored
    /\ UNCHANGED outside

\* The chip is reset on either thread, alone or with the processor
ResetStep ==
    \/ Reset /\ (Irq!Reset \/ (launch = Number /\ Irq!ResetCia))
    \/ IllegalOpcode /\ Irq!IllegalOpcode
    \/ CpuReset /\ Irq!TakeReset /\ Irq!BeginLine

\* Everything else leaves it alone
OtherStep == UNCHANGED vars /\ Irq!Next

SystemSpec ==
    SystemInit /\ [][ChipStep \/ ((ResetStep \/ OtherStep) /\ Own')]_system

LEMMA BothUpdates ==
    ASSUME Number \in {1, 2}, NEW a, NEW b, NEW o
    PROVE  /\ [Both(a, o) EXCEPT ![Number] = b] = Both(b, o)
           /\ Both(a, o)[Number] = a
BY DEF Both

\* The line goes up where TriggerCIAIRQ or TriggerNMI puts it up
LEMMA RaiseIsRaise ==
    ASSUME Number \in {1, 2}, line \in BOOLEAN, line' = TRUE, Edge, UNCHANGED outside
    PROVE  Irq!RaiseCia(Number)
<1>1. CASE Number = 1
  <2>1. entries' = entries /\ nmi_input' = nmi_input
    BY <1>1 DEF Edge, outside
  <2>. QED  BY <1>1, <2>1 DEF Irq!RaiseCia
<1>2. CASE Number = 2
  <2>1. entries' = IF line THEN entries ELSE entries \cup {"NMI"}
    BY <1>2 DEF Edge
  <2>. QED  BY <1>2, <2>1 DEF Irq!RaiseCia, Irq!TriggerNMI
<1>. QED  BY <1>1, <1>2

\* TriggerInterrupt is what CpuInterrupts takes it for
LEMMA TriggerIsEvent ==
    ASSUME Number \in {1, 2}, line \in BOOLEAN, NEW sources \in SUBSET Sources,
           pc \in {"chips", "run"},
           TriggerInterrupt(sources), UNCHANGED int_mask, Edge,
           UNCHANGED <<outside, ignored>>
    PROVE  Irq!Next
<1>1. Both(icr, other.icr)' = [Both(icr, other.icr) EXCEPT ![Number] = @ \cup sources]
  BY BothUpdates DEF TriggerInterrupt, outside, Both
<1>2. Both(int_mask, other.int_mask)[Number] = int_mask
  BY BothUpdates
<1>3. Irq!CiaEvent(Number, sources)
  <2>1. UNCHANGED <<vicFlag, vicMaster, vicMask, Both(int_mask, other.int_mask), i_flag, pc, launch, ignored>>
    BY DEF outside, Both
  <2>2. CASE sources \cap int_mask # {}
    <3>1. ir' = TRUE /\ line' = TRUE
      BY <2>2 DEF TriggerInterrupt
    <3>2. Both(ir, other.ir)' = [Both(ir, other.ir) EXCEPT ![Number] = TRUE]
      BY <3>1 DEF outside, Both
    <3>3. Irq!RaiseCia(Number)
      BY <3>1, RaiseIsRaise
    <3>. QED  BY <1>1, <1>2, <2>1, <2>2, <3>2, <3>3 DEF Irq!CiaEvent, Irq!vic, Irq!resets
  <2>3. CASE sources \cap int_mask = {}
    <3>1. UNCHANGED <<ir, line>>
      BY <2>3 DEF TriggerInterrupt
    <3>2. entries' = entries
      BY <3>1 DEF Edge
    <3>. QED  BY <1>1, <1>2, <2>1, <2>3, <3>1, <3>2
              DEF Irq!CiaEvent, Irq!vic, Irq!resets, Both, outside
  <2>. QED  BY <2>2, <2>3
<1>. QED  BY <1>3 DEF Irq!Next

LEMMA ReadIsRead ==
    ASSUME Number \in {1, 2}, Own, pc = "run", ReadIcr, Edge,
           ignored' = ignored \ {Number}, UNCHANGED outside
    PROVE  Irq!Next
<1>1. icr' = {} /\ ir' = FALSE /\ line' = FALSE /\ int_mask' = int_mask /\ entries' = entries
  BY DEF ReadIcr, Edge
<1>2. /\ Both(icr, other.icr)' = [Both(icr, other.icr) EXCEPT ![Number] = {}]
      /\ Both(ir, other.ir)' = [Both(ir, other.ir) EXCEPT ![Number] = FALSE]
      /\ Both(int_mask, other.int_mask)' = Both(int_mask, other.int_mask)
  BY <1>1 DEF Both, outside
<1>3. Irq!ReadIcr(Number)
  <2>1. CASE Number = 1
    <3>1. entries' \cup {} = (entries \cup (IF line THEN {"CIAIRQ"} ELSE {})) \ {"CIAIRQ"}
      BY <1>1, <2>1 DEF Own
    <3>. QED  BY <1>1, <1>2, <2>1, <3>1 DEF Irq!ReadIcr, Irq!vic, outside
  <2>2. CASE Number = 2
    BY <1>1, <1>2, <2>2 DEF Irq!ReadIcr, Irq!vic, outside
  <2>. QED  BY <2>1, <2>2
<1>. QED  BY <1>3 DEF Irq!Next, Irq!Instruction

LEMMA EnableIsEnable ==
    ASSUME Number \in {1, 2}, ~CIAIRQHack, Interrupts, pc = "run",
           NEW source \in Sources, Enable({source}), Edge, UNCHANGED <<outside, ignored>>
    PROVE  Irq!Next
<1>1. /\ int_mask' = int_mask \cup {source} /\ icr' = icr
      /\ IF icr \cap int_mask' # {} THEN ir' = TRUE /\ line' = TRUE
                                    ELSE ir' = ir /\ line' = line
  BY DEF Enable, Interrupts
<1>2. /\ Both(int_mask, other.int_mask)'
           = [Both(int_mask, other.int_mask) EXCEPT ![Number] = @ \cup {source}]
      /\ Both(icr, other.icr)' = Both(icr, other.icr)
      /\ Both(icr, other.icr)[Number] = icr /\ Both(int_mask, other.int_mask)'[Number] = int_mask'
  BY <1>1 DEF Both, outside
<1>3. CASE icr \cap int_mask' # {}
  <2>1. ir' = TRUE /\ line' = TRUE
    BY <1>1, <1>3
  <2>2. Both(ir, other.ir)' = [Both(ir, other.ir) EXCEPT ![Number] = TRUE]
    BY <2>1 DEF outside, Both
  <2>3. Irq!RaiseCia(Number)
    BY <2>1, RaiseIsRaise DEF Interrupts
  <2>4. UNCHANGED <<vicFlag, vicMaster, vicMask, Both(icr, other.icr), i_flag, pc, launch, ignored>>
    BY <1>2 DEF outside
  <2>5. Both(icr, other.icr)[Number] \cap Both(int_mask, other.int_mask)'[Number] # {}
    BY <1>2, <1>3
  <2>6. Irq!EnableCia(Number, source)
    BY <1>2, <2>2, <2>3, <2>4, <2>5 DEF Irq!EnableCia, Irq!vic, Irq!resets
  <2>. QED  BY <2>6 DEF Irq!Next, Irq!Instruction
<1>4. CASE icr \cap int_mask' = {}
  <2>1. ir' = ir /\ line' = line /\ entries' = entries
    BY <1>1, <1>4 DEF Edge
  <2>2. Both(ir, other.ir)' = Both(ir, other.ir)
    BY <2>1 DEF outside, Both
  <2>3. Irq!EnableCia(Number, source)
    BY <1>2, <1>4, <2>1, <2>2 DEF Irq!EnableCia, Irq!vic, Irq!resets, outside
  <2>. QED  BY <2>3 DEF Irq!Next, Irq!Instruction
<1>. QED  BY <1>3, <1>4

LEMMA DisableIsDisable ==
    ASSUME Number \in {1, 2}, ~CIAIRQHack, Interrupts, pc = "run",
           NEW source \in Sources, Disable({source}), Edge, UNCHANGED <<outside, ignored>>
    PROVE  Irq!Next
<1>1. int_mask' = int_mask \ {source} /\ icr' = icr /\ ir' = ir /\ line' = line /\ entries' = entries
  BY DEF Disable, Interrupts, Edge
<1>2. /\ Both(int_mask, other.int_mask)'
           = [Both(int_mask, other.int_mask) EXCEPT ![Number] = @ \ {source}]
      /\ UNCHANGED <<Both(icr, other.icr), Both(ir, other.ir)>>
  BY <1>1 DEF Both, outside
<1>3. Irq!DisableCia(Number, source)
  BY <1>1, <1>2 DEF Irq!DisableCia, Irq!vic, Irq!cpu, Irq!resets, outside
<1>. QED  BY <1>3 DEF Irq!Next, Irq!Instruction

\* What the program does to the timers and the ports is nothing to the processor
LEMMA StillIsStutter ==
    ASSUME Number \in {1, 2}, UNCHANGED interrupts, Edge, UNCHANGED <<outside, ignored>>
    PROVE  UNCHANGED Irq!vars
<1>1. UNCHANGED <<icr, ir, int_mask, line, entries>>
  BY DEF interrupts, Edge
<1>. QED  BY <1>1 DEF Irq!vars, Irq!vic, Irq!cia, Irq!cpu, Irq!resets, Both, outside

LEMMA ChipIsNext ==
    ASSUME Number \in {1, 2}, ~CIAIRQHack, Interrupts, Own, ChipStep
    PROVE  [Irq!Next]_(Irq!vars)
<1>1. UNCHANGED outside /\ Edge /\ line \in BOOLEAN
  BY DEF ChipStep, Interrupts
<1>2. CASE ReadIcr
  <2>1. pc = "run"
    BY <1>2 DEF ChipStep, ReadIcr, Access, EmulateLine, CountLine, Alarm, Interrupts
  <2>. QED  BY <1>1, <1>2, <2>1, ReadIsRead DEF ChipStep
<1>3. CASE ~ReadIcr
  <2>1. ignored' = ignored
    BY <1>3 DEF ChipStep
  <2>2. CASE pc = "chips" /\ EmulateLine
    <3> DEFINE sources == (IF TaUnderflow THEN {"ta"} ELSE {})
                          \cup (IF TbUnderflow THEN {"tb"} ELSE {})
    <3>1. TriggerInterrupt(sources) /\ UNCHANGED int_mask
      BY <2>2 DEF EmulateLine, CountLine
    <3>2. sources \in SUBSET Sources
      BY DEF Sources
    <3> HIDE DEF sources
    <3>. QED  BY <1>1, <2>1, <2>2, <3>1, <3>2, TriggerIsEvent
  <2>3. CASE pc = "chips" /\ Alarm
    BY <1>1, <2>1, <2>3, TriggerIsEvent DEF Alarm, Sources
  <2>4. CASE pc = "run" /\ WriteSdr
    BY <1>1, <2>1, <2>4, TriggerIsEvent DEF WriteSdr, Sources
  <2>5. ASSUME pc = "run", NEW source \in {"ta", "tb", "alarm"},
               Enable({source}) \/ Disable({source})
        PROVE  Irq!Next
    BY <1>1, <2>1, <2>5, EnableIsEnable, DisableIsDisable DEF Sources
  <2>6. CASE UNCHANGED interrupts
    BY <1>1, <2>1, <2>6, StillIsStutter
  <2>7. Program => \/ ReadIcr \/ WriteSdr \/ UNCHANGED interrupts
                   \/ \E source \in {"ta", "tb", "alarm"} : Enable({source}) \/ Disable({source})
    BY DEF Program, WriteLatchA, WriteLatchB, WriteCra, WriteCrb, AccessElsewhere
  <2>. QED  BY <1>3, <2>2, <2>3, <2>4, <2>5, <2>6, <2>7 DEF ChipStep
<1>. QED  BY <1>2, <1>3

\* The CIA of the system is the Cia of the theorems above
LEMMA SystemIsCia == SystemSpec => Spec
<1>1. SystemInit => Init
  BY DEF SystemInit
<1>2. ASSUME [ChipStep \/ ((ResetStep \/ OtherStep) /\ Own')]_system PROVE [Next]_vars
  BY <1>2 DEF ChipStep, ResetStep, OtherStep, Next, system
<1>. QED  BY <1>1, <1>2, PTL DEF SystemSpec, Spec

\* What CpuInterrupts says of a CIA's registers, its line and the program's accesses is
\* what Cia does with all its timers and its clock, be it CIA 1 or CIA 2: a system with such
\* a CIA is one of those of which no spurious interrupt and no stuck NMI are proved.
THEOREM CiaImplementsInterrupts ==
    ASSUME Number \in {1, 2}, ~CIAIRQHack
    PROVE  SystemSpec => Irq!Spec
<1>1. SystemInit => Irq!Init /\ Own
  <2>. SUFFICES ASSUME SystemInit PROVE Irq!Init /\ Own
    OBVIOUS
  <2>1. /\ icr = {} /\ ir = FALSE /\ int_mask = {} /\ line = FALSE
        /\ other.icr = {} /\ other.ir = FALSE /\ other.int_mask = {} /\ entries = {}
    BY DEF SystemInit, Init
  <2>2. /\ Both(icr, other.icr) = [c \in {1, 2} |-> {}]
        /\ Both(ir, other.ir) = [c \in {1, 2} |-> FALSE]
        /\ Both(int_mask, other.int_mask) = [c \in {1, 2} |-> {}]
    BY <2>1 DEF Both
  <2>3. /\ entries \cup (IF Number = 1 /\ line THEN {"CIAIRQ"} ELSE {}) = {}
        /\ (IF Number = 2 THEN line ELSE nmi_input) = FALSE
    BY <2>1 DEF SystemInit
  <2>4. Own
    BY <2>1 DEF Own
  <2>. QED  BY <2>2, <2>3, <2>4 DEF SystemInit, Irq!Init
<1>2. Own /\ [ChipStep \/ ((ResetStep \/ OtherStep) /\ Own')]_system => Own'
  <2>1. Own /\ ChipStep => Own'
    BY DEF Own, ChipStep, Edge
  <2>2. Own /\ UNCHANGED system => Own'
    BY DEF Own, system
  <2>. QED  BY <2>1, <2>2
<1>3. IInv /\ Own /\ [ChipStep \/ ((ResetStep \/ OtherStep) /\ Own')]_system => [Irq!Next]_(Irq!vars)
  <2>. SUFFICES ASSUME IInv, Own, [ChipStep \/ ((ResetStep \/ OtherStep) /\ Own')]_system
                PROVE  [Irq!Next]_(Irq!vars)
    OBVIOUS
  <2>1. CASE ChipStep
    BY <2>1, ChipIsNext DEF IInv
  <2>2. CASE ResetStep
    BY <2>2 DEF ResetStep, Irq!Next, Irq!Instruction
  <2>3. CASE OtherStep
    BY <2>3 DEF OtherStep
  <2>4. CASE UNCHANGED system
    BY <2>4 DEF system, vars, interrupts, outside, Irq!vars, Irq!vic, Irq!cia, Irq!cpu, Irq!resets, Both
  <2>. QED  BY <2>1, <2>2, <2>3, <2>4
<1>. QED  BY <1>1, <1>2, <1>3, SystemIsCia, CiaInvariant, PTL DEF SystemSpec, Irq!Spec
=============================================================================
