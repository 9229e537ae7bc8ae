------------------------------ MODULE CiaChip ------------------------------
(***************************************************************************)
(* A whole CIA except for its ports: the timers and the interrupt register *)
(* of Cia, and the clock of TimeOfDay, whose alarm is one of the sources.  *)
(* They share ICR, control register A (bit 7 is the clock's frequency) and *)
(* the reset.  The bound MaxWrites is on the accesses to all registers.    *)
(***************************************************************************)
EXTENDS Cia, TimeOfDay

chip == <<vars, clock>>

ChipInit == Init /\ ClockInit

\* CountTOD in the vertical blank: the clock goes on, and may ring
VBlank == CountTOD /\ IF Rings THEN Alarm ELSE UNCHANGED vars

\* Registers 0x08 to 0x0b
AccessClock ==
    /\ AccessElsewhere
    /\ \/ \E halt \in BOOLEAN : ReadTime(halt)
       \/ \E t \in Times : SetTime(t) \/ SetAlarm(t)

\* Register 0x0e
AccessCra ==
    \E control \in ControlA, force \in BOOLEAN, frequency \in BOOLEAN :
       WriteCra(control, force) /\ SetFrequency(frequency)

ResetChip == (Reset \/ IllegalOpcode) /\ ClockReset

\* Registers 0x04 to 0x07, 0x0c, 0x0d and 0x0f
AccessOther ==
    /\ UNCHANGED clock
    /\ \/ ReadIcr \/ WriteSdr
       \/ \E source \in {"ta", "tb", "alarm"} : Enable({source}) \/ Disable({source})
       \/ \E value \in Latches, high \in BOOLEAN :
             WriteLatchA(value, high) \/ WriteLatchB(value, high)
       \/ \E control \in ControlB, force \in BOOLEAN : WriteCrb(control, force)

Line == EmulateLine /\ UNCHANGED clock

ResetCpu == CpuReset /\ UNCHANGED clock

ChipNext ==
    \/ Line \/ VBlank \/ AccessClock \/ AccessCra \/ AccessOther
    \/ ResetChip \/ ResetCpu

\* Raster lines are emulated for ever, whatever the program does
ChipSpec == ChipInit /\ [][ChipNext]_chip /\ WF_chip(Line)
=============================================================================
