----------------------------- MODULE TimeOfDay -----------------------------
(***************************************************************************)
(* The time-of-day clock of a CIA: MOS6526::CountTOD, called once per      *)
(* frame, against a plain 24-hour clock.  The registers hold packed BCD;   *)
(* the hours register counts 0 to 11 with the afternoon in bit 7.  CiaChip *)
(* puts it together with the rest of the chip.                             *)
(***************************************************************************)
EXTENDS Naturals

CONSTANTS
    Times,          \* the times the program sets the clock to
    MaxFrames       \* bound: frames

VARIABLES
    tod,            \* tod_10ths, tod_sec, tod_min and tod_hr
    alm,            \* the alarm time
    tod_divider,    \* frames until the next tenth
    tod_halt,       \* the hours were read and the tenths not yet
    hz50,           \* bit 7 of CRA: the input is 50 Hz
    since,          \* history: frames since the last tick or reset, up to 6
    frames

clock == <<tod, alm, tod_divider, tod_halt, hz50, since, frames>>

Time == [tenths : 0 .. 15, sec : 0 .. 127, min : 0 .. 127, hr : 0 .. 255]
Midnight == [tenths |-> 0, sec |-> 0, min |-> 0, hr |-> 0]

ASSUME TimeOfDayAssumption ==
    /\ Times \subseteq Time
    /\ MaxFrames \in Nat

ClockInit ==
    /\ tod = Midnight /\ alm = Midnight
    /\ tod_divider = 0 /\ tod_halt = FALSE /\ hz50 = FALSE
    /\ since = 6 /\ frames = 0

-----------------------------------------------------------------------------
\* One more in packed BCD
BcdNext(byte) ==
    IF byte % 16 >= 9 THEN 16 * (byte \div 16 + 1) ELSE byte + 1

\* Broken variant: the afternoon flag is lost at twelve
HourForgetsPm(hr) ==
    LET next == BcdNext(hr % 32) IN
    IF next > 17 THEN (IF hr >= 128 THEN 128 ELSE 0) ELSE 128 * (hr \div 128) + next

\* Hours: bit 7 is kept, and flipped when the count exceeds $11
Hour(hr) ==
    LET next == BcdNext(hr % 32) IN
    IF next > 17 THEN (IF hr >= 128 THEN 0 ELSE 128) ELSE 128 * (hr \div 128) + next

\* A tenth later; each register carries into the next at its end.  Seconds and
\* minutes end when their tens exceed 5.
Later(t) ==
    LET sec == BcdNext(t.sec)
        min == BcdNext(t.min)
        tenthsCarry == t.tenths + 1 > 9
        secCarry    == tenthsCarry /\ sec >= 96
        minCarry    == secCarry /\ min >= 96
    IN [tenths |-> IF tenthsCarry THEN 0 ELSE t.tenths + 1,
        sec    |-> IF secCarry THEN 0 ELSE IF tenthsCarry THEN sec ELSE t.sec,
        min    |-> IF minCarry THEN 0 ELSE IF secCarry THEN min ELSE t.min,
        hr     |-> IF minCarry THEN Hour(t.hr) ELSE t.hr]

Saturated(n) == IF n < 6 THEN n + 1 ELSE 6

\* What the divider is reloaded with, at 50 and at 60 Hz
Divider == IF hz50 THEN 4 ELSE 5

\* CountTOD: every fifth or sixth frame
CountTOD ==
    /\ frames < MaxFrames /\ frames' = frames + 1
    /\ IF tod_divider > 0
       THEN /\ tod_divider' = tod_divider - 1
            /\ since' = Saturated(since)
            /\ UNCHANGED tod
       ELSE /\ tod_divider' = Divider
            /\ tod' = Later(tod)
            /\ since' = 0
    /\ UNCHANGED <<alm, tod_halt, hz50>>

\* CountTOD reaches the alarm time
Rings == tod_divider = 0 /\ Later(tod) = alm

-----------------------------------------------------------------------------
\* WriteRegister(0x08) to (0x0b) with bit 7 of CRB clear, or set for the alarm
SetTime(t) == tod' = t /\ UNCHANGED <<alm, tod_divider, tod_halt, hz50, since, frames>>
SetAlarm(t) == alm' = t /\ UNCHANGED <<tod, tod_divider, tod_halt, hz50, since, frames>>

\* WriteRegister(0x0e), bit 7
SetFrequency(bit) ==
    hz50' = bit /\ UNCHANGED <<tod, alm, tod_divider, tod_halt, since, frames>>

\* ReadRegister(0x0b) and (0x08): the hours first, the tenths last
ReadTime(halt) ==
    tod_halt' = halt /\ UNCHANGED <<tod, alm, tod_divider, hz50, since, frames>>

\* Reset: the clock and the alarm go back to midnight
ClockReset ==
    /\ tod' = Midnight /\ alm' = Midnight
    /\ tod_divider' = 0 /\ tod_halt' = FALSE /\ hz50' = FALSE
    /\ since' = 6
    /\ UNCHANGED frames

-----------------------------------------------------------------------------
ClockTypeOK ==
    /\ tod \in Time /\ alm \in Time
    /\ tod_divider \in 0 .. 5
    /\ {tod_halt, hz50} \subseteq BOOLEAN
    /\ since \in 0 .. 6
    /\ frames \in 0 .. MaxFrames

Bcd(byte) == (10 * (byte \div 16)) + (byte % 16)

\* Tenths of a second since midnight
Elapsed(t) ==
    t.tenths + 10 * (Bcd(t.sec) + 60 * (Bcd(t.min)
                     + 60 * (Bcd(t.hr % 32) + IF t.hr >= 128 THEN 12 ELSE 0)))

TenthsOfDay == 24 * 60 * 60 * 10

\* A time the registers can show
Proper(t) ==
    /\ t.tenths <= 9
    /\ t.sec % 16 <= 9 /\ t.sec < 96 /\ t.min % 16 <= 9 /\ t.min < 96
    /\ t.hr % 16 <= 9 /\ t.hr % 128 <= 17

\* The BCD registers step through the day as a clock does, through all carries and
\* over noon and midnight, and from a proper time to a proper time.  However the
\* program switches the frequency bit, four frames or more pass between two ticks, so
\* that the clock is never fast for a machine of 50 frames a second.
TicksLikeClock ==
    [][ frames' = frames + 1 /\ tod' # tod =>
        /\ since >= 4
        /\ Proper(tod) =>
              Proper(tod') /\ Elapsed(tod') = (Elapsed(tod) + 1) % TenthsOfDay ]_clock
=============================================================================
