----------------------------- MODULE MCCiaChip -----------------------------
(* An instance for TLC: the clock is set shortly before each carry. *)
EXTENDS CiaChip

At(tenths, sec, min, hr) == [tenths |-> tenths, sec |-> sec, min |-> min, hr |-> hr]

\* A tenth before a carry into the tens of the seconds, the hours, their tens, noon
\* and midnight; in BCD, with hours of 0 to 11 and bit 7 for the afternoon
CarryTimes ==
    {At(9, 9, 0, 0), At(9, 89, 9, 8), At(9, 89, 89, 9), At(9, 89, 89, 17),
     At(9, 89, 89, 128 + 17)}
=============================================================================
