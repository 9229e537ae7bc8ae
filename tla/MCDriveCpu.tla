----------------------------- MODULE MCDriveCpu -----------------------------
(* An instance for TLC: a disk of two tracks, one of them with two sectors. *)
EXTENDS DriveCpu

Tracks2 == <<2, 1>>

\* The second block has a byte in its GCR that looks like a SYNC
Plain  == <<1, 0, 75, 66>>
Tricky == <<21, 224, 7, 90>>
MCBlocks == {Tricky}

MCImage == [d \in Disks |-> [p \in Places |-> Plain]]

\* Asleep, with the job timer running, and in the middle of a transfer
Resting ==
    [Idle |-> TRUE, i_flag |-> FALSE, VIA2IRQ |-> FALSE, RESET |-> FALSE,
     work |-> FALSE, t1c |-> 1, t1l |-> 1, freerun |-> TRUE,
     ier |-> TRUE, prb |-> {}, ddrb |-> TRUE, ATN |-> TRUE,
     current_halftrack |-> 4, gcr_ptr |-> 0]
Working ==
    [Resting EXCEPT !.Idle = FALSE, !.i_flag = TRUE, !.VIA2IRQ = TRUE,
                    !.prb = {"data", "atna"}, !.ATN = FALSE, !.gcr_ptr = 11]
MCSaved == {Resting, Working}
MCIds == {<<1, 0>>}
MCPorts == {{"atna"}}
=============================================================================
