-------------------------- MODULE MCCpuInterrupts --------------------------
(* An instance for TLC: a snapshot with an NMI taken and two interrupts pending. *)
EXTENDS CpuInterrupts

CONSTANTS s1, s2

\* One to be acknowledged and one to stay pending; a CIA is acknowledged as a whole
MCSources == {s1, s2}
MCCiaSources == {s1}

MCSaved ==
    {[vicFlag |-> {s1}, vicMaster |-> TRUE, vicMask |-> {s1},
      icr |-> [c \in {1, 2} |-> {s1}], ir |-> [c \in {1, 2} |-> TRUE],
      int_mask |-> [c \in {1, 2} |-> {s1}],
      intr |-> {"VICIRQ", "CIAIRQ"}, nmi_state |-> TRUE, i_flag |-> TRUE,
      ignored |-> {}]}
=============================================================================
