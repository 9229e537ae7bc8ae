--------------------------- MODULE PauseProtocol ---------------------------
(***************************************************************************)
(* What the rest of the program relies on when it pauses the emulation:    *)
(* asking is only a request, the machine stops at a frame boundary, and    *)
(* once it has stopped it stays stopped until the request is withdrawn.    *)
(***************************************************************************)
VARIABLES
    asked,      \* the machine is asked to pause
    machine     \* "off", "running" or "held"

Init == asked = FALSE /\ machine = "off"

\* Pause and resume change the request, never the machine itself
Ask == asked' \in BOOLEAN /\ UNCHANGED machine

\* The machine starts running; a request made too early is forgotten
PowerOn == machine = "off" /\ machine' = "running" /\ asked' = FALSE

\* A running machine stops at the end of a frame when it is asked to
Hold == machine = "running" /\ asked /\ machine' = "held" /\ UNCHANGED asked

\* A held machine goes on only when it is no longer asked to pause
Go == machine = "held" /\ ~asked /\ machine' = "running" /\ UNCHANGED asked

Next == Ask \/ PowerOn \/ Hold \/ Go

vars == <<asked, machine>>

\* A request that stands is honoured, and so is its withdrawal
Spec == Init /\ [][Next]_vars /\ WF_vars(Hold) /\ WF_vars(Go)
=============================================================================
