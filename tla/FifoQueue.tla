----------------------------- MODULE FifoQueue -----------------------------
(***************************************************************************)
(* What a user of the ring of RingQ.h relies on: a first-in first-out      *)
(* queue of at most Size elements, where a put is refused only when the    *)
(* queue is full and a get comes back empty-handed only when it is empty.  *)
(***************************************************************************)
EXTENDS Integers, Sequences

CONSTANTS Size, Elem

VARIABLES queue, last

Init ==
    /\ queue = << >>
    /\ last = [put |-> "none", get |-> "none"]

Put ==
    /\ Len(queue) < Size
    /\ \E e \in Elem : queue' = Append(queue, e)
    /\ last' = [last EXCEPT !.put = "ok"]

PutRefused ==
    /\ Len(queue) = Size
    /\ last' = [last EXCEPT !.put = "ENOMEM"]
    /\ UNCHANGED queue

Get ==
    /\ queue # << >>
    /\ queue' = Tail(queue)
    /\ last' = [last EXCEPT !.get = "ok"]

GetNothing ==
    /\ queue = << >>
    /\ last' = [last EXCEPT !.get = "NULL"]
    /\ UNCHANGED queue

Next == Put \/ PutRefused \/ Get \/ GetNothing

Spec == Init /\ [][Next]_<<queue, last>>
=============================================================================
