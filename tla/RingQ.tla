------------------------------- MODULE RingQ -------------------------------
(***************************************************************************)
(* The lock-free ring of RingQ.h (struct tagRingQ), shared by exactly two  *)
(* threads: one that calls enqueue() and one that calls dequeue().         *)
(*                                                                         *)
(* A pointer is the index of the slot it points at, first is 0 and limit   *)
(* is Size + 1.  enqueue() and dequeue() are split where the other thread  *)
(* can see the difference: the slot is written (read) in one step and the  *)
(* pointer is moved in the next.  The memory is sequentially consistent.   *)
(***************************************************************************)
EXTENDS Integers, Sequences

CONSTANTS
    Size,       \* the argument of Allocate()
    Elem,       \* the q_elements that may be stored
    NoElem      \* what a slot holds before anything was stored in it

ASSUME SizeAssumption == Size \in Nat \ {0}
ASSUME NoElemAssumption == NoElem \notin Elem

VARIABLES
    slot,       \* first[0 .. Size]
    in,         \* next available slot
    out,        \* first element in queue
    putting,    \* the element enqueue() has stored but not yet published
    getting,    \* the element dequeue() has read but not yet removed
    last,       \* how the last completed call of each side ended
    queue       \* auxiliary: the elements published and not yet removed

ringVars == <<slot, in, out, putting, getting, last, queue>>

Slots == 0 .. Size

\* Broken variants of the definitions below: a step with no wrap at limit, and
\* one that wraps a slot too early
AfterNoWrap(i) == i + 1
AfterWrapsEarly(i) == IF i + 1 >= Size THEN 0 ELSE i + 1

\* next + 1, wrapped at limit
After(i) == IF i + 1 = Size + 1 THEN 0 ELSE i + 1

\* Broken variant: the correction is one too large instead of one too small
CountOverstates == IF in - out < 0 THEN Size + 2 + (in - out) ELSE in - out

\* count(): the distance from out to in; when it wraps, size is added, which
\* is one less than the number of slots
RingCount == IF in - out < 0 THEN Size + (in - out) ELSE in - out

Full  == After(in) = out
Empty == in = out

\* The constructor and Allocate(): Size + 1 slots, all three pointers at the first
RingInit ==
    /\ slot = [i \in Slots |-> NoElem]
    /\ in = 0
    /\ out = 0
    /\ putting = NoElem
    /\ getting = NoElem
    /\ last = [put |-> "none", get |-> "none"]
    /\ queue = << >>

-----------------------------------------------------------------------------
\* enqueue(): the ring is full and ENOMEM is returned
EnqueueFull ==
    /\ putting = NoElem
    /\ Full
    /\ last' = [last EXCEPT !.put = "ENOMEM"]
    /\ UNCHANGED <<slot, in, out, putting, getting, queue>>

\* enqueue(): room was seen, the element is stored in the free slot
EnqueueStore ==
    /\ putting = NoElem
    /\ ~Full
    /\ \E e \in Elem :
        /\ slot' = [slot EXCEPT ![in] = e]
        /\ putting' = e
    /\ UNCHANGED <<in, out, getting, last, queue>>

\* enqueue(): the in pointer moves and the element becomes visible
EnqueuePublish ==
    /\ putting # NoElem
    /\ in' = After(in)
    /\ queue' = Append(queue, putting)
    /\ putting' = NoElem
    /\ last' = [last EXCEPT !.put = "ok"]
    /\ UNCHANGED <<slot, out, getting>>

\* dequeue(): nothing to take and NULL is returned
DequeueEmpty ==
    /\ getting = NoElem
    /\ Empty
    /\ last' = [last EXCEPT !.get = "NULL"]
    /\ UNCHANGED <<slot, in, out, putting, getting, queue>>

\* dequeue(): the element at out is read
DequeueRead ==
    /\ getting = NoElem
    /\ ~Empty
    /\ getting' = slot[out]
    /\ UNCHANGED <<slot, in, out, putting, last, queue>>

\* dequeue(): the out pointer moves and the slot may be used again
DequeueRemove ==
    /\ getting # NoElem
    /\ out' = After(out)
    /\ queue' = Tail(queue)
    /\ getting' = NoElem
    /\ last' = [last EXCEPT !.get = "ok"]
    /\ UNCHANGED <<slot, in, putting>>

RingEnqueue == EnqueueFull \/ EnqueueStore \/ EnqueuePublish
RingDequeue == DequeueEmpty \/ DequeueRead \/ DequeueRemove

RingNext == RingEnqueue \/ RingDequeue

RingSpec == RingInit /\ [][RingNext]_ringVars

-----------------------------------------------------------------------------
RingTypeOK ==
    /\ slot \in [Slots -> Elem \cup {NoElem}]
    /\ in \in Slots
    /\ out \in Slots
    /\ putting \in Elem \cup {NoElem}
    /\ getting \in Elem \cup {NoElem}
    /\ last \in [put : {"none", "ok", "ENOMEM"}, get : {"none", "ok", "NULL"}]
    /\ queue \in Seq(Elem)

\* The number of slots between out and in, counted around the ring
Used == IF in - out < 0 THEN Size + 1 + (in - out) ELSE in - out

\* The i-th slot after out
SlotAt(i) == IF out + i > Size THEN out + i - (Size + 1) ELSE out + i

\* Part of the invariant of the proofs: the slots from out up to in hold exactly the
\* elements that were enqueued and not dequeued, oldest first: nothing is overwritten,
\* skipped or duplicated while the threads interleave inside enqueue() and dequeue().
Contents ==
    /\ Len(queue) = Used
    /\ \A i \in 1 .. Len(queue) : slot[SlotAt(i - 1)] = queue[i]

\* And: what dequeue() is about to return is the
\* oldest element in the ring, and the slot enqueue() has filled is not one the reader still has to read.
InFlight ==
    /\ getting # NoElem => queue # << >> /\ getting = Head(queue)
    /\ putting # NoElem => Len(queue) < Size /\ slot[in] = putting

\* count() never reports an element that is not there: a caller that saw a
\* positive count gets an element from dequeue(), not NULL.  (It may report
\* one too few: when in is below out it adds size, not the number of slots.)
CountIsSafe == RingCount \in {Len(queue), Len(queue) - 1} /\ RingCount >= 0

Fifo == INSTANCE FifoQueue

\* The ring implements the bounded FIFO queue: a refused enqueue() means the
\* queue was full, a NULL from dequeue() that it was empty.
ImplementsFifo == Fifo!Spec
=============================================================================
