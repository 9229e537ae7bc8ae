-------------------------- MODULE SoundQueueProofs --------------------------
(***************************************************************************)
(* Proofs about RingQ, for every size of the ring and every set of         *)
(* elements: it implements FifoQueue.  And about SoundQueue, which is made *)
(* of such rings, for every number of fragments and of hardware buffers    *)
(* and for every pair of water marks.                                      *)
(***************************************************************************)
EXTENDS SoundQueue, RingQ, TLAPS

-----------------------------------------------------------------------------
(* The ring *)

\* The inductive invariant: each conjunct needs the others.  Contents says what
\* the slots hold, InFlight ties the half-done calls to it.
RingIInv == RingTypeOK /\ Contents /\ InFlight

-----------------------------------------------------------------------------
\* Moving one past a pointer stays inside first .. limit, and the slot one past
\* the i-th slot after out is the (i+1)-th.
LEMMA AfterInSlots ==
    ASSUME NEW i \in Slots
    PROVE  After(i) \in Slots /\ After(i) # i
BY SizeAssumption DEF After, Slots

\* The distance from out to in never exceeds Size, and the ring is empty and
\* full exactly when the distance is 0 and Size.
LEMMA UsedBounds ==
    ASSUME in \in Slots, out \in Slots
    PROVE  /\ Used \in 0 .. Size
           /\ Empty <=> Used = 0
           /\ Full <=> Used = Size
           /\ SlotAt(Used) = in
BY SizeAssumption DEF Used, Slots, Empty, Full, After, SlotAt

\* Different distances below the number of slots are different slots.
LEMMA SlotAtInjective ==
    ASSUME out \in Slots, NEW i \in 0 .. Size, NEW j \in 0 .. Size, i # j
    PROVE  SlotAt(i) \in Slots /\ SlotAt(i) # SlotAt(j)
BY SizeAssumption DEF SlotAt, Slots

-----------------------------------------------------------------------------
LEMMA RingStart == RingInit => RingIInv
<1> SUFFICES ASSUME RingInit PROVE RingIInv
  OBVIOUS
<1> USE SizeAssumption DEF RingInit
<1>1. RingTypeOK
  BY DEF RingTypeOK, Slots
<1>2. Contents
  BY DEF Contents, Used
<1>3. InFlight
  BY DEF InFlight
<1> QED BY <1>1, <1>2, <1>3 DEF RingIInv

\* enqueue() writes a slot that holds no published element.
LEMMA StoreStep ==
    ASSUME RingIInv, EnqueueStore
    PROVE  RingIInv'
<1> USE NoElemAssumption DEF RingIInv
<1>1. PICK e \in Elem : slot' = [slot EXCEPT ![in] = e] /\ putting' = e
  BY DEF EnqueueStore
<1>2. UNCHANGED <<in, out, getting, last, queue>> /\ ~Full
  BY DEF EnqueueStore
<1>3. RingTypeOK'
  BY <1>1, <1>2 DEF RingTypeOK
<1>4. Len(queue) = Used /\ Used \in 0 .. Size /\ Used # Size
  BY <1>2, UsedBounds DEF RingTypeOK, Contents
<1>5. Contents'
  <2>1. Len(queue') = Used'
    BY <1>2, <1>4 DEF Used
  <2>2. ASSUME NEW i \in 1 .. Len(queue)
        PROVE  slot'[SlotAt(i - 1)] = queue[i]
    <3>1. i - 1 \in 0 .. Size /\ i - 1 # Used /\ Used \in 0 .. Size
      BY <1>4, SizeAssumption DEF RingTypeOK
    <3>2. SlotAt(i - 1) \in Slots /\ SlotAt(i - 1) # SlotAt(Used)
      BY <3>1, SlotAtInjective DEF RingTypeOK
    <3>3. SlotAt(Used) = in
      BY UsedBounds DEF RingTypeOK
    <3> QED BY <1>1, <3>2, <3>3 DEF RingTypeOK, Contents
  <2>3. \A i \in 1 .. Len(queue') : slot'[SlotAt(i - 1)'] = queue'[i]
    BY <2>2, <1>2 DEF SlotAt
  <2> QED BY <2>1, <2>3 DEF Contents
<1>6. InFlight'
  BY <1>1, <1>2, <1>4, SizeAssumption DEF InFlight, RingTypeOK
<1> QED BY <1>3, <1>5, <1>6

\* Publishing makes the filled slot the last one of the contents.
LEMMA PublishStep ==
    ASSUME RingIInv, EnqueuePublish
    PROVE  RingIInv'
<1> USE NoElemAssumption, SizeAssumption DEF RingIInv
<1>1. /\ putting \in Elem /\ Len(queue) < Size /\ slot[in] = putting
      /\ in' = After(in) /\ queue' = Append(queue, putting) /\ putting' = NoElem
      /\ UNCHANGED <<slot, out, getting>>
  BY DEF EnqueuePublish, RingTypeOK, InFlight
<1>2. RingTypeOK'
  BY <1>1, AfterInSlots DEF RingTypeOK, EnqueuePublish
<1>3. Len(queue) = Used /\ Used' = Used + 1 /\ SlotAt(Used) = in
  BY <1>1, UsedBounds DEF RingTypeOK, Contents, Used, After, Slots
<1>4. Contents'
  <2>1. Len(queue') = Used'
    BY <1>1, <1>3 DEF RingTypeOK
  <2>2. ASSUME NEW i \in 1 .. Len(queue')
        PROVE  slot[SlotAt(i - 1)] = queue'[i]
    <3>1. CASE i = Len(queue) + 1
      BY <3>1, <1>1, <1>3 DEF RingTypeOK
    <3>2. CASE i \in 1 .. Len(queue)
      BY <3>2, <1>1 DEF RingTypeOK, Contents
    <3> QED BY <3>1, <3>2, <1>1 DEF RingTypeOK
  <2> QED BY <2>1, <2>2, <1>1 DEF Contents, SlotAt
<1>5. InFlight'
  BY <1>1 DEF InFlight, RingTypeOK
<1> QED BY <1>2, <1>4, <1>5

\* Removing takes the oldest element and leaves the others where they are.
LEMMA RemoveStep ==
    ASSUME RingIInv, DequeueRemove
    PROVE  RingIInv'
<1> USE NoElemAssumption, SizeAssumption DEF RingIInv
<1>1. /\ queue # << >> /\ getting = Head(queue) /\ out' = After(out)
      /\ queue' = Tail(queue) /\ getting' = NoElem
      /\ UNCHANGED <<slot, in, putting>>
  BY DEF DequeueRemove, InFlight
<1>2. RingTypeOK'
  BY <1>1, AfterInSlots DEF RingTypeOK, DequeueRemove
<1>3. Len(queue) = Used /\ Used \in 1 .. Size /\ Used' = Used - 1
  BY <1>1, UsedBounds DEF RingTypeOK, Contents, Used, After, Slots
<1>4. Contents'
  <2>1. Len(queue') = Used'
    BY <1>1, <1>3 DEF RingTypeOK
  <2>2. ASSUME NEW i \in 1 .. Len(queue')
        PROVE  slot'[SlotAt(i - 1)'] = queue'[i]
    <3>1. i + 1 \in 1 .. Len(queue) /\ queue'[i] = queue[i + 1]
      BY <1>1 DEF RingTypeOK
    <3>2. SlotAt(i - 1)' = SlotAt((i + 1) - 1)
      BY <1>1, <1>3, <3>1 DEF SlotAt, After, RingTypeOK, Slots
    <3> QED BY <1>1, <3>1, <3>2 DEF Contents
  <2> QED BY <2>1, <2>2 DEF Contents
<1>5. InFlight'
  BY <1>1 DEF InFlight, RingTypeOK
<1> QED BY <1>2, <1>4, <1>5

\* Every step of either thread keeps the invariant.
LEMMA RingStep == RingIInv /\ [RingNext]_ringVars => RingIInv'
<1> SUFFICES ASSUME RingIInv, [RingNext]_ringVars PROVE RingIInv'
  OBVIOUS
<1>1. CASE EnqueueFull
  BY <1>1 DEF RingIInv, EnqueueFull, RingTypeOK, Contents, InFlight, Used, SlotAt
<1>2. CASE EnqueueStore
  BY <1>2, StoreStep
<1>3. CASE EnqueuePublish
  BY <1>3, PublishStep
<1>4. CASE DequeueEmpty
  BY <1>4 DEF RingIInv, DequeueEmpty, RingTypeOK, Contents, InFlight, Used, SlotAt
<1>5. CASE DequeueRead
  <2>1. queue # << >> /\ slot[out] = queue[1]
    BY <1>5, UsedBounds, SizeAssumption
    DEF RingIInv, DequeueRead, RingTypeOK, Contents, SlotAt, Slots
  <2>2. getting' \in Elem /\ getting' = Head(queue)
    BY <1>5, <2>1 DEF RingIInv, RingTypeOK, DequeueRead
  <2> QED BY <1>5, <2>1, <2>2
      DEF RingIInv, DequeueRead, RingTypeOK, Contents, InFlight, Used, SlotAt
<1>6. CASE DequeueRemove
  BY <1>6, RemoveStep
<1>7. CASE UNCHANGED ringVars
  BY <1>7 DEF RingIInv, ringVars, RingTypeOK, Contents, InFlight, Used, SlotAt
<1> QED BY <1>1, <1>2, <1>3, <1>4, <1>5, <1>6, <1>7 DEF RingNext, RingEnqueue, RingDequeue

-----------------------------------------------------------------------------
\* The inductive invariant holds in every reachable state.
THEOREM RingInvariant == RingSpec => []RingIInv
BY RingStart, RingStep, PTL DEF RingSpec

\* For every ring size, the slots from out to in are exactly the elements that
\* were enqueued and not dequeued, in order, whatever the two threads do.
THEOREM RingContents == RingSpec => []Contents
<1>1. RingIInv => Contents
  BY DEF RingIInv
<1> QED BY RingInvariant, <1>1, PTL

\* For every ring size, count() is exact or one too low, and never negative.
THEOREM RingCountIsSafe == RingSpec => []CountIsSafe
<1>1. RingIInv => CountIsSafe
  BY SizeAssumption DEF RingIInv, RingTypeOK, Contents, CountIsSafe, RingCount, Used, Slots
<1> QED BY RingInvariant, <1>1, PTL

\* For every ring size, the ring is a bounded FIFO queue: elements come out in
\* the order they went in, a put is refused only at Size elements and a get
\* returns nothing only at none.
THEOREM RingImplementsFifo == RingSpec => ImplementsFifo
<1> USE NoElemAssumption, SizeAssumption
<1>1. RingInit => Fifo!Init
  BY DEF RingInit, Fifo!Init
<1>2. RingIInv /\ [RingNext]_ringVars => [Fifo!Next]_<<queue, last>>
  <2> SUFFICES ASSUME RingIInv, [RingNext]_ringVars PROVE [Fifo!Next]_<<queue, last>>
    OBVIOUS
  <2>1. CASE EnqueueFull
    <3>1. Len(queue) = Size
      BY <2>1, UsedBounds DEF EnqueueFull, RingIInv, RingTypeOK, Contents
    <3> QED BY <2>1, <3>1 DEF EnqueueFull, Fifo!Next, Fifo!PutRefused
  <2>2. CASE EnqueueStore
    BY <2>2 DEF EnqueueStore
  <2>3. CASE EnqueuePublish
    BY <2>3 DEF EnqueuePublish, RingIInv, RingTypeOK, InFlight, Fifo!Next, Fifo!Put
  <2>4. CASE DequeueEmpty
    <3>1. queue = << >>
      BY <2>4, UsedBounds DEF DequeueEmpty, RingIInv, RingTypeOK, Contents
    <3> QED BY <2>4, <3>1 DEF DequeueEmpty, Fifo!Next, Fifo!GetNothing
  <2>5. CASE DequeueRead
    BY <2>5 DEF DequeueRead
  <2>6. CASE DequeueRemove
    BY <2>6 DEF DequeueRemove, RingIInv, InFlight, Fifo!Next, Fifo!Get
  <2>7. CASE UNCHANGED ringVars
    BY <2>7 DEF ringVars
  <2> QED BY <2>1, <2>2, <2>3, <2>4, <2>5, <2>6, <2>7 DEF RingNext, RingEnqueue, RingDequeue
<1> QED BY <1>1, <1>2, RingInvariant, PTL DEF RingSpec, ImplementsFifo, Fifo!Spec

-----------------------------------------------------------------------------
(* The sound queue *)

\* A fragment is in a thread's hand only between the two list operations, and
\* the callback takes one only while its hardware buffer has room.
Hands ==
    /\ filling # None => vblank \in {"first", "extra", "crashed"}
    /\ copying # None => thread \in {"copy", "crashed"}
    /\ thread = "count" \/ copying # None => frames < FramesPerBuffer
    /\ thread = "crashed" => vblank = "crashed"

\* How much VBlank may still add to the sound list, at each place it can be at:
\* the reason why LatencyBounded survives the fragments in the loop
Room ==
    /\ Len(sound.items) <= LatencyBound
    /\ vblank = "first" => Len(sound.items) + InHand(filling) <= HiWater + 1
    /\ vblank = "more" => needed > 0 /\ Len(sound.items) + needed <= LatencyBound
    /\ vblank = "extra" =>
         Len(sound.items) + InHand(filling) + needed <= LatencyBound

IInv == /\ TypeOK /\ FragmentsConserved /\ Hands
        /\ SamplesTrackQueue /\ Room /\ CallbackHasData

-----------------------------------------------------------------------------
(* Its rings *)

\* enqueue() on a ring with room makes it one longer and keeps its start.
LEMMA EnqueueRing ==
    ASSUME NEW ring \in Ring, NEW f \in Fragments, Len(ring.items) < N
    PROVE  /\ Enqueue(ring, f) \in Ring
           /\ Len(Enqueue(ring, f).items) = Len(ring.items) + 1
           /\ Enqueue(ring, f).out = ring.out
BY ConstantsAssumption DEF Enqueue, Ring

\* dequeue() on a ring that is not empty makes it one shorter and returns a
\* fragment.
LEMMA DequeueRing ==
    ASSUME NEW ring \in Ring, ring.items # << >>
    PROVE  /\ Dequeue(ring) \in Ring
           /\ Len(Dequeue(ring).items) = Len(ring.items) - 1
           /\ Head(ring.items) \in Fragments
BY ConstantsAssumption DEF Dequeue, Ring

\* count() is at most one short and never negative; it only says there is
\* something when there is, and goes on saying so when something is added.
LEMMA CountRing ==
    ASSUME NEW ring \in Ring
    PROVE  /\ Count(ring) \in Nat
           /\ Len(ring.items) \in Nat
           /\ Count(ring) # 0 => ring.items # << >>
           /\ \A f \in Fragments :
                Len(ring.items) < N /\ Count(ring) # 0 => Count(Enqueue(ring, f)) # 0
BY ConstantsAssumption DEF Count, Ring, Enqueue

\* A thread has no fragment in hand or one.
LEMMA InHandValue ==
    /\ \A f : InHand(f) \in {0, 1}
    /\ InHand(0) = 0
    /\ \A f : f # 0 => InHand(f) = 1
BY DEF InHand, None

-----------------------------------------------------------------------------
LEMMA InitIInv == Init => IInv
<1> SUFFICES ASSUME Init PROVE IInv
  OBVIOUS
<1> USE ConstantsAssumption DEF Init, None
<1>1. TypeOK
  <2>1. [i \in Fragments |-> i] \in Seq(Fragments)
    BY DEF Fragments
  <2>2. free \in Ring
    BY <2>1 DEF Ring
  <2>3. sound \in Ring
    BY DEF Ring
  <2>4. hw \in [Buffers -> {"none", "queued", "current"}]
    OBVIOUS
  <2>5. /\ vblank = "idle" /\ filling = 0 /\ needed = 0 /\ samples = 0
        /\ thread = "none" /\ copying = 0 /\ frames = 0
        /\ runLoop = "NULL" /\ isRunning = FALSE /\ audioQueue = "none"
        /\ ui = "idle"
    OBVIOUS
  <2> HIDE DEF Init
  <2>6. filling \in Fragments \cup {None} /\ copying \in Fragments \cup {None}
    BY <2>5
  <2>7. frames \in 0 .. FramesPerBuffer
    BY <2>5
  <2>8. isRunning \in BOOLEAN
    BY <2>5
  <2> QED BY <2>2, <2>3, <2>4, <2>5, <2>6, <2>7, <2>8 DEF TypeOK
<1>2. FragmentsConserved
  BY InHandValue DEF FragmentsConserved, Fragments
<1>3. Hands /\ SamplesTrackQueue /\ CallbackHasData
  BY InHandValue DEF Hands, SamplesTrackQueue, CallbackHasData
<1>4. Room
  BY DEF Room, LatencyBound
<1> QED BY <1>1, <1>2, <1>3, <1>4 DEF IInv

-----------------------------------------------------------------------------
(* The emulation thread *)

\* Taking a free fragment, for the first time or to catch up.
LEMMA FillStep ==
    ASSUME IInv, VBlank \/ CatchUp
    PROVE  IInv'
<1> USE ConstantsAssumption DEF IInv, None
<1>1. /\ free \in Ring /\ free.items # << >>
      /\ filling' = Head(free.items) /\ free' = Dequeue(free)
      /\ UNCHANGED <<sound, samples, soundVars, ctlVars>>
  BY DEF VBlank, CatchUp, TypeOK
<1>2. filling = 0 /\ vblank \in {"idle", "more"}
  BY DEF VBlank, CatchUp, Hands
<1>3. free' \in Ring /\ Len(free'.items) = Len(free.items) - 1
      /\ filling' \in Fragments /\ filling' # 0
  BY <1>1, DequeueRing DEF Fragments
<1>4. TypeOK'
  BY <1>1, <1>3 DEF TypeOK, VBlank, CatchUp, soundVars, ctlVars, Room
<1>5. Len(free.items) \in Nat /\ Len(sound.items) \in Nat
  BY CountRing DEF TypeOK
<1>6. FragmentsConserved'
  BY <1>1, <1>2, <1>3, <1>5, InHandValue DEF FragmentsConserved, soundVars, TypeOK, Ring
<1>7. Hands'
  BY <1>1, <1>2 DEF Hands, VBlank, CatchUp, soundVars
<1>8. SamplesTrackQueue'
  BY <1>1, <1>2, <1>3, InHandValue DEF SamplesTrackQueue, VBlank, CatchUp, soundVars
<1>9. Room'
  <2>1. CASE VBlank
    <3>1. Len(sound.items) <= samples
      BY <2>1, <1>5, InHandValue DEF VBlank, SamplesTrackQueue, Hands, TypeOK
    <3> QED BY <2>1, <3>1, <1>1, <1>3, <1>5
            DEF VBlank, Room, LatencyBound, InHand, TypeOK
  <2>2. CASE CatchUp
    BY <2>2, <1>1, <1>3, <1>5, InHandValue DEF CatchUp, Room, LatencyBound, TypeOK
  <2> QED BY <2>1, <2>2
<1>10. CallbackHasData'
  BY <1>1 DEF CallbackHasData, Count, soundVars
<1> QED BY <1>4, <1>6, <1>7, <1>8, <1>9, <1>10

\* The filled fragment goes to the sound list, which has room for it because
\* all other fragments together are fewer than N.
LEMMA QueueBufferStep ==
    ASSUME IInv, QueueBuffer
    PROVE  IInv'
<1> USE ConstantsAssumption DEF IInv, None, QueueBuffer
<1>1. sound \in Ring /\ filling \in Fragments /\ filling # 0
  BY DEF TypeOK
<1>2. Len(free.items) \in Nat /\ Len(sound.items) \in Nat
  BY CountRing DEF TypeOK
<1>3. Len(sound.items) < N
  BY <1>1, <1>2, InHandValue DEF FragmentsConserved, TypeOK, Ring
<1>4. sound' \in Ring /\ Len(sound'.items) = Len(sound.items) + 1
  BY <1>1, <1>3, EnqueueRing
<1>5. TypeOK'
  BY <1>4 DEF TypeOK, soundVars, ctlVars
<1>6. FragmentsConserved'
  BY <1>1, <1>2, <1>4, InHandValue DEF FragmentsConserved, soundVars, TypeOK, Ring
<1>7. Hands'
  BY DEF Hands, soundVars
<1>8. SamplesTrackQueue'
  BY <1>1, <1>2, <1>4, InHandValue DEF SamplesTrackQueue, soundVars
<1>9. Room'
  BY <1>1, <1>2, <1>4, InHandValue DEF Room, LatencyBound, TypeOK
<1>10. CallbackHasData'
  BY <1>1, <1>3, <1>4, CountRing DEF CallbackHasData, soundVars, TypeOK
<1> QED BY <1>5, <1>6, <1>7, <1>8, <1>9, <1>10

\* The fragment is counted and the catching up is planned.
LEMMA AddSamplesStep ==
    ASSUME IInv, AddSamples
    PROVE  IInv'
<1> USE ConstantsAssumption DEF IInv, None, AddSamples
<1>1. Len(free.items) \in Nat /\ Len(sound.items) \in Nat
  BY CountRing DEF TypeOK
<1>2. needed' \in Nat /\ samples' \in Int
  BY DEF TypeOK
<1>3. vblank' \in {"idle", "more"} /\ (vblank' = "more" => needed' > 0)
  BY <1>2
<1>4. TypeOK'
  BY <1>2, <1>3 DEF TypeOK, soundVars, ctlVars
<1>5. FragmentsConserved' /\ Hands' /\ CallbackHasData'
  BY <1>3, InHandValue DEF FragmentsConserved, Hands, CallbackHasData, Count, soundVars
<1>6. SamplesTrackQueue'
  BY <1>1, <1>3, InHandValue DEF SamplesTrackQueue, soundVars, TypeOK
<1>7. Room'
  <2>1. CASE vblank = "first"
    <3>1. samples' >= Len(sound.items)
      BY <2>1, <1>1, InHandValue DEF SamplesTrackQueue, Hands, TypeOK
    <3> QED BY <2>1, <3>1, <1>1, <1>2, <1>3, InHandValue DEF Room, LatencyBound
  <2>2. CASE vblank = "extra"
    BY <2>2, <1>1, <1>2, <1>3, InHandValue DEF Room, LatencyBound
  <2> QED BY <2>1, <2>2
<1> QED BY <1>4, <1>5, <1>6, <1>7

-----------------------------------------------------------------------------
(* The callback *)

LEMMA TakeFragmentStep ==
    ASSUME IInv, TakeFragment
    PROVE  IInv'
<1> USE ConstantsAssumption DEF IInv, None, TakeFragment
<1>1. sound \in Ring /\ sound.items # << >>
  BY CountRing DEF TypeOK
<1>2. sound' \in Ring /\ Len(sound'.items) = Len(sound.items) - 1
      /\ copying' \in Fragments /\ copying' # 0
  BY <1>1, DequeueRing DEF Fragments
<1>3. Len(free.items) \in Nat /\ Len(sound.items) \in Nat
  BY CountRing DEF TypeOK
<1>4. TypeOK'
  BY <1>2 DEF TypeOK, emuVars, ctlVars
<1>5. FragmentsConserved'
  BY <1>2, <1>3, InHandValue DEF FragmentsConserved, emuVars, TypeOK, Ring
<1>6. Hands'
  BY <1>2 DEF Hands, emuVars, TypeOK
<1>7. SamplesTrackQueue'
  BY <1>2, <1>3, InHandValue DEF SamplesTrackQueue, emuVars, TypeOK, Ring
<1>8. Room'
  BY <1>2, <1>3, InHandValue DEF Room, LatencyBound, emuVars, TypeOK
<1>9. CallbackHasData'
  BY <1>2 DEF CallbackHasData
<1> QED BY <1>4, <1>5, <1>6, <1>7, <1>8, <1>9

\* Again the free list has room for what the callback gives back.
LEMMA ReturnFragmentStep ==
    ASSUME IInv, ReturnFragment
    PROVE  IInv'
<1> USE ConstantsAssumption DEF IInv, None, ReturnFragment
<1>1. free \in Ring /\ copying \in Fragments /\ copying # 0
  BY DEF TypeOK
<1>2. Len(free.items) \in Nat /\ Len(sound.items) \in Nat
  BY CountRing DEF TypeOK
<1>21. InHand(filling) \in Int /\ InHand(filling) >= 0 /\ InHand(copying) = 1
  BY <1>1, InHandValue
<1>3. Len(free.items) < N
  BY <1>21, <1>2 DEF FragmentsConserved, TypeOK, Ring
<1>4. free' \in Ring /\ Len(free'.items) = Len(free.items) + 1
  BY <1>1, <1>3, EnqueueRing
<1>5. TypeOK'
  BY <1>4 DEF TypeOK, emuVars, ctlVars
<1>6. FragmentsConserved'
  BY <1>1, <1>2, <1>4, InHandValue DEF FragmentsConserved, emuVars, TypeOK, Ring
<1>7. Hands' /\ CallbackHasData'
  BY DEF Hands, CallbackHasData, emuVars
<1>8. SamplesTrackQueue'
  BY <1>1, <1>2, InHandValue DEF SamplesTrackQueue, emuVars
<1>9. Room'
  BY InHandValue DEF Room, emuVars, LatencyBound
<1> QED BY <1>5, <1>6, <1>7, <1>8, <1>9

LEMMA SubtractSamplesStep ==
    ASSUME IInv, SubtractSamples
    PROVE  IInv'
<1> USE ConstantsAssumption DEF IInv, None, SubtractSamples
<1>1. copying = 0 /\ frames < FramesPerBuffer
  BY DEF Hands
<1>2. Len(sound.items) \in Nat
  BY CountRing DEF TypeOK
<1>3. TypeOK'
  BY <1>1 DEF TypeOK, emuVars, ctlVars
<1>4. FragmentsConserved' /\ Room'
  BY InHandValue DEF FragmentsConserved, Room, LatencyBound, emuVars
<1>5. Hands'
  BY <1>1 DEF Hands, emuVars
<1>6. SamplesTrackQueue'
  BY <1>1, <1>2, InHandValue DEF SamplesTrackQueue, emuVars, TypeOK, Ring
<1>7. CallbackHasData'
  BY <1>1, CountRing DEF CallbackHasData, TypeOK
<1> QED BY <1>3, <1>4, <1>5, <1>6, <1>7

-----------------------------------------------------------------------------
(* The other steps leave the lists and the fragments in hand alone *)

\* VBlank does not move, gives up or is ended.
EmulationStays ==
    \/ UNCHANGED <<vblank, needed>>
    \/ /\ vblank \in {"idle", "more"} /\ vblank' \in {"idle", "gone"}
       /\ UNCHANGED thread
    \/ vblank' = "crashed" /\ thread' = "crashed"

\* The sound thread does not move, goes on outside the copy loop, or begins to
\* copy because count() has said that there is a fragment.
SoundStays ==
    \/ UNCHANGED <<thread, frames>>
    \/ thread \notin {"count", "crashed"} /\ copying = None
       /\ \/ thread' \notin {"copy", "count", "crashed"}
          \/ thread' = "copy" /\ Count(sound) # 0
    \/ vblank' = "crashed" /\ thread' = "crashed" /\ UNCHANGED frames

LEMMA ControlStep ==
    ASSUME IInv, TypeOK', EmulationStays, SoundStays,
           UNCHANGED <<free, sound, samples, filling, copying>>
    PROVE  IInv'
<1> USE ConstantsAssumption DEF IInv, None, EmulationStays, SoundStays
<1>1. FragmentsConserved'
  BY DEF FragmentsConserved, InHand
<1>2. Hands'
  BY DEF Hands
<1>3. SamplesTrackQueue'
  BY DEF SamplesTrackQueue, InHand, Hands
<1>4. Room'
  BY DEF Room, LatencyBound, InHand
<1>5. CallbackHasData'
  BY CountRing DEF CallbackHasData, TypeOK, Count
<1> QED BY <1>1, <1>2, <1>3, <1>4, <1>5

LEMMA EmulationControlStep ==
    ASSUME IInv, GiveUp \/ Start \/ Stop \/ StopNull
    PROVE  IInv'
<1> USE DEF emuVars, soundVars, ctlVars
<1>1. TypeOK'
  BY DEF IInv, TypeOK, GiveUp, Start, Stop, StopNull
<1>2. UNCHANGED <<free, sound, samples, filling, copying>>
  BY DEF GiveUp, Start, Stop, StopNull
<1>3. EmulationStays
  BY DEF EmulationStays, GiveUp, Start, Stop, StopNull
<1>4. SoundStays
  BY DEF SoundStays, IInv, Hands, GiveUp, Start, Stop, StopNull
<1> QED BY <1>1, <1>2, <1>3, <1>4, ControlStep DEF IInv

LEMMA PauseResumeStep ==
    ASSUME IInv, PauseResume
    PROVE  IInv'
<1> USE DEF PauseResume, UiIdle, emuVars, soundVars, ctlVars, PauseQueue,
            PauseDone, ResumeQueue, ResumeGarbage, ResumeDone
<1>1. TypeOK'
  BY DEF IInv, TypeOK
<1>2. UNCHANGED <<free, sound, samples, filling, copying>>
  OBVIOUS
<1>3. EmulationStays
  BY DEF EmulationStays
<1>4. SoundStays
  BY DEF SoundStays
<1> QED BY <1>1, <1>2, <1>3, <1>4, ControlStep DEF IInv

LEMMA SetupStep ==
    ASSUME IInv,
           NewOutput \/ StartQueue \/ SetRunning \/ RecordRunLoop \/ RunLoopRun
           \/ Shutdown
    PROVE  IInv'
<1> USE DEF emuVars, soundVars, ctlVars, NewOutput, StartQueue, SetRunning,
            RecordRunLoop, RunLoopRun, Shutdown
<1>1. TypeOK'
  BY DEF IInv, TypeOK
<1>2. UNCHANGED <<free, sound, samples, filling, copying>>
  OBVIOUS
<1>3. EmulationStays
  BY DEF EmulationStays
<1>4. SoundStays
  BY DEF SoundStays, IInv, Hands
<1> QED BY <1>1, <1>2, <1>3, <1>4, ControlStep DEF IInv

\* The beginning and the end of the callback.
LEMMA HardwareBufferStep ==
    ASSUME IInv, NEW b \in Buffers,
           HandleOutputBuffer(b) \/ EnqueueHardwareBuffer(b)
    PROVE  IInv'
<1> USE DEF emuVars, soundVars, ctlVars, HandleOutputBuffer, EnqueueHardwareBuffer
<1>1. AfterCallback(b) \in {"prime", "start", "loop"}
  BY DEF AfterCallback
<1>2. UNCHANGED <<free, sound, samples, filling, copying, vblank, needed>>
  OBVIOUS
<1>3. TypeOK'
  <2>1. hw' \in [Buffers -> {"none", "queued", "current"}]
    BY DEF IInv, TypeOK
  <2>2. frames' \in 0 .. FramesPerBuffer
    BY ConstantsAssumption DEF IInv, TypeOK
  <2>3. thread' \in {"prime", "start", "loop", "copy"}
    BY <1>1
  <2> QED BY <1>2, <2>1, <2>2, <2>3 DEF IInv, TypeOK
<1>4. EmulationStays
  BY DEF EmulationStays
<1>5. copying = None /\ thread \notin {"count", "crashed"}
  BY DEF IInv, Hands
<1>6. SoundStays
  BY <1>1, <1>5 DEF SoundStays
<1> QED BY <1>2, <1>3, <1>4, <1>6, ControlStep DEF IInv

-----------------------------------------------------------------------------
LEMMA NextIInv == IInv /\ [Next]_vars => IInv'
<1> SUFFICES ASSUME IInv, [Next]_vars PROVE IInv'
  OBVIOUS
<1>1. CASE VBlank \/ CatchUp
  BY <1>1, FillStep
<1>2. CASE QueueBuffer
  BY <1>2, QueueBufferStep
<1>3. CASE AddSamples
  BY <1>3, AddSamplesStep
<1>4. CASE GiveUp \/ Start \/ Stop \/ StopNull
  BY <1>4, EmulationControlStep
<1>5. CASE PauseResume
  BY <1>5, PauseResumeStep
<1>6. CASE NewOutput \/ StartQueue \/ SetRunning \/ RecordRunLoop \/ RunLoopRun
           \/ Shutdown
  BY <1>6, SetupStep
<1>7. CASE Callback
  <2>1. CASE TakeFragment
    BY <2>1, TakeFragmentStep
  <2>2. CASE ReturnFragment
    BY <2>2, ReturnFragmentStep
  <2>3. CASE SubtractSamples
    BY <2>3, SubtractSamplesStep
  <2>4. CASE \E b \in Buffers : HandleOutputBuffer(b) \/ EnqueueHardwareBuffer(b)
    BY <2>4, HardwareBufferStep
  <2> QED BY <1>7, <2>1, <2>2, <2>3, <2>4 DEF Callback
<1>8. CASE UNCHANGED vars
  <2> USE <1>8 DEF vars, emuVars, soundVars, ctlVars
  <2>1. TypeOK'
    BY DEF IInv, TypeOK
  <2>2. EmulationStays /\ SoundStays
    BY DEF EmulationStays, SoundStays
  <2> QED BY <2>1, <2>2, ControlStep
<1> QED BY <1>1, <1>2, <1>3, <1>4, <1>5, <1>6, <1>7, <1>8
        DEF Next, Emulation, Execute

-----------------------------------------------------------------------------
(* Ownership *)

\* Neither the order of the lists nor that of the hands matters.
LEMMA ApartSymmetric ==
    ASSUME NEW x \in Seq(Fragments), NEW y \in Seq(Fragments), NEW g, NEW h
    PROVE  /\ Apart(x, y, g, h) <=> Apart(y, x, g, h)
           /\ Apart(x, y, g, h) <=> Apart(x, y, h, g)
BY DEF Apart

\* A fragment taken from a list into an empty hand is nowhere else.
LEMMA ApartTake ==
    ASSUME NEW x \in Seq(Fragments), NEW y \in Seq(Fragments),
           NEW h \in Fragments \cup {0}, x # << >>, Apart(x, y, 0, h)
    PROVE  Apart(Tail(x), y, Head(x), h)
<1>1. Head(x) = x[1] /\ Len(x) >= 1 /\ x[1] \in Fragments
  OBVIOUS
<1>2. /\ Tail(x) \in Seq(Fragments) /\ Len(Tail(x)) = Len(x) - 1
      /\ \A i \in 1 .. Len(x) - 1 : Tail(x)[i] = x[i + 1]
  OBVIOUS
<1>3. \A i, j \in 1 .. Len(Tail(x)) : Tail(x)[i] = Tail(x)[j] => i = j
  BY <1>2 DEF Apart
<1> QED BY <1>1, <1>2, <1>3 DEF Apart

\* A fragment put from a hand on a list is not there already.
LEMMA ApartGive ==
    ASSUME NEW x \in Seq(Fragments), NEW y \in Seq(Fragments),
           NEW g \in Fragments, NEW h \in Fragments \cup {0}, Apart(x, y, g, h)
    PROVE  Apart(Append(x, g), y, 0, h)
<1>1. g # 0 /\ g # h
  BY DEF Apart, Fragments, None
<1>2. /\ Append(x, g) \in Seq(Fragments) /\ Len(Append(x, g)) = Len(x) + 1
      /\ \A i \in 1 .. Len(x) : Append(x, g)[i] = x[i]
      /\ Append(x, g)[Len(x) + 1] = g
  OBVIOUS
<1>3. \A i \in 1 .. Len(x) + 1 : Append(x, g)[i] \in Fragments
  BY <1>2
<1>4. \A i \in 1 .. Len(y) : y[i] \in Fragments
  OBVIOUS
<1>5. \A i, j \in 1 .. Len(x) + 1 : Append(x, g)[i] = Append(x, g)[j] => i = j
  BY <1>2 DEF Apart
<1>6. \A i \in 1 .. Len(x) + 1, j \in 1 .. Len(y) : Append(x, g)[i] # y[j]
  BY <1>2 DEF Apart
<1>7. \A i \in 1 .. Len(x) + 1 : Append(x, g)[i] # 0 /\ Append(x, g)[i] # h
  BY <1>1, <1>2, <1>3 DEF Apart, Fragments
<1> QED BY <1>1, <1>2, <1>4, <1>5, <1>6, <1>7 DEF Apart, Fragments, None

LEMMA OwnerStep == IInv /\ OneOwner /\ [Next]_vars => OneOwner'
<1> SUFFICES ASSUME IInv, OneOwner, [Next]_vars PROVE OneOwner'
  OBVIOUS
<1> USE DEF None, OneOwner
<1>1. /\ free \in Ring /\ sound \in Ring
      /\ free.items \in Seq(Fragments) /\ sound.items \in Seq(Fragments)
      /\ filling \in Fragments \cup {0} /\ copying \in Fragments \cup {0}
  BY DEF IInv, TypeOK, Ring
<1>2. CASE VBlank \/ CatchUp
  <2>1. /\ free.items # << >> /\ filling' = Head(free.items) /\ filling = 0
        /\ free' = Dequeue(free) /\ UNCHANGED <<sound, copying>>
    BY <1>2 DEF VBlank, CatchUp, soundVars, IInv, Hands
  <2>2. free'.items = Tail(free.items)
    BY <2>1 DEF Dequeue
  <2> QED BY <1>1, <2>1, <2>2, ApartTake
<1>3. CASE QueueBuffer
  <2>1. /\ filling \in Fragments /\ filling' = 0 /\ Len(sound.items) # N
        /\ sound' = Enqueue(sound, filling) /\ UNCHANGED <<free, copying>>
    BY <1>1, <1>3 DEF QueueBuffer, soundVars, IInv, FragmentsConserved, InHand,
                      Fragments, Ring
  <2>2. sound'.items = Append(sound.items, filling)
    BY <1>1, <2>1 DEF Enqueue, Ring
  <2>3. Apart(sound'.items, free.items, 0, copying)
    BY <1>1, <2>1, <2>2, ApartGive, ApartSymmetric
  <2>4. sound'.items \in Seq(Fragments)
    BY <1>1, <2>1, <2>2
  <2> QED BY <1>1, <2>1, <2>3, <2>4, ApartSymmetric
<1>4. CASE TakeFragment
  <2>1. /\ sound.items # << >> /\ copying' = Head(sound.items) /\ copying = 0
        /\ sound' = Dequeue(sound) /\ UNCHANGED <<free, filling>>
    BY <1>1, <1>4, CountRing DEF TakeFragment, emuVars
  <2>2. sound'.items = Tail(sound.items)
    BY <2>1 DEF Dequeue
  <2>3. Apart(sound.items, free.items, 0, filling)
    BY <1>1, <2>1, ApartSymmetric
  <2>4. Apart(sound'.items, free.items, copying', filling)
    BY <1>1, <2>1, <2>2, <2>3, ApartTake
  <2>5. sound'.items \in Seq(Fragments)
    BY <1>1, <2>1, <2>2
  <2> QED BY <1>1, <2>1, <2>4, <2>5, ApartSymmetric
<1>5. CASE ReturnFragment
  <2>1. /\ copying \in Fragments /\ copying' = 0 /\ Len(free.items) # N
        /\ free' = Enqueue(free, copying) /\ UNCHANGED <<sound, filling>>
    BY <1>1, <1>5 DEF ReturnFragment, emuVars, IInv, FragmentsConserved, InHand,
                      Fragments, Ring
  <2>2. free'.items = Append(free.items, copying)
    BY <1>1, <2>1 DEF Enqueue, Ring
  <2>3. Apart(free.items, sound.items, copying, filling)
    BY <1>1, ApartSymmetric
  <2>4. Apart(free'.items, sound.items, 0, filling)
    BY <1>1, <2>1, <2>2, <2>3, ApartGive
  <2>5. free'.items \in Seq(Fragments)
    BY <1>1, <2>1, <2>2
  <2> QED BY <1>1, <2>1, <2>4, <2>5, ApartSymmetric
<1>6. CASE UNCHANGED <<free, sound, filling, copying>>
  BY <1>6
<1>7. \/ VBlank \/ CatchUp \/ QueueBuffer \/ TakeFragment \/ ReturnFragment
      \/ UNCHANGED <<free, sound, filling, copying>>
  BY DEF Next, Start, Stop, StopNull, Emulation, AddSamples, GiveUp, Execute,
         NewOutput, StartQueue, SetRunning, RecordRunLoop, RunLoopRun, Shutdown,
         Callback, HandleOutputBuffer, EnqueueHardwareBuffer, SubtractSamples,
         PauseResume, PauseQueue, PauseDone, ResumeQueue, ResumeGarbage,
         ResumeDone, vars, emuVars, soundVars, ctlVars
<1> QED BY <1>2, <1>3, <1>4, <1>5, <1>6, <1>7

-----------------------------------------------------------------------------
\* The inductive invariant holds in every reachable state.
THEOREM SoundInvariant == Spec => []IInv
BY InitIInv, NextIInv, PTL DEF Spec

\* The lists only ever hold fragments and no hardware buffer is overfilled.
THEOREM SoundTypeOK == Spec => []TypeOK
<1>1. IInv => TypeOK
  BY DEF IInv
<1> QED BY SoundInvariant, <1>1, PTL

\* However many fragments and hardware buffers there are, and whatever the three
\* threads do, no fragment is lost or duplicated and no enqueue() can fail.
THEOREM SoundFragmentsConserved == Spec => []FragmentsConserved
<1>1. IInv => FragmentsConserved
  BY DEF IInv
<1> QED BY SoundInvariant, <1>1, PTL

\* However many fragments there are, each has one owner: no thread writes or reads
\* samples that the other thread has.
THEOREM SoundOneOwner == Spec => []OneOwner
<1>1. ASSUME Init PROVE OneOwner
  <2>1. /\ free.items = [i \in 1 .. N |-> i] /\ Len(free.items) = N
        /\ sound.items = << >> /\ filling = 0 /\ copying = 0
    BY <1>1, ConstantsAssumption DEF Init, None, Fragments
  <2> QED BY <2>1, ConstantsAssumption DEF OneOwner, Apart, None
<1> QED BY InitIInv, NextIInv, <1>1, OwnerStep, PTL DEF Spec

\* For every pair of water marks, the sound list never holds more than the larger
\* of the low-water mark and one above the high-water mark.
THEOREM SoundLatencyBounded == Spec => []LatencyBounded
<1>1. IInv => LatencyBounded
  BY DEF IInv, Room, LatencyBounded
<1> QED BY SoundInvariant, <1>1, PTL

\* _samplesInQueue differs from the list by the transfers that are half done.
THEOREM SoundSamplesTrackQueue == Spec => []SamplesTrackQueue
<1>1. IInv => SamplesTrackQueue
  BY DEF IInv
<1> QED BY SoundInvariant, <1>1, PTL

\* The callback never dequeues from an empty list and never hands an empty
\* hardware buffer to CoreAudio.
THEOREM SoundCallbackHasData == Spec => []CallbackHasData
<1>1. IInv => CallbackHasData
  BY DEF IInv
<1> QED BY SoundInvariant, <1>1, PTL
=============================================================================
