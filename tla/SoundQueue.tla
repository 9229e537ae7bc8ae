----------------------------- MODULE SoundQueue -----------------------------
(***************************************************************************)
(* Sound fragments travelling from the emulation thread to CoreAudio:      *)
(* FastDigitalRenderer::VBlank fills a fragment once per frame, the        *)
(* SoundBuffer of RingQ.h carries it, and the output callback of           *)
(* CAudioQueueManager copies it into a hardware buffer and gives it back.  *)
(*                                                                         *)
(* Three threads: the emulation thread (VBlank, start, stop), the sound    *)
(* thread (setup, run loop, callback, shutdown) and the UI thread (pause,  *)
(* resume).  The two rings are bounded FIFO queues, as ImplementsFifo of    *)
(* RingQ says; out is kept because count() depends on where the ring       *)
(* wraps.  A fragment is one unit of samples and of milliseconds.          *)
(***************************************************************************)
EXTENDS Integers, Sequences

CONSTANTS
    N,                  \* fragments made by AllocateBuffers (16)
    FramesPerBuffer,    \* _framesPerBuffer (3)
    HiWater,            \* LatencyMax in fragments
    LoWater,            \* LatencyMin in fragments
    Buffers             \* the hardware buffers (kNumberBuffers of them)

ASSUME ConstantsAssumption ==
    /\ N \in Nat \ {0}
    /\ FramesPerBuffer \in Nat \ {0}
    /\ HiWater \in Nat
    /\ LoWater \in Nat

Fragments == 1 .. N
None == 0               \* no fragment in hand (NULL)

VARIABLES
    free, sound,        \* _freeList and _soundList
    vblank,             \* where the emulation thread is in VBlank()
    filling,            \* the fragment it is filling
    needed,             \* neededFragments
    samples,            \* _samplesInQueue
    thread,             \* where the sound thread is
    hw,                 \* where each hardware buffer is
    copying,            \* the fragment the callback has taken
    frames,             \* fragments copied by the running callback
    runLoop,            \* what the sound thread's run loop knows
    isRunning,          \* _isRunning
    audioQueue,         \* the state of _queue in CoreAudio
    ui                  \* where the UI thread is in pause() or resume()

emuVars   == <<vblank, filling, needed>>
soundVars == <<thread, hw, copying, frames>>
ctlVars   == <<runLoop, isRunning, audioQueue, ui>>
vars == <<free, sound, samples, emuVars, soundVars, ctlVars>>

-----------------------------------------------------------------------------
(* The rings *)

\* tagRingQ::count: one short when in has wrapped below out (see RingQ)
Count(ring) == IF ring.out + Len(ring.items) > N
               THEN Len(ring.items) - 1
               ELSE Len(ring.items)

\* enqueue: ENOMEM when the ring is full, which no caller looks at
Enqueue(ring, f) ==
    IF Len(ring.items) = N THEN ring
    ELSE [ring EXCEPT !.items = Append(@, f)]

\* dequeue of a ring that is not empty
Dequeue(ring) ==
    [items |-> Tail(ring.items),
     out   |-> IF ring.out = N THEN 0 ELSE ring.out + 1]

Init ==
    /\ free = [items |-> [i \in Fragments |-> i], out |-> 0]
    /\ sound = [items |-> << >>, out |-> 0]
    /\ vblank = "idle" /\ filling = None /\ needed = 0
    /\ samples = 0
    /\ thread = "none" /\ copying = None /\ frames = 0
    /\ hw = [b \in Buffers |-> "none"]
    /\ runLoop = "NULL" /\ isRunning = FALSE
    /\ audioQueue = "none"
    /\ ui = "idle"

-----------------------------------------------------------------------------
(* Emulation thread: FastDigitalRenderer::VBlank *)

\* Broken variant: the high-water mark is not looked at
VBlankNoHiWater ==
    /\ vblank = "idle" /\ thread # "none"
    /\ free.items # << >>
    /\ filling' = Head(free.items)
    /\ free' = Dequeue(free)
    /\ vblank' = "first"
    /\ UNCHANGED <<sound, samples, needed, soundVars, ctlVars>>

\* Not too far ahead of the sound and a fragment is free: start filling it.
\* (Otherwise VBlank returns and nothing changes.)
VBlank ==
    /\ vblank = "idle" /\ thread # "none"
    /\ samples <= HiWater
    /\ free.items # << >>
    /\ filling' = Head(free.items)
    /\ free' = Dequeue(free)
    /\ vblank' = "first"
    /\ UNCHANGED <<sound, samples, needed, soundVars, ctlVars>>

\* queueBuffer: the fragment goes to the sound list ...
QueueBuffer ==
    /\ vblank \in {"first", "extra"}
    /\ filling # None
    /\ sound' = Enqueue(sound, filling)
    /\ filling' = None
    /\ UNCHANGED <<free, samples, vblank, needed, soundVars, ctlVars>>

\* ... and only then into _samplesInQueue.  After the first fragment VBlank
\* decides how many more it is behind; it does not look again in the loop.
AddSamples ==
    /\ vblank \in {"first", "extra"}
    /\ filling = None
    /\ samples' = samples + 1
    /\ needed' = IF vblank = "first"
                 THEN IF LoWater > samples' THEN LoWater - samples' ELSE 0
                 ELSE needed
    /\ vblank' = IF needed' = 0 THEN "idle" ELSE "more"
    /\ UNCHANGED <<free, sound, filling, soundVars, ctlVars>>

\* while (neededFragments--): another free fragment ...
CatchUp ==
    /\ vblank = "more"
    /\ free.items # << >>
    /\ filling' = Head(free.items)
    /\ free' = Dequeue(free)
    /\ needed' = needed - 1
    /\ vblank' = "extra"
    /\ UNCHANGED <<sound, samples, soundVars, ctlVars>>

\* ... or break, when there is none
GiveUp ==
    /\ vblank = "more"
    /\ free.items = << >>
    /\ needed' = 0
    /\ vblank' = "idle"
    /\ UNCHANGED <<free, sound, samples, filling, soundVars, ctlVars>>

\* init_sound: the queue manager is made and its thread started
Start ==
    /\ thread = "none"
    /\ thread' = "new"
    /\ UNCHANGED <<free, sound, samples, emuVars, hw, copying, frames, ctlVars>>

\* ~FastDigitalRenderer on the emulation thread (from ~C64): stop() calls
\* CFRunLoopStop.  When the sound thread has recorded its run loop but not
\* entered it, the call may be lost.
Stop ==
    /\ vblank = "idle" /\ thread \notin {"none", "gone"} /\ runLoop # "NULL"
    /\ vblank' = "gone"
    /\ \/ runLoop' = "stopped"
       \/ thread = "enter" /\ UNCHANGED runLoop
    /\ UNCHANGED <<free, sound, samples, filling, needed, soundVars,
                   isRunning, audioQueue, ui>>

\* When it has not recorded one, CFRunLoopStop is given NULL and the program ends
StopNull ==
    /\ vblank = "idle" /\ thread # "none" /\ runLoop = "NULL"
    /\ vblank' = "crashed" /\ thread' = "crashed" /\ ui' = "crashed"
    /\ UNCHANGED <<free, sound, samples, filling, needed, hw, copying, frames,
                   runLoop, isRunning, audioQueue>>

-----------------------------------------------------------------------------
(* Sound thread: execute() *)

\* setupQueue: AudioQueueNewOutput
NewOutput ==
    /\ thread = "new"
    /\ audioQueue' = "created"
    /\ thread' = "prime"
    /\ UNCHANGED <<free, sound, samples, emuVars, hw, copying, frames, runLoop,
                   isRunning, ui>>

\* Where the sound thread goes on when the callback for b has returned: back
\* to priming while there are buffers to allocate, else AudioQueueStart in
\* setupQueue, else the run loop
AfterCallback(b) ==
    IF \E c \in Buffers \ {b} : hw[c] = "none" THEN "prime"
    ELSE IF runLoop = "NULL" THEN "start"
    ELSE "loop"

\* Broken variant: the list is not looked at before copying
HandleOutputBufferUnchecked(b) ==
    /\ \/ thread = "prime" /\ hw[b] = "none"
       \/ thread = "loop" /\ hw[b] = "queued" /\ audioQueue = "started"
    /\ IF ~isRunning
       THEN /\ hw' = [hw EXCEPT ![b] = "queued"]
            /\ thread' = AfterCallback(b)
       ELSE /\ hw' = [hw EXCEPT ![b] = "current"]
            /\ thread' = "copy"
    /\ frames' = 0
    /\ UNCHANGED <<free, sound, samples, emuVars, copying, ctlVars>>

\* _HandleOutputBuffer is called with buffer b: by setupQueue for a buffer it
\* has just allocated, by CoreAudio for one that has been played.  It hands back
\* silence when the queue is not running or looks empty.
HandleOutputBuffer(b) ==
    /\ \/ thread = "prime" /\ hw[b] = "none"
       \/ thread = "loop" /\ hw[b] = "queued" /\ audioQueue = "started"
    /\ IF ~isRunning \/ Count(sound) = 0
       THEN /\ hw' = [hw EXCEPT ![b] = "queued"]
            /\ thread' = AfterCallback(b)
       ELSE /\ hw' = [hw EXCEPT ![b] = "current"]
            /\ thread' = "copy"
    /\ frames' = 0
    /\ UNCHANGED <<free, sound, samples, emuVars, copying, ctlVars>>

\* Broken variant: one fragment too many for the hardware buffer
TakeFragmentTooMany ==
    /\ thread = "copy" /\ copying = None
    /\ frames <= FramesPerBuffer /\ Count(sound) # 0
    /\ copying' = Head(sound.items)
    /\ sound' = Dequeue(sound)
    /\ UNCHANGED <<free, samples, emuVars, thread, hw, frames, ctlVars>>

\* Broken variant: the fragment is looked at but stays on the list
TakeFragmentPeek ==
    /\ thread = "copy" /\ copying = None
    /\ frames < FramesPerBuffer /\ Count(sound) # 0
    /\ copying' = Head(sound.items)
    /\ UNCHANGED <<free, sound, samples, emuVars, thread, hw, frames, ctlVars>>

\* the copy loop: a fragment is taken while the list looks non-empty ...
TakeFragment ==
    /\ thread = "copy" /\ copying = None
    /\ frames < FramesPerBuffer /\ Count(sound) # 0
    /\ copying' = Head(sound.items)
    /\ sound' = Dequeue(sound)
    /\ UNCHANGED <<free, samples, emuVars, thread, hw, frames, ctlVars>>

\* Broken variant: the fragment is not given back
KeepFragment ==
    /\ thread = "copy" /\ copying # None
    /\ copying' = None
    /\ thread' = "count"
    /\ UNCHANGED <<free, sound, samples, emuVars, hw, frames, ctlVars>>

\* ... copied and given back ...
ReturnFragment ==
    /\ thread = "copy" /\ copying # None
    /\ free' = Enqueue(free, copying)
    /\ copying' = None
    /\ thread' = "count"
    /\ UNCHANGED <<sound, samples, emuVars, hw, frames, ctlVars>>

\* Broken variant: played fragments stay counted
SubtractNothing ==
    /\ thread = "count"
    /\ frames' = frames + 1
    /\ thread' = "copy"
    /\ UNCHANGED <<free, sound, samples, emuVars, hw, copying, ctlVars>>

\* ... and taken off _samplesInQueue
SubtractSamples ==
    /\ thread = "count"
    /\ samples' = samples - 1
    /\ frames' = frames + 1
    /\ thread' = "copy"
    /\ UNCHANGED <<free, sound, emuVars, hw, copying, ctlVars>>

\* the loop is over: AudioQueueEnqueueBuffer with what was copied
EnqueueHardwareBuffer(b) ==
    /\ thread = "copy" /\ copying = None /\ hw[b] = "current"
    /\ frames = FramesPerBuffer \/ Count(sound) = 0
    /\ hw' = [hw EXCEPT ![b] = "queued"]
    /\ thread' = AfterCallback(b)
    /\ UNCHANGED <<free, sound, samples, emuVars, copying, frames, ctlVars>>

\* setupQueue: AudioQueueStart ...
StartQueue ==
    /\ thread = "start"
    /\ audioQueue' = "started"
    /\ thread' = "flag"
    /\ UNCHANGED <<free, sound, samples, emuVars, hw, copying, frames, runLoop,
                   isRunning, ui>>

\* ... then _isRunning = true
SetRunning ==
    /\ thread = "flag"
    /\ isRunning' = TRUE
    /\ thread' = "record"
    /\ UNCHANGED <<free, sound, samples, emuVars, hw, copying, frames, runLoop,
                   audioQueue, ui>>

\* execute: _runLoop = CFRunLoopGetCurrent()
RecordRunLoop ==
    /\ thread = "record"
    /\ runLoop' = "known"
    /\ thread' = "enter"
    /\ UNCHANGED <<free, sound, samples, emuVars, hw, copying, frames,
                   isRunning, audioQueue, ui>>

\* execute: CFRunLoopRun()
RunLoopRun ==
    /\ thread = "enter"
    /\ thread' = "loop"
    /\ UNCHANGED <<free, sound, samples, emuVars, hw, copying, frames, ctlVars>>

\* The stopped run loop returns: shutdownQueue disposes of a queue that is
\* running (a paused one is left behind) and the manager deletes itself
Shutdown ==
    /\ thread = "loop" /\ runLoop = "stopped"
    /\ thread' = "gone"
    /\ isRunning' = FALSE
    /\ audioQueue' = IF isRunning THEN "disposed" ELSE audioQueue
    /\ UNCHANGED <<free, sound, samples, emuVars, hw, copying, frames, runLoop, ui>>

-----------------------------------------------------------------------------
(* UI thread: pause() and resume(), each looking at _isRunning first *)

UiIdle == ui = "idle" /\ vblank # "gone" /\ thread # "none"

PauseQueue ==
    /\ UiIdle /\ isRunning
    /\ audioQueue' = IF audioQueue = "started" THEN "paused" ELSE audioQueue
    /\ ui' = "pausing"
    /\ UNCHANGED <<free, sound, samples, emuVars, soundVars, runLoop,
                   isRunning>>

PauseDone ==
    /\ ui = "pausing"
    /\ isRunning' = FALSE
    /\ ui' = "idle"
    /\ UNCHANGED <<free, sound, samples, emuVars, soundVars, runLoop,
                   audioQueue>>

ResumeQueue ==
    /\ UiIdle /\ ~isRunning /\ audioQueue # "none"
    /\ audioQueue' = "started"
    /\ ui' = "resuming"
    /\ UNCHANGED <<free, sound, samples, emuVars, soundVars, runLoop, isRunning>>

\* AudioQueueStart before AudioQueueNewOutput has set _queue: the program ends
ResumeGarbage ==
    /\ UiIdle /\ ~isRunning /\ audioQueue = "none"
    /\ vblank' = "crashed" /\ thread' = "crashed" /\ ui' = "crashed"
    /\ UNCHANGED <<free, sound, samples, filling, needed, hw, copying, frames,
                   runLoop, isRunning, audioQueue>>

ResumeDone ==
    /\ ui = "resuming"
    /\ isRunning' = TRUE
    /\ ui' = "idle"
    /\ UNCHANGED <<free, sound, samples, emuVars, soundVars, runLoop,
                   audioQueue>>

-----------------------------------------------------------------------------
Emulation == VBlank \/ QueueBuffer \/ AddSamples \/ CatchUp \/ GiveUp

Callback ==
    \/ \E b \in Buffers : HandleOutputBuffer(b) \/ EnqueueHardwareBuffer(b)
    \/ TakeFragment \/ ReturnFragment \/ SubtractSamples

Execute == NewOutput \/ StartQueue \/ SetRunning \/ RecordRunLoop \/ RunLoopRun
           \/ Shutdown \/ Callback

PauseResume ==
    PauseQueue \/ PauseDone \/ ResumeQueue \/ ResumeGarbage \/ ResumeDone

Next == Start \/ Stop \/ StopNull \/ Emulation \/ Execute \/ PauseResume

Spec == Init /\ [][Next]_vars

\* Frames keep coming, the sound thread is scheduled, and CoreAudio hands every
\* played buffer back
FairSpec == Spec /\ WF_vars(Emulation) /\ WF_vars(Execute)

-----------------------------------------------------------------------------
Ring == [items : Seq(Fragments), out : 0 .. N]

TypeOK ==
    /\ free \in Ring /\ sound \in Ring
    /\ vblank \in {"idle", "first", "extra", "more", "gone", "crashed"}
    /\ filling \in Fragments \cup {None} /\ copying \in Fragments \cup {None}
    /\ needed \in Nat /\ samples \in Int /\ frames \in 0 .. FramesPerBuffer
    /\ thread \in {"none", "new", "prime", "start", "flag", "record", "enter",
                   "loop", "copy", "count", "gone", "crashed"}
    /\ hw \in [Buffers -> {"none", "queued", "current"}]
    /\ runLoop \in {"NULL", "known", "stopped"}
    /\ isRunning \in BOOLEAN
    /\ audioQueue \in {"none", "created", "started", "paused", "disposed"}
    /\ ui \in {"idle", "pausing", "resuming", "crashed"}

InHand(f) == IF f = None THEN 0 ELSE 1

\* No fragment is lost, whatever the three threads do: those on the two lists and
\* in the threads' hands always add up to N.  In particular no enqueue() ever
\* finds its ring full, a failure that queueBuffer and the callback do not look at.
FragmentsConserved ==
    Len(free.items) + Len(sound.items) + InHand(filling) + InHand(copying) = N

\* What is on the lists x and y and in the hands g and h is all different
Apart(x, y, g, h) ==
    /\ \A i, j \in 1 .. Len(x) : x[i] = x[j] => i = j
    /\ \A i, j \in 1 .. Len(y) : y[i] = y[j] => i = j
    /\ \A i \in 1 .. Len(x), j \in 1 .. Len(y) : x[i] # y[j]
    /\ \A i \in 1 .. Len(x) : x[i] # g /\ x[i] # h
    /\ \A i \in 1 .. Len(y) : y[i] # g /\ y[i] # h
    /\ g = h => g = None

\* Every fragment has one owner: it is never twice on the lists, and what VBlank
\* is filling or the callback is copying is on no list and not the other
\* thread's, so samples are never overwritten while they are being played.
OneOwner == Apart(free.items, sound.items, filling, copying)

\* _samplesInQueue is changed after the lists, so it runs ahead or behind them
\* by exactly the fragments whose transfer is half done.  It can be negative.
SamplesTrackQueue ==
    thread # "crashed" =>
    samples = Len(sound.items)
              - (IF vblank \in {"first", "extra"} /\ filling = None THEN 1 ELSE 0)
              + (IF thread = "count" THEN 1 ELSE InHand(copying))

LatencyBound == IF LoWater > HiWater + 1 THEN LoWater ELSE HiWater + 1

\* The sound never lags further than the latency the user has set: a frame is
\* only put behind HiWater others at most, and VBlank catches up to the low-water
\* mark and no further, although both are decided on a counter that is ahead of or
\* behind the list and the callback empties the list under its hands.
LatencyBounded ==
    /\ Len(sound.items) <= LatencyBound
    /\ vblank = "first" => Len(sound.items) + InHand(filling) <= HiWater + 1

\* A callback that found a fragment copies at least one: it never dereferences
\* the NULL of an empty list and never enqueues a hardware buffer of size 0,
\* which CoreAudio refuses and the code turns into an exception.
CallbackHasData ==
    /\ thread = "copy" /\ copying = None /\ Count(sound) # 0 => sound.items # << >>
    /\ thread = "copy" /\ copying = None /\ Count(sound) = 0 => frames > 0

\* A queue that is left running keeps on playing: the fragments go round for
\* ever, although count() sometimes hides one of them from the callback.
SoundFlows ==
    <>[](audioQueue = "started" /\ isRunning /\ vblank \notin {"gone", "crashed"})
        => []<>(copying # None)
=============================================================================
