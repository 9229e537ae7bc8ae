------------------------------ MODULE KeyInput ------------------------------
(***************************************************************************)
(* The way of a key press from the on-screen keyboard to the C64 keyboard  *)
(* matrix.                                                                 *)
(*                                                                         *)
(* The UI thread queues key events under the lock of Keyboard, one call    *)
(* per event; auto_boot, a CPU trap on the emulation thread, queues three  *)
(* of its own.  Once per frame C64Display::PollKeyboard takes events off   *)
(* the queue until it is empty or says HOLD, and moves them into KeyMatrix *)
(* and RevMatrix of CIA 1.  A game launched from another tab resets CIA 1  *)
(* on the UI thread, so both threads write the matrices, byte by byte and  *)
(* unlocked.                                                               *)
(*                                                                         *)
(* RESET and RESTORE are on no layout (keys_declaration.h) and left out;   *)
(* TOGGLE_SPEED stands for the special keys.                               *)
(***************************************************************************)
EXTENDS Naturals, Sequences

CONSTANTS
    UiKeys,         \* the key codes on the keyboard layout
    MaxPresses,     \* bound: how often a key is touched
    MaxLaunches     \* bound: how often auto_boot is trapped or CIA 1 is reset

\* A key code names a place in the matrix, <<byte, bit>>, and may say shifted.
\* The place of a special key is whatever its low bits come to.
Position == [SHIFT_RUNSTOP |-> <<7, 7>>, RUNSTOP |-> <<7, 7>>,
             CLT |-> <<0, 2>>, CRT |-> <<0, 2>>, TOGGLE_SPEED |-> <<0, 2>>]
Codes == DOMAIN Position
Shifted == {"SHIFT_RUNSTOP", "CLT"}
ShiftRight == <<6, 4>>

ASSUME KeyInputAssumption ==
    /\ UiKeys \subseteq Codes
    /\ MaxPresses \in Nat /\ MaxLaunches \in Nat

Down(code) == [code |-> code, state |-> "down"]
Up(code)   == [code |-> code, state |-> "up"]
HoldKey    == [code |-> "HOLD_KEY", state |-> "up"]

NoEvents == << >>

VARIABLES
    events,         \* Keyboard._events
    matrix,         \* the pressed places in "key" (KeyMatrix) and "rev" (RevMatrix)
    emu,            \* emulation thread: "poll", "down" or "up" (in
                    \* translate_key), "frame" or "boot"
    todo,           \* translate_key: the bytes still to change
    loaded,         \* the byte it has read and not yet written back, if any
    limitSpeed,     \* ThePrefs.LimitSpeed
    bootPending,    \* events auto_boot has still to queue
    fingers,        \* the touches that have not ended, on a key or not
    touch, locked,  \* KeyboardView.current and keyLocked
    timer,          \* its keyDownDelay is running
    uiPending,      \* events the UI thread has still to queue
    resetByte,      \* the matrix byte the UI thread's reset is at, 16 for none
    orphans,        \* history: the keys another finger has replaced while keyLocked
    seen,           \* history: the codes shown to the program since they went down
    presses, boots, resets

emuVars == <<emu, todo, loaded, limitSpeed>>
touches == <<fingers, touch, locked, timer, orphans, presses>>
uiVars == <<touches, uiPending>>
resetVars == <<resetByte, resets>>
bootVars == <<bootPending, boots>>
vars == <<events, matrix, emuVars, uiVars, resetVars, bootVars, seen>>

Init ==
    /\ events = NoEvents
    /\ matrix = [m \in {"key", "rev"} |-> {}]
    /\ emu = "frame" /\ todo = << >> /\ loaded = << >>
    /\ limitSpeed = TRUE
    /\ fingers = 0 /\ touch = "none" /\ locked = FALSE /\ timer = FALSE /\ orphans = {}
    /\ uiPending = NoEvents /\ bootPending = NoEvents
    /\ resetByte = 16
    /\ seen = Codes
    /\ presses = 0 /\ boots = 0 /\ resets = 0

-----------------------------------------------------------------------------
(* UI thread: KeyboardView and keyUp, keyDown of EmulationViewController *)

UiFree == uiPending = NoEvents /\ resetByte = 16

\* Each key is a view that takes one touch, and passes it on to its KeyboardView: its
\* handlers have one touch at a time, of any finger
UiHandler ==
    /\ UiFree
    /\ UNCHANGED <<events, matrix, emuVars, resetVars, bootVars, seen>>

\* current = key, restartKeyDownTimer
Point(code) == touch' = code /\ timer' = TRUE

\* touchesBegan, on a key or between them.  Whatever key was current before is forgotten,
\* but keyLocked stays.
TouchesBegan(code) ==
    /\ UiHandler
    /\ presses < MaxPresses /\ presses' = presses + 1
    /\ fingers' = fingers + 1
    /\ IF code = "none"
       THEN UNCHANGED <<touch, timer, orphans>>
       ELSE /\ Point(code)
            /\ orphans' = IF locked /\ touch # code THEN orphans \cup {touch} ELSE orphans
    /\ UNCHANGED <<locked, uiPending>>

\* touchesMoved: until a key is locked a touch may slide to another key, or off the
\* keys and on again
TouchesMoved(code) ==
    /\ UiHandler /\ fingers > 0 /\ ~locked
    /\ IF code = "none" THEN touch' = code /\ UNCHANGED timer ELSE Point(code)
    /\ UNCHANGED <<fingers, locked, orphans, uiPending, presses>>

\* the timer: the key has been held long enough, keyDown
LockPushedKey ==
    /\ UiHandler /\ timer /\ timer' = FALSE
    /\ IF touch = "none"
       THEN UNCHANGED <<locked, uiPending>>
       ELSE locked' = TRUE /\ uiPending' = <<Down(touch)>>
    /\ UNCHANGED <<fingers, touch, orphans, presses>>

\* Broken variant: without the hold event
TapUnheld(code) == <<Down(code), Up(code)>>

\* keyUp, and auto_boot: the key goes down, is held for a frame and goes up
Tap(code) == <<Down(code), HoldKey, Up(code)>>

\* endKeyPress, with or without the keyUp before it; nothing if there is no key
EndKeyPress(up) ==
    /\ UiHandler /\ fingers > 0 /\ fingers' = fingers - 1
    /\ IF touch = "none"
       THEN UNCHANGED <<touch, locked, timer, orphans, uiPending>>
       ELSE /\ touch' = "none" /\ locked' = FALSE /\ timer' = FALSE
            /\ uiPending' = IF up THEN Tap(touch) ELSE NoEvents
            /\ orphans' = IF up THEN orphans \ {touch} ELSE orphans
    /\ UNCHANGED presses

\* touchesEnded, of any finger: keyUp of the current key
TouchesEnded == EndKeyPress(TRUE)

\* Broken variant: a cancelled touch never releases the key
TouchesCancelledForgets == EndKeyPress(FALSE)

\* touchesCancelled: keyUp for a key that has gone down
TouchesCancelled == EndKeyPress(locked)

\* Keyboard::QueueKeyEvent, under the lock
QueueKeyEvent ==
    /\ uiPending # NoEvents
    /\ events' = Append(events, Head(uiPending))
    /\ uiPending' = Tail(uiPending)
    /\ UNCHANGED <<matrix, emuVars, touches, resetVars, bootVars, seen>>

\* launchGame: C64::Reset gets to MOS6526_1::Reset ...
Reset ==
    /\ UiFree /\ fingers = 0 /\ boots + resets < MaxLaunches
    /\ resetByte' = 0 /\ resets' = resets + 1
    /\ UNCHANGED <<events, matrix, emuVars, uiVars, bootVars, seen>>

\* The bytes in the order they are cleared: RevMatrix[i], then KeyMatrix[i]
ByteAt == [m |-> IF resetByte % 2 = 0 THEN "rev" ELSE "key", row |-> resetByte \div 2]

\* ... which clears the matrices one byte after the other.  (seen: a reset
\* excuses the taps it cuts short.)
ResetMatrixByte ==
    /\ resetByte < 16
    /\ matrix' = [matrix EXCEPT ![ByteAt.m] =
                    {place \in @ : place[1] # ByteAt.row}]
    /\ resetByte' = resetByte + 1
    /\ seen' = Codes
    /\ UNCHANGED <<events, emuVars, uiVars, bootVars, resets>>

-----------------------------------------------------------------------------
(* Emulation thread *)

\* The program runs for a frame with the matrices as the poll left them
EmulateFrame ==
    /\ emu = "frame"
    /\ emu' = "poll"
    /\ seen' = seen \cup
               {code \in Codes :
                  /\ Position[code] \in matrix["key"]
                  /\ code \in Shifted => ShiftRight \in matrix["key"]}
    /\ UNCHANGED <<events, matrix, todo, loaded, limitSpeed, uiVars, resetVars,
                   bootVars>>

\* auto_boot: the trap at the end of the KERNAL's start-up ...
AutoBoot ==
    /\ emu = "frame" /\ boots + resets < MaxLaunches
    /\ emu' = "boot" /\ boots' = boots + 1
    /\ bootPending' = Tap("SHIFT_RUNSTOP")
    /\ UNCHANGED <<events, matrix, todo, loaded, limitSpeed, uiVars, resetVars,
                   seen>>

\* ... queues its three events
QueueBootEvent ==
    /\ emu = "boot"
    /\ events' = Append(events, Head(bootPending))
    /\ bootPending' = Tail(bootPending)
    /\ emu' = IF Tail(bootPending) = NoEvents THEN "frame" ELSE "boot"
    /\ UNCHANGED <<matrix, todo, loaded, limitSpeed, uiVars, resetVars, boots,
                   seen>>

Swap(place) == <<place[2], place[1]>>
Places(place) == <<[m |-> "key", at |-> place], [m |-> "rev", at |-> Swap(place)]>>

\* Broken variant: shift is only ever pressed
WritesKeepShift(event) ==
    (IF event.code \in Shifted /\ event.state = "down"
     THEN Places(ShiftRight) ELSE << >>)
    \o Places(Position[event.code])

\* translate_key: the bytes changed for an event, in order, right shift first
Writes(event) ==
    (IF event.code \in Shifted THEN Places(ShiftRight) ELSE << >>)
    \o Places(Position[event.code])

\* PollKeyboard: the poll is over when there is no event, ...
PollEmpty ==
    /\ emu = "poll" /\ events = NoEvents
    /\ emu' = "frame"
    /\ UNCHANGED <<events, matrix, todo, loaded, limitSpeed, uiVars, resetVars,
                   bootVars, seen>>

\* ... when it is the hold event ...
PollHold ==
    /\ emu = "poll" /\ events # NoEvents /\ Head(events) = HoldKey
    /\ events' = Tail(events)
    /\ emu' = "frame"
    /\ UNCHANGED <<matrix, todo, loaded, limitSpeed, uiVars, resetVars, bootVars,
                   seen>>

\* ... and when a special key has gone down
PollSpecial ==
    /\ emu = "poll" /\ events # NoEvents /\ Head(events) = Down("TOGGLE_SPEED")
    /\ events' = Tail(events)
    /\ limitSpeed' = ~limitSpeed
    /\ emu' = "frame"
    /\ UNCHANGED <<matrix, todo, loaded, uiVars, resetVars, bootVars, seen>>

\* Every other event goes to translate_key, a special key going up too
PollKeyEvent ==
    /\ emu = "poll" /\ events # NoEvents
    /\ Head(events) \notin {HoldKey, Down("TOGGLE_SPEED")}
    /\ events' = Tail(events)
    /\ todo' = Writes(Head(events))
    /\ loaded' = << >>
    /\ emu' = Head(events).state
    /\ seen' = IF Head(events).state = "down" THEN seen \ {Head(events).code} ELSE seen
    /\ UNCHANGED <<matrix, limitSpeed, uiVars, resetVars, bootVars>>

Row(m, row) == {place \in matrix[m] : place[1] = row}

\* translate_key: each &= and |= reads a byte ...
LoadRow ==
    /\ emu \in {"down", "up"} /\ loaded = << >>
    /\ loaded' = <<Row(Head(todo).m, Head(todo).at[1])>>
    /\ UNCHANGED <<events, matrix, emu, todo, limitSpeed, uiVars, resetVars,
                   bootVars, seen>>

\* ... and writes it back
StoreRow ==
    /\ emu \in {"down", "up"} /\ loaded # << >>
    /\ LET w == Head(todo)
           byte == IF emu = "down" THEN Head(loaded) \cup {w.at}
                   ELSE Head(loaded) \ {w.at}
       IN matrix' = [matrix EXCEPT ![w.m] = (@ \ Row(w.m, w.at[1])) \cup byte]
    /\ todo' = Tail(todo)
    /\ loaded' = << >>
    /\ emu' = IF Tail(todo) = << >> THEN "poll" ELSE emu
    /\ UNCHANGED <<events, limitSpeed, uiVars, resetVars, bootVars, seen>>

-----------------------------------------------------------------------------
Emulation ==
    \/ EmulateFrame \/ QueueBootEvent \/ PollEmpty \/ PollHold \/ PollSpecial
    \/ PollKeyEvent \/ LoadRow \/ StoreRow

UiSteps == QueueKeyEvent \/ ResetMatrixByte

Touch ==
    \/ \E code \in UiKeys \cup {"none"} : TouchesBegan(code) \/ TouchesMoved(code)
    \/ LockPushedKey \/ TouchesEnded \/ TouchesCancelled

Next == Emulation \/ UiSteps \/ Touch \/ AutoBoot \/ Reset

Spec == Init /\ [][Next]_vars

\* Both threads are scheduled; nobody has to touch a key
FairSpec == Spec /\ WF_vars(Emulation) /\ WF_vars(UiSteps)

-----------------------------------------------------------------------------
Events == [code : Codes \cup {"HOLD_KEY"}, state : {"down", "up"}]
Matrix == SUBSET ((0 .. 7) \X (0 .. 7))

TypeOK ==
    /\ events \in Seq(Events)
    /\ matrix \in [{"key", "rev"} -> Matrix]
    /\ emu \in {"poll", "down", "up", "frame", "boot"}
    /\ todo \in Seq([m : {"key", "rev"}, at : (0 .. 7) \X (0 .. 7)])
    /\ emu \in {"down", "up"} <=> todo # << >>
    /\ loaded \in Seq(Matrix)
    /\ limitSpeed \in BOOLEAN
    /\ fingers \in 0 .. presses /\ touch \in UiKeys \cup {"none"} /\ locked \in BOOLEAN
    /\ timer \in BOOLEAN /\ orphans \subseteq UiKeys
    /\ uiPending \in Seq(Events) /\ bootPending \in Seq(Events)
    /\ resetByte \in 0 .. 16 /\ seen \subseteq Codes
    /\ presses \in 0 .. MaxPresses
    /\ boots \in Nat /\ resets \in Nat /\ boots + resets <= MaxLaunches

Releasing(code) == emu = "poll" /\ events # NoEvents /\ Head(events) = Up(code)

\* The keys that the boot trap may disturb: it presses and releases a place and the shift
Contested == Shifted \cup {code \in Codes : Position[code] = Position["SHIFT_RUNSTOP"]}

\* A key typed on the screen is never released before the program had a frame to
\* see it in, with shift if the key stands for a shifted one, although events
\* reach the matrices in bunches and keys share places and the shift key.  (The
\* boot trap takes the shift away from a shifted key, and its own place from RUNSTOP.)
TapSeen ==
    \A code \in UiKeys \ {"TOGGLE_SPEED"} :
        Releasing(code) /\ (code \in Contested => boots = 0) => code \in seen

\* The places that a key presses
Presses(code) == {w \in [m : {"key", "rev"}, at : (0 .. 7) \X (0 .. 7)] :
                     \E i \in 1 .. Len(Writes(Up(code))) : Writes(Up(code))[i] = w}

\* Nothing is down but what orphans have pressed
OnlyOrphansDown ==
    \A m \in {"key", "rev"} : \A place \in matrix[m] :
        \E code \in orphans : [m |-> m, at |-> place] \in Presses(code)

\* When no key is held and every event has been taken, no key is down in either matrix: no
\* order of fingers, releases and resets leaves a key, or its half in the reversed
\* matrix, stuck.  (But for the keys that have been held down while another finger came
\* to another key: keyUp names the current key only, and nobody releases the other,
\* until it is touched again.)
AllKeysUp ==
    /\ touch = "none" /\ uiPending = NoEvents /\ bootPending = NoEvents
    /\ events = NoEvents /\ emu \in {"poll", "frame"} /\ resetByte = 16
    => OnlyOrphansDown

\* When nobody touches the keyboard any more, the matrices empty for good, but for such
\* keys, however many polls the hold events cut short.
KeysComeUp == <>[](touch = "none") => <>[]OnlyOrphansDown
=============================================================================
