--------------------------- MODULE KeyInputProofs ---------------------------
(***************************************************************************)
(* Proofs about KeyInput for every set of keys on the layout and any       *)
(* number of touches, launches and resets: no key stays down, and a tap is *)
(* seen by the program before it is released.                              *)
(***************************************************************************)
EXTENDS KeyInput, TLAPS

Event == {Down(code) : code \in Codes} \cup {Up(code) : code \in Codes} \cup {HoldKey}
Write == [m : {"key", "rev"}, at : (0 .. 7) \X (0 .. 7)]

Shape ==
    /\ events \in Seq(Event) /\ uiPending \in Seq(Event) /\ bootPending \in Seq(Event)
    /\ matrix \in [{"key", "rev"} -> Matrix]
    /\ emu \in {"poll", "down", "up", "frame", "boot"}
    /\ todo \in Seq(Write) /\ (emu \in {"down", "up"} <=> todo # << >>)
    /\ loaded \in Seq(Matrix) /\ (loaded # << >> => todo # << >>)
    /\ touch \in UiKeys \cup {"none"} /\ seen \subseteq Codes

\* The boot trap's events come between those of a touch
BootShape ==
    /\ bootPending # << >> <=> emu = "boot"
    /\ \A i \in 1 .. Len(bootPending) : bootPending[i] \in {Down("SHIFT_RUNSTOP"), HoldKey, Up("SHIFT_RUNSTOP")}
    /\ boots = 0 => bootPending = << >>
    /\ boots \in Nat

-----------------------------------------------------------------------------
(* What will be released *)

\* The bytes that an event of a key changes
Changes(code) == {Writes(Up(code))[i] : i \in 1 .. Len(Writes(Up(code)))}

Among(x, s) == \E i \in 1 .. Len(s) : s[i] = x

\* The key is down until a touch ends, or for good
HeldDown(code) == (touch = code /\ locked) \/ code \in orphans

\* The release of the key is in a queue, or will be put there by the end of a touch, if it
\* is not an orphan
ToCome(code) ==
    \/ Among(Up(code), events) \/ Among(Up(code), uiPending) \/ Among(Up(code), bootPending)
    \/ HeldDown(code)

Covered(w) == \E code \in Codes : w \in Changes(code) /\ ToCome(code)
Released(w) == Covered(w) \/ (emu = "up" /\ Among(w, todo))

\* A key that goes down comes up later
DownsEnd ==
    \A code \in Codes :
        /\ \A i \in 1 .. Len(events) :
              events[i] = Down(code) =>
                  \/ \E j \in i + 1 .. Len(events) : events[j] = Up(code)
                  \/ Among(Up(code), uiPending) \/ Among(Up(code), bootPending)
                  \/ HeldDown(code)
        /\ \A i \in 1 .. Len(uiPending) :
              uiPending[i] = Down(code) =>
                  \/ \E j \in i + 1 .. Len(uiPending) : uiPending[j] = Up(code)
                  \/ HeldDown(code)
        /\ \A i \in 1 .. Len(bootPending) :
              bootPending[i] = Down(code) =>
                  \E j \in i + 1 .. Len(bootPending) : bootPending[j] = Up(code)

\* So does one that is down, or that the translation is about to press, or to write
\* back from a byte that the reset has cleared meanwhile
PressedEnds ==
    /\ \A m \in {"key", "rev"} : \A at \in matrix[m] : Released([m |-> m, at |-> at])
    /\ loaded # << >> => \A at \in loaded[1] : Released([m |-> todo[1].m, at |-> at])
    /\ emu = "down" => \A i \in 1 .. Len(todo) : Covered(todo[i])

KeysInv == Shape /\ BootShape /\ DownsEnd /\ PressedEnds

-----------------------------------------------------------------------------
(* Keys and their events *)

LEMMA CodesAre ==
    /\ Codes = {"SHIFT_RUNSTOP", "RUNSTOP", "CLT", "CRT", "TOGGLE_SPEED"}
    /\ \A code \in Codes : Position[code] \in (0 .. 7) \X (0 .. 7)
BY DEF Codes, Position

LEMMA EventsDiffer ==
    \A c, d : /\ Down(c) # Up(d) /\ (Down(c) = Down(d) <=> c = d) /\ (Up(c) = Up(d) <=> c = d)
              /\ Down(c).code = c /\ Up(c).code = c /\ Down(c).state = "down" /\ Up(c).state = "up"
              /\ Down(c) # HoldKey /\ (c \in Codes => Up(c) # HoldKey)
BY CodesAre DEF Down, Up, HoldKey

LEMMA EventsAre ==
    ASSUME NEW e \in Event, e # HoldKey
    PROVE  /\ e.code \in Codes /\ e.state \in {"down", "up"}
           /\ e = IF e.state = "down" THEN Down(e.code) ELSE Up(e.code)
BY EventsDiffer DEF Event

LEMMA TapIs ==
    ASSUME NEW code \in Codes
    PROVE  /\ Tap(code) \in Seq(Event) /\ Len(Tap(code)) = 3
           /\ Tap(code)[1] = Down(code) /\ Tap(code)[2] = HoldKey /\ Tap(code)[3] = Up(code)
BY DEF Tap, Event

\* What is translated is what the key changes
LEMMA WritesAre ==
    ASSUME NEW e, e.code \in Codes
    PROVE  /\ Writes(e) \in Seq(Write) /\ Writes(e) # << >>
           /\ Writes(e) = Writes(Up(e.code))
           /\ \A w : Among(w, Writes(e)) <=> w \in Changes(e.code)
<1>1. Writes(e) = Writes(Up(e.code))
  BY EventsDiffer DEF Writes
<1>2. Places(ShiftRight) \in Seq(Write) /\ Places(Position[e.code]) \in Seq(Write)
  BY CodesAre DEF Places, ShiftRight, Swap, Write
<1>3. Places(Position[e.code]) # << >> /\ Len(Places(Position[e.code])) = 2
  BY DEF Places
<1>4. Writes(e) \in Seq(Write) /\ Writes(e) # << >>
  BY <1>2, <1>3 DEF Writes
<1>. QED  BY <1>1, <1>4 DEF Changes, Among

-----------------------------------------------------------------------------
(* Queues *)

LEMMA TailIs ==
    ASSUME NEW S, NEW s \in Seq(S), s # << >>
    PROVE  /\ Tail(s) \in Seq(S) /\ Len(Tail(s)) = Len(s) - 1 /\ Head(s) = s[1] /\ Head(s) \in S
           /\ Len(s) \in Nat \ {0}
           /\ \A i \in 1 .. Len(s) - 1 : Tail(s)[i] = s[i + 1]
OBVIOUS

LEMMA AppendIs ==
    ASSUME NEW S, NEW s \in Seq(S), NEW x \in S
    PROVE  /\ Append(s, x) \in Seq(S) /\ Len(Append(s, x)) = Len(s) + 1 /\ Len(s) \in Nat
           /\ \A i \in 1 .. Len(s) : Append(s, x)[i] = s[i]
           /\ Append(s, x)[Len(s) + 1] = x
OBVIOUS

LEMMA AmongTail ==
    ASSUME NEW S, NEW s \in Seq(S), s # << >>, NEW x
    PROVE  Among(x, s) <=> x = Head(s) \/ Among(x, Tail(s))
<1>1. ASSUME NEW i \in 1 .. Len(s), s[i] = x, x # Head(s) PROVE Among(x, Tail(s))
  <2>1. i - 1 \in 1 .. Len(Tail(s)) /\ Tail(s)[i - 1] = x
    BY <1>1, TailIs
  <2>. QED  BY <2>1 DEF Among
<1>2. ASSUME NEW i \in 1 .. Len(Tail(s)), Tail(s)[i] = x PROVE Among(x, s)
  <2>1. i + 1 \in 1 .. Len(s) /\ s[i + 1] = x
    BY <1>2, TailIs
  <2>. QED  BY <2>1 DEF Among
<1>3. Head(s) = s[1] /\ 1 \in 1 .. Len(s)
  BY TailIs
<1>. QED  BY <1>1, <1>2, <1>3 DEF Among

LEMMA AmongAppend ==
    ASSUME NEW S, NEW s \in Seq(S), NEW y \in S, NEW x
    PROVE  Among(x, Append(s, y)) <=> x = y \/ Among(x, s)
<1>1. ASSUME NEW i \in 1 .. Len(s), s[i] = x PROVE Among(x, Append(s, y))
  <2>1. i \in 1 .. Len(Append(s, y)) /\ Append(s, y)[i] = x
    BY <1>1, AppendIs
  <2>. QED  BY <2>1 DEF Among
<1>2. Among(y, Append(s, y))
  <2>1. Len(s) + 1 \in 1 .. Len(Append(s, y)) /\ Append(s, y)[Len(s) + 1] = y
    BY AppendIs
  <2>. QED  BY <2>1 DEF Among
<1>3. ASSUME NEW i \in 1 .. Len(Append(s, y)), Append(s, y)[i] = x PROVE x = y \/ Among(x, s)
  <2>1. i \in 1 .. Len(s) \/ i = Len(s) + 1
    BY AppendIs
  <2>. QED  BY <1>3, <2>1, AppendIs DEF Among
<1>. QED  BY <1>1, <1>2, <1>3 DEF Among

-----------------------------------------------------------------------------
(* No key stays down *)

\* What keeps a release coming keeps all that is pressed covered
LEMMA CoveredKept ==
    ASSUME \A code \in Codes : ToCome(code) => ToCome(code)'
    PROVE  \A w : Covered(w) => Covered(w)'
BY DEF Covered, Changes

LEMMA PressedKept ==
    ASSUME PressedEnds, \A code \in Codes : ToCome(code) => ToCome(code)',
           UNCHANGED <<todo, loaded>>, emu' = emu \/ {emu, emu'} \cap {"down", "up"} = {},
           \A m \in {"key", "rev"} : matrix'[m] \subseteq matrix[m]
    PROVE  PressedEnds'
<1>1. \A w : Released(w) => Released(w)'
  BY CoveredKept DEF Released, Among
<1>. QED  BY <1>1, CoveredKept DEF PressedEnds

\* A queue in which every key comes up again
Ends(s, code) ==
    \A i \in 1 .. Len(s) : s[i] = Down(code) => \E j \in i + 1 .. Len(s) : s[j] = Up(code)

LEMMA TapEnds ==
    ASSUME NEW c \in Codes, NEW code \in Codes
    PROVE  Ends(Tap(c), code) /\ (Among(Up(code), Tap(c)) <=> code = c)
<1>1. Len(Tap(c)) = 3 /\ Tap(c)[1] = Down(c) /\ Tap(c)[2] = HoldKey /\ Tap(c)[3] = Up(c)
  BY TapIs
<1>2. \A i \in 1 .. Len(Tap(c)) : i = 1 \/ i = 2 \/ i = 3
  BY <1>1
<1>3. Ends(Tap(c), code)
  <2>. SUFFICES ASSUME NEW i \in 1 .. Len(Tap(c)), Tap(c)[i] = Down(code)
                PROVE  \E j \in i + 1 .. Len(Tap(c)) : Tap(c)[j] = Up(code)
    BY DEF Ends
  <2>1. i = 1 /\ code = c
    BY <1>1, <1>2, EventsDiffer
  <2>2. 3 \in i + 1 .. Len(Tap(c)) /\ Tap(c)[3] = Up(code)
    BY <1>1, <2>1
  <2>. QED  BY <2>2
<1>4. Among(Up(code), Tap(c)) <=> code = c
  <2>1. 3 \in 1 .. Len(Tap(c)) /\ (code = c => Tap(c)[3] = Up(code))
    BY <1>1
  <2>2. ASSUME NEW i \in 1 .. Len(Tap(c)), Tap(c)[i] = Up(code) PROVE code = c
    BY <1>1, <1>2, <2>2, EventsDiffer
  <2>. QED  BY <2>1, <2>2 DEF Among
<1>. QED  BY <1>3, <1>4

\* What is left of such a queue
LEMMA TailEnds ==
    ASSUME NEW s \in Seq(Event), s # << >>, NEW code \in Codes, NEW P \in BOOLEAN,
           \A i \in 1 .. Len(s) :
               s[i] = Down(code) => (\E j \in i + 1 .. Len(s) : s[j] = Up(code)) \/ P
    PROVE  /\ \A i \in 1 .. Len(Tail(s)) :
                  Tail(s)[i] = Down(code)
                  => (\E j \in i + 1 .. Len(Tail(s)) : Tail(s)[j] = Up(code)) \/ P
           /\ Head(s) = Down(code) => Among(Up(code), Tail(s)) \/ P
<1>1. /\ Len(Tail(s)) = Len(s) - 1 /\ Head(s) = s[1] /\ Len(s) \in Nat \ {0}
      /\ \A i \in 1 .. Len(s) - 1 : Tail(s)[i] = s[i + 1]
  BY TailIs
<1>2. ASSUME NEW i \in 1 .. Len(Tail(s)), Tail(s)[i] = Down(code), ~P
      PROVE  \E j \in i + 1 .. Len(Tail(s)) : Tail(s)[j] = Up(code)
  <2>1. i + 1 \in 1 .. Len(s) /\ s[i + 1] = Down(code)
    BY <1>1, <1>2
  <2>2. PICK j \in i + 2 .. Len(s) : s[j] = Up(code)
    BY <1>1, <1>2, <2>1
  <2>3. j - 1 \in i + 1 .. Len(Tail(s)) /\ Tail(s)[j - 1] = Up(code)
    BY <1>1, <2>2
  <2>. QED  BY <2>3
<1>3. ASSUME Head(s) = Down(code), ~P PROVE Among(Up(code), Tail(s))
  <2>1. 1 \in 1 .. Len(s) /\ s[1] = Down(code)
    BY <1>1, <1>3
  <2>2. PICK j \in 2 .. Len(s) : s[j] = Up(code)
    BY <1>1, <1>3, <2>1
  <2>3. j - 1 \in 1 .. Len(Tail(s)) /\ Tail(s)[j - 1] = Up(code)
    BY <1>1, <2>2
  <2>. QED  BY <2>3 DEF Among
<1>. QED  BY <1>2, <1>3

\* The poll takes an event
LEMMA TakeStep ==
    ASSUME Shape, DownsEnd, events # << >>, events' = Tail(events),
           UNCHANGED <<uiPending, bootPending, touch, locked, orphans>>, NEW code \in Codes
    PROVE  /\ DownsEnd'
           /\ ToCome(code) /\ Head(events) # Up(code) => ToCome(code)'
           /\ Head(events) = Down(code) => ToCome(code)'
<1>. DEFINE Later(c) == Among(Up(c), uiPending) \/ Among(Up(c), bootPending) \/ HeldDown(c)
<1>1. \A c \in Codes : Later(c)' = Later(c) /\ Later(c) \in BOOLEAN
  BY DEF Among, HeldDown
<1>2. \A c \in Codes :
        /\ \A i \in 1 .. Len(events') :
              events'[i] = Down(c) => (\E j \in i + 1 .. Len(events') : events'[j] = Up(c)) \/ Later(c)
        /\ Head(events) = Down(c) => Among(Up(c), events') \/ Later(c)
  <2>. TAKE c \in Codes
  <2>. DEFINE P == Later(c)
  <2>1. P \in BOOLEAN
    BY <1>1
  <2>2. \A i \in 1 .. Len(events) :
            events[i] = Down(c) => (\E j \in i + 1 .. Len(events) : events[j] = Up(c)) \/ P
    BY DEF DownsEnd
  <2>. HIDE DEF P
  <2>3. /\ \A i \in 1 .. Len(events') :
              events'[i] = Down(c) => (\E j \in i + 1 .. Len(events') : events'[j] = Up(c)) \/ P
        /\ Head(events) = Down(c) => Among(Up(c), events') \/ P
    BY <2>1, <2>2, TailEnds DEF Shape
  <2>. QED  BY <2>3 DEF P
<1>3. DownsEnd'
  BY <1>1, <1>2 DEF DownsEnd, Among, HeldDown
<1>4. Among(Up(code), events) <=> Up(code) = Head(events) \/ Among(Up(code), events')
  BY AmongTail DEF Shape
<1>. QED  BY <1>1, <1>2, <1>3, <1>4 DEF ToCome, Among

\* An event is moved from one of the queues of a thread to the events
LEMMA MoveStep ==
    ASSUME NEW s \in Seq(Event), NEW q \in Seq(Event), q # << >>, NEW code \in Codes,
           NEW P \in BOOLEAN, NEW Q \in BOOLEAN,
           \A i \in 1 .. Len(s) :
               s[i] = Down(code) =>
                   (\E j \in i + 1 .. Len(s) : s[j] = Up(code)) \/ Among(Up(code), q) \/ P,
           \A i \in 1 .. Len(q) :
               q[i] = Down(code) => (\E j \in i + 1 .. Len(q) : q[j] = Up(code)) \/ Q,
           Q => P
    PROVE  /\ \A i \in 1 .. Len(Append(s, Head(q))) :
                  Append(s, Head(q))[i] = Down(code) =>
                      \/ \E j \in i + 1 .. Len(Append(s, Head(q))) : Append(s, Head(q))[j] = Up(code)
                      \/ Among(Up(code), Tail(q)) \/ P
           /\ \A i \in 1 .. Len(Tail(q)) :
                  Tail(q)[i] = Down(code) =>
                      (\E j \in i + 1 .. Len(Tail(q)) : Tail(q)[j] = Up(code)) \/ Q
           /\ Among(Up(code), s) \/ Among(Up(code), q)
              => Among(Up(code), Append(s, Head(q))) \/ Among(Up(code), Tail(q))
<1>. DEFINE t == Append(s, Head(q))
            n == Len(s) + 1
<1>1. /\ Len(t) = n /\ Len(s) \in Nat /\ t[n] = Head(q) /\ \A i \in 1 .. Len(s) : t[i] = s[i]
      /\ Head(q) \in Event
  BY AppendIs, TailIs
<1>. HIDE DEF t
<1>2. /\ \A i \in 1 .. Len(Tail(q)) :
            Tail(q)[i] = Down(code)
            => (\E j \in i + 1 .. Len(Tail(q)) : Tail(q)[j] = Up(code)) \/ Q
      /\ Head(q) = Down(code) => Among(Up(code), Tail(q)) \/ Q
  BY TailEnds
<1>3. Among(Up(code), q) <=> Up(code) = Head(q) \/ Among(Up(code), Tail(q))
  BY AmongTail
<1>4. Among(Up(code), t) <=> Up(code) = Head(q) \/ Among(Up(code), s)
  BY <1>1, AmongAppend DEF t
<1>5. ASSUME NEW i \in 1 .. Len(t), t[i] = Down(code), ~P, ~Among(Up(code), Tail(q))
      PROVE  \E j \in i + 1 .. Len(t) : t[j] = Up(code)
  <2>1. i # n
    BY <1>1, <1>2, <1>5
  <2>2. i \in 1 .. Len(s) /\ s[i] = Down(code)
    BY <1>1, <1>5, <2>1
  <2>3. (\E j \in i + 1 .. Len(s) : s[j] = Up(code)) \/ Up(code) = Head(q)
    BY <1>3, <1>5, <2>2
  <2>4. CASE Up(code) = Head(q)
    <3>1. n \in i + 1 .. Len(t) /\ t[n] = Up(code)
      BY <1>1, <2>2, <2>4
    <3>. QED  BY <3>1
  <2>5. ASSUME NEW j \in i + 1 .. Len(s), s[j] = Up(code) PROVE \E k \in i + 1 .. Len(t) : t[k] = Up(code)
    <3>1. j \in i + 1 .. Len(t) /\ t[j] = Up(code)
      BY <1>1, <2>2, <2>5
    <3>. QED  BY <3>1
  <2>. QED  BY <2>3, <2>4, <2>5
<1>. QED  BY <1>2, <1>3, <1>4, <1>5 DEF t

\* A thread puts what it has to queue in hand
LEMMA HandsOver ==
    ASSUME Shape, DownsEnd, uiPending = NoEvents, NEW hand \in Seq(Event), uiPending' = hand,
           UNCHANGED <<events, bootPending>>,
           \A code \in Codes :
               /\ \A i \in 1 .. Len(hand) :
                     hand[i] = Down(code) =>
                         (\E j \in i + 1 .. Len(hand) : hand[j] = Up(code)) \/ HeldDown(code)'
               /\ HeldDown(code) => Among(Up(code), hand) \/ HeldDown(code)'
    PROVE  DownsEnd' /\ \A code \in Codes : ToCome(code) => ToCome(code)'
<1>1. \A code \in Codes : ~Among(Up(code), uiPending)
  BY DEF Among, NoEvents
<1>2. \A x : Among(x, events)' = Among(x, events) /\ Among(x, bootPending)' = Among(x, bootPending)
             /\ Among(x, uiPending)' = Among(x, hand)
  BY DEF Among
<1>3. \A code \in Codes : ToCome(code) => ToCome(code)'
  BY <1>1, <1>2 DEF ToCome
<1>4. ASSUME NEW code \in Codes, NEW i \in 1 .. Len(events), events[i] = Down(code)
      PROVE  \/ \E j \in i + 1 .. Len(events) : events[j] = Up(code)
             \/ Among(Up(code), hand) \/ Among(Up(code), bootPending) \/ HeldDown(code)'
  BY <1>1, <1>4 DEF DownsEnd
<1>5. ASSUME NEW code \in Codes, NEW i \in 1 .. Len(bootPending), bootPending[i] = Down(code)
      PROVE  \E j \in i + 1 .. Len(bootPending) : bootPending[j] = Up(code)
  BY <1>5 DEF DownsEnd
<1>6. DownsEnd'
  BY <1>2, <1>4, <1>5 DEF DownsEnd
<1>. QED  BY <1>3, <1>6

LEMMA KeysUi ==
    ASSUME KeysInv, Touch \/ UiSteps \/ Reset
    PROVE  KeysInv'
<1>1. Shape /\ BootShape /\ DownsEnd /\ PressedEnds
  BY DEF KeysInv
<1>2. UiKeys \subseteq Codes /\ "none" \notin Codes
  BY KeyInputAssumption, CodesAre
<1>3. UNCHANGED <<bootPending, boots, emu, todo, loaded>>
  BY DEF Touch, UiSteps, Reset, TouchesBegan, TouchesMoved, LockPushedKey, TouchesEnded,
         TouchesCancelled, EndKeyPress, UiHandler, touches, QueueKeyEvent, ResetMatrixByte, emuVars, bootVars
<1>4. BootShape'
  BY <1>1, <1>3 DEF BootShape
<1>5. CASE /\ UNCHANGED <<events, uiPending, matrix, seen>>
           /\ touch' \in UiKeys \cup {"none"}
           /\ \A code \in Codes : HeldDown(code) => HeldDown(code)'
  <2>1. \A code \in Codes : HeldDown(code) => HeldDown(code)'
    BY <1>5
  <2>2. Shape'
    BY <1>1, <1>3, <1>5 DEF Shape
  <2>3. DownsEnd'
    BY <1>1, <1>3, <1>5, <2>1 DEF DownsEnd, Among
  <2>4. \A code \in Codes : ToCome(code) => ToCome(code)'
    BY <1>3, <1>5, <2>1 DEF ToCome, Among
  <2>5. PressedEnds'
    BY <1>1, <1>3, <1>5, <2>4, PressedKept
  <2>. QED  BY <1>4, <2>2, <2>3, <2>5 DEF KeysInv
<1>6. ASSUME NEW hand \in Seq(Event), uiPending = NoEvents, uiPending' = hand,
             UNCHANGED <<events, matrix, seen>>, touch' \in UiKeys \cup {"none"},
             \A code \in Codes :
                 /\ \A i \in 1 .. Len(hand) :
                       hand[i] = Down(code) =>
                           (\E j \in i + 1 .. Len(hand) : hand[j] = Up(code)) \/ HeldDown(code)'
                 /\ HeldDown(code) => Among(Up(code), hand) \/ HeldDown(code)'
      PROVE  KeysInv'
  <2>1. DownsEnd' /\ \A code \in Codes : ToCome(code) => ToCome(code)'
    BY <1>1, <1>3, <1>6, HandsOver
  <2>2. PressedEnds'
    BY <1>1, <1>3, <1>6, <2>1, PressedKept
  <2>3. Shape'
    BY <1>1, <1>3, <1>6 DEF Shape
  <2>. QED  BY <1>4, <2>1, <2>2, <2>3 DEF KeysInv
<1>7. ASSUME touch # "none", uiPending = NoEvents, uiPending' = Tap(touch), touch' = "none",
             UNCHANGED <<events, matrix, seen>>, orphans' = orphans \ {touch}
      PROVE  KeysInv'
  <2>1. touch \in Codes
    BY <1>1, <1>2, <1>7 DEF Shape
  <2>2. Tap(touch) \in Seq(Event) /\ \A code \in Codes : Ends(Tap(touch), code) /\ (code = touch => Among(Up(code), Tap(touch)))
    BY <2>1, TapIs, TapEnds
  <2>3. \A code \in Codes : HeldDown(code) => code = touch \/ HeldDown(code)'
    BY <1>7 DEF HeldDown
  <2>. QED  BY <1>6, <1>7, <2>2, <2>3 DEF Ends
<1>8. ASSUME NEW code \in UiKeys \cup {"none"}, TouchesBegan(code) PROVE KeysInv'
  <2>1. UNCHANGED <<events, uiPending, matrix, seen>> /\ touch' \in UiKeys \cup {"none"}
    BY <1>1, <1>8 DEF TouchesBegan, UiHandler, Point, Shape
  <2>2. \A c \in Codes : HeldDown(c) => HeldDown(c)'
    BY <1>8 DEF TouchesBegan, Point, HeldDown
  <2>. QED  BY <1>5, <2>1, <2>2
<1>9. ASSUME NEW code \in UiKeys \cup {"none"}, TouchesMoved(code) PROVE KeysInv'
  <2>1. UNCHANGED <<events, uiPending, matrix, seen>> /\ touch' \in UiKeys \cup {"none"}
    BY <1>9 DEF TouchesMoved, UiHandler, Point
  <2>2. \A c \in Codes : HeldDown(c) => HeldDown(c)'
    BY <1>9 DEF TouchesMoved, HeldDown
  <2>. QED  BY <1>5, <2>1, <2>2
<1>10. CASE LockPushedKey
  <2>1. CASE touch = "none"
    <3>1. UNCHANGED <<events, uiPending, matrix, seen, touch, locked, orphans>>
      BY <1>10, <2>1 DEF LockPushedKey, UiHandler
    <3>2. \A c \in Codes : HeldDown(c) => HeldDown(c)'
      BY <3>1 DEF HeldDown
    <3>. QED  BY <1>1, <1>5, <3>1, <3>2 DEF Shape
  <2>2. CASE touch # "none"
    <3>1. touch \in Codes /\ uiPending = NoEvents /\ uiPending' = <<Down(touch)>> /\ touch' = touch /\ locked'
          /\ UNCHANGED <<events, matrix, seen, orphans>>
      BY <1>1, <1>2, <1>10, <2>2 DEF LockPushedKey, UiHandler, UiFree, Shape
    <3>2. <<Down(touch)>> \in Seq(Event)
      BY <3>1 DEF Event
    <3>3. \A code \in Codes : \A i \in 1 .. Len(<<Down(touch)>>) :
              <<Down(touch)>>[i] = Down(code) => touch = code
      BY EventsDiffer
    <3>4. \A code \in Codes : (HeldDown(code) => HeldDown(code)') /\ (touch = code => HeldDown(code)')
      BY <3>1 DEF HeldDown
    <3>. QED  BY <1>1, <1>6, <3>1, <3>2, <3>3, <3>4 DEF Shape
  <2>. QED  BY <2>1, <2>2
<1>11. ASSUME NEW up \in BOOLEAN, EndKeyPress(up), up \/ ~locked PROVE KeysInv'
  <2>1. CASE touch = "none"
    <3>1. UNCHANGED <<events, uiPending, matrix, seen, touch, locked, orphans>>
      BY <1>11, <2>1 DEF EndKeyPress, UiHandler
    <3>2. \A c \in Codes : HeldDown(c) => HeldDown(c)'
      BY <3>1 DEF HeldDown
    <3>. QED  BY <1>1, <1>5, <3>1, <3>2 DEF Shape
  <2>2. CASE touch # "none" /\ up
    BY <1>7, <1>11, <2>2 DEF EndKeyPress, UiHandler, UiFree
  <2>3. CASE touch # "none" /\ ~up
    <3>1. UNCHANGED <<events, uiPending, matrix, seen, orphans>> /\ touch' = "none" /\ ~locked
      BY <1>11, <2>3 DEF EndKeyPress, UiHandler, UiFree
    <3>2. \A c \in Codes : HeldDown(c) => HeldDown(c)'
      BY <3>1 DEF HeldDown
    <3>. QED  BY <1>5, <3>1, <3>2
  <2>. QED  BY <1>11, <2>1, <2>2, <2>3
<1>12. CASE TouchesEnded \/ TouchesCancelled
  <2>1. CASE TouchesEnded
    BY <1>11, <2>1 DEF TouchesEnded
  <2>2. CASE TouchesCancelled /\ locked
    BY <1>11, <2>2 DEF TouchesCancelled, EndKeyPress
  <2>3. CASE TouchesCancelled /\ ~locked
    BY <1>11, <2>3 DEF TouchesCancelled, EndKeyPress
  <2>. QED  BY <1>12, <2>1, <2>2, <2>3
<1>13. CASE QueueKeyEvent
  <2>1. /\ uiPending # << >> /\ events' = Append(events, Head(uiPending)) /\ uiPending' = Tail(uiPending)
        /\ UNCHANGED <<matrix, touch, locked, orphans, seen>>
    BY <1>13 DEF QueueKeyEvent, NoEvents, touches
  <2>2. Shape'
    BY <1>1, <1>3, <2>1, TailIs, AppendIs DEF Shape
  <2>3. ASSUME NEW code \in Codes
        PROVE  /\ \A i \in 1 .. Len(events') :
                      events'[i] = Down(code) =>
                          \/ \E j \in i + 1 .. Len(events') : events'[j] = Up(code)
                          \/ Among(Up(code), uiPending') \/ Among(Up(code), bootPending)
                          \/ HeldDown(code)
               /\ \A i \in 1 .. Len(uiPending') :
                      uiPending'[i] = Down(code) =>
                          \/ \E j \in i + 1 .. Len(uiPending') : uiPending'[j] = Up(code)
                          \/ HeldDown(code)
               /\ Among(Up(code), events) \/ Among(Up(code), uiPending)
                  => Among(Up(code), events') \/ Among(Up(code), uiPending')
    <3>. DEFINE Q == HeldDown(code)
                P == Among(Up(code), bootPending) \/ Q
    <3>1. P \in BOOLEAN /\ Q \in BOOLEAN /\ (Q => P) /\ events \in Seq(Event) /\ uiPending \in Seq(Event)
      BY <1>1 DEF Shape, Among, HeldDown
    <3>2. /\ \A i \in 1 .. Len(events) :
               events[i] = Down(code) =>
                   (\E j \in i + 1 .. Len(events) : events[j] = Up(code)) \/ Among(Up(code), uiPending) \/ P
          /\ \A i \in 1 .. Len(uiPending) :
               uiPending[i] = Down(code) =>
                   (\E j \in i + 1 .. Len(uiPending) : uiPending[j] = Up(code)) \/ Q
      BY <1>1 DEF DownsEnd
    <3>. HIDE DEF P, Q
    <3>3. /\ \A i \in 1 .. Len(events') :
                  events'[i] = Down(code) =>
                      \/ \E j \in i + 1 .. Len(events') : events'[j] = Up(code)
                      \/ Among(Up(code), uiPending') \/ P
          /\ \A i \in 1 .. Len(uiPending') :
                  uiPending'[i] = Down(code) =>
                      (\E j \in i + 1 .. Len(uiPending') : uiPending'[j] = Up(code)) \/ Q
          /\ Among(Up(code), events) \/ Among(Up(code), uiPending)
              => Among(Up(code), events') \/ Among(Up(code), uiPending')
      BY <2>1, <3>1, <3>2, MoveStep
    <3>. QED  BY <3>3 DEF P, Q
  <2>4. \A code \in Codes : ToCome(code) => ToCome(code)'
    BY <1>3, <2>1, <2>3 DEF ToCome, Among, HeldDown
  <2>5. DownsEnd'
    <3>1. \A code \in Codes : \A i \in 1 .. Len(bootPending) :
              bootPending[i] = Down(code) => \E j \in i + 1 .. Len(bootPending) : bootPending[j] = Up(code)
      BY <1>1 DEF DownsEnd
    <3>. QED  BY <1>3, <2>1, <2>3, <3>1 DEF DownsEnd, Among, HeldDown
  <2>6. PressedEnds'
    BY <1>1, <1>3, <2>1, <2>4, PressedKept
  <2>. QED  BY <1>4, <2>2, <2>5, <2>6 DEF KeysInv
<1>14. CASE Reset
  BY <1>1, <1>5, <1>14 DEF Reset, uiVars, touches, Shape, HeldDown
<1>15. CASE ResetMatrixByte
  <2>1. /\ UNCHANGED <<events, uiPending, touch, locked, orphans>> /\ seen' = Codes
        /\ matrix' = [matrix EXCEPT ![ByteAt.m] = {place \in @ : place[1] # ByteAt.row}]
    BY <1>15 DEF ResetMatrixByte, uiVars, touches
  <2>2. \A m \in {"key", "rev"} : matrix'[m] \subseteq matrix[m]
    BY <1>1, <2>1 DEF Shape
  <2>3. matrix' \in [{"key", "rev"} -> Matrix]
    BY <1>1, <2>1, <2>2 DEF Shape, Matrix
  <2>4. Shape'
    BY <1>1, <1>3, <2>1, <2>3 DEF Shape
  <2>5. DownsEnd' /\ \A code \in Codes : ToCome(code) => ToCome(code)'
    BY <1>1, <1>3, <2>1 DEF DownsEnd, ToCome, Among, HeldDown
  <2>6. PressedEnds'
    BY <1>1, <1>3, <2>2, <2>5, PressedKept
  <2>. QED  BY <1>4, <2>4, <2>5, <2>6 DEF KeysInv
<1>. QED  BY <1>8, <1>9, <1>10, <1>12, <1>13, <1>14, <1>15 DEF Touch, UiSteps

\* Writes pending and what has been read stay covered while the emulation thread takes
\* an event, translates it, or queues one
LEMMA KeysEmulation ==
    ASSUME KeysInv, Emulation \/ AutoBoot
    PROVE  KeysInv'
<1>1. Shape /\ BootShape /\ DownsEnd /\ PressedEnds
  BY DEF KeysInv
<1>2. UNCHANGED <<uiPending, touch, locked, orphans>>
  BY DEF Emulation, AutoBoot, EmulateFrame, QueueBootEvent, PollEmpty, PollHold, PollSpecial,
         PollKeyEvent, LoadRow, StoreRow, uiVars, touches
<1>3. CASE /\ UNCHANGED <<events, bootPending, boots, matrix, todo, loaded>>
           /\ emu \notin {"down", "up", "boot"} /\ emu' \in {"poll", "frame"} /\ seen' \subseteq Codes
  <2>1. Shape' /\ BootShape'
    BY <1>1, <1>2, <1>3 DEF Shape, BootShape
  <2>2. DownsEnd' /\ \A code \in Codes : ToCome(code) => ToCome(code)'
    BY <1>1, <1>2, <1>3 DEF DownsEnd, ToCome, Among, HeldDown
  <2>3. PressedEnds'
    BY <1>1, <1>3, <2>2, PressedKept
  <2>. QED  BY <2>1, <2>2, <2>3 DEF KeysInv
<1>4. CASE /\ UNCHANGED <<bootPending, boots, matrix, todo, loaded, seen>> /\ emu = "poll" /\ emu' = "frame"
           /\ events # << >> /\ events' = Tail(events) /\ \A code \in Codes : Head(events) # Up(code)
  <2>1. Shape' /\ BootShape'
    BY <1>1, <1>2, <1>4, TailIs DEF Shape, BootShape
  <2>2. DownsEnd' /\ \A code \in Codes : ToCome(code) => ToCome(code)'
    BY <1>1, <1>2, <1>4, TakeStep, CodesAre
  <2>3. PressedEnds'
    BY <1>1, <1>4, <2>2, PressedKept
  <2>. QED  BY <2>1, <2>2, <2>3 DEF KeysInv
<1>5. CASE EmulateFrame \/ PollEmpty
  BY <1>1, <1>3, <1>5 DEF EmulateFrame, PollEmpty, bootVars, Shape
<1>6. CASE PollHold
  <2>1. \A code \in Codes : Head(events) # Up(code)
    BY <1>6, EventsDiffer DEF PollHold
  <2>. QED  BY <1>4, <1>6, <2>1 DEF PollHold, bootVars, NoEvents
<1>7. CASE PollSpecial
  <2>1. \A code \in Codes : Head(events) # Up(code)
    BY <1>7, EventsDiffer DEF PollSpecial
  <2>. QED  BY <1>4, <1>7, <2>1 DEF PollSpecial, bootVars, NoEvents
<1>8. CASE AutoBoot
  <2>1. /\ emu = "frame" /\ emu' = "boot" /\ bootPending = << >> /\ bootPending' = Tap("SHIFT_RUNSTOP")
        /\ boots' = boots + 1 /\ boots \in Nat /\ UNCHANGED <<events, matrix, todo, loaded, seen>>
    BY <1>1, <1>8 DEF AutoBoot, BootShape
  <2>2. /\ Tap("SHIFT_RUNSTOP") \in Seq(Event) /\ Len(Tap("SHIFT_RUNSTOP")) = 3
        /\ Tap("SHIFT_RUNSTOP")[1] = Down("SHIFT_RUNSTOP") /\ Tap("SHIFT_RUNSTOP")[2] = HoldKey
        /\ Tap("SHIFT_RUNSTOP")[3] = Up("SHIFT_RUNSTOP")
        /\ \A code \in Codes : Ends(Tap("SHIFT_RUNSTOP"), code)
    BY CodesAre, TapIs, TapEnds
  <2>3. Shape'
    BY <1>1, <1>2, <2>1, <2>2 DEF Shape
  <2>4. BootShape'
    <3>1. \A i \in 1 .. 3 : i = 1 \/ i = 2 \/ i = 3
      OBVIOUS
    <3>. QED  BY <2>1, <2>2, <3>1 DEF BootShape
  <2>5. \A code \in Codes : ~Among(Up(code), bootPending)
    BY <2>1 DEF Among
  <2>6. \A code \in Codes : ToCome(code) => ToCome(code)'
    BY <1>2, <2>1, <2>5 DEF ToCome, Among, HeldDown
  <2>7. DownsEnd'
    BY <1>1, <1>2, <2>1, <2>2, <2>5 DEF DownsEnd, Ends, Among, HeldDown
  <2>8. PressedEnds'
    BY <1>1, <2>1, <2>6, PressedKept
  <2>. QED  BY <2>3, <2>4, <2>7, <2>8 DEF KeysInv
<1>9. CASE QueueBootEvent
  <2>1. /\ bootPending # << >> /\ events' = Append(events, Head(bootPending)) /\ bootPending' = Tail(bootPending)
        /\ emu = "boot" /\ emu' = IF Tail(bootPending) = << >> THEN "frame" ELSE "boot"
        /\ UNCHANGED <<matrix, todo, loaded, seen, boots>>
    BY <1>1, <1>9 DEF QueueBootEvent, BootShape, NoEvents
  <2>2. Shape'
    BY <1>1, <1>2, <2>1, TailIs, AppendIs DEF Shape
  <2>3. BootShape'
    <3>1. /\ Len(bootPending') = Len(bootPending) - 1 /\ Len(bootPending) \in Nat
          /\ \A i \in 1 .. Len(bootPending) - 1 : bootPending'[i] = bootPending[i + 1]
      BY <1>1, <2>1, TailIs DEF Shape
    <3>2. \A i \in 1 .. Len(bootPending') : i + 1 \in 1 .. Len(bootPending) /\ bootPending'[i] = bootPending[i + 1]
      BY <3>1
    <3>. QED  BY <1>1, <2>1, <3>2 DEF BootShape
  <2>4. ASSUME NEW code \in Codes
        PROVE  /\ \A i \in 1 .. Len(events') :
                      events'[i] = Down(code) =>
                          \/ \E j \in i + 1 .. Len(events') : events'[j] = Up(code)
                          \/ Among(Up(code), uiPending) \/ Among(Up(code), bootPending')
                          \/ HeldDown(code)
               /\ \A i \in 1 .. Len(bootPending') :
                      bootPending'[i] = Down(code) =>
                          \E j \in i + 1 .. Len(bootPending') : bootPending'[j] = Up(code)
               /\ Among(Up(code), events) \/ Among(Up(code), bootPending)
                  => Among(Up(code), events') \/ Among(Up(code), bootPending')
    <3>. DEFINE Q == FALSE
                P == Among(Up(code), uiPending) \/ HeldDown(code)
    <3>1. P \in BOOLEAN /\ Q \in BOOLEAN /\ (Q => P) /\ events \in Seq(Event) /\ bootPending \in Seq(Event)
      BY <1>1 DEF Shape, Among
    <3>2. /\ \A i \in 1 .. Len(events) :
               events[i] = Down(code) =>
                   (\E j \in i + 1 .. Len(events) : events[j] = Up(code)) \/ Among(Up(code), bootPending) \/ P
          /\ \A i \in 1 .. Len(bootPending) :
               bootPending[i] = Down(code) =>
                   (\E j \in i + 1 .. Len(bootPending) : bootPending[j] = Up(code)) \/ Q
      BY <1>1 DEF DownsEnd
    <3>. HIDE DEF P, Q
    <3>3. /\ \A i \in 1 .. Len(events') :
                  events'[i] = Down(code) =>
                      \/ \E j \in i + 1 .. Len(events') : events'[j] = Up(code)
                      \/ Among(Up(code), bootPending') \/ P
          /\ \A i \in 1 .. Len(bootPending') :
                  bootPending'[i] = Down(code) =>
                      (\E j \in i + 1 .. Len(bootPending') : bootPending'[j] = Up(code)) \/ Q
          /\ Among(Up(code), events) \/ Among(Up(code), bootPending)
              => Among(Up(code), events') \/ Among(Up(code), bootPending')
      BY <2>1, <3>1, <3>2, MoveStep
    <3>. QED  BY <3>3 DEF P, Q
  <2>5. \A code \in Codes : ToCome(code) => ToCome(code)'
    BY <1>2, <2>1, <2>4 DEF ToCome, Among, HeldDown
  <2>6. DownsEnd'
    <3>1. \A code \in Codes : \A i \in 1 .. Len(uiPending) :
              uiPending[i] = Down(code) =>
                  (\E j \in i + 1 .. Len(uiPending) : uiPending[j] = Up(code)) \/ HeldDown(code)
      BY <1>1 DEF DownsEnd
    <3>. QED  BY <1>2, <2>1, <2>4, <3>1 DEF DownsEnd, Among, HeldDown
  <2>7. PressedEnds'
    BY <1>1, <2>1, <2>5, PressedKept
  <2>. QED  BY <2>2, <2>3, <2>6, <2>7 DEF KeysInv
<1>10. CASE PollKeyEvent
  <2>. DEFINE e == Head(events)
  <2>1. /\ emu = "poll" /\ events # << >> /\ e # HoldKey /\ events' = Tail(events)
        /\ todo' = Writes(e) /\ loaded' = << >> /\ emu' = e.state
        /\ seen' \subseteq seen /\ UNCHANGED <<matrix, bootPending, boots>>
    BY <1>10 DEF PollKeyEvent, bootVars, NoEvents
  <2>2. e \in Event /\ events' \in Seq(Event)
    BY <1>1, <2>1, TailIs DEF Shape
  <2>. HIDE DEF e
  <2>3. /\ e.code \in Codes /\ e.state \in {"down", "up"}
        /\ e = IF e.state = "down" THEN Down(e.code) ELSE Up(e.code)
    BY <2>1, <2>2, EventsAre
  <2>4. /\ Writes(e) \in Seq(Write) /\ Writes(e) # << >>
        /\ \A w : Among(w, Writes(e)) <=> w \in Changes(e.code)
    BY <2>3, WritesAre
  <2>5. Shape'
    BY <1>1, <1>2, <2>1, <2>2, <2>3, <2>4 DEF Shape
  <2>6. BootShape'
    BY <1>1, <2>1, <2>3 DEF BootShape
  <2>7. /\ DownsEnd'
        /\ \A code \in Codes : ToCome(code) /\ e # Up(code) => ToCome(code)'
        /\ \A code \in Codes : e = Down(code) => ToCome(code)'
    BY <1>1, <1>2, <2>1, TakeStep, CodesAre DEF e
  <2>8. ASSUME NEW w, Released(w) PROVE Released(w)'
    <3>1. PICK code \in Codes : w \in Changes(code) /\ ToCome(code)
      BY <2>1, <2>8 DEF Released, Covered
    <3>2. CASE e = Up(code)
      <4>1. e.code = code /\ emu' = "up"
        BY <2>1, <3>2, EventsDiffer
      <4>2. Among(w, todo)'
        BY <2>1, <2>4, <3>1, <4>1 DEF Among
      <4>. QED  BY <4>1, <4>2 DEF Released
    <3>3. CASE e # Up(code)
      BY <2>7, <3>1, <3>3 DEF Released, Covered, Changes
    <3>. QED  BY <3>2, <3>3
  <2>9. ASSUME emu' = "down", NEW i \in 1 .. Len(todo') PROVE Covered(todo[i])'
    <3>1. PICK code \in Codes : code = e.code
      BY <2>3
    <3>2. ToCome(code)'
      BY <2>1, <2>3, <2>7, <2>9, <3>1
    <3>3. Among(todo'[i], Writes(e))
      BY <2>1, <2>9 DEF Among
    <3>4. todo'[i] \in Changes(code)
      BY <2>4, <3>1, <3>3
    <3>. QED  BY <3>2, <3>4 DEF Covered, Changes
  <2>10. PressedEnds'
    BY <1>1, <2>1, <2>8, <2>9 DEF PressedEnds
  <2>. QED  BY <2>5, <2>6, <2>7, <2>10 DEF KeysInv
<1>11. CASE LoadRow
  <2>1. /\ emu \in {"down", "up"} /\ loaded' = <<Row(todo[1].m, todo[1].at[1])>>
        /\ UNCHANGED <<events, matrix, emu, todo, bootPending, boots, seen>>
    BY <1>1, <1>11, TailIs DEF LoadRow, bootVars, Shape
  <2>2. /\ todo # << >> /\ todo[1] \in Write
        /\ Row(todo[1].m, todo[1].at[1]) \subseteq matrix[todo[1].m]
        /\ Row(todo[1].m, todo[1].at[1]) \in Matrix
    <3>1. todo # << >> /\ todo[1] \in Write
      BY <1>1, <2>1, TailIs DEF Shape
    <3>. QED  BY <1>1, <3>1 DEF Shape, Row, Matrix, Write
  <2>3. Shape' /\ BootShape'
    BY <1>1, <1>2, <2>1, <2>2 DEF Shape, BootShape
  <2>4. DownsEnd' /\ \A code \in Codes : ToCome(code) => ToCome(code)'
    BY <1>1, <1>2, <2>1 DEF DownsEnd, ToCome, Among, HeldDown
  <2>5. \A w : Released(w) => Released(w)'
    BY <2>1, <2>4, CoveredKept DEF Released, Among
  <2>6. loaded'[1] = Row(todo[1].m, todo[1].at[1]) /\ todo[1].m \in {"key", "rev"}
    BY <2>1, <2>2 DEF Write
  <2>7. PressedEnds'
    BY <1>1, <2>1, <2>2, <2>4, <2>5, <2>6, CoveredKept DEF PressedEnds
  <2>. QED  BY <2>3, <2>4, <2>7 DEF KeysInv
<1>12. CASE StoreRow
  <2>. DEFINE w == todo[1]
              byte == IF emu = "down" THEN loaded[1] \cup {w.at} ELSE loaded[1] \ {w.at}
  <2>1. /\ emu \in {"down", "up"} /\ loaded # << >> /\ todo # << >> /\ w \in Write
        /\ Head(todo) = w /\ Head(loaded) = loaded[1] /\ loaded[1] \in Matrix
        /\ Tail(todo) \in Seq(Write)
    BY <1>1, <1>12, TailIs DEF StoreRow, Shape
  <2>2. /\ matrix' = [matrix EXCEPT ![w.m] = (@ \ Row(w.m, w.at[1])) \cup byte]
        /\ todo' = Tail(todo) /\ loaded' = << >>
        /\ emu' = IF Tail(todo) = << >> THEN "poll" ELSE emu
        /\ UNCHANGED <<events, bootPending, boots, seen>>
    BY <1>12, <2>1 DEF StoreRow, bootVars
  <2>3. w.m \in {"key", "rev"} /\ w.at \in (0 .. 7) \X (0 .. 7) /\ byte \in Matrix
        /\ w = [m |-> w.m, at |-> w.at]
    BY <2>1 DEF Write, Matrix
  <2>. HIDE DEF w, byte
  <2>4. Shape'
    <3>1. matrix' \in [{"key", "rev"} -> Matrix]
      BY <1>1, <2>2, <2>3 DEF Shape, Matrix
    <3>. QED  BY <1>1, <1>2, <2>1, <2>2, <3>1 DEF Shape
  <2>5. BootShape'
    BY <1>1, <2>1, <2>2 DEF BootShape
  <2>6. DownsEnd' /\ \A code \in Codes : ToCome(code) <=> ToCome(code)'
    BY <1>1, <1>2, <2>2 DEF DownsEnd, ToCome, Among, HeldDown
  <2>7. \A x : Among(x, todo) <=> x = w \/ Among(x, todo')
    BY <1>1, <2>1, <2>2, AmongTail DEF Shape
  <2>8. ASSUME NEW x, Released(x), emu = "up" => x # w PROVE Released(x)'
    <3>1. CASE Covered(x)
      BY <2>6, <3>1, CoveredKept DEF Released
    <3>2. CASE emu = "up" /\ Among(x, todo)
      <4>1. Among(x, todo')
        BY <2>7, <2>8, <3>2
      <4>2. emu' = "up"
        BY <2>1, <2>2, <3>2, <4>1 DEF Among
      <4>. QED  BY <4>1, <4>2 DEF Released, Among
    <3>. QED  BY <2>8, <3>1, <3>2 DEF Released
  <2>9. ASSUME NEW m \in {"key", "rev"}, NEW at \in matrix'[m] PROVE Released([m |-> m, at |-> at])'
    <3>. DEFINE x == [m |-> m, at |-> at]
    <3>1. x.m = m /\ x.at = at
      OBVIOUS
    <3>2. matrix'[m] = IF m = w.m THEN (matrix[m] \ Row(w.m, w.at[1])) \cup byte ELSE matrix[m]
      BY <1>1, <2>2, <2>3 DEF Shape
    <3>3. CASE at \in byte /\ m = w.m
      <4>1. CASE emu = "down" /\ at = w.at
        <5>1. x = w
          BY <2>3, <3>3, <4>1
        <5>2. Covered(w)
          <6>1. 1 \in 1 .. Len(todo)
            BY <1>1, <2>1, TailIs DEF Shape
          <6>. QED  BY <1>1, <4>1, <6>1 DEF PressedEnds, w
        <5>. QED  BY <2>6, <5>1, <5>2, CoveredKept DEF Released
      <4>2. CASE ~(emu = "down" /\ at = w.at)
        <5>1. at \in loaded[1] /\ (emu = "up" => at # w.at)
          BY <2>1, <3>3, <4>2 DEF byte
        <5>2. Released(x)
          BY <1>1, <2>1, <3>3, <5>1 DEF PressedEnds, w
        <5>3. emu = "up" => x # w
          BY <3>1, <5>1
        <5>. HIDE DEF x
        <5>4. Released(x)'
          BY <2>8, <5>2, <5>3
        <5>. QED  BY <5>4 DEF x
      <4>. QED  BY <4>1, <4>2
    <3>4. CASE ~(at \in byte /\ m = w.m)
      <4>1. at \in matrix[m] /\ (m = w.m => at \notin Row(w.m, w.at[1]))
        BY <2>9, <3>2, <3>4
      <4>2. Released(x)
        BY <1>1, <4>1 DEF PressedEnds
      <4>3. x # w
        BY <3>1, <4>1 DEF Row
      <4>. HIDE DEF x
      <4>4. Released(x)'
        BY <2>8, <4>2, <4>3
      <4>. QED  BY <4>4 DEF x
    <3>. QED  BY <3>3, <3>4
  <2>10. ASSUME emu' = "down", NEW i \in 1 .. Len(todo') PROVE Covered(todo[i])'
    <3>1. emu = "down" /\ Len(todo') = Len(todo) - 1 /\ todo'[i] = todo[i + 1] /\ i + 1 \in 1 .. Len(todo)
      BY <1>1, <2>1, <2>2, <2>10, TailIs DEF Shape
    <3>2. Covered(todo[i + 1])
      BY <1>1, <3>1 DEF PressedEnds
    <3>. QED  BY <2>6, <3>1, <3>2 DEF Covered, Changes
  <2>11. PressedEnds'
    BY <2>2, <2>9, <2>10 DEF PressedEnds
  <2>. QED  BY <2>4, <2>5, <2>6, <2>11 DEF KeysInv
<1>. QED  BY <1>5, <1>6, <1>7, <1>8, <1>9, <1>10, <1>11, <1>12 DEF Emulation

LEMMA KeysStart == Init => KeysInv
<1>. SUFFICES ASSUME Init PROVE KeysInv
  OBVIOUS
<1>1. /\ events = << >> /\ uiPending = << >> /\ bootPending = << >> /\ todo = << >> /\ loaded = << >>
      /\ emu = "frame" /\ matrix = [m \in {"key", "rev"} |-> {}] /\ touch = "none" /\ seen = Codes /\ boots = 0
  BY DEF Init, NoEvents
<1>2. Shape /\ BootShape
  BY <1>1 DEF Shape, BootShape, Matrix
<1>3. DownsEnd /\ PressedEnds
  BY <1>1 DEF DownsEnd, PressedEnds
<1>. QED  BY <1>2, <1>3 DEF KeysInv

LEMMA KeysStep == KeysInv /\ [Next]_vars => KeysInv'
<1>. SUFFICES ASSUME KeysInv, [Next]_vars PROVE KeysInv'
  OBVIOUS
<1>1. CASE UNCHANGED vars
  <2>1. UNCHANGED <<events, uiPending, bootPending, boots, matrix, emu, todo, loaded, touch, locked, orphans, seen>>
    BY <1>1 DEF vars, emuVars, uiVars, touches, bootVars
  <2>2. Shape' /\ BootShape'
    BY <2>1 DEF KeysInv, Shape, BootShape
  <2>3. DownsEnd' /\ \A code \in Codes : ToCome(code) => ToCome(code)'
    BY <2>1 DEF KeysInv, DownsEnd, ToCome, Among, HeldDown
  <2>4. PressedEnds'
    BY <2>1, <2>3, PressedKept DEF KeysInv
  <2>. QED  BY <2>2, <2>3, <2>4 DEF KeysInv
<1>. QED  BY <1>1, KeysUi, KeysEmulation DEF Next

\* Whatever keys the layout has, and in whatever order any number of fingers touch, slide
\* over and release them beside boots and resets: when all is quiet, no key is down but
\* those that another finger has taken the place of.
THEOREM NoKeyStaysDown == Spec => []AllKeysUp
<1>1. KeysInv => AllKeysUp
  <2>. SUFFICES ASSUME KeysInv, touch = "none", uiPending = << >>, bootPending = << >>,
                       events = << >>, emu \in {"poll", "frame"},
                       NEW m \in {"key", "rev"}, NEW place \in matrix[m]
                PROVE  \E code \in orphans : [m |-> m, at |-> place] \in Presses(code)
    BY DEF AllKeysUp, OnlyOrphansDown, NoEvents
  <2>. DEFINE w == [m |-> m, at |-> place]
  <2>1. Released(w)
    BY DEF KeysInv, PressedEnds
  <2>2. PICK code \in Codes : w \in Changes(code) /\ ToCome(code)
    BY <2>1 DEF Released, Covered
  <2>3. code \in orphans
    BY <2>2, CodesAre DEF ToCome, Among, HeldDown
  <2>4. w \in [m : {"key", "rev"}, at : (0 .. 7) \X (0 .. 7)]
    BY DEF KeysInv, Shape, Matrix
  <2>5. w \in Presses(code)
    BY <2>2, <2>4 DEF Presses, Changes
  <2>. QED  BY <2>3, <2>5
<1>. QED  BY <1>1, KeysStart, KeysStep, PTL DEF Spec

-----------------------------------------------------------------------------
(* What will be seen *)

Needs(code) == {Position[code]} \cup (IF code \in Shifted THEN {ShiftRight} ELSE {})
InKey(place) == [m |-> "key", at |-> place]

\* The event takes a place away that the key needs
Clears(event, code) ==
    \E other \in Codes :
        event = Up(other) /\ \E place \in Needs(code) : InKey(place) \in Changes(other)

\* The events on their way to the poll
Coming == events \o uiPending

\* The release at i belongs to a tap that is still to come
Tapped(s, code, i) ==
    \E d \in 1 .. i - 1 : \E h \in d + 1 .. i - 1 :
        /\ s[d] = Down(code) /\ s[h] = HoldKey
        /\ \A k \in d + 1 .. h : ~Clears(s[k], code)
        /\ \A k \in h + 1 .. i - 1 : s[k] # Down(code)

\* All that the key needs is pressed, or about to be
Pressed(code) ==
    \A place \in Needs(code) :
        IF emu = "down" THEN place \in matrix["key"] \/ Among(InKey(place), todo)
        ELSE place \in matrix["key"] /\ (emu = "up" => ~Among(InKey(place), todo))

Held(s, code, i) ==
    \E h \in 1 .. i - 1 : s[h] = HoldKey /\ \A k \in 1 .. h : ~Clears(s[k], code)

NoDown(s, code, i) == \A k \in 1 .. i - 1 : s[k] # Down(code)

\* Or the key is down, and has been seen or will be
Waiting(s, code, i) ==
    /\ NoDown(s, code, i)
    /\ code \in seen \/ (Pressed(code) /\ (emu \in {"frame", "boot"} \/ Held(s, code, i)))

\* While a byte is changed it may lose keys to the reset, but gains none
RowKept == loaded # << >> => Row(todo[1].m, todo[1].at[1]) \subseteq loaded[1]

TapsInv ==
    \A code \in Codes \ {"TOGGLE_SPEED"} :
        (code \in Contested => boots = 0) =>
        \A i \in 1 .. Len(Coming) :
            Coming[i] = Up(code) => Tapped(Coming, code, i) \/ Waiting(Coming, code, i)

SeenInv == RowKept /\ TapsInv

LEMMA NeedsAre ==
    ASSUME NEW code \in Codes
    PROVE  \A place : InKey(place) \in Changes(code) <=> place \in Needs(code)
<1>1. Up(code).code = code
  BY EventsDiffer
<1>2. /\ Places(Position[code]) = <<InKey(Position[code]), [m |-> "rev", at |-> Swap(Position[code])]>>
      /\ Places(ShiftRight) = <<InKey(ShiftRight), [m |-> "rev", at |-> Swap(ShiftRight)]>>
  BY DEF Places, InKey
<1>3. \A place, x : /\ InKey(place) # [m |-> "rev", at |-> x]
                    /\ InKey(place) = InKey(x) <=> place = x
  BY DEF InKey
<1>. HIDE DEF InKey
<1>4. CASE code \in Shifted
  <2>1. Writes(Up(code)) = Places(ShiftRight) \o Places(Position[code])
    BY <1>1, <1>4 DEF Writes
  <2>2. /\ Len(Writes(Up(code))) = 4
        /\ Writes(Up(code))[1] = InKey(ShiftRight)
        /\ Writes(Up(code))[2] = [m |-> "rev", at |-> Swap(ShiftRight)]
        /\ Writes(Up(code))[3] = InKey(Position[code])
        /\ Writes(Up(code))[4] = [m |-> "rev", at |-> Swap(Position[code])]
    BY <1>2, <2>1
  <2>3. Changes(code) = {Writes(Up(code))[i] : i \in {1, 2, 3, 4}}
    <3>1. 1 .. Len(Writes(Up(code))) = {1, 2, 3, 4}
      BY <2>2
    <3>. QED  BY <3>1 DEF Changes
  <2>4. Needs(code) = {Position[code], ShiftRight}
    BY <1>4 DEF Needs
  <2>. QED  BY <1>3, <2>2, <2>3, <2>4
<1>5. CASE code \notin Shifted
  <2>1. Writes(Up(code)) = << >> \o Places(Position[code])
    BY <1>1, <1>5 DEF Writes
  <2>2. /\ Len(Writes(Up(code))) = 2 /\ Writes(Up(code))[1] = InKey(Position[code])
        /\ Writes(Up(code))[2] = [m |-> "rev", at |-> Swap(Position[code])]
    BY <1>2, <2>1
  <2>3. Changes(code) = {Writes(Up(code))[i] : i \in {1, 2}}
    <3>1. 1 .. Len(Writes(Up(code))) = {1, 2}
      BY <2>2
    <3>. QED  BY <3>1 DEF Changes
  <2>4. Needs(code) = {Position[code]}
    BY <1>5 DEF Needs
  <2>. QED  BY <1>3, <2>2, <2>3, <2>4
<1>. QED  BY <1>4, <1>5

LEMMA ComingIs ==
    ASSUME Shape
    PROVE  /\ Coming \in Seq(Event) /\ Len(Coming) = Len(events) + Len(uiPending)
           /\ Len(events) \in Nat /\ Len(uiPending) \in Nat
           /\ \A i \in 1 .. Len(Coming) :
                 Coming[i] = IF i <= Len(events) THEN events[i] ELSE uiPending[i - Len(events)]
BY DEF Shape, Coming

\* The first event is taken
LEMMA TakenTap ==
    ASSUME NEW s \in Seq(Event), NEW t \in Seq(Event), Len(s) = Len(t) + 1,
           \A k \in 1 .. Len(t) : t[k] = s[k + 1],
           NEW code \in Codes, NEW i \in 1 .. Len(t)
    PROVE  /\ Tapped(s, code, i + 1) =>
                  \/ Tapped(t, code, i)
                  \/ s[1] = Down(code) /\ NoDown(t, code, i) /\ Held(t, code, i)
           /\ NoDown(s, code, i + 1) => NoDown(t, code, i) /\ s[1] # Down(code)
           /\ Held(s, code, i + 1) => ~Clears(s[1], code) /\ (Held(t, code, i) \/ s[1] = HoldKey)
<1>0. Len(t) \in Nat /\ i \in Nat /\ (i + 1) - 1 = i
  OBVIOUS
<1>1. ASSUME Tapped(s, code, i + 1), ~Tapped(t, code, i)
      PROVE  s[1] = Down(code) /\ NoDown(t, code, i) /\ Held(t, code, i)
  <2>0. PICK d \in 1 .. i : \E h \in d + 1 .. i :
            /\ s[d] = Down(code) /\ s[h] = HoldKey
            /\ \A k \in d + 1 .. h : ~Clears(s[k], code)
            /\ \A k \in h + 1 .. i : s[k] # Down(code)
    BY <1>0, <1>1 DEF Tapped
  <2>1. PICK h \in d + 1 .. i :
            /\ s[d] = Down(code) /\ s[h] = HoldKey
            /\ \A k \in d + 1 .. h : ~Clears(s[k], code)
            /\ \A k \in h + 1 .. i : s[k] # Down(code)
    BY <2>0
  <2>2. ASSUME NEW b \in 1 .. h - 2, t[b] = Down(code), d <= b + 1 PROVE FALSE
    <3>1. h - 1 \in b + 1 .. i - 1 /\ b \in 1 .. i - 1 /\ t[h - 1] = HoldKey
      <4>1. b \in Nat /\ h \in Nat /\ h <= i /\ 1 <= b /\ b <= h - 2
        BY <1>0, <2>2
      <4>2. h - 1 \in 1 .. Len(t) /\ (h - 1) + 1 = h
        BY <1>0, <4>1
      <4>3. t[h - 1] = s[h]
        BY <4>2
      <4>. QED  BY <1>0, <2>1, <4>1, <4>3
    <3>2. \A k \in b + 1 .. h - 1 : ~Clears(t[k], code)
      <4>. TAKE k \in b + 1 .. h - 1
      <4>1. k + 1 \in d + 1 .. h /\ t[k] = s[k + 1]
        BY <1>0, <2>1, <2>2
      <4>. QED  BY <2>1, <4>1
    <3>3. \A k \in (h - 1) + 1 .. i - 1 : t[k] # Down(code)
      <4>. TAKE k \in (h - 1) + 1 .. i - 1
      <4>1. k + 1 \in h + 1 .. i /\ t[k] = s[k + 1]
        BY <1>0, <2>1
      <4>. QED  BY <2>1, <4>1
    <3>. QED  BY <1>1, <2>2, <3>1, <3>2, <3>3 DEF Tapped
  <2>3. d = 1
    <3>. SUFFICES ASSUME d # 1 PROVE FALSE
      OBVIOUS
    <3>1. d - 1 \in 1 .. h - 2 /\ t[d - 1] = Down(code) /\ d <= (d - 1) + 1
      BY <1>0, <2>1
    <3>. QED  BY <2>2, <3>1
  <2>4. h - 1 \in 1 .. i - 1 /\ t[h - 1] = HoldKey
    BY <1>0, <2>1, <2>3
  <2>5. Held(t, code, i)
    <3>1. \A k \in 1 .. h - 1 : ~Clears(t[k], code)
      <4>. TAKE k \in 1 .. h - 1
      <4>1. k + 1 \in d + 1 .. h /\ t[k] = s[k + 1]
        BY <1>0, <2>1, <2>3
      <4>. QED  BY <2>1, <4>1
    <3>. QED  BY <2>4, <3>1 DEF Held
  <2>6. NoDown(t, code, i)
    <3>. SUFFICES ASSUME NEW k \in 1 .. i - 1, t[k] = Down(code) PROVE FALSE
      BY DEF NoDown
    <3>1. k \in 1 .. h - 2 \/ k = h - 1 \/ k + 1 \in h + 1 .. i
      BY <1>0, <2>1
    <3>2. k \notin 1 .. h - 2
      BY <2>2, <2>3, <1>0
    <3>3. k # h - 1
      BY <2>4, EventsDiffer
    <3>4. t[k] = s[k + 1]
      BY <1>0
    <3>. QED  BY <2>1, <3>1, <3>2, <3>3, <3>4
  <2>. QED  BY <2>1, <2>3, <2>5, <2>6
<1>2. ASSUME NoDown(s, code, i + 1) PROVE NoDown(t, code, i) /\ s[1] # Down(code)
  <2>1. \A k \in 1 .. i - 1 : k + 1 \in 1 .. (i + 1) - 1 /\ t[k] = s[k + 1]
    <3>. TAKE k \in 1 .. i - 1
    <3>1. k \in 1 .. Len(t) /\ k + 1 \in 1 .. i
      BY <1>0
    <3>. QED  BY <1>0, <3>1
  <2>2. 1 \in 1 .. (i + 1) - 1
    BY <1>0
  <2>. QED  BY <1>2, <2>1, <2>2 DEF NoDown
<1>3. ASSUME Held(s, code, i + 1), s[1] # HoldKey PROVE Held(t, code, i)
  <2>1. PICK h \in 1 .. i : s[h] = HoldKey /\ \A k \in 1 .. h : ~Clears(s[k], code)
    BY <1>0, <1>3 DEF Held
  <2>2. h - 1 \in 1 .. i - 1 /\ t[h - 1] = HoldKey
    BY <1>0, <1>3, <2>1
  <2>3. \A k \in 1 .. h - 1 : ~Clears(t[k], code)
    <3>. TAKE k \in 1 .. h - 1
    <3>1. k \in 1 .. Len(t) /\ k + 1 \in 1 .. h
      BY <1>0, <2>1
    <3>2. t[k] = s[k + 1]
      BY <3>1
    <3>. QED  BY <2>1, <3>1, <3>2
  <2>. QED  BY <2>2, <2>3 DEF Held
<1>4. Held(s, code, i + 1) => ~Clears(s[1], code)
  <2>. SUFFICES ASSUME Held(s, code, i + 1) PROVE ~Clears(s[1], code)
    OBVIOUS
  <2>1. PICK h \in 1 .. i : s[h] = HoldKey /\ \A k \in 1 .. h : ~Clears(s[k], code)
    BY <1>0 DEF Held
  <2>2. 1 \in 1 .. h
    BY <1>0
  <2>. QED  BY <2>1, <2>2
<1>. QED  BY <1>1, <1>2, <1>3, <1>4

\* t has one event more than s, at place n
Inserts(s, t, n) ==
    \A k \in 1 .. Len(t) : t[k] = IF k < n THEN s[k] ELSE IF k = n THEN t[n] ELSE s[k - 1]

\* An event of the boot trap comes in between
LEMMA InsertedTap ==
    ASSUME NEW s \in Seq(Event), NEW t \in Seq(Event), Len(t) = Len(s) + 1, NEW n \in 1 .. Len(t),
           Inserts(s, t, n), NEW code \in Codes, t[n] # Down(code), ~Clears(t[n], code),
           NEW i \in 1 .. Len(t), i # n, NEW j, j = IF i < n THEN i ELSE i - 1
    PROVE  /\ Tapped(s, code, j) => Tapped(t, code, i)
           /\ NoDown(s, code, j) => NoDown(t, code, i)
           /\ Held(s, code, j) => Held(t, code, i)
<1>. DEFINE to(k) == IF k < n THEN k ELSE k + 1
<1>0. Len(s) \in Nat /\ i \in Nat /\ j \in 1 .. Len(s) /\ n \in Nat
  OBVIOUS
<1>1. \A k \in 1 .. j - 1 : to(k) \in 1 .. i - 1 /\ t[to(k)] = s[k]
  BY <1>0 DEF Inserts
<1>2. \A k \in 1 .. i - 1 : k = n \/ \E l \in 1 .. j - 1 : k = to(l)
  <2>. SUFFICES ASSUME NEW k \in 1 .. i - 1, k # n PROVE \E l \in 1 .. j - 1 : k = to(l)
    OBVIOUS
  <2>1. CASE k < n
    <3>1. k \in 1 .. j - 1 /\ k = to(k)
      BY <1>0, <2>1
    <3>. QED  BY <3>1
  <2>2. CASE ~(k < n)
    <3>1. k - 1 \in 1 .. j - 1 /\ k = to(k - 1)
      BY <1>0, <2>2
    <3>. QED  BY <3>1
  <2>. QED  BY <2>1, <2>2
<1>3. \A k, l \in 1 .. j - 1 : (k < l <=> to(k) < to(l)) /\ to(k) \in Nat
  BY <1>0
<1>. HIDE DEF to
<1>4. ASSUME NoDown(s, code, j) PROVE NoDown(t, code, i)
  <2>. SUFFICES ASSUME NEW k \in 1 .. i - 1 PROVE t[k] # Down(code)
    BY DEF NoDown
  <2>1. CASE k # n
    <3>1. PICK l \in 1 .. j - 1 : k = to(l)
      BY <1>2, <2>1
    <3>. QED  BY <1>1, <1>4, <3>1 DEF NoDown
  <2>. QED  BY <2>1
<1>5. ASSUME Held(s, code, j) PROVE Held(t, code, i)
  <2>1. PICK h \in 1 .. j - 1 : s[h] = HoldKey /\ \A k \in 1 .. h : ~Clears(s[k], code)
    BY <1>5 DEF Held
  <2>2. to(h) \in 1 .. i - 1 /\ t[to(h)] = HoldKey
    BY <1>1, <2>1
  <2>3. ASSUME NEW k \in 1 .. to(h) PROVE ~Clears(t[k], code)
    <3>1. k \in 1 .. i - 1
      BY <1>0, <2>2
    <3>2. CASE k = n
      BY <3>2
    <3>3. CASE k # n
      <4>1. PICK l \in 1 .. j - 1 : k = to(l)
        BY <1>2, <3>1, <3>3
      <4>2. ~(h < l)
        BY <1>3, <2>2, <4>1
      <4>3. l \in 1 .. h
        BY <1>0, <4>1, <4>2
      <4>. QED  BY <1>1, <2>1, <4>1, <4>3
    <3>. QED  BY <3>2, <3>3
  <2>. QED  BY <2>2, <2>3 DEF Held
<1>6. ASSUME Tapped(s, code, j) PROVE Tapped(t, code, i)
  <2>0. PICK d \in 1 .. j - 1 : \E h \in d + 1 .. j - 1 :
            /\ s[d] = Down(code) /\ s[h] = HoldKey
            /\ \A k \in d + 1 .. h : ~Clears(s[k], code)
            /\ \A k \in h + 1 .. j - 1 : s[k] # Down(code)
    BY <1>6 DEF Tapped
  <2>1. PICK h \in d + 1 .. j - 1 :
            /\ s[d] = Down(code) /\ s[h] = HoldKey
            /\ \A k \in d + 1 .. h : ~Clears(s[k], code)
            /\ \A k \in h + 1 .. j - 1 : s[k] # Down(code)
    BY <2>0
  <2>2. h \in 1 .. j - 1 /\ d < h
    BY <1>0, <2>1
  <2>3. /\ to(d) \in 1 .. i - 1 /\ t[to(d)] = Down(code)
        /\ to(h) \in to(d) + 1 .. i - 1 /\ t[to(h)] = HoldKey
    <3>1. to(d) \in 1 .. i - 1 /\ to(h) \in 1 .. i - 1 /\ to(d) < to(h)
      BY <1>1, <1>3, <2>2
    <3>2. to(h) \in to(d) + 1 .. i - 1
      BY <1>0, <3>1
    <3>. QED  BY <1>1, <2>1, <2>2, <3>1, <3>2
  <2>4. ASSUME NEW k \in to(d) + 1 .. to(h) PROVE ~Clears(t[k], code)
    <3>1. k \in 1 .. i - 1 /\ to(d) < k
      BY <1>0, <2>3
    <3>2. CASE k # n
      <4>1. PICK l \in 1 .. j - 1 : k = to(l)
        BY <1>2, <3>1, <3>2
      <4>2. d < l /\ ~(h < l)
        <5>1. to(d) < to(l) /\ ~(to(h) < to(l)) /\ d \in 1 .. j - 1
          BY <1>0, <2>1, <2>3, <3>1, <4>1
        <5>. QED  BY <1>3, <2>2, <5>1
      <4>3. l \in d + 1 .. h
        BY <1>0, <4>1, <4>2
      <4>. QED  BY <1>1, <2>1, <4>1, <4>3
    <3>. QED  BY <3>2
  <2>5. ASSUME NEW k \in to(h) + 1 .. i - 1 PROVE t[k] # Down(code)
    <3>1. k \in 1 .. i - 1 /\ to(h) < k
      BY <1>0, <2>3
    <3>2. CASE k # n
      <4>1. PICK l \in 1 .. j - 1 : k = to(l)
        BY <1>2, <3>1, <3>2
      <4>2. h < l
        BY <1>3, <2>2, <3>1, <4>1
      <4>3. l \in h + 1 .. j - 1
        BY <1>0, <4>1, <4>2
      <4>. QED  BY <1>1, <2>1, <4>1, <4>3
    <3>. QED  BY <3>2
  <2>. QED  BY <2>3, <2>4, <2>5 DEF Tapped
<1>. QED  BY <1>4, <1>5, <1>6

\* The front of the queue stays as it is
LEMMA SameTap ==
    ASSUME NEW s, NEW t, NEW i \in Nat, \A k \in 1 .. i : t[k] = s[k], NEW code
    PROVE  /\ Tapped(s, code, i) => Tapped(t, code, i)
           /\ NoDown(s, code, i) => NoDown(t, code, i)
           /\ Held(s, code, i) => Held(t, code, i)
<1>1. ASSUME Tapped(s, code, i) PROVE Tapped(t, code, i)
  <2>1. PICK d \in 1 .. i - 1 : \E h \in d + 1 .. i - 1 :
            /\ s[d] = Down(code) /\ s[h] = HoldKey
            /\ \A k \in d + 1 .. h : ~Clears(s[k], code)
            /\ \A k \in h + 1 .. i - 1 : s[k] # Down(code)
    BY <1>1 DEF Tapped
  <2>2. PICK h \in d + 1 .. i - 1 :
            /\ s[d] = Down(code) /\ s[h] = HoldKey
            /\ \A k \in d + 1 .. h : ~Clears(s[k], code)
            /\ \A k \in h + 1 .. i - 1 : s[k] # Down(code)
    BY <2>1
  <2>3. t[d] = Down(code) /\ t[h] = HoldKey
    BY <2>2
  <2>4. (\A k \in d + 1 .. h : k \in 1 .. i) /\ (\A k \in h + 1 .. i - 1 : k \in 1 .. i)
    OBVIOUS
  <2>. QED  BY <2>2, <2>3, <2>4 DEF Tapped
<1>2. NoDown(s, code, i) => NoDown(t, code, i)
  BY DEF NoDown
<1>3. ASSUME Held(s, code, i) PROVE Held(t, code, i)
  <2>1. PICK h \in 1 .. i - 1 : s[h] = HoldKey /\ \A k \in 1 .. h : ~Clears(s[k], code)
    BY <1>3 DEF Held
  <2>2. t[h] = HoldKey /\ \A k \in 1 .. h : k \in 1 .. i
    BY <2>1
  <2>. QED  BY <2>1, <2>2 DEF Held
<1>. QED  BY <1>1, <1>2, <1>3

\* The release at i is in order
InOrder(s, code, i) == Tapped(s, code, i) \/ Waiting(s, code, i)

Typed == {code \in Codes \ {"TOGGLE_SPEED"} : code \in Contested => boots = 0}

LEMMA TapsInvIs ==
    TapsInv <=> \A code \in Typed : \A i \in 1 .. Len(Coming) :
                    Coming[i] = Up(code) => InOrder(Coming, code, i)
BY DEF TapsInv, Typed, InOrder

\* What is not about the queues: a key that has been pressed stays so until it is seen
StaysDown(code) ==
    code \in seen' \/ /\ code \notin seen
                      /\ Pressed(code) => /\ Pressed(code)'
                                          /\ emu \in {"frame", "boot"} => emu' \in {"frame", "boot"}

LEMMA TapsKept ==
    ASSUME TapsInv, Typed' \subseteq Typed, \A code \in Codes : StaysDown(code),
           Len(Coming) \in Nat, Len(Coming') \in Nat,
           \A i \in 1 .. Len(Coming) : Coming'[i] = Coming[i],
           \A code \in Typed' : \A i \in Len(Coming) + 1 .. Len(Coming') :
               Coming'[i] = Up(code) => InOrder(Coming, code, i)'
    PROVE  TapsInv'
<1>. SUFFICES ASSUME NEW code \in Typed', NEW i \in 1 .. Len(Coming'), Coming'[i] = Up(code)
              PROVE  InOrder(Coming, code, i)'
  BY DEF TapsInv, Typed, InOrder
<1>1. CASE i \in 1 .. Len(Coming)
  <2>1. InOrder(Coming, code, i) /\ i \in Nat /\ code \in Codes
    BY <1>1, TapsInvIs DEF Typed
  <2>2. \A k \in 1 .. i : Coming'[k] = Coming[k]
    BY <1>1
  <2>3. /\ Tapped(Coming, code, i) => Tapped(Coming', code, i)
        /\ NoDown(Coming, code, i) => NoDown(Coming', code, i)
        /\ Held(Coming, code, i) => Held(Coming', code, i)
    BY <2>1, <2>2, SameTap
  <2>4. StaysDown(code)
    BY <2>1
  <2>5. CASE Tapped(Coming, code, i)
    BY <2>3, <2>5 DEF InOrder, Tapped, Clears, Needs, Changes
  <2>6. CASE Waiting(Coming, code, i)
    <3>1. /\ NoDown(Coming', code, i)
          /\ code \in seen' \/ (Pressed(code)' /\ (emu' \in {"frame", "boot"} \/ Held(Coming', code, i)))
      BY <2>3, <2>4, <2>6 DEF Waiting, StaysDown
    <3>. QED  BY <3>1 DEF InOrder, Waiting, NoDown, Held, Clears, Needs, Changes
  <2>. QED  BY <2>1, <2>5, <2>6 DEF InOrder
<1>2. CASE i \notin 1 .. Len(Coming)
  BY <1>2
<1>. QED  BY <1>1, <1>2

LEMMA JoinIs ==
    ASSUME NEW s \in Seq(Event), NEW t \in Seq(Event)
    PROVE  /\ s \o t \in Seq(Event) /\ Len(s \o t) = Len(s) + Len(t)
           /\ Len(s) \in Nat /\ Len(t) \in Nat
           /\ \A i \in 1 .. Len(s \o t) :
                 (s \o t)[i] = IF i <= Len(s) THEN s[i] ELSE t[i - Len(s)]
OBVIOUS

\* The queues stay as they are
LEMMA TapsUnmoved ==
    ASSUME Shape, TapsInv, Typed' \subseteq Typed, \A code \in Codes : StaysDown(code),
           UNCHANGED <<events, uiPending>>
    PROVE  TapsInv'
<1>1. Coming' = Coming /\ Len(Coming) \in Nat
  BY ComingIs DEF Coming
<1>2. Len(Coming) + 1 .. Len(Coming') = {}
  BY <1>1
<1>. QED  BY <1>1, <1>2, TapsKept

\* A key's tap is queued whole
LEMMA TapQueued ==
    ASSUME Shape, TapsInv, Typed' \subseteq Typed, \A code \in Codes : StaysDown(code),
           uiPending = << >>, NEW c \in Codes, uiPending' = Tap(c), events' = events
    PROVE  TapsInv'
<1>. DEFINE n == Len(events)
<1>1. /\ Coming = events /\ n \in Nat /\ events \in Seq(Event)
      /\ Coming' = events \o Tap(c)
  BY DEF Shape, Coming
<1>2. /\ Len(Tap(c)) = 3 /\ Tap(c) \in Seq(Event)
      /\ Tap(c)[1] = Down(c) /\ Tap(c)[2] = HoldKey /\ Tap(c)[3] = Up(c)
  BY TapIs
<1>3. /\ Len(Coming') = n + 3 /\ \A i \in 1 .. n : Coming'[i] = events[i]
      /\ Coming'[n + 1] = Down(c) /\ Coming'[n + 2] = HoldKey /\ Coming'[n + 3] = Up(c)
  <2>1. /\ Len(Coming') = n + 3
        /\ \A i \in 1 .. n + 3 : Coming'[i] = IF i <= n THEN events[i] ELSE Tap(c)[i - n]
    <3>1. /\ Len(events \o Tap(c)) = n + 3
          /\ \A i \in 1 .. Len(events \o Tap(c)) :
                (events \o Tap(c))[i] = IF i <= n THEN events[i] ELSE Tap(c)[i - n]
      BY <1>1, <1>2, JoinIs
    <3>. QED  BY <1>1, <3>1
  <2>. HIDE DEF n
  <2>2. /\ n + 1 \in 1 .. n + 3 /\ n + 2 \in 1 .. n + 3 /\ n + 3 \in 1 .. n + 3
        /\ (n + 1) - n = 1 /\ (n + 2) - n = 2 /\ (n + 3) - n = 3
        /\ ~(n + 1 <= n) /\ ~(n + 2 <= n) /\ ~(n + 3 <= n)
        /\ \A i \in 1 .. n : i \in 1 .. n + 3 /\ i <= n
    BY <1>1
  <2>. QED  BY <1>2, <2>1, <2>2
<1>. HIDE DEF n
<1>4. ASSUME NEW code \in Typed', NEW i \in n + 1 .. n + 3, Coming'[i] = Up(code)
      PROVE  InOrder(Coming, code, i)'
  <2>1. i = n + 3 /\ code = c
    <3>1. i = n + 1 \/ i = n + 2 \/ i = n + 3
      BY <1>1
    <3>2. code \in Codes
      BY DEF Typed
    <3>. QED  BY <1>3, <1>4, <3>1, <3>2, EventsDiffer
  <2>2. n + 1 \in 1 .. i - 1 /\ n + 2 \in (n + 1) + 1 .. i - 1
    BY <1>1, <2>1
  <2>3. \A k \in (n + 1) + 1 .. n + 2 : ~Clears(Coming'[k], code)
    <3>. TAKE k \in (n + 1) + 1 .. n + 2
    <3>1. k = n + 2
      BY <1>1
    <3>. QED  BY <1>3, <3>1, EventsDiffer DEF Clears
  <2>4. \A k \in (n + 2) + 1 .. i - 1 : Coming'[k] # Down(code)
    BY <1>1, <2>1
  <2>5. Tapped(Coming', code, i)
    BY <1>3, <2>1, <2>2, <2>3, <2>4 DEF Tapped
  <2>. QED  BY <2>5 DEF InOrder, Tapped, Clears, Needs, Changes
<1>5. Len(Coming) = n /\ n + 3 \in Nat
  BY <1>1 DEF n
<1>. QED  BY <1>1, <1>3, <1>4, <1>5, TapsKept

LEMMA SeenUi ==
    ASSUME KeysInv, SeenInv, Touch \/ UiSteps \/ Reset
    PROVE  SeenInv'
<1>1. Shape /\ RowKept /\ TapsInv
  BY DEF KeysInv, SeenInv
<1>2. UNCHANGED <<emu, todo, loaded, boots>> /\ Typed' \subseteq Typed
  BY DEF Touch, UiSteps, TouchesBegan, TouchesMoved, LockPushedKey, TouchesEnded, TouchesCancelled,
         EndKeyPress, UiHandler, touches, QueueKeyEvent, ResetMatrixByte, Reset, emuVars, bootVars, Typed
<1>3. CASE UNCHANGED <<matrix, seen>>
  <2>1. RowKept' /\ \A code \in Codes : StaysDown(code)
    BY <1>1, <1>2, <1>3 DEF RowKept, Row, StaysDown, Pressed, Among, Needs
  <2>2. CASE UNCHANGED <<events, uiPending>>
    BY <1>1, <1>2, <2>1, <2>2, TapsUnmoved DEF SeenInv
  <2>3. CASE TouchesEnded \/ TouchesCancelled
    <3>1. /\ uiPending = << >> /\ events' = events
          /\ (touch \in Codes /\ uiPending' = Tap(touch)) \/ UNCHANGED <<events, uiPending>>
      BY <1>1, <2>3, KeyInputAssumption
      DEF TouchesEnded, TouchesCancelled, EndKeyPress, UiHandler, UiFree, NoEvents, Shape
    <3>. QED  BY <1>1, <1>2, <2>1, <2>2, <3>1, TapQueued DEF SeenInv
  <2>4. CASE LockPushedKey /\ touch # "none"
    <3>1. events' = events /\ uiPending = << >> /\ uiPending' = <<Down(touch)>>
      BY <2>4 DEF LockPushedKey, UiHandler, UiFree, NoEvents
    <3>2. /\ Len(Coming) = Len(events) /\ Len(events) \in Nat /\ Len(Coming') = Len(events) + 1
          /\ Coming'[Len(events) + 1] = Down(touch)
          /\ \A i \in 1 .. Len(Coming) : Coming'[i] = Coming[i]
      BY <1>1, <3>1 DEF Coming, Shape
    <3>3. \A code \in Typed' : \A i \in Len(Coming) + 1 .. Len(Coming') : Coming'[i] # Up(code)
      <4>1. \A i \in Len(Coming) + 1 .. Len(Coming') : i = Len(events) + 1
        BY <3>2
      <4>. QED  BY <3>2, <4>1, EventsDiffer
    <3>4. Len(Coming) \in Nat /\ Len(Coming') \in Nat
      BY <3>2
    <3>. QED  BY <1>1, <1>2, <2>1, <3>2, <3>3, <3>4, TapsKept DEF SeenInv
  <2>5. CASE QueueKeyEvent
    <3>1. /\ uiPending # << >> /\ events' = Append(events, Head(uiPending))
          /\ uiPending' = Tail(uiPending)
      BY <2>5 DEF QueueKeyEvent, NoEvents
    <3>2. /\ Len(Coming) \in Nat /\ Len(Coming') = Len(Coming)
          /\ \A i \in 1 .. Len(Coming) : Coming'[i] = Coming[i]
      <4>1. Coming' = Append(events, Head(uiPending)) \o Tail(uiPending)
        BY <3>1 DEF Coming
      <4>. QED  BY <1>1, <3>1, <4>1 DEF Shape, Coming
    <3>3. Len(Coming) + 1 .. Len(Coming') = {}
      BY <3>2
    <3>. QED  BY <1>1, <1>2, <2>1, <3>2, <3>3, TapsKept DEF SeenInv
  <2>6. \/ UNCHANGED <<events, uiPending>> \/ TouchesEnded \/ TouchesCancelled
        \/ (LockPushedKey /\ touch # "none") \/ QueueKeyEvent \/ ResetMatrixByte
    BY DEF Touch, UiSteps, TouchesBegan, TouchesMoved, LockPushedKey, UiHandler, Reset, uiVars, touches
  <2>7. CASE ResetMatrixByte
    BY <2>2, <2>7 DEF ResetMatrixByte, uiVars, touches
  <2>. QED  BY <2>2, <2>3, <2>4, <2>5, <2>6, <2>7
<1>4. CASE ResetMatrixByte
  <2>1. /\ UNCHANGED <<events, uiPending>> /\ seen' = Codes
        /\ matrix' = [matrix EXCEPT ![ByteAt.m] = {place \in @ : place[1] # ByteAt.row}]
    BY <1>4 DEF ResetMatrixByte, uiVars, touches
  <2>2. \A m \in {"key", "rev"} : matrix'[m] \subseteq matrix[m]
    BY <1>1, <2>1 DEF Shape
  <2>3. RowKept'
    <3>1. loaded # << >> => todo[1].m \in {"key", "rev"}
      <4>1. loaded # << >> => todo[1] \in Write
        BY <1>1, TailIs DEF Shape
      <4>. QED  BY <4>1 DEF Write
    <3>. QED  BY <1>1, <1>2, <2>2, <3>1 DEF RowKept, Row
  <2>4. \A code \in Codes : StaysDown(code)
    BY <2>1 DEF StaysDown
  <2>. QED  BY <1>1, <1>2, <2>1, <2>3, <2>4, TapsUnmoved DEF SeenInv
<1>5. UNCHANGED <<matrix, seen>> \/ ResetMatrixByte
  BY DEF Touch, UiSteps, TouchesBegan, TouchesMoved, LockPushedKey, TouchesEnded, TouchesCancelled,
         EndKeyPress, UiHandler, touches, QueueKeyEvent, Reset
<1>. QED  BY <1>3, <1>4, <1>5

\* The poll takes an event
LEMMA TapsTaken ==
    ASSUME Shape, TapsInv, events # << >>, events' = Tail(events), UNCHANGED <<uiPending, boots>>,
           emu = "poll", Head(events) = HoldKey => emu' = "frame",
           \A code \in Typed :
              /\ Head(events) = Down(code) => Pressed(code)'
              /\ Head(events) # Down(code) /\ code \in seen => code \in seen'
              /\ Pressed(code) /\ ~Clears(Head(events), code) => Pressed(code)'
    PROVE  TapsInv'
<1>. DEFINE s == Coming
            t == Tail(events) \o uiPending
<1>1. /\ s \in Seq(Event) /\ t \in Seq(Event) /\ Len(s) = Len(t) + 1 /\ s[1] = Head(events)
      /\ \A k \in 1 .. Len(t) : t[k] = s[k + 1]
      /\ Coming' = t
  BY DEF Shape, Coming
<1>2. Typed' = Typed /\ \A code \in Typed : code \in Codes /\ (code \in Contested => boots = 0)
  BY DEF Typed
<1>. SUFFICES ASSUME NEW code \in Typed, NEW i \in 1 .. Len(t), t[i] = Up(code)
              PROVE  InOrder(Coming, code, i)'
  BY <1>1, <1>2 DEF TapsInv, Typed, InOrder
<1>. HIDE DEF s, t
<1>3. i + 1 \in 1 .. Len(s) /\ s[i + 1] = Up(code)
  BY <1>1
<1>4. Tapped(s, code, i + 1) \/ Waiting(s, code, i + 1)
  BY <1>2, <1>3, TapsInvIs DEF InOrder, s
<1>5. /\ Tapped(s, code, i + 1) =>
            \/ Tapped(t, code, i)
            \/ s[1] = Down(code) /\ NoDown(t, code, i) /\ Held(t, code, i)
      /\ NoDown(s, code, i + 1) => NoDown(t, code, i) /\ s[1] # Down(code)
      /\ Held(s, code, i + 1) => ~Clears(s[1], code) /\ (Held(t, code, i) \/ s[1] = HoldKey)
  BY <1>1, <1>2, TakenTap
<1>6. CASE Tapped(t, code, i)
  BY <1>1, <1>6 DEF InOrder, Tapped, Clears, Needs, Changes
<1>7. CASE /\ NoDown(t, code, i)
           /\ code \in seen' \/ (Pressed(code)' /\ (emu' = "frame" \/ Held(t, code, i)))
  BY <1>1, <1>7 DEF InOrder, Waiting, NoDown, Held, Clears, Needs, Changes
<1>. QED  BY <1>1, <1>4, <1>5, <1>6, <1>7 DEF Waiting

\* The translation presses or releases a key in a byte
LEMMA StoreKeeps ==
    ASSUME Shape, RowKept, StoreRow, NEW code \in Codes, Pressed(code)
    PROVE  Pressed(code)'
<1>. DEFINE w == Head(todo)
            old == matrix[w.m]
            byte == IF emu = "down" THEN Head(loaded) \cup {w.at} ELSE Head(loaded) \ {w.at}
<1>1. /\ todo # << >> /\ loaded # << >> /\ emu \in {"down", "up"}
      /\ w \in Write /\ w = todo[1] /\ Head(loaded) = loaded[1]
      /\ todo' = Tail(todo) /\ emu' = IF Tail(todo) = << >> THEN "poll" ELSE emu
      /\ matrix' = [matrix EXCEPT ![w.m] = (@ \ Row(w.m, w.at[1])) \cup byte]
  BY TailIs DEF StoreRow, Shape
<1>2. Row(w.m, w.at[1]) \subseteq Head(loaded) /\ matrix \in [{"key", "rev"} -> Matrix]
  BY <1>1 DEF RowKept, Shape
<1>3. \A x : Among(x, todo) <=> x = w \/ Among(x, todo')
  BY <1>1, AmongTail DEF Shape
<1>. HIDE DEF w
<1>4. w.m \in {"key", "rev"} /\ w = [m |-> w.m, at |-> w.at]
  BY <1>1 DEF Write
<1>5. /\ emu = "down" => /\ matrix["key"] \subseteq matrix'["key"]
                         /\ w.m = "key" => w.at \in matrix'["key"]
      /\ emu = "up" => \A place \in matrix["key"] : place \in matrix'["key"] \/ InKey(place) = w
  BY <1>1, <1>2, <1>4 DEF InKey
<1>6. Tail(todo) = << >> => \A x : ~Among(x, todo')
  <2>1. \A x : ~Among(x, << >>)
    BY DEF Among
  <2>. QED  BY <1>1, <2>1 DEF Among
<1>. SUFFICES ASSUME NEW place \in Needs(code)
              PROVE  /\ emu' = "down" => place \in matrix'["key"] \/ Among(InKey(place), todo')
                     /\ emu' # "down" => /\ place \in matrix'["key"]
                                         /\ emu' = "up" => ~Among(InKey(place), todo')
  BY DEF Pressed, Needs, Among
<1>7. CASE emu = "down"
  <2>1. place \in matrix["key"] \/ Among(InKey(place), todo)
    BY <1>7 DEF Pressed
  <2>2. InKey(place) = w => place \in matrix'["key"]
    BY <1>4, <1>5, <1>7 DEF InKey
  <2>3. place \in matrix'["key"] \/ Among(InKey(place), todo')
    BY <1>3, <1>5, <1>7, <2>1, <2>2
  <2>. QED  BY <1>1, <1>6, <1>7, <2>3
<1>8. CASE emu = "up"
  <2>1. place \in matrix["key"] /\ ~Among(InKey(place), todo)
    BY <1>8 DEF Pressed
  <2>. QED  BY <1>1, <1>3, <1>5, <1>8, <2>1
<1>. QED  BY <1>1, <1>7, <1>8

\* The boot trap's events disturb no key but the contested ones
LEMMA BootApart ==
    ASSUME NEW code \in Codes \ Contested,
           NEW b \in {Down("SHIFT_RUNSTOP"), HoldKey, Up("SHIFT_RUNSTOP")}
    PROVE  b # Down(code) /\ b # Up(code) /\ ~Clears(b, code)
<1>1. code # "SHIFT_RUNSTOP" /\ "SHIFT_RUNSTOP" \in Codes
  BY DEF Contested, Shifted, Codes, Position
<1>2. Needs(code) \cap Needs("SHIFT_RUNSTOP") = {}
  <2>1. code \notin Shifted /\ code \in {"CRT", "TOGGLE_SPEED"}
    BY CodesAre DEF Contested, Shifted, Position
  <2>2. Needs(code) = {<<0, 2>>} /\ Needs("SHIFT_RUNSTOP") = {<<7, 7>>, <<6, 4>>}
    BY <2>1 DEF Needs, Shifted, Position, ShiftRight
  <2>. QED  BY <2>2
<1>3. ~Clears(b, code)
  <2>. SUFFICES ASSUME NEW other \in Codes, b = Up(other),
                       NEW place \in Needs(code), InKey(place) \in Changes(other)
                PROVE  FALSE
    BY DEF Clears
  <2>1. other = "SHIFT_RUNSTOP"
    BY EventsDiffer
  <2>2. place \in Needs(other)
    BY NeedsAre
  <2>. QED  BY <1>2, <2>1, <2>2
<1>. QED  BY <1>1, <1>3, EventsDiffer

\* The boot trap queues an event
LEMMA TapsBooting ==
    ASSUME KeysInv, TapsInv, QueueBootEvent
    PROVE  TapsInv'
<1>. DEFINE b == Head(bootPending)
            s == Coming
            t == Append(events, b) \o uiPending
            n == Len(events) + 1
<1>1. /\ Shape /\ BootShape /\ emu = "boot" /\ emu' \in {"frame", "boot"}
      /\ events' = Append(events, b) /\ UNCHANGED <<uiPending, matrix, todo, seen, boots>>
  BY DEF KeysInv, QueueBootEvent, uiVars, touches
<1>2. boots # 0 /\ b \in {Down("SHIFT_RUNSTOP"), HoldKey, Up("SHIFT_RUNSTOP")} /\ b \in Event
  <2>1. bootPending # << >> /\ bootPending \in Seq(Event)
    BY <1>1 DEF BootShape, Shape
  <2>2. b = bootPending[1] /\ 1 \in 1 .. Len(bootPending) /\ b \in Event
    BY <2>1, TailIs
  <2>. QED  BY <1>1, <2>1, <2>2 DEF BootShape
<1>. HIDE DEF b
<1>3. /\ s \in Seq(Event) /\ Len(s) = Len(events) + Len(uiPending)
      /\ Len(events) \in Nat /\ Len(uiPending) \in Nat
      /\ \A k \in 1 .. Len(s) : s[k] = IF k <= Len(events) THEN events[k] ELSE uiPending[k - Len(events)]
  BY <1>1, ComingIs
<1>4. /\ Append(events, b) \in Seq(Event) /\ Len(Append(events, b)) = Len(events) + 1
      /\ \A k \in 1 .. Len(events) : Append(events, b)[k] = events[k]
      /\ Append(events, b)[Len(events) + 1] = b
  BY <1>1, <1>2, AppendIs DEF Shape
<1>5. /\ t \in Seq(Event) /\ Len(t) = Len(s) + 1
      /\ \A k \in 1 .. Len(t) :
            t[k] = IF k <= Len(events) + 1 THEN Append(events, b)[k] ELSE uiPending[k - (Len(events) + 1)]
  <2>1. uiPending \in Seq(Event)
    BY <1>1 DEF Shape
  <2>2. /\ t \in Seq(Event) /\ Len(t) = Len(Append(events, b)) + Len(uiPending)
        /\ \A k \in 1 .. Len(t) :
              t[k] = IF k <= Len(Append(events, b)) THEN Append(events, b)[k]
                     ELSE uiPending[k - Len(Append(events, b))]
    BY <1>4, <2>1, JoinIs
  <2>. QED  BY <1>3, <1>4, <2>2
<1>6. Coming' = t
  BY <1>1 DEF Coming
<1>. HIDE DEF s, t
<1>7. n \in 1 .. Len(t) /\ t[n] = b
  BY <1>3, <1>4, <1>5
<1>8. Inserts(s, t, n)
  <2>. SUFFICES ASSUME NEW k \in 1 .. Len(t)
                PROVE  t[k] = IF k < n THEN s[k] ELSE IF k = n THEN t[n] ELSE s[k - 1]
    BY DEF Inserts
  <2>1. CASE k < n
    <3>1. k \in 1 .. Len(events) /\ k \in 1 .. Len(s) /\ k <= Len(events) + 1 /\ k <= Len(events)
      BY <1>3, <2>1
    <3>. QED  BY <1>3, <1>4, <1>5, <2>1, <3>1
  <2>2. CASE k > n
    <3>1. /\ k - 1 \in 1 .. Len(s) /\ ~(k - 1 <= Len(events)) /\ ~(k <= Len(events) + 1)
          /\ (k - 1) - Len(events) = k - (Len(events) + 1)
      BY <1>3, <1>5, <2>2
    <3>. QED  BY <1>3, <1>5, <2>2, <3>1
  <2>. QED  BY <1>3, <2>1, <2>2
<1>. SUFFICES ASSUME NEW code \in Typed, NEW i \in 1 .. Len(t), t[i] = Up(code)
              PROVE  InOrder(Coming, code, i)'
  BY <1>1, <1>6 DEF TapsInv, Typed, InOrder
<1>9. code \in Codes \ Contested
  BY <1>2 DEF Typed
<1>10. i # n /\ t[n] # Down(code) /\ ~Clears(t[n], code)
  BY <1>2, <1>7, <1>9, BootApart
<1>. DEFINE j == IF i < n THEN i ELSE i - 1
<1>11. j \in 1 .. Len(s) /\ s[j] = Up(code) /\ j = IF i < n THEN i ELSE i - 1
  BY <1>3, <1>5, <1>8, <1>10 DEF Inserts
<1>. HIDE DEF n, j
<1>12. InOrder(s, code, j)
  BY <1>11, TapsInvIs DEF s
<1>13. /\ Tapped(s, code, j) => Tapped(t, code, i)
       /\ NoDown(s, code, j) => NoDown(t, code, i)
  <2>1. code \in Codes /\ s \in Seq(Event) /\ t \in Seq(Event) /\ Len(t) = Len(s) + 1
    BY <1>3, <1>5, <1>9
  <2>. QED  BY <1>7, <1>8, <1>10, <1>11, <2>1, InsertedTap
<1>14. CASE Tapped(s, code, j)
  BY <1>6, <1>13, <1>14 DEF InOrder, Tapped, Clears, Needs, Changes
<1>15. CASE Waiting(s, code, j)
  <2>1. code \in seen' \/ (Pressed(code)' /\ emu' \in {"frame", "boot"})
    BY <1>1, <1>15 DEF Waiting, Pressed, Needs
  <2>. QED  BY <1>6, <1>13, <1>15, <2>1 DEF InOrder, Waiting, NoDown, Held, Clears, Needs, Changes
<1>. QED  BY <1>12, <1>14, <1>15 DEF InOrder

LEMMA SeenEmulation ==
    ASSUME KeysInv, SeenInv, Emulation \/ AutoBoot
    PROVE  SeenInv'
<1>1. Shape /\ RowKept /\ TapsInv
  BY DEF KeysInv, SeenInv
<1>2. ASSUME UNCHANGED <<matrix, todo, loaded>> \/ loaded' = << >> PROVE RowKept'
  BY <1>1, <1>2 DEF RowKept, Row
<1>3. CASE EmulateFrame
  <2>1. /\ emu = "frame" /\ UNCHANGED <<events, matrix, todo, loaded, uiPending, boots>>
        /\ seen' = seen \cup {code \in Codes : /\ Position[code] \in matrix["key"]
                                               /\ code \in Shifted => ShiftRight \in matrix["key"]}
    BY <1>3 DEF EmulateFrame, uiVars, touches, bootVars
  <2>2. \A code \in Codes : Pressed(code) => code \in seen'
    BY <2>1 DEF Pressed, Needs
  <2>3. \A code \in Codes : StaysDown(code)
    BY <2>1, <2>2 DEF StaysDown
  <2>4. Typed' \subseteq Typed
    BY <2>1 DEF Typed
  <2>. QED  BY <1>1, <1>2, <2>1, <2>3, <2>4, TapsUnmoved DEF SeenInv
<1>4. CASE AutoBoot
  <2>1. /\ emu = "frame" /\ emu' = "boot" /\ UNCHANGED <<events, matrix, todo, loaded, uiPending, seen>>
        /\ boots' = boots + 1 /\ boots \in Nat
    BY <1>4 DEF AutoBoot, uiVars, touches, KeysInv, BootShape
  <2>2. \A code \in Codes : StaysDown(code)
    BY <2>1 DEF StaysDown, Pressed, Needs
  <2>3. Typed' \subseteq Typed
    BY <2>1 DEF Typed
  <2>. QED  BY <1>1, <1>2, <2>1, <2>2, <2>3, TapsUnmoved DEF SeenInv
<1>5. CASE QueueBootEvent
  <2>1. UNCHANGED <<matrix, todo, loaded>>
    BY <1>5 DEF QueueBootEvent
  <2>. QED  BY <1>1, <1>2, <1>5, <2>1, TapsBooting DEF SeenInv
<1>6. CASE PollEmpty
  <2>1. /\ emu = "poll" /\ emu' = "frame"
        /\ UNCHANGED <<events, matrix, todo, loaded, uiPending, seen, boots>>
    BY <1>6 DEF PollEmpty, uiVars, touches, bootVars
  <2>2. \A code \in Codes : StaysDown(code)
    BY <2>1 DEF StaysDown, Pressed, Needs
  <2>3. Typed' \subseteq Typed
    BY <2>1 DEF Typed
  <2>. QED  BY <1>1, <1>2, <2>1, <2>2, <2>3, TapsUnmoved DEF SeenInv
<1>7. CASE PollHold \/ PollSpecial
  <2>1. /\ emu = "poll" /\ emu' = "frame" /\ events # << >> /\ events' = Tail(events)
        /\ UNCHANGED <<matrix, todo, loaded, uiPending, seen, boots>>
        /\ Head(events) = HoldKey \/ Head(events) = Down("TOGGLE_SPEED")
    BY <1>7 DEF PollHold, PollSpecial, uiVars, touches, bootVars, NoEvents
  <2>2. \A code \in Typed : Head(events) # Down(code) /\ (Pressed(code) => Pressed(code)')
    BY <2>1, EventsDiffer DEF Typed, Pressed, Needs
  <2>. QED  BY <1>1, <1>2, <2>1, <2>2, TapsTaken DEF SeenInv
<1>8. CASE PollKeyEvent
  <2>. DEFINE e == Head(events)
  <2>1. /\ emu = "poll" /\ events # << >> /\ e # HoldKey /\ events' = Tail(events)
        /\ todo' = Writes(e) /\ loaded' = << >> /\ emu' = e.state
        /\ seen' = IF e.state = "down" THEN seen \ {e.code} ELSE seen
        /\ UNCHANGED <<matrix, uiPending, boots>>
    BY <1>8 DEF PollKeyEvent, bootVars, uiVars, touches, NoEvents
  <2>2. e \in Event
    BY <1>1, <2>1, TailIs DEF Shape
  <2>. HIDE DEF e
  <2>3. PICK c \in Codes : c = e.code
    BY <2>1, <2>2, EventsAre
  <2>4. /\ e.state \in {"down", "up"} /\ e = IF e.state = "down" THEN Down(c) ELSE Up(c)
        /\ \A w : Among(w, todo') <=> w \in Changes(c)
    BY <2>1, <2>2, <2>3, EventsAre, WritesAre
  <2>5. ASSUME NEW code \in Typed
        PROVE  /\ e = Down(code) => Pressed(code)'
               /\ e # Down(code) /\ code \in seen => code \in seen'
               /\ Pressed(code) /\ ~Clears(e, code) => Pressed(code)'
    <3>1. code \in Codes /\ \A place : InKey(place) \in Changes(code) <=> place \in Needs(code)
      BY NeedsAre DEF Typed
    <3>2. /\ e = Down(code) => e.state = "down" /\ c = code
          /\ e.state = "down" /\ c = code => e = Down(code)
      BY <2>1, <2>2, <2>3, <2>4, EventsDiffer
    <3>3. CASE e = Down(code)
      <4>1. \A place \in Needs(code) : Among(InKey(place), todo')
        BY <2>4, <3>1, <3>2, <3>3
      <4>2. Pressed(code)'
        BY <2>1, <3>2, <3>3, <4>1 DEF Pressed, Needs, InKey, Among
      <4>. QED  BY <3>3, <4>2
    <3>4. e # Down(code) /\ code \in seen => code \in seen'
      BY <2>1, <2>3, <3>2
    <3>5. ASSUME Pressed(code), ~Clears(e, code) PROVE Pressed(code)'
      <4>1. \A place \in Needs(code) : place \in matrix'["key"]
        BY <2>1, <3>5 DEF Pressed
      <4>2. e.state = "up" => \A place \in Needs(code) : ~Among(InKey(place), todo')
        BY <2>4, <3>5 DEF Clears
      <4>. QED  BY <2>1, <4>1, <4>2 DEF Pressed, Needs, InKey, Among
    <3>. QED  BY <3>3, <3>4, <3>5
  <2>6. TapsInv'
    BY <1>1, <2>1, <2>5, TapsTaken DEF e
  <2>. QED  BY <1>2, <2>1, <2>6 DEF SeenInv
<1>9. CASE LoadRow
  <2>1. /\ UNCHANGED <<events, matrix, emu, todo, uiPending, seen, boots>> /\ emu \in {"down", "up"}
        /\ loaded' = <<Row(todo[1].m, todo[1].at[1])>>
    BY <1>1, <1>9, TailIs DEF LoadRow, uiVars, touches, bootVars, Shape
  <2>2. RowKept'
    BY <2>1 DEF RowKept, Row
  <2>3. \A code \in Codes : StaysDown(code)
    BY <2>1 DEF StaysDown, Pressed, Needs
  <2>4. Typed' \subseteq Typed
    BY <2>1 DEF Typed
  <2>. QED  BY <1>1, <2>1, <2>2, <2>3, <2>4, TapsUnmoved DEF SeenInv
<1>10. CASE StoreRow
  <2>1. UNCHANGED <<events, uiPending, seen, boots>> /\ emu \in {"down", "up"} /\ loaded' = << >>
    BY <1>10 DEF StoreRow, uiVars, touches, bootVars
  <2>2. \A code \in Codes : StaysDown(code)
    BY <1>1, <1>10, <2>1, StoreKeeps DEF StaysDown
  <2>3. Typed' \subseteq Typed
    BY <2>1 DEF Typed
  <2>. QED  BY <1>1, <1>2, <2>1, <2>2, <2>3, TapsUnmoved DEF SeenInv
<1>. QED  BY <1>3, <1>4, <1>5, <1>6, <1>7, <1>8, <1>9, <1>10 DEF Emulation

LEMMA SeenStep == KeysInv /\ SeenInv /\ [Next]_vars => SeenInv'
<1>. SUFFICES ASSUME KeysInv, SeenInv, [Next]_vars PROVE SeenInv'
  OBVIOUS
<1>1. CASE UNCHANGED vars
  <2>1. UNCHANGED <<events, uiPending, boots, matrix, emu, todo, loaded, seen>>
    BY <1>1 DEF vars, emuVars, uiVars, touches, bootVars
  <2>2. RowKept' /\ Typed' \subseteq Typed /\ \A code \in Codes : StaysDown(code)
    BY <2>1 DEF SeenInv, RowKept, Row, Typed, StaysDown, Pressed, Needs
  <2>. QED  BY <2>1, <2>2, TapsUnmoved DEF KeysInv, SeenInv
<1>. QED  BY <1>1, SeenUi, SeenEmulation DEF Next

\* Whatever is touched, in whatever order, a key that is tapped is not released before
\* the program has had a frame to see it in; a boot may spoil only the contested keys.
THEOREM TapsAreSeen == Spec => []TapSeen
<1>1. Init => SeenInv
  <2>. SUFFICES ASSUME Init PROVE SeenInv
    OBVIOUS
  <2>1. events = << >> /\ uiPending = << >> /\ loaded = << >>
    BY DEF Init, NoEvents
  <2>2. Len(Coming) = 0
    BY <2>1 DEF Coming
  <2>. QED  BY <2>1, <2>2 DEF SeenInv, RowKept, TapsInv
<1>2. KeysInv /\ SeenInv => TapSeen
  <2>. SUFFICES ASSUME KeysInv, SeenInv, NEW code \in UiKeys \ {"TOGGLE_SPEED"}, Releasing(code),
                       code \in Contested => boots = 0
                PROVE  code \in seen
    BY DEF TapSeen
  <2>1. emu = "poll" /\ events # << >> /\ Head(events) = Up(code) /\ events \in Seq(Event)
    BY DEF Releasing, NoEvents, KeysInv, Shape
  <2>2. 1 \in 1 .. Len(Coming) /\ Coming[1] = Up(code)
    <3>1. Head(events) = events[1] /\ Len(events) \in Nat \ {0}
      BY <2>1, TailIs
    <3>. QED  BY <2>1, <3>1, ComingIs DEF KeysInv
  <2>3. code \in Typed
    BY KeyInputAssumption DEF Typed
  <2>4. Tapped(Coming, code, 1) \/ Waiting(Coming, code, 1)
    BY <2>2, <2>3, TapsInvIs DEF InOrder, SeenInv
  <2>5. ~Tapped(Coming, code, 1) /\ ~Held(Coming, code, 1)
    BY DEF Tapped, Held
  <2>. QED  BY <2>1, <2>4, <2>5 DEF Waiting
<1>. QED  BY <1>1, <1>2, KeysStart, KeysStep, SeenStep, PTL DEF Spec
=============================================================================
