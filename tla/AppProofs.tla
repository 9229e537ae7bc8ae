----------------------------- MODULE AppProofs -----------------------------
(***************************************************************************)
(* Proofs about the application around the machine: about                  *)
(* EmulatorLifecycle for every set of UI handlers and every depth of       *)
(* nesting, and about GameStore for all products, packs and transactions.  *)
(***************************************************************************)
EXTENDS EmulatorLifecycle, GameStore, TLAPS

-----------------------------------------------------------------------------
(* EmulatorLifecycle *)

Early == {"none", "start", "construct"}

\* A request to pause needs a C64, and the thread that makes the C64 records
\* Running before it does so: this is why RunEmulator cannot orphan a request.
LifecycleInv ==
    /\ NoOrphanedPause
    /\ theC64 = "null" => ~have_a_break /\ emu \in Early \cup {"crashed"}
    /\ emu \in Early => theC64 = "null"
    /\ emu \in {"none", "start", "construct", "roms", "run", "clear", "frame",
                "vblank", "enter", "paused", "leave", "dead", "crashed"}

LEMMA InitLifecycleInv == LifecycleInit => LifecycleInv
BY DEF LifecycleInit, LifecycleInv, NoOrphanedPause, Early

-----------------------------------------------------------------------------
\* What a step may do, with the UI's stack and the view left out
EmulationEffect ==
    \/ emu = "start" /\ emu' = "construct" /\ emulatorState' = "Running"
       /\ UNCHANGED <<theC64, have_a_break>>
    \/ emu = "construct" /\ emu' = "roms" /\ theC64' = "live"
       /\ UNCHANGED <<emulatorState, have_a_break>>
    \/ emu = "roms" /\ emu' \in {"run", "dead"} /\ theC64' \in {theC64, "freed"}
       /\ UNCHANGED <<emulatorState, have_a_break>>
    \/ emu = "clear" /\ emu' = "frame" /\ have_a_break' = FALSE
       /\ UNCHANGED <<theC64, emulatorState>>
    \/ /\ \/ emu = "run" /\ emu' = "clear"
          \/ emu = "frame" /\ emu' = "vblank"
          \/ emu = "vblank" /\ emu' = IF have_a_break THEN "enter" ELSE "frame"
          \/ emu = "enter" /\ emu' = "paused"
          \/ emu = "paused" /\ emu' = "leave" /\ ~have_a_break
          \/ emu = "leave" /\ emu' = "frame"
       /\ UNCHANGED <<theC64, have_a_break, emulatorState>>

UiEffect ==
    /\ UNCHANGED theC64
    /\ \/ Pause /\ UNCHANGED emu
       \/ Resume /\ UNCHANGED emu
       \/ /\ UNCHANGED <<have_a_break, emulatorState>>
          /\ \/ UNCHANGED emu
             \/ emu = "none" /\ emu' = "start"
             \/ theC64 = "null" /\ emu' = "crashed"

LEMMA EmulationEffects == Emulation => EmulationEffect
BY DEF Emulation, EmulationEffect, RunEmulator, NewC64, LoadRoms, RunSetRunning,
       RunClearBreak, EmulateFrame, VBlank, EnterPauseLoop, LeavePauseLoop,
       ClearPauseLoop, c64Vars

LEMMA ContinueEffects == Continue => UiEffect
BY DEF Continue, UiEffect, EmulatorStarted, Appeared, InPauseLoop, Loaded, Saved,
       PrefsChanged, PromptForLoadGame, BeginLoad, c64Vars

LEMMA EventEffects == Events => UiEffect
BY DEF Events, UiEffect, ViewDidAppearFirst, ViewDidAppearAgain, AlertYes,
       ViewWillDisappear, WillResignActive, PauseThroughNull, DidBecomeActive,
       ChangePrefs, BeginLoad, c64Vars

LEMMA Effects ==
    [LifecycleNext]_lifecycleVars =>
    \/ EmulationEffect \/ UiEffect
    \/ UNCHANGED <<emu, theC64, have_a_break, emulatorState>>
BY EmulationEffects, ContinueEffects, EventEffects DEF LifecycleNext, lifecycleVars, c64Vars

LEMMA NextLifecycleInv == LifecycleInv /\ [LifecycleNext]_lifecycleVars => LifecycleInv'
<1> SUFFICES ASSUME LifecycleInv, [LifecycleNext]_lifecycleVars PROVE LifecycleInv'
  OBVIOUS
<1> USE DEF LifecycleInv, NoOrphanedPause, Early
<1>1. CASE EmulationEffect
  BY <1>1 DEF EmulationEffect
<1>2. CASE UiEffect
  BY <1>2 DEF UiEffect, Pause, Resume
<1>3. CASE UNCHANGED <<emu, theC64, have_a_break, emulatorState>>
  BY <1>3
<1> QED BY <1>1, <1>2, <1>3, Effects

-----------------------------------------------------------------------------
\* The inductive invariant holds in every reachable state.
THEOREM LifecycleInvariant == LifecycleSpec => []LifecycleInv
BY InitLifecycleInv, NextLifecycleInv, PTL DEF LifecycleSpec

\* However deep the UI handlers nest and whichever of them there are, a request
\* to pause can always be withdrawn by resumeEmulator.
THEOREM LifecycleNoOrphanedPause == LifecycleSpec => []NoOrphanedPause
<1>1. LifecycleInv => NoOrphanedPause
  BY DEF LifecycleInv
<1> QED BY LifecycleInvariant, <1>1, PTL

\* Every step of the two threads is a step of PauseProtocol or none: the machine
\* is only held on a request and goes on only after its withdrawal.
THEOREM LifecycleKeepsProtocol ==
    LifecycleSpec => Protocol!Init /\ [][Protocol!Next]_(Protocol!vars)
<1>1. LifecycleInit => Protocol!Init
  BY DEF LifecycleInit, Protocol!Init
<1>2. LifecycleInv /\ [LifecycleNext]_lifecycleVars => [Protocol!Next]_(Protocol!vars)
  <2> SUFFICES ASSUME LifecycleInv, [LifecycleNext]_lifecycleVars PROVE [Protocol!Next]_(Protocol!vars)
    OBVIOUS
  <2> USE DEF LifecycleInv, Early, Protocol!Next, Protocol!vars, Protocol!Ask,
              Protocol!PowerOn, Protocol!Hold, Protocol!Go
  <2>1. CASE EmulationEffect
    BY <2>1 DEF EmulationEffect
  <2>2. CASE UiEffect
    BY <2>2 DEF UiEffect, Pause, Resume
  <2>3. CASE UNCHANGED <<emu, theC64, have_a_break, emulatorState>>
    BY <2>3
  <2> QED BY <2>1, <2>2, <2>3, Effects
<1> QED BY <1>1, <1>2, LifecycleInvariant, PTL DEF LifecycleSpec

-----------------------------------------------------------------------------
(* GameStore *)

Active(r) == task[r].pc \notin {"idle", "over"}
AtGame == {"remove", "forget", "copy", "copying", "add"}

\* A thread works for the product of its transaction, which is not finished, on a
\* game that is still to do
Threads ==
    \A r \in Runs :
        /\ task[r].pc = "idle" => task[r] = Idle
        /\ Active(r) /\ r \in Tx =>
             /\ tx[r].state \in Unfinished /\ tx[r].delivered
             /\ tx[r].product = task[r].product
        /\ Active(r) =>
             /\ task[r].product \in Products /\ task[r].todo \subseteq Pack[task[r].product]
             /\ r \notin Tx => task[r].product \in Free
        /\ task[r].pc \in {"load", "next"} => task[r].game = None
        /\ task[r].pc \in AtGame => task[r].game \in task[r].todo

\* Only what is sold has transactions
Purchases ==
    /\ \A id \in Tx : tx[id].state # "none" => tx[id].product \in Paid
    /\ owned \subseteq Paid /\ provided \subseteq Paid

\* The transaction of a product that will install its games again
Pays(id, p) == tx[id].product = p /\ tx[id].state \in Unfinished

\* A thread has put the game in place, and will not do so again
Done(id, p, g) ==
    /\ task[id].product = p /\ task[id].pc \in AtGame \cup {"next"}
    /\ g \notin task[id].todo \/ (task[id].pc = "add" /\ task[id].game = g)

\* What PurchaseKept says of a finished transaction holds of each thread from the
\* moment it is through with a game: one that does the game later still has its
\* transaction
Kept ==
    \A p \in Signed \cap Paid : \A g \in Pack[p] :
        p \in provided \/ (\E id \in Tx : Done(id, p, g))
        => disk[g] = "whole" \/ \E id \in Tx : Pays(id, p) /\ ~Done(id, p, g)

Match(g) ==
    /\ listed[g] > 0 => listed[g] = 1 /\ disk[g] \in {"partial", "whole"}
    /\ disk[g] = "whole" /\ g \notin disabled => listed[g] = 1

MatchBundle(g) == g \in builtIn <=> g \in BuiltInGames \ disabled

\* What the thread that works on a game alone knows of it
Alone(r, g) ==
    /\ task[r].pc \in {"remove", "forget"} => g \notin builtIn
    /\ task[r].pc \in {"remove", "copy"} => Match(g)
    /\ task[r].pc = "forget" => disk[g] = "absent"
    /\ task[r].pc \in {"copying", "add"} => listed[g] = 0
    /\ task[r].pc = "copying" => disk[g] # "whole"
    /\ task[r].pc = "add" => disk[g] = "whole"

ListInv ==
    \A g \in Games \ raced :
        /\ MatchBundle(g)
        /\ \A r, s \in WorkOn(g) : r = s
        /\ WorkOn(g) = {} => Match(g)
        /\ \A r \in WorkOn(g) : Alone(r, g)

IInv == TypeOK /\ Threads /\ Purchases /\ Kept /\ ButtonComesBack /\ ListInv

USE DEF Active, AtGame

-----------------------------------------------------------------------------
(* How the parts are preserved *)

\* Kept survives a step in which no game is lost or done and no transaction that
\* will install a product again goes away.
LEMMA KeptKept ==
    ASSUME Kept, provided' = provided,
           \A g \in Games : disk[g] = "whole" => disk'[g] = "whole",
           \A id \in Tx : \A p \in Signed \cap Paid :
                /\ \A g \in Pack[p] : Done(id, p, g)' => Done(id, p, g)
                /\ Pays(id, p) => Pays(id, p)'
    PROVE  Kept'
<1> SUFFICES ASSUME NEW p \in Signed \cap Paid, NEW g \in Pack[p],
                    p \in provided \/ \E id \in Tx : Done(id, p, g)'
             PROVE  disk'[g] = "whole" \/ \E id \in Tx : Pays(id, p)' /\ ~Done(id, p, g)'
  BY DEF Kept
<1>1. p \in Products /\ g \in Games
  BY KindsAssumption, PackAssumption
<1>2. p \in provided \/ \E id \in Tx : Done(id, p, g)
  BY <1>1
<1>3. disk[g] = "whole" \/ \E id \in Tx : Pays(id, p) /\ ~Done(id, p, g)
  BY <1>2 DEF Kept
<1> QED BY <1>1, <1>3

\* Threads, Kept and ListInv only depend on the threads, the transactions and the
\* files.
LEMMA SessionSteps ==
    ASSUME IInv, UNCHANGED <<task, files, tx, owned, provided>>
    PROVE  Threads' /\ Purchases' /\ Kept' /\ ListInv'
BY DEF IInv, Threads, Purchases, Kept, Done, Pays, ListInv, Alone, Match, MatchBundle, WorkOn,
       files

-----------------------------------------------------------------------------
LEMMA InitIInv == Init => IInv
<1> SUFFICES ASSUME Init PROVE IInv
  OBVIOUS
<1> USE DEF Init
<1>1. Idle \in Task /\ NoTx \in Transaction
  BY DEF Task, Transaction, Idle, NoTx
<1>2. TypeOK
  <2>1. task \in [Runs -> Task] /\ tx \in [Tx -> Transaction]
    BY <1>1
  <2>2. disk \in [Games -> {"absent", "bare", "partial", "whole"}]
        /\ listed \in [Games -> Nat] /\ builtIn \subseteq BuiltInGames
    BY DEF ScanBundle
  <2>3. waiting \in 0 .. MaxWaiting /\ issued \in 0 .. MaxIssued
        /\ crashes \in 0 .. MaxCrashes
    BY BoundsAssumption
  <2> QED BY <2>1, <2>2, <2>3 DEF TypeOK
<1>3. Threads /\ Purchases /\ Kept
  <2>1. \A r \in Runs : task[r] = Idle /\ Idle.pc = "idle"
    BY DEF Idle
  <2>2. \A id \in Tx : tx[id].state = "none"
    BY DEF NoTx
  <2> HIDE DEF Init
  <2>3. Threads
    BY <2>1 DEF Threads
  <2>4. owned = {} /\ provided = {}
    BY DEF Init
  <2>5. Purchases
    BY <2>2, <2>4 DEF Purchases
  <2>6. Kept
    BY <2>1, <2>4 DEF Kept, Done, Runs
  <2> QED BY <2>3, <2>5, <2>6
<1>4. ButtonComesBack
  BY DEF ButtonComesBack
<1>5. \A g \in Games : WorkOn(g) = {} /\ Match(g) /\ MatchBundle(g)
  BY NamesAssumption DEF WorkOn, Match, MatchBundle, ScanBundle, Idle
<1>6. ListInv
  BY <1>5 DEF ListInv
<1> QED BY <1>2, <1>3, <1>4, <1>6 DEF IInv

-----------------------------------------------------------------------------
(* The list of products, and purchases *)

LEMMA RequestStep ==
    ASSUME IInv, Request \/ \E p \in Products : BuyUnavailable(p)
    PROVE  IInv'
<1>1. UNCHANGED <<task, files, tx, owned, provided, crashes>> /\ issued' \in 0 .. MaxIssued
  BY BoundsAssumption
     DEF Request, GetAvailableProducts, ListArrives, ListFails, ProductsArrive,
         ProductsFail, BuyUnavailable, Count, IInv, TypeOK, store
<1>2. TypeOK'
  <2>1. CASE Request
    <3>1. waiting' \in 0 .. MaxWaiting /\ cached' \in BOOLEAN
          /\ request' \in {"none", "list", "store", "lost"}
          /\ (waiting' > 0 => request' # "none")
      <4>1. CASE GetAvailableProducts
        <5>1. waiting' \in 0 .. MaxWaiting
          BY <4>1, BoundsAssumption DEF IInv, TypeOK, GetAvailableProducts
        <5>2. request' \in {"list", "store", "lost"}
          BY <4>1 DEF IInv, TypeOK, GetAvailableProducts
        <5>3. cached' \in BOOLEAN
          BY <4>1 DEF IInv, TypeOK, GetAvailableProducts
        <5> QED BY <5>1, <5>2, <5>3
      <4>2. CASE ListArrives \/ ProductsFail
        BY <4>2 DEF IInv, TypeOK, ListArrives, ProductsFail
      <4>3. CASE ListFails \/ ProductsArrive
        <5>1. waiting' = 0 /\ waiting' \in 0 .. MaxWaiting
          BY <4>3, BoundsAssumption DEF ListFails, ProductsArrive
        <5>2. request' = "none"
          BY <4>3 DEF ListFails, ProductsArrive
        <5>3. cached' \in BOOLEAN
          BY <4>3 DEF IInv, TypeOK, ListFails, ProductsArrive
        <5> QED BY <5>1, <5>2, <5>3
      <4> QED BY <2>1, <4>1, <4>2, <4>3 DEF Request
    <3>2. installing' = installing
      BY <2>1 DEF Request, GetAvailableProducts, ListArrives, ListFails, ProductsArrive,
                  ProductsFail
    <3> QED BY <3>1, <3>2, <1>1 DEF IInv, TypeOK, files, store
  <2>2. CASE \E p \in Products : BuyUnavailable(p)
    BY <2>2, <1>1 DEF IInv, TypeOK, files, store, BuyUnavailable
  <2> QED BY <2>1, <2>2
<1>3. installing' \cap (Paid \cup Free) = installing \cap (Paid \cup Free)
  BY DEF Request, GetAvailableProducts, ListArrives, ListFails, ProductsArrive,
         ProductsFail, BuyUnavailable
<1>4. ButtonComesBack'
  BY <1>1, <1>3 DEF IInv, ButtonComesBack, store
<1> QED BY <1>1, <1>2, <1>4, SessionSteps DEF IInv

\* A step of a transaction that no thread works for yet, and that is not one of
\* the unfinished.
LEMMA TransactionStep ==
    ASSUME IInv, NEW id \in Tx, NEW t \in Transaction,
           tx[id].state \notin Unfinished,
           tx' = [tx EXCEPT ![id] = t],
           t.state # "none" => t.product \in Paid,
           owned' \subseteq Paid,
           UNCHANGED <<task, files, provided>>
    PROVE  Threads' /\ Purchases' /\ Kept' /\ ListInv'
<1>1. tx'[id] = t /\ \A i \in Tx \ {id} : tx'[i] = tx[i]
  BY DEF IInv, TypeOK
<1>2. ~Active(id)
  BY DEF IInv, Threads, Runs, Idle
<1>3. Threads'
  BY <1>1, <1>2 DEF IInv, Threads
<1>4. Purchases'
  BY <1>1 DEF IInv, Purchases
<1>5. Kept'
  <2>1. \A i \in Tx : \A p \in Signed \cap Paid :
            /\ \A g \in Pack[p] : Done(i, p, g)' => Done(i, p, g)
            /\ Pays(i, p) => Pays(i, p)'
    BY <1>1 DEF Done, Pays
  <2>2. Kept /\ \A g \in Games : disk[g] = "whole" => disk'[g] = "whole"
    BY DEF IInv, files
  <2> QED BY <2>1, <2>2, KeptKept
<1>6. ListInv'
  BY DEF IInv, ListInv, Alone, Match, MatchBundle, WorkOn, files
<1> QED BY <1>3, <1>4, <1>5, <1>6

LEMMA IssueStep ==
    ASSUME IInv, NEW p \in Products, BuyPaid(p) \/ Restore(p)
    PROVE  IInv'
<1>1. PICK id \in Tx, state \in {"purchasing", "restored"} : Issue(id, p, state)
  BY DEF BuyPaid, Restore
<1>2. /\ tx[id] = NoTx /\ task[id] = Idle
      /\ tx' = [tx EXCEPT ![id] = [NoTx EXCEPT !.state = state, !.product = p]]
      /\ issued' \in 0 .. MaxIssued
  BY <1>1, BoundsAssumption DEF Issue, Count, IInv, TypeOK
<1>3. /\ p \in Paid /\ owned' \subseteq Paid
      /\ UNCHANGED <<cached, request, waiting, task, files, owned, provided, crashes>>
      /\ installing' \subseteq installing \cup {p}
  BY DEF BuyPaid, Restore, IInv, Purchases, session
<1> DEFINE t == [NoTx EXCEPT !.state = state, !.product = p]
<1>4. t \in Transaction /\ t.product = p /\ ~t.delivered
  BY DEF NoTx, Transaction
<1>5. tx[id].state \notin Unfinished
  BY <1>2 DEF NoTx, Unfinished
<1>6. tx'[id] = t /\ \A i \in Tx \ {id} : tx'[i] = tx[i]
  BY <1>2 DEF IInv, TypeOK
<1> HIDE DEF t
<1>7. Threads' /\ Purchases' /\ Kept' /\ ListInv'
  <2>1. tx' = [tx EXCEPT ![id] = t]
    BY <1>2 DEF t
  <2> QED BY <2>1, <1>2, <1>3, <1>4, <1>5, TransactionStep
<1>8. TypeOK'
  BY <1>2, <1>3, <1>4, <1>6 DEF IInv, TypeOK, files, t
<1>9. ButtonComesBack'
  BY <1>2, <1>3, <1>4, <1>6, KindsAssumption, NamesAssumption
     DEF IInv, ButtonComesBack, NoTx
<1> QED BY <1>7, <1>8, <1>9 DEF IInv

LEMMA DecideStep ==
    ASSUME IInv, NEW id \in Tx, Decide(id)
    PROVE  IInv'
<1>1. PICK state \in {"purchased", "failed"} :
            tx' = [tx EXCEPT ![id] = [tx[id] EXCEPT !.state = state]]
  BY DEF Decide
<1>2. /\ tx[id].state = "purchasing" /\ tx[id] \in Transaction /\ tx[id].product \in Paid
      /\ owned' \subseteq owned \cup {tx[id].product}
      /\ UNCHANGED <<session, task, files, issued, provided, crashes>>
  BY DEF Decide, IInv, TypeOK, Purchases
<1> DEFINE t == [tx[id] EXCEPT !.state = state]
<1>3. t \in Transaction /\ t.product = tx[id].product /\ t.delivered = tx[id].delivered
  BY <1>2 DEF Transaction
<1>4. tx'[id] = t /\ \A i \in Tx \ {id} : tx'[i] = tx[i]
  BY <1>1 DEF IInv, TypeOK
<1> HIDE DEF t
<1>5. tx' = [tx EXCEPT ![id] = t] /\ owned' \subseteq Paid
  BY <1>1, <1>2 DEF t, IInv, Purchases
<1>6. Threads' /\ Purchases' /\ Kept' /\ ListInv'
  BY <1>2, <1>3, <1>5, TransactionStep DEF Unfinished
<1>7. TypeOK'
  BY <1>2, <1>3, <1>5, KindsAssumption DEF IInv, TypeOK, files, session
<1>8. ButtonComesBack'
  BY <1>2, <1>3, <1>4 DEF IInv, ButtonComesBack, session
<1> QED BY <1>6, <1>7, <1>8 DEF IInv

LEMMA DeliverFailedStep ==
    ASSUME IInv, NEW id \in Tx, DeliverFailed(id)
    PROVE  IInv'
<1>1. /\ tx[id].state = "failed" /\ installing' = installing \ {tx[id].product}
      /\ tx' = [tx EXCEPT ![id] = NoTx]
      /\ UNCHANGED <<cached, request, waiting, task, files, owned, issued, provided,
                     crashes>>
  BY DEF DeliverFailed
<1>2. NoTx \in Transaction /\ NoTx.state = "none"
  BY DEF Transaction, NoTx
<1>3. Threads' /\ Purchases' /\ Kept' /\ ListInv'
  BY <1>1, <1>2, TransactionStep DEF Unfinished, IInv, Purchases
<1>4. TypeOK'
  BY <1>1, <1>2 DEF IInv, TypeOK, files
<1>5. ButtonComesBack'
  <2>1. \A i \in Tx \ {id} : tx'[i] = tx[i]
    BY <1>1 DEF IInv, TypeOK
  <2> QED BY <1>1, <2>1 DEF IInv, ButtonComesBack
<1> QED BY <1>3, <1>4, <1>5 DEF IInv

-----------------------------------------------------------------------------
(* The threads *)

\* A thread that goes on as it must, whatever it does to the files.
LEMMA ThreadsStep ==
    ASSUME IInv, task' \in [Runs -> Task], UNCHANGED <<session, store>>,
           \A u \in Runs :
                /\ task'[u].product = task[u].product
                /\ task'[u].pc = "idle" => task'[u] = Idle
                /\ Active(u)' => Active(u) /\ task'[u].todo \subseteq Pack[task[u].product]
                /\ task'[u].pc \in {"load", "next"} => task'[u].game = None
                /\ task'[u].pc \in AtGame => task'[u].game \in task'[u].todo
    PROVE  Threads' /\ Purchases' /\ ButtonComesBack'
<1>1. Threads'
  BY DEF IInv, Threads, store
<1>2. Purchases'
  BY DEF IInv, Purchases, store
<1>3. ButtonComesBack'
  BY DEF IInv, ButtonComesBack, store, session
<1> QED BY <1>1, <1>2, <1>3

\* Whoever works on a game is at one of the places of a game.
LEMMA Workers ==
    ASSUME IInv, NEW g \in Games, NEW r \in Runs
    PROVE  r \in WorkOn(g) <=> task[r].game = g /\ task[r].pc \in AtGame
BY NamesAssumption DEF IInv, TypeOK, Threads, WorkOn, Task, Idle

\* ListInv survives a step in which nobody starts or stops to work on a game.
LEMMA ListKept ==
    ASSUME IInv, UNCHANGED files,
           \A u \in Runs : \/ task'[u] = task[u]
                           \/ /\ task[u].game = None \/ task[u].pc = "over"
                              /\ task'[u].game = None
    PROVE  ListInv'
<1>1. \A g \in Games : WorkOn(g)' = WorkOn(g)
  BY NamesAssumption DEF WorkOn
<1>2. \A g \in Games : \A u \in WorkOn(g) : task'[u] = task[u]
  BY NamesAssumption DEF WorkOn
<1>3. \A g \in Games : \A u \in WorkOn(g) : u \in Runs
  BY DEF WorkOn
<1>4. \A g \in Games : \A u \in WorkOn(g) : Alone(u, g) => Alone(u, g)'
  BY <1>2 DEF Alone, Match, files
<1> QED BY <1>1, <1>4 DEF IInv, ListInv, Match, MatchBundle, files

\* A thread that works on a game does what a thread may do that is alone.
LEMMA ListStep ==
    ASSUME IInv, NEW r \in Runs, NEW g \in Games, r \in WorkOn(g),
           raced' = raced, disabled' = disabled,
           builtIn' = builtIn \/ (builtIn' = builtIn \ {g} /\ (Alone(r, g) => g \notin builtIn)),
           \A h \in Games \ {g} : disk'[h] = disk[h] /\ listed'[h] = listed[h],
           \A u \in Runs \ {r} :
                task'[u] = task[u] \/ (u \in WorkOn(g) /\ task'[u].game = g),
           \/ /\ task'[r].game = g /\ task'[r].pc # "over"
              /\ Alone(r, g) => Alone(r, g)'
           \/ /\ task'[r].game = None \/ (task'[r].game = g /\ task'[r].pc = "over")
              /\ Alone(r, g) => Match(g)'
    PROVE  ListInv'
<1> SUFFICES ASSUME NEW h \in Games \ raced
             PROVE  /\ MatchBundle(h)'
                    /\ \A u, v \in WorkOn(h)' : u = v
                    /\ WorkOn(h)' = {} => Match(h)'
                    /\ \A u \in WorkOn(h)' : Alone(u, h)'
  BY DEF ListInv
<1>1. /\ MatchBundle(h)
      /\ \A u, v \in WorkOn(h) : u = v
      /\ WorkOn(h) = {} => Match(h)
      /\ \A u \in WorkOn(h) : Alone(u, h)
  BY DEF IInv, ListInv
<1>2. CASE h = g
  <2>1. WorkOn(g) = {r} /\ Alone(r, g)
    BY <1>1, <1>2
  <2>2. \A u \in Runs \ {r} : task'[u] = task[u]
    BY <2>1
  <2>3. MatchBundle(h)'
    BY <1>1, <1>2, <2>1 DEF MatchBundle
  <2> QED BY <1>2, <2>1, <2>2, <2>3, NamesAssumption DEF WorkOn
<1>3. CASE h # g
  <2>1. WorkOn(h)' = WorkOn(h)
    BY <1>3, NamesAssumption DEF WorkOn
  <2>2. \A u \in WorkOn(h) : task'[u] = task[u]
    BY <1>3 DEF WorkOn
  <2>3. /\ Match(h)' = Match(h) /\ MatchBundle(h)'
        /\ \A u \in WorkOn(h) : Alone(u, h)'
    BY <1>1, <1>3, <2>2 DEF Match, MatchBundle, Alone
  <2> QED BY <1>1, <2>1, <2>3
<1> QED BY <1>2, <1>3
-----------------------------------------------------------------------------
(* installTask *)

\* A step of one thread: what every step of installTask has in common.
LEMMA OneThread ==
    ASSUME IInv, NEW r \in Runs, NEW n \in Task, task' = [task EXCEPT ![r] = n]
    PROVE  /\ task' \in [Runs -> Task] /\ task'[r] = n
           /\ \A u \in Runs \ {r} : task'[u] = task[u]
           /\ \A u \in Runs : task[u] \in Task
BY DEF IInv, TypeOK

LEMMA LoadStep ==
    ASSUME IInv, NEW r \in Runs, Load(r)
    PROVE  IInv'
<1> DEFINE p == task[r].product
           n == IF p \in Bundled
                THEN [task[r] EXCEPT !.pc = "next",
                                     !.todo = IF p \in Signed THEN Pack[p] ELSE {}]
                ELSE [task[r] EXCEPT !.pc = "over"]
<1>1. /\ task[r].pc = "load" /\ task' = [task EXCEPT ![r] = n]
      /\ UNCHANGED <<session, files, store, crashes>>
  BY DEF Load, Go
<1>2. task[r] \in Task /\ p \in Products /\ task[r].game = None
  BY <1>1 DEF IInv, TypeOK, Threads
<1>3. /\ n \in Task /\ n.pc \in {"next", "over"} /\ n.product = p /\ n.game = None
      /\ n.pc = "next" => n.todo \subseteq Pack[p]
      /\ n.pc = "next" /\ p \in Signed => n.todo = Pack[p]
  BY <1>2, PackAssumption DEF Task
<1>4. /\ task' \in [Runs -> Task] /\ task'[r] = n
      /\ \A u \in Runs \ {r} : task'[u] = task[u]
  BY <1>1, <1>3, OneThread
<1> HIDE DEF n
<1>5. Threads' /\ Purchases' /\ ButtonComesBack'
  BY <1>1, <1>2, <1>3, <1>4, ThreadsStep DEF IInv, Threads
<1>6. Kept'
  <2>1. \A id \in Tx : \A q \in Signed \cap Paid :
            /\ \A g \in Pack[q] : Done(id, q, g)' => Done(id, q, g)
            /\ Pays(id, q) => Pays(id, q)'
    BY <1>1, <1>3, <1>4 DEF Done, Pays, Runs, store
  <2> QED BY <1>1, <2>1, KeptKept DEF IInv, files, store
<1>7. ListInv'
  BY <1>1, <1>2, <1>3, <1>4, ListKept
<1>8. TypeOK'
  BY <1>1, <1>4 DEF IInv, TypeOK, session, files, store
<1> QED BY <1>5, <1>6, <1>7, <1>8 DEF IInv

LEMMA NextGameStep ==
    ASSUME IInv, NEW r \in Runs, NextGame(r)
    PROVE  IInv'
<1>1. PICK g \in task[r].todo :
            /\ task' = [task EXCEPT ![r] =
                    [task[r] EXCEPT !.pc = IF listed[g] > 0 /\ g \notin builtIn THEN "remove"
                                            ELSE "copy",
                                    !.game = g]]
            /\ raced' = IF WorkOn(g) # {} THEN raced \cup {g} ELSE raced
  BY DEF NextGame
<1>2. /\ task[r].pc = "next"
      /\ UNCHANGED <<session, builtIn, listed, disabled, asked, disk, store, crashes>>
  BY DEF NextGame
<1> DEFINE n == [task[r] EXCEPT !.pc = IF listed[g] > 0 /\ g \notin builtIn THEN "remove"
                                        ELSE "copy",
                                !.game = g]
<1>3. task[r] \in Task /\ g \in Games /\ task[r].game = None
  BY <1>2 DEF IInv, TypeOK, Threads, Task
<1>4. /\ n \in Task /\ n.pc \in {"remove", "copy"} /\ n.product = task[r].product
      /\ n.todo = task[r].todo /\ n.game = g
      /\ n.pc = "remove" => g \notin builtIn
  BY <1>3 DEF Task
<1>5. /\ task' \in [Runs -> Task] /\ task'[r] = n
      /\ \A u \in Runs \ {r} : task'[u] = task[u]
  BY <1>1, <1>4, OneThread
<1> HIDE DEF n
<1>6. Threads' /\ Purchases' /\ ButtonComesBack'
  BY <1>2, <1>3, <1>4, <1>5, ThreadsStep DEF IInv, Threads
<1>7. Kept'
  <2>1. \A id \in Tx : \A q \in Signed \cap Paid :
            /\ \A h \in Pack[q] : Done(id, q, h)' => Done(id, q, h)
            /\ Pays(id, q) => Pays(id, q)'
    BY <1>2, <1>4, <1>5 DEF Done, Pays, Runs, store
  <2> QED BY <1>2, <2>1, KeptKept DEF IInv, store
<1>8. ListInv'
  <2> SUFFICES ASSUME NEW h \in Games \ raced'
               PROVE  /\ MatchBundle(h)'
                      /\ \A u, v \in WorkOn(h)' : u = v
                      /\ WorkOn(h)' = {} => Match(h)'
                      /\ \A u \in WorkOn(h)' : Alone(u, h)'
    BY DEF ListInv
  <2>1. /\ h \notin raced /\ MatchBundle(h)
        /\ \A u, v \in WorkOn(h) : u = v
        /\ WorkOn(h) = {} => Match(h)
        /\ \A u \in WorkOn(h) : Alone(u, h)
    BY <1>1 DEF IInv, ListInv
  <2>2. Match(h)' = Match(h) /\ MatchBundle(h)'
    BY <1>2, <2>1 DEF Match, MatchBundle
  <2>3. CASE h = g
    <3>1. WorkOn(g) = {} /\ Match(g)
      BY <1>1, <2>1, <2>3
    <3>2. WorkOn(g)' = {r}
      BY <3>1, <1>4, <1>5 DEF WorkOn
    <3>3. Alone(r, g)'
      BY <1>2, <1>4, <1>5, <3>1 DEF Alone, Match
    <3> QED BY <2>2, <2>3, <3>2, <3>3
  <2>4. CASE h # g
    <3>1. WorkOn(h)' = WorkOn(h) /\ \A u \in WorkOn(h) : task'[u] = task[u]
      BY <1>3, <1>4, <1>5, <2>4, NamesAssumption DEF WorkOn
    <3>2. \A u \in WorkOn(h) : Alone(u, h)'
      BY <1>2, <2>1, <2>2, <3>1 DEF Alone, Match
    <3> QED BY <2>1, <2>2, <3>1, <3>2
  <2> QED BY <2>3, <2>4
<1>9. TypeOK'
  BY <1>1, <1>2, <1>3, <1>5 DEF IInv, TypeOK, session, store
<1> QED BY <1>6, <1>7, <1>8, <1>9 DEF IInv

LEMMA RemoveFolderStep ==
    ASSUME IInv, NEW r \in Runs, RemoveFolder(r)
    PROVE  IInv'
<1> DEFINE p == task[r].product
<1>0. PICK g : g = task[r].game
  OBVIOUS
<1>1. /\ task[r].pc = "remove" /\ disk' = [disk EXCEPT ![g] = "absent"]
      /\ UNCHANGED <<session, builtIn, listed, disabled, asked, raced, store, crashes>>
      /\ task' = [u \in Runs |->
            IF u = r THEN [task[u] EXCEPT !.pc = "forget"]
            ELSE IF task[u].pc = "copying" /\ task[u].game = g
            THEN [task[u] EXCEPT !.pc = "over"] ELSE task[u]]
  BY <1>0 DEF RemoveFolder
<1>2. /\ g \in Games /\ g \in task[r].todo /\ r \in WorkOn(g)
      /\ p \in Products /\ g \in Pack[p]
  BY <1>0, <1>1 DEF IInv, TypeOK, Threads, Task, WorkOn
<1>3. \A u \in Runs : task[u] \in Task
  BY DEF IInv, TypeOK
<1>4. /\ task' \in [Runs -> Task]
      /\ \A u \in Runs :
            /\ task'[u].product = task[u].product /\ task'[u].game = task[u].game
            /\ task'[u].todo = task[u].todo
            /\ task'[u].pc = task[u].pc \/ (task'[u].pc = "over" /\ task[u].pc = "copying")
               \/ (u = r /\ task'[u].pc = "forget")
            /\ u # r => task'[u] = task[u] \/ (task[u].pc = "copying" /\ task[u].game = g)
      /\ task'[r].pc = "forget"
  BY <1>1, <1>3 DEF Task
<1>5. Threads' /\ Purchases' /\ ButtonComesBack'
  <2>1. \A u \in Runs : task'[u].pc = "idle" => task'[u] = Idle
    BY <1>1, <1>4 DEF IInv, Threads
  <2> QED BY <1>1, <1>4, <2>1, ThreadsStep DEF IInv, Threads
<1>6. Kept'
  <2> SUFFICES ASSUME NEW q \in Signed \cap Paid, NEW h \in Pack[q],
                      q \in provided \/ \E id \in Tx : Done(id, q, h)'
               PROVE  disk'[h] = "whole" \/ \E id \in Tx : Pays(id, q)' /\ ~Done(id, q, h)'
    BY <1>1 DEF Kept, store
  <2>1. \A id \in Tx : (Done(id, q, h)' => Done(id, q, h)) /\ (Pays(id, q) => Pays(id, q)')
    BY <1>1, <1>4 DEF Done, Pays, Runs, store
  <2>2. h \in Games /\ q \in Products
    BY PackAssumption, KindsAssumption
  <2>3. CASE h = g
    <3>1. p = q
      BY <1>2, <2>2, <2>3, PacksDisjoint
    <3>2. r \in Tx
      BY <1>1, <3>1, KindsAssumption DEF IInv, Threads
    <3>3. Pays(r, q)'
      BY <1>1, <3>1, <3>2 DEF IInv, Threads, Pays, store
    <3>4. ~Done(r, q, h)'
      BY <1>2, <1>4, <2>3 DEF Done
    <3> QED BY <3>2, <3>3, <3>4
  <2>4. CASE h # g
    <3>1. disk'[h] = disk[h]
      BY <1>1, <2>2, <2>4 DEF IInv, TypeOK
    <3> QED BY <2>1, <3>1 DEF IInv, Kept
  <2> QED BY <2>3, <2>4
<1>7. ListInv'
  <2>1. \A h \in Games \ {g} : disk'[h] = disk[h] /\ listed'[h] = listed[h]
    BY <1>1 DEF IInv, TypeOK
  <2>2. \A u \in Runs \ {r} :
            task'[u] = task[u] \/ (u \in WorkOn(g) /\ task'[u].game = g)
    BY <1>4 DEF WorkOn
  <2>3. disk'[g] = "absent"
    BY <1>1, <1>2 DEF IInv, TypeOK
  <2>4. /\ task'[r].game = g /\ task'[r].pc # "over"
        /\ Alone(r, g) => Alone(r, g)'
    BY <1>0, <1>1, <1>4, <2>3 DEF Alone
  <2> QED BY <1>1, <1>2, <2>1, <2>2, <2>4, ListStep
<1>8. TypeOK'
  BY <1>1, <1>2, <1>4 DEF IInv, TypeOK, session, store
<1> QED BY <1>5, <1>6, <1>7, <1>8 DEF IInv
\* A step of a thread on its game that neither finds the game done nor loses a
\* complete one: all but RemoveFolder, CopyFails and EndCopy.
LEMMA GameStep ==
    ASSUME IInv, NEW r \in Runs, NEW g \in Games, NEW n \in Task,
           r \in WorkOn(g), task' = [task EXCEPT ![r] = n],
           n.product = task[r].product, n.pc # "idle", n.pc # "load",
           n.todo \subseteq task[r].todo,
           n.pc = "next" => n.game = None,
           n.pc \in AtGame => n.game \in n.todo,
           UNCHANGED <<session, disabled, asked, raced, store, crashes>>,
           disk' \in [Games -> {"absent", "bare", "partial", "whole"}],
           builtIn' = builtIn \/ (builtIn' = builtIn \ {g} /\ (Alone(r, g) => g \notin builtIn)),
           listed' \in [Games -> Nat],
           \A h \in Games \ {g} : disk'[h] = disk[h] /\ listed'[h] = listed[h],
           disk[g] = "whole" => disk'[g] = "whole",
           \A p, h : Done(r, p, h)' => Done(r, p, h),
           \/ /\ n.game = g /\ n.pc # "over"
              /\ Alone(r, g) => Alone(r, g)'
           \/ /\ n.game = None \/ (n.game = g /\ n.pc = "over")
              /\ Alone(r, g) => Match(g)'
    PROVE  IInv'
<1>1. /\ task' \in [Runs -> Task] /\ task'[r] = n
      /\ \A u \in Runs \ {r} : task'[u] = task[u]
  BY OneThread
<1>2. Active(r)
  BY NamesAssumption DEF WorkOn, IInv, Threads, Idle
<1>3. Threads' /\ Purchases' /\ ButtonComesBack'
  BY <1>1, <1>2, ThreadsStep DEF IInv, Threads
<1>4. Kept'
  <2>1. \A id \in Tx : \A q \in Signed \cap Paid :
            /\ \A h \in Pack[q] : Done(id, q, h)' => Done(id, q, h)
            /\ Pays(id, q) => Pays(id, q)'
    BY <1>1 DEF Done, Pays, Runs, store
  <2>2. \A h \in Games : disk[h] = "whole" => disk'[h] = "whole"
    OBVIOUS
  <2> QED BY <2>1, <2>2, KeptKept DEF IInv, store
<1>5. ListInv'
  BY <1>1, ListStep
<1>6. TypeOK'
  BY <1>1 DEF IInv, TypeOK, session, store
<1> QED BY <1>3, <1>4, <1>5, <1>6 DEF IInv

\* RemoveInfo, BeginCopy, RefuseCopy and AddInfo.
LEMMA CopyStep ==
    ASSUME IInv, NEW r \in Runs,
           RemoveInfo(r) \/ BeginCopy(r) \/ RefuseCopy(r) \/ AddInfo(r)
    PROVE  IInv'
<1>0. PICK g : g = task[r].game
  OBVIOUS
<1>1. /\ task[r].pc \in AtGame /\ task[r] \in Task
      /\ UNCHANGED <<session, disabled, asked, raced, store, crashes>>
  BY DEF RemoveInfo, BeginCopy, RefuseCopy, AddInfo, IInv, TypeOK, files
<1>2. g \in Games /\ g \in task[r].todo /\ r \in WorkOn(g)
  BY <1>0, <1>1 DEF IInv, TypeOK, Threads, Task, WorkOn
<1>3. /\ disk \in [Games -> {"absent", "bare", "partial", "whole"}]
      /\ listed \in [Games -> Nat]
  BY DEF IInv, TypeOK
<1>4. CASE RemoveInfo(r)
  <2> DEFINE n == [task[r] EXCEPT !.pc = "copy"]
  <2>1. /\ task' = [task EXCEPT ![r] = n] /\ task[r].pc = "forget"
        /\ listed' = [listed EXCEPT ![g] = 0] /\ disk' = disk /\ builtIn' = builtIn \ {g}
    BY <1>0, <1>4 DEF RemoveInfo, Go
  <2>2. /\ n \in Task /\ n.pc = "copy" /\ n.game = g /\ n.todo = task[r].todo
        /\ n.product = task[r].product
    BY <1>0, <1>1 DEF Task
  <2> HIDE DEF n
  <2>3. task'[r] = n
    BY <2>1, <2>2, OneThread
  <2>4. \A p, h : Done(r, p, h)' => Done(r, p, h)
    BY <2>1, <2>2, <2>3 DEF Done
  <2>5. Alone(r, g) => Alone(r, g)' /\ g \notin builtIn
    BY <1>2, <1>3, <2>1, <2>2, <2>3 DEF Alone, Match
  <2> QED BY <1>1, <1>2, <1>3, <2>1, <2>2, <2>4, <2>5, GameStep
<1>5. CASE BeginCopy(r)
  <2> DEFINE n == [task[r] EXCEPT !.pc = "copying"]
  <2>1. PICK d \in {"bare", "partial"} : disk' = [disk EXCEPT ![g] = d]
    BY <1>0, <1>5 DEF BeginCopy
  <2>2. /\ task' = [task EXCEPT ![r] = n] /\ task[r].pc = "copy"
        /\ disk[g] = "absent" /\ listed' = listed /\ builtIn' = builtIn
    BY <1>0, <1>5 DEF BeginCopy, Go
  <2>3. /\ n \in Task /\ n.pc = "copying" /\ n.game = g /\ n.todo = task[r].todo
        /\ n.product = task[r].product
    BY <1>0, <1>1 DEF Task
  <2> HIDE DEF n
  <2>4. task'[r] = n
    BY <2>2, <2>3, OneThread
  <2>5. \A p, h : Done(r, p, h)' => Done(r, p, h)
    BY <2>2, <2>3, <2>4 DEF Done
  <2>6. Alone(r, g) => Alone(r, g)'
    BY <1>2, <1>3, <2>1, <2>2, <2>3, <2>4 DEF Alone, Match
  <2> QED BY <1>1, <1>2, <1>3, <2>1, <2>2, <2>3, <2>5, <2>6, GameStep
<1>6. CASE RefuseCopy(r)
  <2> DEFINE n == [task[r] EXCEPT !.pc = "over"]
  <2>1. /\ task' = [task EXCEPT ![r] = n] /\ task[r].pc = "copy"
        /\ listed' = listed /\ disk' = disk /\ builtIn' = builtIn
    BY <1>6 DEF RefuseCopy, Go, files
  <2>2. /\ n \in Task /\ n.pc = "over" /\ n.game = g /\ n.todo = task[r].todo
        /\ n.product = task[r].product
    BY <1>0, <1>1 DEF Task
  <2> HIDE DEF n
  <2>3. task'[r] = n
    BY <2>1, <2>2, OneThread
  <2>4. \A p, h : Done(r, p, h)' => Done(r, p, h)
    BY <2>2, <2>3 DEF Done
  <2>5. Alone(r, g) => Match(g)'
    BY <1>1, <1>2, <1>3, <2>1 DEF Alone, Match
  <2> QED BY <1>1, <1>2, <1>3, <2>1, <2>2, <2>4, <2>5, GameStep
<1>7. CASE AddInfo(r)
  <2> DEFINE n == [task[r] EXCEPT !.pc = "next", !.game = None, !.todo = @ \ {g}]
  <2>1. /\ task' = [task EXCEPT ![r] = n] /\ task[r].pc = "add"
        /\ listed' = [listed EXCEPT ![g] = listed[g] + 1] /\ disk' = disk
        /\ builtIn' = builtIn
    <3>1. task[r].pc = "add" /\ disk' = disk /\ builtIn' = builtIn
      BY <1>7 DEF AddInfo
    <3>2. listed' = [listed EXCEPT ![g] = listed[g] + 1]
      BY <1>0, <1>7 DEF AddInfo
    <3>3. task' = [task EXCEPT ![r] = [task[r] EXCEPT !.pc = "next", !.game = None,
                                       !.todo = task[r].todo \ {task[r].game}]]
      BY <1>7 DEF AddInfo
    <3> QED BY <1>0, <3>1, <3>2, <3>3
  <2>2. /\ n \in Task /\ n.pc = "next" /\ n.game = None /\ n.todo = task[r].todo \ {g}
        /\ n.product = task[r].product
    BY <1>0, <1>1 DEF Task
  <2> HIDE DEF n
  <2>3. task'[r] = n
    BY <2>1, <2>2, OneThread
  <2>4. \A p, h : Done(r, p, h)' => Done(r, p, h)
    BY <1>0, <2>1, <2>2, <2>3 DEF Done
  <2>5. Alone(r, g) => Match(g)'
    BY <1>1, <1>2, <1>3, <2>1 DEF Alone, Match
  <2>6. listed' \in [Games -> Nat]
    BY <1>2, <1>3, <2>1
  <2> QED BY <1>1, <1>2, <1>3, <2>1, <2>2, <2>4, <2>5, <2>6, GameStep
<1> QED BY <1>4, <1>5, <1>6, <1>7

LEMMA CopyFailsStep ==
    ASSUME IInv, NEW r \in Runs, CopyFails(r)
    PROVE  IInv'
<1>0. PICK g : g = task[r].game
  OBVIOUS
<1>1. /\ task[r].pc = "copying" /\ task[r] \in Task
      /\ UNCHANGED <<session, builtIn, listed, disabled, asked, raced, store, crashes>>
      /\ disk' \in {disk, [disk EXCEPT ![g] = "absent"]}
      /\ task' = [task EXCEPT ![r] = [task[r] EXCEPT !.pc = "over"]]
  BY <1>0 DEF CopyFails, IInv, TypeOK, Go
<1>2. g \in Games /\ g \in task[r].todo /\ r \in WorkOn(g)
  BY <1>0, <1>1 DEF IInv, TypeOK, Threads, Task, WorkOn
<1> DEFINE n == [task[r] EXCEPT !.pc = "over"]
<1>3. /\ n \in Task /\ n.pc = "over" /\ n.game = g /\ n.todo = task[r].todo
      /\ n.product = task[r].product
  BY <1>0, <1>1 DEF Task
<1>4. /\ task' \in [Runs -> Task] /\ task'[r] = n
      /\ \A u \in Runs \ {r} : task'[u] = task[u]
  BY <1>1, <1>3, OneThread
<1> HIDE DEF n
<1>5. Threads' /\ Purchases' /\ ButtonComesBack'
  BY <1>1, <1>3, <1>4, ThreadsStep DEF IInv, Threads
<1>6. Kept'
  <2> SUFFICES ASSUME NEW q \in Signed \cap Paid, NEW h \in Pack[q],
                      q \in provided \/ \E id \in Tx : Done(id, q, h)'
               PROVE  disk'[h] = "whole" \/ \E id \in Tx : Pays(id, q)' /\ ~Done(id, q, h)'
    BY <1>1 DEF Kept, store
  <2>1. \A id \in Tx : (Done(id, q, h)' => Done(id, q, h)) /\ (Pays(id, q) => Pays(id, q)')
    BY <1>1, <1>3, <1>4 DEF Done, Pays, Runs, store
  <2>2. h \in Games /\ q \in Products
    BY PackAssumption, KindsAssumption
  <2>3. CASE h = g
    <3>1. task[r].product = q
      BY <1>1, <1>2, <2>2, <2>3, PacksDisjoint DEF IInv, Threads
    <3>2. r \in Tx
      BY <1>1, <3>1, KindsAssumption DEF IInv, Threads
    <3>3. Pays(r, q)' /\ ~Done(r, q, h)'
      BY <1>1, <1>3, <1>4, <3>1, <3>2 DEF IInv, Threads, Pays, Done, store
    <3> QED BY <3>2, <3>3
  <2>4. CASE h # g
    <3>1. disk'[h] = disk[h]
      BY <1>1, <2>2, <2>4 DEF IInv, TypeOK
    <3> QED BY <2>1, <3>1 DEF IInv, Kept
  <2> QED BY <2>3, <2>4
<1>7. ListInv'
  <2>1. \A h \in Games \ {g} : disk'[h] = disk[h] /\ listed'[h] = listed[h]
    BY <1>1 DEF IInv, TypeOK
  <2>2. Alone(r, g) => Match(g)'
    <3>1. disk'[g] \in {disk[g], "absent"}
      BY <1>1, <1>2 DEF IInv, TypeOK
    <3>2. listed'[g] = listed[g]
      BY <1>1
    <3> QED BY <1>1, <3>1, <3>2 DEF Alone, Match
  <2> QED BY <1>1, <1>2, <1>3, <1>4, <2>1, <2>2, ListStep
<1>8. TypeOK'
  BY <1>1, <1>2, <1>4 DEF IInv, TypeOK, session, store
<1> QED BY <1>5, <1>6, <1>7, <1>8 DEF IInv

LEMMA EndCopyStep ==
    ASSUME IInv, NEW r \in Runs, EndCopy(r)
    PROVE  IInv'
<1>0. PICK g : g = task[r].game
  OBVIOUS
<1>1. /\ task[r].pc = "copying" /\ task[r] \in Task
      /\ UNCHANGED <<session, builtIn, listed, disabled, asked, raced, store, crashes>>
      /\ disk' = [disk EXCEPT ![g] = "whole"]
      /\ task' = [task EXCEPT ![r] = [task[r] EXCEPT !.pc = "add"]]
  BY <1>0 DEF EndCopy, IInv, TypeOK, Go
<1>2. g \in Games /\ g \in task[r].todo /\ r \in WorkOn(g)
  BY <1>0, <1>1 DEF IInv, TypeOK, Threads, Task, WorkOn
<1> DEFINE n == [task[r] EXCEPT !.pc = "add"]
<1>3. /\ n \in Task /\ n.pc = "add" /\ n.game = g /\ n.todo = task[r].todo
      /\ n.product = task[r].product
  BY <1>0, <1>1 DEF Task
<1>4. /\ task' \in [Runs -> Task] /\ task'[r] = n
      /\ \A u \in Runs \ {r} : task'[u] = task[u]
  BY <1>1, <1>3, OneThread
<1> HIDE DEF n
<1>5. Threads' /\ Purchases' /\ ButtonComesBack'
  BY <1>1, <1>2, <1>3, <1>4, ThreadsStep DEF IInv, Threads
<1>6. disk'[g] = "whole" /\ \A h \in Games \ {g} : disk'[h] = disk[h]
  BY <1>1, <1>2 DEF IInv, TypeOK
<1>7. Kept'
  <2> SUFFICES ASSUME NEW q \in Signed \cap Paid, NEW h \in Pack[q], h # g,
                      q \in provided \/ \E id \in Tx : Done(id, q, h)'
               PROVE  disk'[h] = "whole" \/ \E id \in Tx : Pays(id, q)' /\ ~Done(id, q, h)'
    BY <1>1, <1>6 DEF Kept, store
  <2>1. \A id \in Tx : (Done(id, q, h)' => Done(id, q, h)) /\ (Pays(id, q) => Pays(id, q)')
    BY <1>1, <1>3, <1>4 DEF Done, Pays, Runs, store
  <2>2. h \in Games
    BY PackAssumption, KindsAssumption
  <2> QED BY <1>6, <2>1, <2>2 DEF IInv, Kept
<1>8. ListInv'
  <2>1. Alone(r, g) => Alone(r, g)'
    BY <1>1, <1>3, <1>4, <1>6 DEF Alone
  <2> QED BY <1>1, <1>2, <1>3, <1>4, <1>6, <2>1, ListStep
<1>9. TypeOK'
  BY <1>1, <1>2, <1>4 DEF IInv, TypeOK, session, store
<1> QED BY <1>5, <1>7, <1>8, <1>9 DEF IInv
LEMMA FinishStep ==
    ASSUME IInv, NEW r \in Runs, Finish(r)
    PROVE  IInv'
<1> DEFINE p == task[r].product
           n == [task[r] EXCEPT !.pc = "over"]
<1>1. /\ task[r].pc = "next" /\ task[r].todo = {} /\ task[r].game = None
      /\ task[r] \in Task /\ p \in Products
      /\ task' = [task EXCEPT ![r] = n]
      /\ UNCHANGED <<session, files, owned, issued, crashes>>
  BY DEF Finish, Go, IInv, Threads, TypeOK
<1>2. /\ r \notin Tx => UNCHANGED <<tx, provided>>
      /\ r \in Tx => /\ tx' = [tx EXCEPT ![r] = NoTx]
                     /\ provided' = provided \cup {p}
  BY DEF Finish
<1>3. /\ n \in Task /\ n.pc = "over" /\ n.product = p /\ n.game = None
  BY <1>1 DEF Task
<1>4. /\ task' \in [Runs -> Task] /\ task'[r] = n
      /\ \A u \in Runs \ {r} : task'[u] = task[u]
  BY <1>1, <1>3, OneThread
<1> HIDE DEF n
<1>5. /\ NoTx \in Transaction /\ NoTx.state = "none"
  BY DEF Transaction, NoTx
<1>6. /\ tx' \in [Tx -> Transaction]
      /\ \A id \in Tx : tx'[id] = tx[id] \/ (id = r /\ tx'[id] = NoTx)
  BY <1>2, <1>5 DEF IInv, TypeOK
<1>7. Threads'
  BY <1>1, <1>3, <1>4, <1>6 DEF IInv, Threads
<1>8. r \in Tx => p \in Paid
  <2>1. r \in Tx => tx[r].product = p /\ tx[r].state # "none"
    BY <1>1 DEF IInv, Threads, Unfinished
  <2> QED BY <2>1 DEF IInv, Purchases
<1>9. Purchases'
  BY <1>1, <1>2, <1>5, <1>6, <1>8 DEF IInv, Purchases
<1>10. ButtonComesBack'
  <2>1. r \in Tx => tx[r].delivered
    BY <1>1 DEF IInv, Threads
  <2>2. \A u \in Runs : task'[u].product = task[u].product
    BY <1>3, <1>4
  <2> QED BY <1>1, <1>6, <2>1, <2>2 DEF IInv, ButtonComesBack, session
<1>11. Kept'
  <2> SUFFICES ASSUME NEW q \in Signed \cap Paid, NEW h \in Pack[q],
                      q \in provided' \/ \E id \in Tx : Done(id, q, h)'
               PROVE  disk'[h] = "whole" \/ \E id \in Tx : Pays(id, q)' /\ ~Done(id, q, h)'
    BY DEF Kept
  <2>1. r \in Runs /\ Done(r, p, h)
    BY <1>1 DEF Done
  <2>2. \A id \in Tx : Done(id, q, h)' => Done(id, q, h)
    BY <1>3, <1>4 DEF Done, Runs
  <2>3. q \in provided \/ \E id \in Tx : Done(id, q, h)
    BY <1>2, <2>1, <2>2
  <2>4. CASE disk[h] = "whole"
    BY <1>1, <2>4 DEF files
  <2>5. ASSUME NEW id \in Tx, Pays(id, q), ~Done(id, q, h)
        PROVE  Pays(id, q)' /\ ~Done(id, q, h)'
    <3>1. id # r
      <4> SUFFICES ASSUME id = r PROVE FALSE
        OBVIOUS
      <4>1. tx[r].product = p
        BY <1>1 DEF IInv, Threads
      <4> QED BY <2>1, <2>5, <4>1 DEF Pays
    <3> QED BY <1>6, <2>2, <2>5, <3>1 DEF Pays
  <2> QED BY <2>3, <2>4, <2>5 DEF IInv, Kept
<1>12. ListInv'
  BY <1>1, <1>3, <1>4, ListKept
<1>13. TypeOK'
  BY <1>1, <1>2, <1>4, <1>6 DEF IInv, TypeOK, session, files
<1> QED BY <1>7, <1>9, <1>10, <1>11, <1>12, <1>13 DEF IInv

LEMMA ReleaseStep ==
    ASSUME IInv, NEW r \in Runs, Release(r)
    PROVE  IInv'
<1>1. /\ task[r].pc = "over" /\ installing' = installing \ {task[r].product}
      /\ task' = [task EXCEPT ![r] = Idle]
      /\ UNCHANGED <<cached, request, waiting, files, store, crashes>>
  BY DEF Release
<1>2. Idle \in Task /\ Idle.pc = "idle" /\ Idle.game = None
  BY DEF Idle, Task
<1>3. /\ task' \in [Runs -> Task] /\ task'[r] = Idle
      /\ \A u \in Runs \ {r} : task'[u] = task[u]
  BY <1>1, <1>2, OneThread
<1>4. Threads' /\ Purchases'
  BY <1>1, <1>2, <1>3 DEF IInv, Threads, Purchases, store
<1>5. ButtonComesBack'
  BY <1>1, <1>3 DEF IInv, ButtonComesBack, store
<1>6. Kept'
  <2>1. \A id \in Tx : \A q \in Signed \cap Paid :
            /\ \A h \in Pack[q] : Done(id, q, h)' => Done(id, q, h)
            /\ Pays(id, q) => Pays(id, q)'
    BY <1>1, <1>2, <1>3 DEF Done, Pays, Runs, store
  <2> QED BY <1>1, <2>1, KeptKept DEF IInv, store, files
<1>7. ListInv'
  BY <1>1, <1>2, <1>3, ListKept
<1>8. TypeOK'
  BY <1>1, <1>3 DEF IInv, TypeOK, store, files
<1> QED BY <1>4, <1>5, <1>6, <1>7, <1>8 DEF IInv

-----------------------------------------------------------------------------
(* Starting a thread *)

LEMMA ProvideStep ==
    ASSUME IInv, NEW r \in Runs, NEW p \in Products, Provide(r, p),
           tx' \in [Tx -> Transaction],
           \A id \in Tx : /\ tx'[id].product = tx[id].product
                          /\ tx'[id].state = tx[id].state
                          /\ id # r => tx'[id] = tx[id],
           r \in Tx => /\ tx'[r].state \in Unfinished /\ tx'[r].delivered
                       /\ tx'[r].product = p,
           r \notin Tx => p \in Free, issued' \in 0 .. MaxIssued,
           UNCHANGED <<cached, request, waiting, files, owned, provided, crashes>>
    PROVE  IInv'
<1> DEFINE n == [Idle EXCEPT !.pc = "load", !.product = p]
<1>1. /\ task[r] = Idle /\ installing' = installing \cup {p}
      /\ task' = [task EXCEPT ![r] = n]
  BY DEF Provide
<1>2. /\ n \in Task /\ n.pc = "load" /\ n.product = p /\ n.game = None /\ n.todo = {}
      /\ Idle.pc = "idle" /\ Idle.game = None
  BY DEF Idle, Task
<1>3. /\ task' \in [Runs -> Task] /\ task'[r] = n
      /\ \A u \in Runs \ {r} : task'[u] = task[u]
  BY <1>1, <1>2, OneThread
<1> HIDE DEF n
<1>4. Threads'
  BY <1>2, <1>3 DEF IInv, Threads
<1>5. Purchases'
  BY DEF IInv, Purchases
<1>6. ButtonComesBack'
  <2> SUFFICES ASSUME NEW q \in installing' \cap (Paid \cup Free), q # p
               PROVE  \/ \E id \in Tx : tx'[id].product = q /\ ~tx'[id].delivered
                      \/ \E u \in Runs : task'[u].product = q
    BY <1>2, <1>3 DEF ButtonComesBack
  <2>1. q \in installing
    BY <1>1
  <2>2. CASE \E id \in Tx : tx[id].product = q /\ ~tx[id].delivered
    BY <2>2
  <2>3. CASE \E u \in Runs : task[u].product = q
    <3>1. q # None
      BY KindsAssumption, NamesAssumption
    <3>2. task[r].product = None
      BY <1>1 DEF Idle
    <3> QED BY <1>3, <2>3, <3>1, <3>2
  <2> QED BY <2>1, <2>2, <2>3 DEF IInv, ButtonComesBack
<1>7. Kept'
  <2>1. \A id \in Tx : \A q \in Signed \cap Paid :
            /\ \A h \in Pack[q] : Done(id, q, h)' => Done(id, q, h)
            /\ Pays(id, q) => Pays(id, q)'
    BY <1>2, <1>3 DEF Done, Pays, Runs
  <2> QED BY <2>1, KeptKept DEF IInv, files
<1>8. ListInv'
  BY <1>1, <1>2, <1>3, ListKept
<1>9. TypeOK'
  BY <1>1, <1>3 DEF IInv, TypeOK, files
<1> QED BY <1>4, <1>5, <1>6, <1>7, <1>8, <1>9 DEF IInv

LEMMA BuyFreeStep ==
    ASSUME IInv, NEW p \in Products, BuyFree(p)
    PROVE  IInv'
<1>1. PICK r \in FreeRuns : Provide(r, p)
  BY DEF BuyFree
<1>2. /\ p \in Free /\ r \in Runs /\ r \notin Tx
      /\ UNCHANGED <<cached, request, waiting, files, tx, owned, provided, crashes>>
  BY NamesAssumption DEF BuyFree, Runs
<1>3. tx \in [Tx -> Transaction] /\ issued' \in 0 .. MaxIssued
  BY BoundsAssumption DEF BuyFree, Count, IInv, TypeOK
<1> QED BY <1>1, <1>2, <1>3, ProvideStep

LEMMA DeliverStep ==
    ASSUME IInv, NEW id \in Tx, Deliver(id)
    PROVE  IInv'
<1>0. PICK p : p = tx[id].product
  OBVIOUS
<1>1. /\ tx[id].state \in Unfinished /\ tx[id] \in Transaction /\ id \in Runs
      /\ tx' = [tx EXCEPT ![id] = [tx[id] EXCEPT !.delivered = TRUE]]
      /\ Provide(id, p)
      /\ UNCHANGED <<cached, request, waiting, files, owned, issued, provided, crashes>>
  BY <1>0 DEF Deliver, IInv, TypeOK, Runs
<1> DEFINE t == [tx[id] EXCEPT !.delivered = TRUE]
<1>2. t \in Transaction /\ t.delivered /\ t.product = p /\ t.state = tx[id].state
  BY <1>0, <1>1 DEF Transaction
<1> HIDE DEF t
<1>3. tx' = [tx EXCEPT ![id] = t]
  BY <1>1 DEF t
<1>4. tx' \in [Tx -> Transaction] /\ tx'[id] = t /\ \A i \in Tx \ {id} : tx'[i] = tx[i]
  BY <1>2, <1>3 DEF IInv, TypeOK
<1>5. p \in Products
  BY <1>0, <1>1, KindsAssumption DEF IInv, Purchases, Unfinished
<1>6. issued' \in 0 .. MaxIssued
  BY <1>1 DEF IInv, TypeOK
<1> QED BY <1>0, <1>1, <1>2, <1>4, <1>5, <1>6, ProvideStep

-----------------------------------------------------------------------------
(* The disabled games, and a new process *)

LEMMA DisabledStep ==
    ASSUME IInv, DisabledListArrives
    PROVE  IInv'
<1>1. PICK ids \in SUBSET Disablable : disabled' = ids /\ listed' = Scan(disk, ids)
                                     /\ builtIn' = ScanBundle(ids)
  BY DEF DisabledListArrives
<1>2. /\ raced' = raced \cup {g \in Games : WorkOn(g) # {}} /\ asked' = FALSE
      /\ UNCHANGED <<session, disk, task, store, crashes>>
  BY DEF DisabledListArrives
<1>3. Threads' /\ Purchases' /\ ButtonComesBack'
  BY <1>2 DEF IInv, Threads, Purchases, ButtonComesBack, store, session
<1>4. Kept'
  BY <1>2 DEF IInv, Kept, Done, Pays, store
<1>5. ListInv'
  <2>1. \A g \in Games : Match(g)' /\ MatchBundle(g)'
    BY <1>1, <1>2 DEF Match, MatchBundle, Scan, ScanBundle
  <2>2. \A g \in Games \ raced' : WorkOn(g)' = {}
    BY <1>2 DEF WorkOn
  <2> QED BY <2>1, <2>2 DEF ListInv
<1>6. TypeOK'
  <2>1. listed' \in [Games -> Nat] /\ raced' \subseteq Games
    BY <1>1, <1>2 DEF Scan, IInv, TypeOK
  <2>2. builtIn' \subseteq BuiltInGames
    BY <1>1 DEF ScanBundle
  <2> QED BY <2>1, <2>2, <1>1, <1>2, KindsAssumption DEF IInv, TypeOK, session, store
<1> QED BY <1>3, <1>4, <1>5, <1>6 DEF IInv

LEMMA LaunchStep ==
    ASSUME IInv, Launch, crashes' \in 0 .. MaxCrashes
    PROVE  IInv'
<1>1. /\ cached' = FALSE /\ request' = "list" /\ waiting' = 0
      /\ installing' = {} /\ asked' = TRUE
      /\ task' = [r \in Runs |-> Idle]
      /\ listed' = Scan(disk, disabled) /\ builtIn' = ScanBundle(disabled) /\ raced' = {}
      /\ tx' = [id \in Tx |-> [tx[id] EXCEPT !.delivered = FALSE]]
      /\ UNCHANGED <<disabled, disk, owned, issued, provided>>
  BY DEF Launch
<1>2. Idle \in Task /\ Idle.pc = "idle" /\ Idle.game = None
  BY DEF Idle, Task
<1>3. \A r \in Runs : task'[r] = Idle
  BY <1>1
<1>4. /\ tx' \in [Tx -> Transaction]
      /\ \A id \in Tx : tx'[id].product = tx[id].product /\ tx'[id].state = tx[id].state
  <2>1. \A id \in Tx : tx[id] \in Transaction
    BY DEF IInv, TypeOK
  <2> QED BY <1>1, <2>1 DEF Transaction
<1>5. Threads' /\ Purchases'
  BY <1>1, <1>2, <1>3, <1>4 DEF IInv, Threads, Purchases
<1>6. ButtonComesBack'
  BY <1>1 DEF ButtonComesBack
<1>7. Kept'
  <2>1. \A id \in Tx : \A q \in Signed \cap Paid :
            /\ \A h \in Pack[q] : Done(id, q, h)' => Done(id, q, h)
            /\ Pays(id, q) => Pays(id, q)'
    BY <1>2, <1>3, <1>4 DEF Done, Pays, Runs
  <2> QED BY <1>1, <2>1, KeptKept DEF IInv
<1>8. ListInv'
  <2>1. \A g \in Games : Match(g)' /\ MatchBundle(g)'
    BY <1>1 DEF Match, MatchBundle, Scan, ScanBundle
  <2>2. \A g \in Games : WorkOn(g)' = {}
    BY <1>2, <1>3, NamesAssumption DEF WorkOn
  <2> QED BY <2>1, <2>2 DEF ListInv
<1>9. TypeOK'
  <2>1. listed' \in [Games -> Nat] /\ builtIn' \subseteq BuiltInGames
    BY <1>1 DEF Scan, ScanBundle
  <2>2. task' \in [Runs -> Task]
    BY <1>1, <1>2
  <2>3. waiting' \in 0 .. MaxWaiting /\ (waiting' > 0 => request' # "none")
    BY <1>1, BoundsAssumption
  <2> QED BY <2>1, <2>2, <2>3, <1>1, <1>4 DEF IInv, TypeOK
<1> QED BY <1>5, <1>6, <1>7, <1>8, <1>9 DEF IInv

-----------------------------------------------------------------------------
LEMMA StepIInv == IInv /\ [Next]_vars => IInv'
<1> SUFFICES ASSUME IInv, [Next]_vars PROVE IInv'
  OBVIOUS
<1>1. CASE Request \/ \E p \in Products : BuyUnavailable(p)
  BY <1>1, RequestStep
<1>2. CASE \E p \in Products : BuyPaid(p) \/ Restore(p)
  BY <1>2, IssueStep
<1>3. CASE \E p \in Products : BuyFree(p)
  BY <1>3, BuyFreeStep
<1>4. CASE \E id \in Tx : Decide(id) \/ DeliverFailed(id) \/ Deliver(id)
  BY <1>4, DecideStep, DeliverFailedStep, DeliverStep
<1>5. CASE \E r \in Runs : InstallTask(r)
  BY <1>5, LoadStep, NextGameStep, RemoveFolderStep, CopyStep, CopyFailsStep,
     EndCopyStep, FinishStep, ReleaseStep DEF InstallTask
<1>6. CASE DisabledListArrives
  BY <1>6, DisabledStep
<1>7. CASE Crash
  <2>1. crashes' \in 0 .. MaxCrashes
    BY <1>7, BoundsAssumption DEF Crash, IInv, TypeOK
  <2> QED BY <1>7, <2>1, LaunchStep DEF Crash
<1>8. CASE Relaunch
  BY <1>8, LaunchStep DEF Relaunch, IInv, TypeOK
<1>9. CASE UNCHANGED vars
  <2>1. UNCHANGED <<session, task, files, store, crashes>>
    BY <1>9 DEF vars
  <2>2. TypeOK' /\ ButtonComesBack'
    BY <2>1 DEF IInv, TypeOK, ButtonComesBack, session, files, store
  <2> QED BY <2>1, <2>2, SessionSteps DEF IInv, store
<1> QED BY <1>1, <1>2, <1>3, <1>4, <1>5, <1>6, <1>7, <1>8, <1>9 DEF Next, Purchase

\* Type correctness, with all that the other invariants rest on.
THEOREM Typed == Spec => []TypeOK
<1>1. Spec => []IInv
  BY InitIInv, StepIInv, PTL DEF Spec
<1>2. IInv => TypeOK
  BY DEF IInv
<1> QED BY <1>1, <1>2, PTL

\* A product that was paid for stays complete, or a transaction that is not
\* finished will install it again: for any packs, any number of threads that
\* install the same games at once, and a kill of the application at any step.
THEOREM PurchaseIsKept == Spec => []PurchaseKept
<1>1. Spec => []IInv
  BY InitIInv, StepIInv, PTL DEF Spec
<1>2. IInv => PurchaseKept
  BY DEF IInv, Kept, Purchases, PurchaseKept, Pays
<1> QED BY <1>1, <1>2, PTL

\* While the button of a product is disabled, a payment or a thread will enable
\* it again.
THEOREM ButtonAnswered == Spec => []ButtonComesBack
<1>1. Spec => []IInv
  BY InitIInv, StepIInv, PTL DEF Spec
<1>2. IInv => ButtonComesBack
  BY DEF IInv
<1> QED BY <1>1, <1>2, PTL

\* The list of games agrees with the folders, and with those of the bundle, on every game
\* that no two parties worked on at once, also where the installer leaves the entry of the
\* bundle alone because it cannot uninstall it.
THEOREM ListIsDisk == Spec => []ListMatchesDisk
<1>1. Spec => []IInv
  BY InitIInv, StepIInv, PTL DEF Spec
<1>2. IInv => ListMatchesDisk
  BY DEF IInv, ListInv, ListMatchesDisk, Match, MatchBundle
<1> QED BY <1>1, <1>2, PTL
=============================================================================
