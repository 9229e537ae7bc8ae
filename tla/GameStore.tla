------------------------------ MODULE GameStore ------------------------------
(***************************************************************************)
(* The in-app store and the installation of game packs: MMStoreManager     *)
(* loads the list of products and then observes the payment queue; each    *)
(* purchase is installed by a thread of its own (MMLocalProductInstall-    *)
(* Controller, GameInstaller), which replaces the folders of the pack's    *)
(* games and GamePack's list of games, and finishes the transaction last.  *)
(*                                                                         *)
(* The application may be killed at any step.  Transactions, folders and   *)
(* the ids of disabled games outlive it.  The contents of a folder are     *)
(* reduced to what a restart sees of them: whether gameInfo.plist is there *)
(* and whether the copy was complete.                                      *)
(***************************************************************************)
EXTENDS Naturals

CONSTANTS
    Products, Games,
    Pack,           \* the games of a product's pack
    Bundled,        \* the products whose pack is in the application's bundle
    BuiltInGames,   \* the games that are themselves in the bundle's folder of games
    Signed,         \* those whose pack verifies
    Paid,           \* the products the App Store sells
    Free,           \* those the list marks as free
    Disablable,     \* the games the server may disable
    Tx,             \* transactions
    FreeRuns,       \* installations without a transaction
    None,           \* no product, no game
    MaxWaiting, MaxCrashes, \* bounds
    MaxIssued       \* bound: purchases, of products of any kind, and restorations

ASSUME PackAssumption == Pack \in [Products -> SUBSET Games]
ASSUME PacksDisjoint == \A p, q \in Products : p # q => Pack[p] \cap Pack[q] = {}
ASSUME KindsAssumption ==
    /\ Paid \subseteq Products /\ Free \subseteq Products /\ Paid \cap Free = {}
    /\ Signed \subseteq Products /\ Disablable \subseteq Games
    /\ BuiltInGames \subseteq Games
ASSUME NamesAssumption ==
    None \notin Products \cup Games /\ Tx \cap FreeRuns = {}
ASSUME BoundsAssumption ==
    MaxWaiting \in Nat /\ MaxIssued \in Nat /\ MaxCrashes \in Nat

VARIABLES
    cached,         \* _cachedProducts is set: the store observes the queue
    request,        \* the MMProductsRequest: "none", "list", "store" or "lost"
    waiting,        \* the callbacks that wait for it
    installing,     \* the products shown as being installed
    task,           \* the threads in installTask
    builtIn,        \* gameInfoList: the games of the bundle, which come first in it
    listed,         \* gameInfoList: how many entries a game of GAMES_FOLDER has
    disabled,       \* disabledIds
    asked,          \* the server has been asked for them, once for each launch
    disk,           \* GAMES_FOLDER/gameId
    tx,             \* the payment queue
    owned,          \* what the App Store can restore
    issued, crashes,    \* counted for the bounds
    provided,       \* history: products whose transaction was finished
    raced           \* history: games that two parties worked on at once

session == <<cached, request, waiting, installing>>
store == <<tx, owned, issued, provided>>
files == <<builtIn, listed, disabled, asked, disk, raced>>
vars == <<session, task, files, store, crashes>>

Runs == Tx \cup FreeRuns
Unfinished == {"purchased", "restored"}
NoTx == [state |-> "none", product |-> None, delivered |-> FALSE]
Idle == [pc |-> "idle", product |-> None, game |-> None, todo |-> {}]

\* loadGames: the games of the bundle, and the folders with a gameInfo.plist, but for
\* the disabled games
ScanBundle(ids) == BuiltInGames \ ids

Scan(folders, ids) ==
    [g \in Games |-> IF folders[g] \in {"partial", "whole"} /\ g \notin ids
                     THEN 1 ELSE 0]

Init ==
    /\ cached = FALSE /\ request = "list" /\ waiting = 0
    /\ installing = {}
    /\ task = [r \in Runs |-> Idle]
    /\ disk = [g \in Games |-> "absent"] /\ listed = [g \in Games |-> 0]
    /\ builtIn = ScanBundle({})
    /\ disabled = {} /\ asked = TRUE /\ raced = {}
    /\ tx = [id \in Tx |-> NoTx]
    /\ owned = {} /\ issued = 0 /\ provided = {} /\ crashes = 0

-----------------------------------------------------------------------------
(* The list of products *)

\* getAvailableProducts from the shelf: answered at once when the list is there
GetAvailableProducts ==
    /\ ~cached /\ waiting < MaxWaiting
    /\ waiting' = waiting + 1
    /\ request' = IF request = "none" THEN "list" ELSE request
    /\ UNCHANGED <<cached, installing, task, files, store, crashes>>

ListArrives ==
    /\ request = "list"
    /\ request' = "store"
    /\ UNCHANGED <<cached, waiting, installing, task, files, store, crashes>>

\* All callbacks are told of the failure
ListFails ==
    /\ request = "list"
    /\ request' = "none" /\ waiting' = 0
    /\ UNCHANGED <<cached, installing, task, files, store, crashes>>

\* The App Store's answer: the list is kept and the queue observed from now on
ProductsArrive ==
    /\ request = "store"
    /\ cached' = TRUE
    /\ request' = "none" /\ waiting' = 0
    /\ UNCHANGED <<installing, task, files, store, crashes>>

\* MMProductsRequest has no handler for a failure of the SKProductsRequest:
\* _getProductsLoading stays set
ProductsFail ==
    /\ request = "store"
    /\ request' = "lost"
    /\ UNCHANGED <<cached, waiting, installing, task, files, store, crashes>>

-----------------------------------------------------------------------------
(* Transactions *)

\* provideContentForProductId, and install of the controller it makes
Provide(r, p) ==
    /\ task[r] = Idle
    /\ task' = [task EXCEPT ![r] = [Idle EXCEPT !.pc = "load", !.product = p]]
    /\ installing' = installing \cup {p}

\* A transaction that is not in use; which one makes no difference
Fresh == CHOOSE id \in Tx : tx[id] = NoTx /\ task[id] = Idle

Count == issued < MaxIssued /\ issued' = issued + 1

Issue(id, p, state) ==
    /\ tx[id] = NoTx /\ task[id] = Idle /\ id = Fresh
    /\ tx' = [tx EXCEPT ![id] = [NoTx EXCEPT !.state = state, !.product = p]]
    /\ Count

\* shouldBuyProduct.  A product that is neither sold nor free is marked all the
\* same.
BuyPaid(p) ==
    /\ cached /\ p \in Paid
    /\ \E id \in Tx : Issue(id, p, "purchasing")
    /\ installing' = installing \cup {p}
    /\ UNCHANGED <<cached, request, waiting, task, files, owned, provided, crashes>>

BuyFree(p) ==
    /\ cached /\ p \in Free
    /\ \E r \in FreeRuns : Provide(r, p)
    /\ Count
    /\ UNCHANGED <<cached, request, waiting, files, tx, owned, provided, crashes>>

BuyUnavailable(p) ==
    /\ cached /\ p \in Products \ (Paid \cup Free)
    /\ installing' = installing \cup {p}
    /\ Count
    /\ UNCHANGED <<cached, request, waiting, task, files, tx, owned, provided, crashes>>

\* The App Store decides on a payment
Decide(id) ==
    /\ tx[id].state = "purchasing"
    /\ \/ tx' = [tx EXCEPT ![id] = [@ EXCEPT !.state = "purchased"]]
          /\ owned' = owned \cup {tx[id].product}
       \/ tx' = [tx EXCEPT ![id] = [@ EXCEPT !.state = "failed"]]
          /\ UNCHANGED owned
    /\ UNCHANGED <<session, task, files, issued, provided, crashes>>

\* downloadAllPurchases, for one of the products
Restore(p) ==
    /\ p \in owned
    /\ \E id \in Tx : Issue(id, p, "restored")
    /\ UNCHANGED <<session, task, files, owned, provided, crashes>>

\* Broken variant: the product stays marked
DeliverFailedQuietly(id) ==
    /\ cached /\ tx[id].state = "failed" /\ ~tx[id].delivered
    /\ tx' = [tx EXCEPT ![id] = NoTx]
    /\ UNCHANGED <<session, task, files, owned, issued, provided, crashes>>

\* updatedTransactions, failedTransaction
DeliverFailed(id) ==
    /\ cached /\ tx[id].state = "failed" /\ ~tx[id].delivered
    /\ installing' = installing \ {tx[id].product}
    /\ tx' = [tx EXCEPT ![id] = NoTx]
    /\ UNCHANGED <<cached, request, waiting, task, files, owned, issued, provided,
                   crashes>>

\* updatedTransactions, completeTransaction and restoreTransaction
Deliver(id) ==
    /\ cached /\ tx[id].state \in Unfinished /\ ~tx[id].delivered
    /\ Provide(id, tx[id].product)
    /\ tx' = [tx EXCEPT ![id] = [@ EXCEPT !.delivered = TRUE]]
    /\ UNCHANGED <<cached, request, waiting, files, owned, issued, provided, crashes>>

-----------------------------------------------------------------------------
(* installTask *)

Go(r, pc) == task' = [task EXCEPT ![r] = [@ EXCEPT !.pc = pc]]

\* The threads between their look at the list of games and their entry in it
WorkOn(g) == {r \in Runs : task[r].game = g /\ task[r].pc # "over"}

\* sendRequest, extractDownload, GameZipExtracter: no pack in the bundle is a
\* failure, a pack that does not verify is taken for an empty one
Load(r) ==
    /\ task[r].pc = "load"
    /\ LET p == task[r].product
       IN  IF p \in Bundled
           THEN task' = [task EXCEPT ![r] =
                    [@ EXCEPT !.pc = "next",
                              !.todo = IF p \in Signed THEN Pack[p] ELSE {}]]
           ELSE Go(r, "over")
    /\ UNCHANGED <<session, files, store, crashes>>

\* installPackWithData and findByGameId, which returns the first entry: that of the
\* bundle, if there is one, for which uninstall does nothing, and nobody looks at what it
\* returns
NextGame(r) ==
    /\ task[r].pc = "next"
    /\ \E g \in task[r].todo :
        /\ task' = [task EXCEPT ![r] =
                [@ EXCEPT !.pc = IF listed[g] > 0 /\ g \notin builtIn THEN "remove" ELSE "copy",
                          !.game = g]]
        /\ raced' = IF WorkOn(g) # {} THEN raced \cup {g} ELSE raced
    /\ UNCHANGED <<session, builtIn, listed, disabled, asked, disk, store, crashes>>

\* Broken variant: the folder stays
KeepFolder(r) ==
    /\ task[r].pc = "remove"
    /\ Go(r, "forget")
    /\ UNCHANGED <<session, files, store, crashes>>

\* uninstall: the folder; a copy into it comes to nothing
RemoveFolder(r) ==
    /\ task[r].pc = "remove"
    /\ LET g == task[r].game
       IN  /\ disk' = [disk EXCEPT ![g] = "absent"]
           /\ task' = [u \in Runs |->
                IF u = r THEN [task[u] EXCEPT !.pc = "forget"]
                ELSE IF task[u].pc = "copying" /\ task[u].game = g
                THEN [task[u] EXCEPT !.pc = "over"] ELSE task[u]]
    /\ UNCHANGED <<session, builtIn, listed, disabled, asked, raced, store, crashes>>

\* Broken variant: the entry in the list stays
KeepInfo(r) ==
    /\ task[r].pc = "forget"
    /\ Go(r, "copy")
    /\ UNCHANGED <<session, files, store, crashes>>

\* removeGameInfo: all entries of the game, GameInfo compares ids
RemoveInfo(r) ==
    /\ task[r].pc = "forget"
    /\ listed' = [listed EXCEPT ![task[r].game] = 0]
    /\ builtIn' = builtIn \ {task[r].game}
    /\ Go(r, "copy")
    /\ UNCHANGED <<session, disabled, asked, disk, raced, store, crashes>>

\* copyItemAtPath: not over a folder that is there, listed or not
BeginCopy(r) ==
    /\ task[r].pc = "copy" /\ disk[task[r].game] = "absent"
    /\ \E d \in {"bare", "partial"} : disk' = [disk EXCEPT ![task[r].game] = d]
    /\ Go(r, "copying")
    /\ UNCHANGED <<session, builtIn, listed, disabled, asked, raced, store, crashes>>

RefuseCopy(r) ==
    /\ task[r].pc = "copy" /\ disk[task[r].game] # "absent"
    /\ Go(r, "over")
    /\ UNCHANGED <<session, files, store, crashes>>

\* Broken variant: the thread goes on with the next game
CopyFailsQuietly(r) ==
    /\ task[r].pc = "copying"
    /\ disk' \in {disk, [disk EXCEPT ![task[r].game] = "absent"]}
    /\ Go(r, "add")
    /\ UNCHANGED <<session, builtIn, listed, disabled, asked, raced, store, crashes>>

\* The disk is full: what was copied may be left behind
CopyFails(r) ==
    /\ task[r].pc = "copying"
    /\ disk' \in {disk, [disk EXCEPT ![task[r].game] = "absent"]}
    /\ Go(r, "over")
    /\ UNCHANGED <<session, builtIn, listed, disabled, asked, raced, store, crashes>>

EndCopy(r) ==
    /\ task[r].pc = "copying"
    /\ disk' = [disk EXCEPT ![task[r].game] = "whole"]
    /\ Go(r, "add")
    /\ UNCHANGED <<session, builtIn, listed, disabled, asked, raced, store, crashes>>

\* addGameInfo
AddInfo(r) ==
    /\ task[r].pc = "add"
    /\ listed' = [listed EXCEPT ![task[r].game] = @ + 1]
    /\ task' = [task EXCEPT ![r] =
            [@ EXCEPT !.pc = "next", !.game = None,
                      !.todo = task[r].todo \ {task[r].game}]]
    /\ UNCHANGED <<session, builtIn, disabled, asked, disk, raced, store, crashes>>

\* "Remove the transaction from the payment queue."
Finish(r) ==
    /\ task[r].pc = "next" /\ task[r].todo = {}
    /\ IF r \in Tx
       THEN /\ tx' = [tx EXCEPT ![r] = NoTx]
            /\ provided' = provided \cup {task[r].product}
       ELSE UNCHANGED <<tx, provided>>
    /\ Go(r, "over")
    /\ UNCHANGED <<session, files, owned, issued, crashes>>

\* dealloc of the controller
Release(r) ==
    /\ task[r].pc = "over"
    /\ installing' = installing \ {task[r].product}
    /\ task' = [task EXCEPT ![r] = Idle]
    /\ UNCHANGED <<cached, request, waiting, files, store, crashes>>

-----------------------------------------------------------------------------
\* The block of GamePack's init: the list is built again
DisabledListArrives ==
    /\ asked /\ asked' = FALSE
    /\ \E ids \in SUBSET Disablable \ {disabled} :
        disabled' = ids /\ listed' = Scan(disk, ids) /\ builtIn' = ScanBundle(ids)
    /\ raced' = raced \cup {g \in Games : WorkOn(g) # {}}
    /\ UNCHANGED <<session, disk, task, store, crashes>>

\* A new process: what was in memory is gone
Launch ==
    /\ cached' = FALSE /\ request' = "list" /\ waiting' = 0
    /\ installing' = {} /\ asked' = TRUE
    /\ task' = [r \in Runs |-> Idle]
    /\ listed' = Scan(disk, disabled) /\ builtIn' = ScanBundle(disabled) /\ raced' = {}
    /\ tx' = [id \in Tx |-> [tx[id] EXCEPT !.delivered = FALSE]]
    /\ UNCHANGED <<disabled, disk, owned, issued, provided>>

\* Killed at any time, or left while nothing is installed
Crash == crashes < MaxCrashes /\ crashes' = crashes + 1 /\ Launch
Relaunch == task = [r \in Runs |-> Idle] /\ Launch /\ UNCHANGED crashes

Request ==
    GetAvailableProducts \/ ListArrives \/ ListFails \/ ProductsArrive \/ ProductsFail

Purchase ==
    \/ \E p \in Products : BuyPaid(p) \/ BuyFree(p) \/ BuyUnavailable(p) \/ Restore(p)
    \/ \E id \in Tx : Decide(id) \/ DeliverFailed(id) \/ Deliver(id)

InstallTask(r) ==
    \/ Load(r) \/ NextGame(r) \/ RemoveFolder(r) \/ RemoveInfo(r)
    \/ BeginCopy(r) \/ RefuseCopy(r) \/ CopyFails(r) \/ EndCopy(r) \/ AddInfo(r)
    \/ Finish(r) \/ Release(r)

Next ==
    \/ Request \/ Purchase \/ (\E r \in Runs : InstallTask(r))
    \/ DisabledListArrives \/ Crash \/ Relaunch

Spec == Init /\ [][Next]_vars

\* Threads run; the application is opened again and again, and now and then
\* the network answers
FairSpec ==
    /\ Spec
    /\ SF_vars(Relaunch) /\ SF_vars(ListArrives) /\ SF_vars(ProductsArrive)
    /\ \A r \in Runs : WF_vars(InstallTask(r))
    /\ \A id \in Tx : SF_vars(Deliver(id))

-----------------------------------------------------------------------------
Task == [pc : {"idle", "load", "next", "remove", "forget", "copy", "copying", "add",
               "over"},
         product : Products \cup {None}, game : Games \cup {None}, todo : SUBSET Games]

Transaction == [state : {"none", "purchasing", "purchased", "failed", "restored"},
                product : Products \cup {None}, delivered : BOOLEAN]

TypeOK ==
    /\ cached \in BOOLEAN /\ request \in {"none", "list", "store", "lost"}
    /\ waiting \in 0..MaxWaiting /\ (waiting > 0 => request # "none")
    /\ installing \subseteq Products
    /\ task \in [Runs -> Task]
    /\ disk \in [Games -> {"absent", "bare", "partial", "whole"}]
    /\ builtIn \subseteq BuiltInGames /\ listed \in [Games -> Nat]
    /\ disabled \subseteq Disablable /\ asked \in BOOLEAN /\ raced \subseteq Games
    /\ tx \in [Tx -> Transaction]
    /\ owned \subseteq Products /\ provided \subseteq Products
    /\ issued \in 0..MaxIssued /\ crashes \in 0..MaxCrashes

\* What was paid for is never lost: once the transaction of a product has been
\* finished, each of its games is complete, or a transaction that will install
\* it again is still in the queue, whatever installations overlap and wherever
\* the application is killed.
PurchaseKept ==
    \A p \in provided \cap Signed : \A g \in Pack[p] :
        \/ disk[g] = "whole"
        \/ \E id \in Tx : tx[id].product = p /\ tx[id].state \in Unfinished

\* The button of a product comes back without a restart: while it is disabled a
\* payment is still to be reported or a thread is installing the product.
ButtonComesBack ==
    \A p \in installing \cap (Paid \cup Free) :
        \/ \E id \in Tx : tx[id].product = p /\ ~tx[id].delivered
        \/ \E r \in Runs : task[r].product = p

\* The list of games is that of the folders: no folder is listed twice or without its
\* gameInfo.plist, none that is complete is missing, and the games of the bundle are there
\* unless they are disabled; but for those that are being installed, or on which two
\* parties worked at once.  (A game of the bundle that is also in a pack is offered twice
\* all the same, once for each folder, because the installer cannot uninstall it.)
ListMatchesDisk ==
    \A g \in Games \ raced : WorkOn(g) = {} =>
        /\ listed[g] > 0 => listed[g] = 1 /\ disk[g] \in {"partial", "whole"}
        /\ disk[g] = "whole" /\ g \notin disabled => listed[g] = 1
        /\ g \in builtIn <=> g \in BuiltInGames \ disabled

Pending(id) == tx[id].state \in Unfinished /\ tx[id].product \in Bundled

\* A folder that the installer does not find in the list, or not first, and so never
\* removes
Stranded(g) ==
    \/ disk[g] = "bare"
    \/ disk[g] # "absent" /\ g \in disabled \cup builtIn

\* Once the list of disabled games no longer changes and no copy fails any more, a pending
\* download is completed in the end, unless a game of its pack has a stranded folder: a
\* failed copy may have left one, and a game that is also in the bundle has one as soon as
\* it is installed.
Delivered ==
    <>[][disabled' = disabled /\ ~\E r \in Runs : CopyFails(r)]_vars =>
        \A id \in Tx :
            \/ []<>~Pending(id)
            \/ <>[](Pending(id) /\ \E g \in Pack[tx[id].product] : Stranded(g))
=============================================================================
