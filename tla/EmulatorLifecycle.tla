------------------------- MODULE EmulatorLifecycle -------------------------
(***************************************************************************)
(* Starting, pausing, resuming, saving and loading the emulation.          *)
(*                                                                         *)
(* The emulation thread runs runEmulator, Frodo::ReadyToRun, C64::Run and  *)
(* C64::thread_func; the UI thread runs the handlers of                    *)
(* EmulationViewController, the application delegate and the settings and  *)
(* game lists.  They share the plain fields of C64 and emulatorState.  Two *)
(* UI handlers wait by running the run loop, so that other handlers run    *)
(* inside them: the UI thread is a stack of unfinished handlers.           *)
(*                                                                         *)
(* quit_thyself is left out: only stopEmulator sets it and nothing calls   *)
(* stopEmulator, so the main loop never ends.                              *)
(***************************************************************************)
EXTENDS Naturals, Sequences

CONSTANTS
    Handlers,       \* the UI handlers that may be called besides viewDidAppear
    MaxNesting,     \* bound: unfinished handlers on the UI thread's stack
    RomsLoad        \* whether load_rom_files may find the ROM images or not

ASSUME HandlersAssumption ==
    /\ Handlers \subseteq {"disappear", "resign", "activate", "alert", "prefs"}
    /\ MaxNesting \in Nat
    /\ RomsLoad \subseteq BOOLEAN

VARIABLES
    emulatorState,      \* EmulationViewController.emulatorState
    theC64,             \* Frodo::TheC64: "null", "live" or "freed"
    thread_running, have_a_break, in_pause_loop,    \* fields of C64
    emu,                \* where the emulation thread is
    ui,                 \* the UI handlers that have not finished, newest last
    visible             \* the emulation view is the selected tab

c64Vars == <<thread_running, have_a_break, in_pause_loop>>
lifecycleVars == <<emulatorState, theC64, c64Vars, emu, ui, visible>>

LifecycleInit ==
    /\ emulatorState = "NotStarted"
    /\ theC64 = "null"
    /\ thread_running = FALSE /\ have_a_break = FALSE /\ in_pause_loop = FALSE
    /\ emu = "none"
    /\ ui = << >>
    /\ visible = FALSE

-----------------------------------------------------------------------------
(* Emulation thread *)

\* runEmulator: the state is set first, then ReadyToRun makes the C64
RunEmulator ==
    /\ emu = "start"
    /\ emulatorState' = "Running"
    /\ emu' = "construct"
    /\ UNCHANGED <<theC64, c64Vars, ui, visible>>

\* ReadyToRun: TheC64 = new C64, then the ROMs are loaded; without them the
\* C64 is deleted again and TheC64 is left pointing at it
NewC64 ==
    /\ emu = "construct"
    /\ theC64' = "live"
    /\ emu' = "roms"
    /\ UNCHANGED <<emulatorState, c64Vars, ui, visible>>

LoadRoms ==
    /\ emu = "roms"
    /\ \/ TRUE \in RomsLoad /\ emu' = "run" /\ UNCHANGED theC64
       \/ FALSE \in RomsLoad /\ emu' = "dead" /\ theC64' = "freed"
    /\ UNCHANGED <<emulatorState, c64Vars, ui, visible>>

\* C64::Run: thread_running is set ...
RunSetRunning ==
    /\ emu = "run"
    /\ thread_running' = TRUE
    /\ emu' = "clear"
    /\ UNCHANGED <<emulatorState, theC64, have_a_break, in_pause_loop, ui,
                   visible>>

\* ... before have_a_break is cleared
RunClearBreak ==
    /\ emu = "clear"
    /\ have_a_break' = FALSE
    /\ emu' = "frame"
    /\ UNCHANGED <<emulatorState, theC64, thread_running, in_pause_loop, ui,
                   visible>>

\* thread_func: the lines of a frame are emulated, up to the vertical blank
EmulateFrame ==
    /\ emu = "frame"
    /\ emu' = "vblank"
    /\ UNCHANGED <<emulatorState, theC64, c64Vars, ui, visible>>

\* Broken variant: the pause request is not looked at
VBlankNoPause ==
    /\ emu = "vblank"
    /\ emu' = "frame"
    /\ UNCHANGED <<emulatorState, theC64, c64Vars, ui, visible>>

\* VBlank: if (have_a_break) ...
VBlank ==
    /\ emu = "vblank"
    /\ emu' = IF have_a_break THEN "enter" ELSE "frame"
    /\ UNCHANGED <<emulatorState, theC64, c64Vars, ui, visible>>

\* ... in_pause_loop = true ...
EnterPauseLoop ==
    /\ emu = "enter"
    /\ in_pause_loop' = TRUE
    /\ emu' = "paused"
    /\ UNCHANGED <<emulatorState, theC64, thread_running, have_a_break, ui,
                   visible>>

\* Broken variant: the loop is left after one turn (if instead of while)
LeavePauseLoopEarly ==
    /\ emu = "paused"
    /\ emu' = "leave"
    /\ UNCHANGED <<emulatorState, theC64, c64Vars, ui, visible>>

\* Broken variant: the loop looks at the flag it has set itself
LeavePauseLoopNever ==
    /\ emu = "paused" /\ ~in_pause_loop
    /\ emu' = "leave"
    /\ UNCHANGED <<emulatorState, theC64, c64Vars, ui, visible>>

\* ... while (have_a_break) usleep(200) ...
LeavePauseLoop ==
    /\ emu = "paused" /\ ~have_a_break
    /\ emu' = "leave"
    /\ UNCHANGED <<emulatorState, theC64, c64Vars, ui, visible>>

\* ... in_pause_loop = false
ClearPauseLoop ==
    /\ emu = "leave"
    /\ in_pause_loop' = FALSE
    /\ emu' = "frame"
    /\ UNCHANGED <<emulatorState, theC64, thread_running, have_a_break, ui,
                   visible>>

Emulation ==
    RunEmulator \/ NewC64 \/ LoadRoms \/ RunSetRunning \/ RunClearBreak
    \/ EmulateFrame \/ VBlank \/ EnterPauseLoop \/ LeavePauseLoop \/ ClearPauseLoop

-----------------------------------------------------------------------------
(* UI thread: pausing and resuming, the parts of several handlers *)

\* Broken variant: pauseEmulator does not record the state
PauseUnrecorded ==
    /\ theC64 # "null"
    /\ have_a_break' = TRUE
    /\ UNCHANGED emulatorState

\* pauseEmulator: C64::Pause and the record that the emulator is paused.
\* Without a C64 it is PauseThroughNull, below.
Pause ==
    /\ theC64 # "null"
    /\ have_a_break' = TRUE
    /\ emulatorState' = "Paused"

\* resumeEmulator: nothing unless the emulator is marked paused
Resume ==
    IF emulatorState = "Paused"
    THEN emulatorState' = "Running" /\ have_a_break' = FALSE
    ELSE UNCHANGED <<emulatorState, have_a_break>>

Top == IF ui = << >> THEN "none" ELSE ui[Len(ui)]
Below == SubSeq(ui, 1, Len(ui) - 1)

\* A handler may be called when none is running or the newest one waits in the
\* run loop
RunLoopRuns ==
    /\ Top \in {"none", "starting", "waiting"}
    /\ Len(ui) < MaxNesting

Call(handler) == ui' = Append(ui, handler)
Return == ui' = Below
Goto(handler) == ui' = Append(Below, handler)

\* loadGameStateWithName: pauseEmulator, then wait for the pause loop
BeginLoad(stack) == Pause /\ ui' = Append(stack, "waiting")

-----------------------------------------------------------------------------
(* UI thread: the handlers *)

\* promptForLoadGame, at the end of viewDidAppear: some games are launched from
\* a saved state
PromptForLoadGame(stack) ==
    \/ ui' = stack /\ UNCHANGED <<have_a_break, emulatorState>>
    \/ BeginLoad(stack)

\* viewDidAppear, emulator not started: startEmulator starts the thread and
\* waits in the run loop
ViewDidAppearFirst ==
    /\ RunLoopRuns /\ ~visible
    /\ visible' = TRUE
    /\ emulatorState = "NotStarted" /\ emu = "none"
    /\ emu' = "start"
    /\ Call("starting")
    /\ UNCHANGED <<emulatorState, theC64, c64Vars>>

\* ... until IsEmulatorRunning; reading a freed C64 may give anything
EmulatorStarted ==
    /\ Top = "starting"
    /\ \/ theC64 = "live" /\ thread_running
       \/ theC64 = "freed"
    /\ PromptForLoadGame(Below)
    /\ UNCHANGED <<theC64, thread_running, in_pause_loop, emu, visible>>

\* viewDidAppear, emulator started: startEmulator resumes a paused one
ViewDidAppearAgain ==
    /\ RunLoopRuns /\ ~visible
    /\ visible' = TRUE
    /\ emulatorState # "NotStarted"
    /\ Resume
    /\ Call("appeared")
    /\ UNCHANGED <<theC64, thread_running, in_pause_loop, emu>>

Appeared ==
    /\ Top = "appeared"
    /\ PromptForLoadGame(Below)
    /\ UNCHANGED <<theC64, thread_running, in_pause_loop, emu, visible>>

\* The alert "Resume previous game?" was answered with Yes
AlertYes ==
    /\ "alert" \in Handlers
    /\ RunLoopRuns /\ visible
    /\ BeginLoad(ui)
    /\ UNCHANGED <<theC64, thread_running, in_pause_loop, emu, visible>>

\* Broken variant: the wait loop is not left after the load
InPauseLoopAgain ==
    /\ Top = "waiting"
    /\ in_pause_loop
    /\ Call("loading")
    /\ UNCHANGED <<emulatorState, theC64, c64Vars, emu, visible>>

\* loadGameStateWithName: while (!InPauseLoop()) run the run loop; then
\* LoadSnapshot ...
InPauseLoop ==
    /\ Top = "waiting"
    /\ in_pause_loop
    /\ Goto("loading")
    /\ UNCHANGED <<emulatorState, theC64, c64Vars, emu, visible>>

\* ... and resumeEmulator
Loaded ==
    /\ Top = "loading"
    /\ Resume
    /\ Return
    /\ UNCHANGED <<theC64, thread_running, in_pause_loop, emu, visible>>

\* viewWillDisappear: pauseEmulator, then at once saveGameState, which saves
\* only some games
ViewWillDisappear ==
    /\ "disappear" \in Handlers
    /\ RunLoopRuns /\ visible
    /\ visible' = FALSE
    /\ Pause
    /\ UNCHANGED ui \/ Call("saving")
    /\ UNCHANGED <<theC64, thread_running, in_pause_loop, emu>>

\* SaveSnapshot returns
Saved ==
    /\ Top = "saving"
    /\ Return
    /\ UNCHANGED <<emulatorState, theC64, c64Vars, emu, visible>>

\* applicationWillResignActive, dashboardWillAppear
WillResignActive ==
    /\ "resign" \in Handlers
    /\ RunLoopRuns /\ visible
    /\ Pause
    /\ UNCHANGED <<theC64, thread_running, in_pause_loop, emu, ui, visible>>

\* Any of the pausing handlers, called from the run loop in startEmulator before
\* the thread has made the C64: pauseEmulator calls through NULL and the program
\* ends
PauseThroughNull ==
    /\ Handlers \cap {"disappear", "resign", "alert"} # {}
    /\ RunLoopRuns /\ visible
    /\ theC64 = "null"
    /\ emu' = "crashed" /\ ui' = <<"crashed">>
    /\ UNCHANGED <<emulatorState, theC64, c64Vars, visible>>

\* applicationDidBecomeActive, dashboardDidDisappear
DidBecomeActive ==
    /\ "activate" \in Handlers
    /\ RunLoopRuns /\ visible
    /\ Resume
    /\ UNCHANGED <<theC64, thread_running, in_pause_loop, emu, ui, visible>>

\* launchGame and the settings, in another tab: NewPrefs and perhaps a reset,
\* if there is a C64
ChangePrefs ==
    /\ "prefs" \in Handlers
    /\ RunLoopRuns /\ ~visible
    /\ theC64 # "null"
    /\ Call("prefs")
    /\ UNCHANGED <<emulatorState, theC64, c64Vars, emu, visible>>

PrefsChanged ==
    /\ Top = "prefs"
    /\ Return
    /\ UNCHANGED <<emulatorState, theC64, c64Vars, emu, visible>>

\* What the UI thread does by itself, once a handler was called
Continue ==
    EmulatorStarted \/ Appeared \/ InPauseLoop \/ Loaded \/ Saved \/ PrefsChanged

Events ==
    \/ ViewDidAppearFirst \/ ViewDidAppearAgain \/ AlertYes \/ ViewWillDisappear
    \/ WillResignActive \/ PauseThroughNull \/ DidBecomeActive \/ ChangePrefs

LifecycleNext == Emulation \/ Continue \/ Events

LifecycleSpec == LifecycleInit /\ [][LifecycleNext]_lifecycleVars

\* Both threads are scheduled; no user or system event is ever certain
LifecycleFairSpec ==
    LifecycleSpec /\ WF_lifecycleVars(Emulation) /\ WF_lifecycleVars(Continue)

-----------------------------------------------------------------------------
LifecycleTypeOK ==
    /\ emulatorState \in {"NotStarted", "Running", "Paused"}
    /\ theC64 \in {"null", "live", "freed"}
    /\ thread_running \in BOOLEAN /\ have_a_break \in BOOLEAN
    /\ in_pause_loop \in BOOLEAN
    /\ emu \in {"none", "start", "construct", "roms", "run", "clear", "frame",
                "vblank", "enter", "paused", "leave", "dead", "crashed"}
    /\ ui \in Seq({"starting", "waiting", "loading", "saving", "prefs", "appeared",
                  "crashed"})
    /\ Len(ui) <= MaxNesting
    /\ visible \in BOOLEAN

\* A request to pause never outlives the record that there is one: resumeEmulator
\* returns early unless emulatorState is Paused, so a request standing beside
\* another state could never be withdrawn and the machine would hang for good.
\* emulatorState is written by both threads.
NoOrphanedPause == have_a_break => emulatorState = "Paused"

\* When nothing asks for a pause any more, the frames go on for ever.
ResumedRuns ==
    <>[](thread_running /\ ~have_a_break) => []<>(emu = "vblank")

\* loadGameStateWithName gets to its load: the wait for the pause loop that
\* pauseEmulator asked for ends.
LoadCompletes == Top = "waiting" ~> Top = "loading"

\* The wait for the pause loop can go on for ever only if the request that was
\* made for it is no longer there.
WaitEndsWhileAsked ==
    <>[](Top = "waiting" /\ theC64 = "live") => []<>~have_a_break

\* The two threads together keep the promises of PauseProtocol: the machine is
\* held from the moment VBlank sees the request until the loop sees it gone.
Protocol == INSTANCE PauseProtocol WITH
    asked   <- have_a_break,
    machine <- CASE emu \in {"enter", "paused"} -> "held"
                 [] emu \in {"frame", "vblank", "leave"} -> "running"
                 [] OTHER -> "off"

KeepsProtocol == Protocol!Spec
=============================================================================
