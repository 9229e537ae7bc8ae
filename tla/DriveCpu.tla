------------------------------ MODULE DriveCpu ------------------------------
(***************************************************************************)
(* The emulated 1541: its processor as far as it sleeps, is woken, reset   *)
(* and interrupted, the job timer of VIA 2, and the lines of the serial    *)
(* bus, with the disk under its head (GcrHead).  Within a raster line the  *)
(* drive and the C64 take turns, an instruction each; a drive that sleeps  *)
(* in the idle loop of its DOS is left out of the line.                    *)
(*                                                                         *)
(* The program in the drive may be any program.  Of the C64's program only *)
(* ATN matters here.  Left out are the flag registers of the VIAs and the  *)
(* timers that only set those: the emulation itself never looks at them.   *)
(***************************************************************************)
EXTENDS GcrHead

CONSTANTS
    MaxTimer,       \* 0xffff
    FloppyCycles,   \* ThePrefs.FloppyCycles: the drive's cycles per line
    Latches,        \* what the program writes to the timer's latch
    PortValues,     \* what it writes to the bits of port B that pull lines
    Ids,            \* IDs to format with
    Saved,          \* what snapshots hold
    MaxJobs         \* bound: accesses to registers and the disk, preferences and
                    \* snapshots

ASSUME DriveAssumption ==
    /\ MaxTimer \in Nat /\ FloppyCycles \in 1 .. MaxTimer /\ Latches \subseteq 0 .. MaxTimer
    /\ PortValues \subseteq SUBSET {"data", "clk", "atna"}
    /\ Ids \subseteq Byte \X Byte
    /\ MaxJobs \in Nat

\* Snapshots are written by this program, and so they hold what its state can be
ASSUME SavedAssumption ==
    \A s \in Saved :
        /\ s.Idle \in BOOLEAN /\ s.i_flag \in BOOLEAN /\ s.work \in BOOLEAN
        /\ s.VIA2IRQ \in BOOLEAN /\ s.RESET \in BOOLEAN
        /\ s.freerun \in BOOLEAN /\ s.ier \in BOOLEAN
        /\ s.t1c \in 0 .. MaxTimer /\ s.t1l \in 0 .. MaxTimer
        /\ s.ddrb \in BOOLEAN /\ s.ATN \in BOOLEAN
        /\ s.prb \subseteq {"data", "clk", "atna"}
        /\ s.VIA2IRQ => s.i_flag
        /\ s.Idle => ~s.work
        /\ s.current_halftrack \in 2 .. 2 * Len(num_sectors)
        /\ s.gcr_ptr \in 0 .. SectorSize * num_sectors[TrackAt(s.current_halftrack)] - 1

VARIABLES
    Idle,
    i_flag,
    VIA2IRQ, RESET,         \* interrupt.intr: the two that are ever set
    work,                   \* RAM: $26c or $7c, an error to be shown or ATN seen
    t1c, t1l,               \* VIA 2, timer 1: counter and latch,
    freerun, ier,           \* bit 6 of ACR and of IER
    prb, ddrb,              \* VIA 1: the lines that port B pulls; if it is an output
    IECLines,               \* the lines that are not pulled: 0x80 DATA, 0x40 CLK
    ATN,                    \* ATN of the C64's IECLines: it is not pulled
    settled,                \* history: IECLines was computed since a reset or load
    line,                   \* whose turn it is in the raster line
    jobs

port  == <<prb, ddrb, IECLines, settled>>
cpu   == <<Idle, i_flag, VIA2IRQ, RESET>>
timer == <<t1c, t1l, freerun, ier>>
disks == <<jobs, jobVars>>
vars  == <<cpu, work, timer, port, ATN, line, disks>>

\* The constructors, and Reset in C64::Run
Init ==
    /\ JobInit
    /\ Idle = FALSE /\ i_flag = TRUE /\ VIA2IRQ = FALSE /\ RESET = FALSE
    /\ work = FALSE
    /\ t1c = 0 /\ t1l = 0 /\ freerun = FALSE /\ ier = FALSE
    /\ prb = {} /\ ddrb = FALSE /\ IECLines = {"data", "clk"} /\ settled = FALSE
    /\ ATN = TRUE
    /\ line = "start" /\ jobs = 0

-----------------------------------------------------------------------------
(* Resets and interrupts *)

\* Reset: the lines are released without a look at ATN; the I flag, the RAM, the
\* timer's counter and its latch are left as they are
Reset ==
    /\ prb' = {} /\ ddrb' = FALSE /\ IECLines' = {"data", "clk"} /\ settled' = FALSE
    /\ freerun' = FALSE /\ ier' = FALSE
    /\ VIA2IRQ' = FALSE /\ RESET' = FALSE
    /\ Idle' = FALSE

\* handle_int, reached with these values of i_flag, VIA2IRQ and Idle: an interrupt
\* that is let in goes before a reset, which waits for the next time
HandleInt(i, irq, idle) ==
    IF RESET /\ ~(irq /\ ~i)
    THEN i_flag' = i /\ Reset
    ELSE /\ i_flag' = (i \/ irq) /\ VIA2IRQ' = irq /\ Idle' = idle
         /\ UNCHANGED <<RESET, freerun, ier, port>>

-----------------------------------------------------------------------------
(* A line begins *)

Underflow == t1c < FloppyCycles

\* CountVIATimers: timer 1 of VIA 2
CountTimer ==
    t1c' = CASE ~Underflow -> t1c - FloppyCycles
             [] Underflow /\ freerun -> t1l
             [] OTHER -> t1c + MaxTimer + 1 - FloppyCycles

\* Broken variant: the job interrupt does not wake the drive
TriggersAsleep == Underflow /\ ier /\ ~Idle

\* TriggerJobIRQ is called, and wakes the drive
Triggers == Underflow /\ ier

\* The drive is switched off or goes on sleeping: the line is the C64's
LineOfC64 ==
    /\ line = "start" /\ line' = "rest"
    /\ IF Emul1541Proc
       THEN Idle /\ ~Triggers /\ CountTimer
       ELSE UNCHANGED t1c
    /\ UNCHANGED <<cpu, work, t1l, freerun, ier, port, ATN, disks>>

\* EmulateLine of the drive is entered
LineOfBoth ==
    /\ line = "start" /\ line' = "drive"
    /\ Emul1541Proc /\ (Triggers \/ ~Idle)
    /\ CountTimer
    /\ HandleInt(i_flag, VIA2IRQ \/ Triggers, FALSE)
    /\ UNCHANGED <<work, t1l, ATN, disks>>

-----------------------------------------------------------------------------
(* The drive's instructions *)

\* SEI, and PLP or RTI that sets the flag
SetI == i_flag' = TRUE /\ UNCHANGED <<Idle, VIA2IRQ, RESET, work, timer, port, ATN, disks>>

\* CLI, and PLP or RTI that clears the flag, goto handle_int
ClearI ==
    /\ HandleInt(FALSE, VIA2IRQ, Idle)
    /\ UNCHANGED <<work, t1c, t1l, ATN, disks>>

\* Broken variant: asleep, whatever there is to do
SleepDeaf ==
    /\ Idle' = TRUE
    /\ UNCHANGED <<i_flag, VIA2IRQ, RESET, work, timer, port, ATN, disks>>

\* Opcode $f2 00, at the end of the idle loop: asleep, unless there is something to do
Sleep ==
    /\ Idle' = ~work
    /\ UNCHANGED <<i_flag, VIA2IRQ, RESET, work, timer, port, ATN, disks>>

\* The DOS serves ATN, and has errors or has them read; not in its idle loop, which
\* the drive goes round until the line ends when it has fallen asleep
WriteRam ==
    /\ ~Idle /\ work' = ~work
    /\ UNCHANGED <<cpu, timer, port, ATN, disks>>

\* 0x1c04 is read: the only way to take the interrupt back
ReadT1 ==
    /\ VIA2IRQ' = FALSE
    /\ UNCHANGED <<Idle, i_flag, RESET, work, timer, port, ATN, disks>>

\* 0x1c04 to 0x1c07: the latch, and with its high byte at 0x1c05 the counter
WriteT1(value, start) ==
    /\ t1l' = value
    /\ t1c' = IF start THEN value ELSE t1c
    /\ UNCHANGED <<cpu, work, freerun, ier, port, ATN, jobVars>>

\* 0x1c0b and 0x1c0e; VIA2IRQ stays as it is
WriteControl ==
    /\ \/ freerun' = ~freerun /\ UNCHANGED ier
       \/ ier' = ~ier /\ UNCHANGED freerun
    /\ UNCHANGED <<cpu, work, t1c, t1l, port, ATN, jobVars>>

\* What the drive leaves alone on the bus, from port B and ATN
Lines(pulled, output, atn) ==
    LET data == output /\ "data" \notin pulled
        clk  == output /\ "clk" \notin pulled
        atna == output /\ "atna" \notin pulled
    IN  (IF data /\ (~atna # atn) THEN {"data"} ELSE {})
        \cup (IF clk THEN {"clk"} ELSE {})

\* 0x1800 and 0x1802
WritePort(pulled, output) ==
    /\ prb' = pulled /\ ddrb' = output
    /\ IECLines' = Lines(pulled, output, ATN) /\ settled' = TRUE
    /\ UNCHANGED <<cpu, work, timer, ATN, jobVars>>

\* illegal_op and illegal_jump
Illegal == Reset /\ UNCHANGED <<i_flag, work, t1c, t1l, ATN, disks>>

\* The ROM and other programs work with the disk while interrupts are disabled
UseDisk ==
    /\ i_flag /\ jobs < MaxJobs /\ jobs' = jobs + 1
    /\ \/ \E place \in Places, block \in Blocks : WriteSector(place, block)
       \/ \E track \in Tracks, ids \in Ids : FormatTrack(track, ids)
       \/ \E halftrack \in 2 .. 2 * Len(num_sectors) : MoveHead(halftrack)
       \/ ReadGCRByte \/ WaitForSync
    /\ UNCHANGED <<cpu, work, timer, port, ATN>>

\* The registers, which the budget counts
WriteRegister ==
    /\ jobs < MaxJobs /\ jobs' = jobs + 1
    /\ \/ WriteControl
       \/ \E value \in Latches, start \in BOOLEAN : WriteT1(value, start)
       \/ WritePort(prb, ~ddrb)
       \/ \E pulled \in PortValues : WritePort(pulled, ddrb)

Execute ==
    \/ SetI \/ ClearI \/ Sleep \/ WriteRam \/ ReadT1 \/ Illegal
    \/ WriteRegister \/ UseDisk

DriveStep ==
    /\ line = "drive" /\ line' = "c64"
    /\ Execute

-----------------------------------------------------------------------------
(* The C64's turn, and the user's *)

\* Broken variant: the drive does not hear that ATN changed
WriteCia2Unheard ==
    /\ ATN' = ~ATN
    /\ IF ATN THEN work' = TRUE /\ Idle' = FALSE ELSE UNCHANGED <<work, Idle>>
    /\ UNCHANGED <<prb, ddrb, IECLines, settled>>

\* Port A of CIA 2 with another ATN: NewATNState, and IECInterrupt when ATN is pulled
WriteCia2 ==
    /\ ATN' = ~ATN
    /\ IECLines' = Lines(prb, ddrb, ATN') /\ settled' = TRUE
    /\ IF ATN THEN work' = TRUE /\ Idle' = FALSE ELSE UNCHANGED <<work, Idle>>
    /\ UNCHANGED <<prb, ddrb>>

\* An instruction of the C64, or the rest of its line
C64Step ==
    /\ \/ line = "c64" /\ line' \in {"drive", "rest"}
       \/ line = "rest" /\ line' = "start"
    /\ WriteCia2 \/ UNCHANGED <<ATN, work, Idle, port>>
    /\ UNCHANGED <<i_flag, VIA2IRQ, RESET, timer, disks>>

\* C64::Reset, on the UI thread while the line goes on: AsyncReset, and CIA 2 releases
\* its lines behind the drive's back
AsyncReset ==
    /\ RESET' = TRUE /\ Idle' = FALSE
    /\ ATN' = TRUE /\ settled' = (settled /\ ATN)
    /\ UNCHANGED <<i_flag, VIA2IRQ, work, timer, prb, ddrb, IECLines, line, disks>>

\* C64::NewPrefs, between two lines
NewPrefs(emul, path) ==
    /\ line = "start" /\ jobs < MaxJobs /\ jobs' = jobs + 1
    /\ JobNewPrefs(emul, path)
    /\ IF emul /\ ~Emul1541Proc THEN RESET' = TRUE /\ Idle' = FALSE ELSE UNCHANGED <<RESET, Idle>>
    /\ UNCHANGED <<i_flag, VIA2IRQ, work, timer, port, ATN, line>>

\* LoadSnapshot, between two lines.  The new preferences are the old ones, so that
\* NewPrefs finds nothing to open or to reset; IECLines is not in the snapshot.
LoadSnapshot(s) ==
    /\ line = "start" /\ jobs < MaxJobs /\ jobs' = jobs + 1
    /\ Emul1541Proc' = TRUE /\ DrivePath' = NoDisk
    /\ Idle' = s.Idle /\ i_flag' = s.i_flag /\ VIA2IRQ' = s.VIA2IRQ /\ RESET' = s.RESET
    /\ work' = s.work
    /\ t1c' = s.t1c /\ t1l' = s.t1l /\ freerun' = s.freerun /\ ier' = s.ier
    /\ prb' = s.prb /\ ddrb' = s.ddrb /\ ATN' = s.ATN /\ settled' = FALSE
    /\ current_halftrack' = s.current_halftrack /\ gcr_ptr' = s.gcr_ptr
    /\ UNCHANGED <<IECLines, line, content, the_file, id, gcr_data>>

\* LoadSnapshot of a machine without the processor of the drive
LoadWithout(atn) ==
    /\ line = "start" /\ jobs < MaxJobs /\ jobs' = jobs + 1
    /\ Emul1541Proc' = FALSE
    /\ IF Emul1541Proc THEN Close ELSE UNCHANGED disk
    /\ ATN' = atn /\ settled' = FALSE
    /\ UNCHANGED <<cpu, work, timer, prb, ddrb, IECLines, line, head, DrivePath>>

Emulation == LineOfC64 \/ LineOfBoth \/ DriveStep \/ C64Step

Next ==
    \/ Emulation \/ AsyncReset
    \/ \E emul \in BOOLEAN, path \in Disks \cup {NoDisk} : NewPrefs(emul, path)
    \/ \E s \in Saved : LoadSnapshot(s)
    \/ \E atn \in BOOLEAN : LoadWithout(atn)

\* The drive's cycles of the line are used up
LineEnds == C64Step /\ line = "c64" /\ line' = "rest"

\* The emulation thread goes on, and a line has so many cycles and no more
Spec == Init /\ [][Next]_vars /\ WF_vars(Emulation) /\ SF_vars(LineEnds)

-----------------------------------------------------------------------------
TypeOK ==
    /\ Idle \in BOOLEAN /\ i_flag \in BOOLEAN /\ work \in BOOLEAN
    /\ VIA2IRQ \in BOOLEAN /\ RESET \in BOOLEAN
    /\ t1c \in 0 .. MaxTimer /\ t1l \in 0 .. MaxTimer
    /\ freerun \in BOOLEAN /\ ier \in BOOLEAN /\ ddrb \in BOOLEAN
    /\ ATN \in BOOLEAN /\ settled \in BOOLEAN
    /\ prb \subseteq {"data", "clk", "atna"} /\ IECLines \subseteq {"data", "clk"}
    /\ line \in {"start", "drive", "c64", "rest"}
    /\ jobs \in 0 .. MaxJobs

\* The drive never sleeps while the C64 calls it, an error is to be shown, or an
\* interrupt is waiting that it would let in: the test and the falling asleep of
\* opcode $f2 00 lose neither an ATN that comes from the C64 between two
\* instructions of the idle loop nor an interrupt.
SleepsWithoutWork == Idle => ~work /\ ~(VIA2IRQ /\ ~i_flag)

\* What the drive does to the bus is what the gates of a 1541 make of its port and of
\* ATN at any time: DATA is pulled by the port, or because ATN and its acknowledge
\* differ, before any program has seen it.  (Not from a reset or a snapshot until
\* the next write: IECLines is then not computed anew.)
BusFollowsAtn ==
    settled /\ ddrb =>
        /\ "data" \notin IECLines <=> "data" \in prb \/ (ATN <=> "atna" \in prb)
        /\ "clk" \notin IECLines <=> "clk" \in prb

\* Whatever is opened, written, formatted, moved and loaded, the disk stays readable
\* from wherever the head is left: the GCR under it, which is a copy, follows the
\* image, and a byte in the data that SyncFound takes for a SYNC confuses nobody.
DiskReadsBack == line = "start" => Readable

Armed == Emul1541Proc /\ freerun /\ ier

\* A reset asked for by the user reaches the drive, although it yields to interrupts
\* and the drive may fall asleep on it: the job timer wakes it again.
ResetTaken == RESET /\ Armed ~> ~RESET \/ ~Armed
=============================================================================
