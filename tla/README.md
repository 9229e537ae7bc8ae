# Formal models of Commodore 64 for iPhone

This directory holds TLA+ models of the program in this repository: an emulator of the
Commodore 64 derived from Frodo, wrapped in an iPhone application. A bug in a waveform shows as
soon as a game runs. What is hard to test is the rest: three
threads that share plain fields and lock-free queues, a user interface that waits by running
its run loop, chips that interrupt each other through flags, a drive whose state machine
is spread over bus and channel handlers, a store that installs games in threads that may be killed at any
step, and a processor whose opcodes keep flags as bytes, cut words to bytes at many places, and read a
memory map that was computed earlier. The models are about that rest. Every definition is
written from the code; `PROJECT.json` ("map") gives the lines each one stands for.

## The system

Three threads matter.

* The **UI thread** runs the view controllers, the touch handlers and the application delegate.
* The **emulation thread** runs `Frodo::ReadyToRun`, `C64::Run` and `C64::thread_func`. It
  emulates one raster line after the other: the VIC, then the SID, the CIAs, the drive and the
  CPU. At the end of a frame the VIC calls `C64::VBlank`, which polls the inputs, counts the
  clocks and feeds the sound.
* The **sound thread** runs the CoreAudio callback of `CAudioQueueManager`.

Synchronisation is sparse: the key queue has a lock, the sound queue is lock-free with
an atomic counter, and everything else (`have_a_break`, `in_pause_loop`, `emulatorState`,
`ThePrefs`, the trap list, the registers of the chips during a reset) is plain memory.

| component | state it keeps | operations | talks to | what makes it correct |
|---|---|---|---|---|
| Ring queue (`RingQ.h`) | slots, `in`, `out`, `size` | `enqueue`, `dequeue`, `count` | two threads | a FIFO queue; nothing lost or doubled |
| Sound queue (`AudioQueueManager.cpp`, `FastDigitalRenderer.mm`) | two rings, `_samplesInQueue`, `_isRunning`, `_runLoop` | VBlank, callback, start, stop, pause, resume | SID, CoreAudio, lifecycle | fragments conserved, one owner each, bounded latency, playing goes on |
| Emulator lifecycle (`C64.mm`, `Frodo.mm`, `EmulationViewController.mm`) | `thread_running`, `have_a_break`, `in_pause_loop`, `emulatorState`, `TheC64` | start, pause, resume, load, save, change preferences | every chip, the views | a pause takes hold, can be withdrawn, and state is touched only while it holds |
| Keyboard input (`KeyboardView.mm`, `Keyboard.mm`, `Display.mm`) | event queue, key matrices, locked key | touches, poll, `auto_boot`, reset | CIA 1 | every tap is seen, no key stays down but what a second finger has left behind |
| CIA (`CIA.cpp`) | timers, latches, control registers, ICR, mask, clock | register reads and writes, `EmulateLine`, `CountTOD` | CPU lines, VBlank | flags agree with registers, interrupts neither lost nor invented, the clock counts |
| 6510 interrupts (`CPUC64.*`, `VIC.cpp`) | `interrupt.intr`, `nmi_state`, `i_flag` | trigger, clear, take, reset | VIC, CIAs, C64 | no spurious interrupt, NMI never shut out, reset served |
| IEC bus and drives (`IEC.cpp`, `1541*.cpp`, `CPU1541.cpp`) | listener, talker, channels, buffers, VIAs | talk, listen, open, close, read, write | CPU traps of the kernal | a channel delivers its file, buffers are not leaked |
| CPU traps, Lua (`CPUC64.cpp`, `frodo_lua.mm`) | list of traps, patched bytes | install, trap, clear | C64, scripts | patched memory restored, list walked safely |
| VIC (`VIC.cpp`) | `raster_y`, `irq_raster`, `rc`, `vc_base`, `display_state`, `border_on`, `mc`, `sprite_on`, control registers | emulate a line, vertical blank, register reads and writes, `SetState` | CPU lines, display, CIA 1 (light pen) | rows and sprites appear once and in order, the raster interrupts in its line |
| SID, Display | registers, renderer, frame buffer | synthesise, show | sound queue | mostly data |
| 6510 instructions (`CPUC64.cpp`, `CPU_emulline.i`) | registers, flags, `pc`, `pc_base`, `basic_in` and the other switches, the port | 256 opcodes, reset, `GetState`, `SetState` | memory, chips, IEC bus | does what a 6510 does; the switches follow the port |
| Snapshots (`C64.mm`) | a byte block per chip | save, load | every chip | what is loaded is what was saved |
| Game packs, store, installer (`Classes/`) | folders of games, `gameInfoList`, disabled ids, payment queue, products shown as being installed | load the list, buy, restore, deliver, install, disable, relaunch | payment queue, file system, lifecycle | a purchase is never lost, the list agrees with the folders, a button comes back |

OpenFeint, Lua, ASIHTTPRequest, the JSON library and LiteUnzip are vendored and out of scope, as
are the sound back ends that `USE_FASTSID` compiles out and the single-cycle CPU (`SINGLE_CYCLE`
is not defined). The list in `PROJECT.json` ("components") gives the status of each part, and
"hazards" what can go wrong in it, at its line, with the properties that would notice.

## The models

### RingQ, FifoQueue: the lock-free ring

`RingQ` has the pointers of `tagRingQ` as indices. `enqueue` is two steps, store and publish,
and `dequeue` is read and remove, because that is where the other thread can come in between;
the tests for full and empty belong to the first step. `queue` is an auxiliary variable: what
has been published and not removed. `FifoQueue` is the bounded queue that callers believe in;
`ImplementsFifo` states that the ring implements it, the only difference a caller can see being
when a call ends. `CountIsSafe` records an oddity of the code: the ring has `Size + 1` slots,
but `count()` adds `Size` when it wraps, so it is sometimes one short.

Run `ring`: a ring of three with two elements. Three is the smallest size at which the pointers
wrap at different moments and a ring can be neither empty, full nor nearly so; contents are only
stored and compared, so two elements suffice to tell any two slots apart.

### SoundQueue: fragments from VBlank to CoreAudio

The two rings of `SoundBuffer` appear as FIFO queues (justified by the refinement above), keeping
the index where each one wraps, since `count()` depends on it. The emulation thread's
`VBlank` is cut at every access to shared state: test of the high-water mark and first fragment,
queueing, counting, the catch-up loop. The sound thread goes through `execute`: `setupQueue`
primes the hardware buffers by calling the callback itself, starts the queue, sets
`_isRunning`, records the run loop and enters it; afterwards CoreAudio calls the callback for
every played buffer. `pause` and `resume` may come from elsewhere at any moment, including the
one `init_sound` makes when sound is off. Latencies are in fragments, the unit in which
`neededFragments` is computed.

The properties: fragments are conserved and have one owner; the counter of samples differs from
the list by exactly the half-done transfers; the list is bounded by the user's latency
setting although the decisions are made on stale numbers; a callback that decided to copy finds
data. `CallbackHasData` holds although `count()` is imprecise, because the callback is the
only consumer, and because a count that has once been positive cannot drop to 0 until something was taken.
`stop()` before the run loop is known and `resume()` before the queue exists end the program, and the
model says so (`StopNull`, `ResumeGarbage`): nothing in the code excludes them.

Run `sound` has four fragments, two per hardware buffer, two hardware buffers, a high-water mark of one and a latency
(`LoWater`) of five fragments, one more than there are: the rings wrap, the catch-up loop runs out of
fragments (`GiveUp`), a buffer is filled completely and partly. The first conjunct of `LatencyBounded` is about the list after
catching up, the second about the one fragment a frame adds before it.
The code has sixteen fragments and four buffers, which only adds more of the same moments.
The fairness for `SoundFlows` is weak fairness of the two threads: frames keep coming, the OS
schedules the sound thread, and CoreAudio returns every buffer it was given.

### EmulatorLifecycle, PauseProtocol: who may touch the machine when

The emulation thread is a program counter `emu` from `runEmulator` through the construction of the
C64 and the main loop to the pause loop in `VBlank`, with one step per access to a shared flag. The UI
thread is a stack of handlers, because `startEmulator` and `loadGameStateWithName` wait by running the
run loop and other handlers are then called inside them. `Pause` and `Resume` are
single steps: between their two assignments the emulation thread reads only one of the two fields.
A handler's long middle part (loading, saving, applying preferences) is a stack entry, so that
the model can say what the emulation thread does meanwhile.

`PauseProtocol` is the contract: asking is a request, the machine is held at a frame boundary, and
a held machine goes on only when it is not asked to stay. `KeepsProtocol` says that the two threads implement it, with
`held` mapped to the part of the loop between the two tests of `have_a_break`. Liveness of the protocol is
weak fairness of `Hold` and `Go`.

Run `lifecycle` allows all handlers, three deep, with and without ROM images. Deeper nesting
repeats the same flags, and three is enough for a load inside a load inside the start. Deadlock is not
checked because the program may really stop: with the ROMs missing, or through a NULL C64.

One run refutes a statement of the comments (below, *Disagreements*). It keeps only the
handlers that the counterexample needs, which makes the trace short to read.

### KeyInput: from a touch to the key matrix

The key queue, the poll and the two matrices. A key code is a place in the
matrix and perhaps shifted; the five codes kept are the ones that interfere: RUN/STOP with and
without shift, a cursor key with and without shift, and a special key whose low bits fall on a matrix
place. `translate_key` is a list of byte updates, each a read and a write, because a reset on the UI
thread clears the same bytes. Touches follow `KeyboardView`, whose handlers take a touch of any finger: begin, slide, lock after a
delay, end, be cancelled, on a key or between keys (`fingers` counts the touches that have not ended, `timer` is `keyDownDelay`). `auto_boot` queues its events one by one, since the lock is taken per call.
`seen` is history: the codes that a whole frame has shown the program since they went down.

Two fingers break the keyboard. `touchesBegan` (`KeyboardView.mm:215`) overwrites `current` and leaves `keyLocked` as it is: a key that has been held
long enough to go down is forgotten when another finger comes to another key. Whichever finger goes first, `touchesEnded` sends `keyUp` for the key that is
current then, the end of the other touch does nothing, and the first key stays down in the matrices until it is touched again or CIA 1 is reset. `orphans` is history: the keys
that were forgotten like that and not released since. `AllKeysUp` and `KeysComeUp` say that nothing but their places (`OnlyOrphansDown`) stays down, so that they
speak of everything else that fingers, slides, cancelled touches, boots and resets do.

A tap must be seen with its shift (`TapSeen`) and nothing else may stay down (`AllKeysUp`, `KeysComeUp`).
`TapSeen` makes an exception for the `Contested` keys beside the boot trap: a shifted key, since both use the one shift
key and take it away from each other, and RUN/STOP, whose place the trap presses and releases itself. (The proof found the second one: the event that
ends the boot can come between the press of RUN/STOP and the frame that is held for it, and the tap is lost.)
Run `key_input` has three keys that interfere: a shifted one, RUN/STOP, which has the place of the boot trap's key, and the special key, which has the place of the shifted one. There are
two touches, at the same time or not, beside a reset or a boot trap (`MaxLaunches` bounds the two together; the reset belongs to a launch from another tab and comes when no finger is on the keys);
two touches are enough for the release of one to meet the press of the other, and for a second finger to replace a locked key. Fairness:
the two threads are scheduled, the user promises nothing.

### Cia, TimeOfDay, CiaChip: timers, interrupt register and clock

`Cia` has the timers and the interrupt register of one chip; `line` stands for `CIAIRQ` of the CPU for CIA 1 and for `nmi_state` for CIA 2.
The chip and the CPU are reset at different times, in either order (`Reset`, `CpuReset`), or in one instruction (`IllegalOpcode`);
after that `LineFollowsIcr` waits for a read of ICR (`resetting`). A timer is as wide as
`MaxTimer` says and `CiaCycles` are counted per line, so the run can use three bits while the theorems
speak of sixteen. Control registers are kept as the fields the emulation looks at. `EmulateLine` is
one action, guarded by `NeedToEmulateLine` as in `thread_func`; underflow of timer A, one-shot stop,
cascade into timer B and the interrupt of each happen in it as in the code, including the
`goto` into the timer-B branch. `CIAIRQHack` makes a write to ICR clear the register but not the line; `LineFollowsIcr` is therefore
checked and proved with the hack off, the other properties are proved for both.

`TimeOfDay` has the clock's registers in packed BCD with `CountTOD` once per frame. Registers can be written with values
that no clock shows; the property starts from proper times.
`tod_halt` is set and cleared as in the code, and as in the code nothing looks at it: a program that
reads the four registers one by one may get parts of two times.

`CiaChip` puts the two together. They share the interrupt register (the alarm is one of its sources), bit 7 of control
register A, which is the clock's frequency, the reset and the bound on accesses. The clock must not disturb the timers, and
`ChipImplementsCia` says that it does not: every behaviour of the whole chip is one of `Cia`.

Run `cia` lets the program make three accesses to any register, in any order with the lines and frames between them,
with values 0 and 5 for the latches: more and less than the three cycles of a line, which is what `Underflow` distinguishes. The clock is set
just below each carry (`CarryTimes`), over noon and midnight, and six frames are enough for a tenth to pass at
either frequency. Three accesses reach every pair of settings and a disturbance of it. Fairness is that lines are emulated for ever.

### CpuInterrupts: the lines and the processor

The VIC and both CIAs are reduced to flags, mask and master bit, the CPU to the entries of `interrupt.intr`, `nmi_state` and
the I flag. `BeginLine` is `handle_int`, with its priorities NMI, IRQ, reset; an instruction that
clears I returns there. A chip may have several events in a line, before the CPU's turn and, through its registers, during it: two timers of a
CIA can underflow together, and a write to SDR triggers its interrupt at once.
`LoadSnapshot` restores all of it from a state that was one before. A reset on the emulation thread
(`Reset`) resets the CIAs at once, the CPU when its turn comes, and the VIC never; `illegal_op` adds the CPU's own. On the UI thread `C64::Reset` runs beside the
emulation: the request first (`AsyncReset`), then each CIA (`ResetCia`), while the CPU may take the request in between. `ignored` is history: the CIAs that were reset
and whose lines neither the CPU nor a read of ICR has cleared since; only they may assert a line that ICR does not report. If the CPU takes the request
before the CIAs are reset, that can last: CIA 2 may then hold the NMI input, the RESTORE key included, until the program happens to read its ICR.

Run `cpu_interrupts` (`MCCpuInterrupts`) has two sources of the VIC, one to be acknowledged and one to stay pending, one of each CIA, which is acknowledged as a whole, and a snapshot with both IRQ lines up and the NMI input taken. Fairness: lines
begin and end (`SF` for the end, because an instruction always takes cycles off the line).
`ResetTaken` holds without any assumption on IRQ handlers, but a program under an endless stream of NMIs can postpone a reset for ever.

### VicII: raster, rows and sprites

`VicII` is `MOS6569::EmulateLine` without the pixels. `EmulateRaster` is one line: raster interrupt, line 0x30 and the DEN bit, bad
line, border, row counter, sprites, in the order of the code and with its two shortcuts, a frame that is skipped and, without borders, a line
outside the window. `shown` is what the line is made of: the border, or the row of the matrix (`text` is the one that was
fetched, `row` the one the counter stands at), the line in the row, and the line of each sprite. `VBlank` and the rest of the last `EmulateLine` are two
steps, because the machine is paused between them and preferences change and snapshots are loaded there. Then the other chips and the CPU have the line (`Others`,
actions of `CpuInterrupts`), and the program may access registers (`Access`). `steady` is history: how
many frames have begun since a register was written, at most 2 and counting drawn frames only.

`Picture` and `SpriteLine` say, without counters, what a 6569 with these registers shows in a line. `PictureInOrder` compares: after one whole
drawn frame everything that an earlier write has disturbed is forgotten. Sprites are counted in
all lines, drawn or not, but `SpritesInOrder` needs the whole frame too: a sprite that has been moved away while it was shown may still be shown in the
first lines of the next frame, in front of its new place, which the attempt to prove less brought to light.
`RowsFit` and `RasterEdge` hold at any time, whatever the program does in the middle of a frame; but `RowsFit` leaves out the frame in which
the rows of a snapshot go on (`resumed`, history).

The oddities of the code are in the model. Without borders the lines outside the window are skipped, with their bad lines: a picture
that is scrolled by 0 to 2 then begins a row lower, one by 4 to 7 a row higher, and with the picture off a window of 25 rows shows idle graphics; `PictureInOrder` says so in its condition. `el_sprites` raises both collision interrupts in each line
with sprites in which the register is 0, whether anything has collided or not. 
Snapshots are loaded in the vertical blank, but saved anywhere: `EmulationViewController.mm:658` asks for a pause and saves at once, although `C64.mm:830` demands
a paused machine in the vertical blank. `LoadVic` is `SetState`: it takes back the saved line, row, line of the row and `lp_triggered`. The first line is 0 then, because the pause is within the last `EmulateLine` of a frame,
and the raster goes on from the saved one. It is saved with all its bits (`raster_y` has sixteen, `VIC.h:315`), and `VIC.cpp:479` sets bit 8 in it when the line to interrupt in has it. Without that the frame of the
snapshot is finished in order. With it, a snapshot of line 200 goes on at 456, past the last line, for which `EmulateLine` looks by equality: no vertical blank comes until the sixteen bits have wrapped (`RASTER_VALUES`),
some 65000 lines later, and the frame after the wrap counts on from the rows of the snapshot and fetches more of them than there are. Without `resumed` the run finds `RowsFit` violated
just so. `PictureInOrder` and `SpritesInOrder` have forgotten a snapshot after a whole drawn frame.

Run `vic` (`MCVicII`) has eighteen lines, two rows of four, sprites of two lines, and bit 8 of the raster at line 14, so that a sprite at line 2 is
met a second time in line 16. There are lines above the first bad line, between the last and the end of the display, and outside the display. Control values are the usual one, two that
scroll, fewer rows, bit 8 and picture off; two accesses are enough to set something and to disturb it in any other line, and two snapshots, any number of times, bring a third setting: one of the vertical blank, and one of the middle of a frame with bit 8 in
the line to interrupt in, for which the raster wraps (at 28 lines here). It has 12.5 million states.

### D64Drive, IecBus: the drive behind the KERNAL

`D64Drive` has the operations of a mounted D64 image as actions: open, close, read, write, reset and
the commands of channel 15. A block is a number and a byte is its place in the image, so that the
order in which a file is read can be told, but not what it says. Which error a name or a command
deserves depends on its text; the model lets each outcome happen where the code reaches it. `last` and `ended` are
history: the place of the byte read last and whether it came with EOF. `IecBus` adds the talker, the
listener and the secondary address, calls the drive as `IEC::Out`, `In` and `sec_listen` do, and lets the UI thread
reset or replace the drive between two of those calls. `NewPrefs` deletes the drive under an active listener or talker,
and the model shows that as a pointer to a deleted drive; the first call through it
ends the model (`CallDeleted`), which is why deadlock is not checked.

`BuffersOwned` is about the floppy buffers, `FileInOrder` and `WithinBuffer` about the pointer, length
and link of each channel, `LedShowsError` about the two places that switch the LED. The code's oddities are in the model as they are:
an unreadable directory leaves the channel open with a stale length (`OpenDirectory`), B-R and I
overwrite the error of a failed read, and an overlong command blocks channel 15 until it is closed (`Collect`).

Run `drive` (`MCIecBus`) has channel 0, which alone can list the directory, and channel 2, two floppy buffers, and an image of four
blocks of two bytes (the code has 254): a file of two blocks, one whose link leads nowhere, and one whose only block is
empty. Two channels are enough for one to take a buffer the other had and for reads of the same file to
interleave; a command is one character and a message two, so both limits are reached.

### GcrHead, DriveCpu: the drive that is emulated itself

`DriveCpu` is the 1541 with its processor. The program in the drive may be any program, so an instruction is a
choice among the things that matter to the emulation: the I flag, a register of the VIAs, a cell of RAM that the idle loop tests, the opcode that
ends that loop and falls asleep, the two ROM patches and the disk. `EmulateLine` of the drive and of the C64 alternate
instruction by instruction (`line`), and a sleeping drive is left out of the line until the job timer or ATN wakes it. `AsyncReset` comes from the UI
thread at any moment; preferences and snapshots come between two lines. `HandleInt` has the priorities of `handle_int`: an interrupt goes before a reset.
`settled` is history: `IECLines` has been computed since the last reset or load, neither of which computes it.

`GcrHead` is the disk under the head. An image is translated into GCR when it is opened; the head reads the translation, and
the two patches write the image and translate anew. The encoding is the code's, bit by bit; in the run, tracks, sectors and blocks are small. `ReadBack` is what a disk
controller does: wait for a SYNC, decode a header, wait for the next SYNC, decode the data, and check both sums. `Readable` then says that what it gets is the image,
wherever the head is and whatever bytes the block has. `SyncFound` takes a single byte 255 for a SYNC where the
real drive needs ten bits, and a block may well contain one.

`LoadSnapshot` has the oddity of `C64.mm:917`: `prefs` is a reference to `ThePrefs`, so `NewPrefs` compares the new preferences with
themselves. The drive is then neither reset nor does it open the image of the snapshot; it goes on with the disk it had.

Run `drive_cpu` (`MCDriveCpu`) has a disk of two tracks with two sectors and one, so that a head can be over the wrong track and the wrong sector; two images,
one read-only; and a block of four bytes whose GCR contains a byte 255. A timer of one bit that is counted down by one per line underflows every second line. `MaxJobs` is 3: a register write, a
disk job, a change of preferences or a snapshot takes one, everything else is unbounded; three is enough for open, write and change back. Fairness: the emulation thread runs
(weak), and a line has so many cycles and no more, so that the two processors do not alternate in it for ever (`LineEnds`, strong because the drive's turn disables it).

### GameStore: from a payment to a folder

`MMStoreManager` loads the list of products and observes the payment queue only afterwards; a purchase that is
delivered, and a product that is free, is installed by a thread of its own. `installTask` is cut at each access
to what the threads share: the look at `gameInfoList`, the removal of the folder, the removal of the entry, the beginning
and the end of the copy, the new entry, and last the end of the transaction. Two threads may work on the same
game, and the answer of the server about disabled games builds the list again on the UI thread. `Crash` may come
between any two steps; transactions, folders and disabled ids outlive it. A folder is `bare` when its copy stopped before
`gameInfo.plist`, `partial` when after it, and `whole`. `raced` is history: the games whose list entry two parties worked on at once.

`loadGames` lists the games of the bundle first and then those of `GAMES_FOLDER`: `builtIn` and `listed`. `findByGameId` returns the first entry, and `uninstall` refuses a game of the
bundle (`GameInfo.mm:201`) with a NO that nobody looks at (`GameInstaller.m:93`). A game of a pack that is also in the bundle (`BuiltInGames`) is therefore copied without anything being removed and is offered twice, and since its folder
is there from then on, every later installation of it is refused by `copyItemAtPath`: such a transaction stays in the queue for ever, and is tried again in every launch.

`PurchaseKept` is the promise to the customer: whatever was paid for is on the disk, or in the queue and will be installed again.
It holds although a game is removed before the new copy is made, because the transaction is finished last, and a copy that
finds its folder gone fails. `ListMatchesDisk` says when the list can be trusted: the entries of `GAMES_FOLDER` are its folders, one each, and those of the bundle are its games that are not disabled. `ButtonComesBack` says that a product is not shown as
being installed for ever. `Delivered` is the liveness: pending transactions get done, *unless* a folder is stranded
(`Stranded`): one without `gameInfo.plist`, or that of a disabled game, is in nobody's list, and that of a game of the bundle is hidden by the first entry, so it is not
removed, and `copyItemAtPath` refuses to copy over it, now and after every relaunch. It is only claimed when in the end the server has settled which games are disabled and no copy fails any more; copies that failed before count. The code has no remedy for that, and the property says
how far the promise goes.

Run `game_store` has a product of each kind: two transactions of the one that is sold overlap, its pack has two games, one of which is also in the bundle, the pack of the free one is in the bundle but does not
verify and so counts as empty, and the third cannot be bought. One crash comes beside any
number of ordinary relaunches. Two transactions are enough for installations of one
game to overlap at every pair of steps. `MaxIssued` allows two purchases or restorations of any product. Fairness: threads run (weak); the application is relaunched again and again, lists arrive and transactions are delivered now and
then (strong). A relaunch is needed because `MMProductsRequest` has no handler for a failure of its
`SKProductsRequest`: the store then loads for ever (`ProductsFail`).

### Bytes, Mos6502, Cpu6510: the processor

`Cpu6510` has the opcodes as `CPU_emulline.i` has them, in groups: words that are cut, differences that wrap to sixteen bits,
`n_flag` and `z_flag` as bytes, the digits of decimal mode as the macros compute them, the four switches of the memory configuration,
and `pc` as the difference of two pointers, which is not cut, beside the memory `pc_base` belongs to. `Mos6502` says the same in
numbers: a sum of decimals is a sum modulo a hundred, V is set when a signed result is out of range, an address is seen in an area that
the three port lines select. What the processor leaves open (digits above nine, N and V in decimal mode, the
constants of the unstable opcodes) is any value there. `ImplementsMos6502` is the refinement; the mapping packs the flags and cuts `pc`.

Memory is abstracted to what it delivers: an instruction comes with its operand bytes, the pointer and the byte it reads, and `bus` is the
list of cells used, each with the chip, ROM or RAM that answers it. So two mistakes that differ in the cell, the order or the byte are told
apart, but no memory is stored, apart from cells 0 and 1, the processor port. A read of the I/O area is a place on the bus; what a
chip does about it belongs to `Cia` and the others.

Run `cpu6510` starts from forty saved states (every pair of an accumulator at an edge and a carry, binary and decimal,
every row of the memory map, the stack pointer at both ends) and takes one step of each of about 1,900 instructions, then saves and restores. One step is enough for the opcodes, since each depends on the
registers only and every edge value of a register is a starting state; saving and restoring come in between, with `MaxSaves` 1.

Some behaviour of the code that the model has and a reader may not expect: CPU `Reset` does not set the I flag; an opcode that no
6510 survives calls `ShowRequester`, which always answers 1 on this platform, and so resets the machine; SHA (ind),Y reads the high
byte of its pointer without wrapping in the zero page; a change of the memory configuration by a program in a ROM does not move
`pc_base` until its next jump, as the comment at `CPUC64.cpp:78` says.

## What is proved

TLC checks the instances above; TLAPS proves the following for every value of the constants,
under the assumptions named in the modules (sizes are positive naturals, the latches fit the timer, and so
on). Each proof follows the same plan: an inductive invariant, mostly called `IInv`, one lemma per group of actions,
then the property as a consequence.

* `SoundQueueProofs`, the ring. `RingIInv` relates the two indices to the length of `queue` and every slot between them to its
  element; wrapping is arithmetic on `SlotAt`. From it: `RingContents`, `RingCountIsSafe` and the
  refinement `RingImplementsFifo`.
* `SoundQueueProofs`, the sound queue. Conservation alone is not inductive: a hand may only be full where its thread's control point
  says so, and the numbers `needed` and `samples` bound what the thread may still add. `Room` carries the latency bound through the
  catch-up loop. Distinctness of the fragments (`SoundOneOwner`) is a separate induction over moves
  between a list and a hand, the `Apart` lemmas.
* `AppProofs`, the lifecycle. `LifecycleInv` adds what `emulatorState` can be at each control point of the emulation
  thread, since both threads write it. `LifecycleKeepsProtocol` is the safety half of the refinement.
* `KeyInputProofs`. `NoKeyStaysDown`, for any number of fingers and what they do: that nothing is pressed at the end is inductive only with what is pressed before. `DownsEnd` says that each press in
  one of the three queues (the poll's, and what the UI thread and the boot trap have still to put into it) has its release behind it or to come, and `PressedEnds` that each pressed
  place, each byte read and not yet written back, and each byte the translation has still to press is `Released`: by an event to come or by the translation
  under way, or it belongs to an orphan. So it does not matter which key's release it is that shares the place. `TapsAreSeen` adds `TapsInv`, about each release on its way (`Coming`): it is `Tapped`, its press and a hold are before it in the queue
  and nothing from the press to the hold takes away what the key needs; or it is `Waiting`, the press has been taken, and the key has
  been seen or is all pressed with a hold to come. Each way the queue changes has a lemma of its own: an event is taken (`TakenTap`), inserted (`InsertedTap`),
  or more are put behind (`SameTap`). `RowKept` is about the byte under way: a reset may clear a key in it meanwhile, never add one.
* `CiaProofs`. Timers and interrupts separate: no action couples them except the set of sources that
  `CountLine` raises. `CiaLineFollowsIcr` needs `~CIAIRQHack`: the hack clears the register and leaves the line.
  `ChipImplementsCia` goes through the actions of `CiaChip`: each is an action of `Cia`, the alarm, or a stutter, and the theorems above hold for the whole chip through it.
  `CiaImplementsInterrupts` is the composition with the processor: `SystemSpec` has a `Cia`, as CIA 1 or as CIA 2 (`Number`), in place of that CIA of `CpuInterrupts`, and the
  VIC, the other CIA and the CPU of `CpuInterrupts` around it. Each step of the timers, of the clock and of the program on that chip is a step of `CpuInterrupts` or none, with an edge of the
  line as an NMI (`Edge`); a reset is a step of both. It needs that the line is one bit and that no one else makes the entry of CIA 1 (`Own`). With it what is
  proved of `CpuInterrupts` holds of a system with real timers.
  `ChipTicksLikeClock` needs that four frames or more are counted between two ticks at either frequency (`DividerInv`), and, for the digits, that each step of a register in BCD
  counts one (`BcdNextCounts`, `HourCounts`) and that a carry through all of them is the next tenth of the day modulo a day (`NextTenth`).
* `IecBusProofs`. Order is not inductive by itself: `FileGood` says that inside a block the last byte is
  the one before the pointer, and at its end that the link leads to the byte `After` it. The lemmas go by the shape of a
  step (nothing, one channel replaced, one closed, all closed), and each operation of the drive is one of these shapes. The image
  may be any graph of blocks, circular ones included.
* `CpuInterruptsProofs`. `NmiAlwaysOpens` needs that a reset of a CIA (`ignored`) explains every register that
  says less than the line does. `VicImplementsInterrupts` goes through the actions of `VicII`: each is one that `CpuInterrupts` allows its chips and
  its program, so that the three theorems hold with that VIC. `RasterExact` needs no more than that lines are integers. `RowsAlwaysFit` has a
  potential, `Progress`: rows done times lines of a row plus lines of the present row. A line adds one at most (`DrawLineCounters`), the vertical blank sets it to 0, and
  what a frame may take over from the one before is one row at most (`LeftOver`), unless it goes on with a snapshot (`resumed`); so in the last bad line the row is not beyond `Rows`.
  `SpritesStayInOrder` says of each sprite how many lines ago it was begun (`Ago`) and that its counter agrees (`Settled`); bit 8 of the raster, which the code
  ignores, is why a sprite may be begun twice in a frame. `PictureStaysInOrder` walks through a frame with `PictureInv`: what the border, the
  counters and the bad lines are in each line of the first drawn frame after a write (`Drawing`), and from then on in all of them (`steady = 2`).
  Both are proved for every geometry that `WindowAssumption` and `SpriteAssumption` allow: the window lies in the display, the rows fill what is fetched, an expanded sprite has no more lines than
  the raster, and the lower eight bits of a line come twice in a frame at most. The numbers at the head of `VIC.cpp` (rasters 312, display 16 to 287, bad lines 48 to 247, windows 51 to 251 and 55 to 247, sprites of 21 lines)
  satisfy them.
* `AppProofs`, the store. `IInv` adds to the properties what a thread has done at each of its control points (`Threads`), that a
  transaction at work is still in the queue and nothing is marked delivered without a thread (`Purchases`), that what a thread has left behind
  is whole or its transaction unfinished (`Kept`), and when the list is exact (`ListInv`, with `MatchBundle` for the games of the bundle, which no thread removes). A crash keeps it because no
  conjunct about what outlives the crash speaks of a thread alone.
* `DriveCpuProofs`. `SleepsSafely`: that the drive does not sleep on work is inductive only with what puts it to sleep and what
  wakes it: an interrupt it would let in has been taken before the next instruction (`NoneWaits`), and whoever asks for an interrupt wakes it (`Wakeful`). `BusIsGates` follows from
  `IECLines` being what port and ATN make of it while `settled`. Both rest on `SavedAssumption`: a snapshot holds what the state can be. `GroupsReadBack` is about the encoding:
  the five bytes of a GCR group decode to the four they were made of, for all bytes.
  `DiskReadable` is `DiskReadsBack`, in three parts. What passes under the head is, in every sector, the translation of the open image with some ID, whatever the drive writes and formats and the
  preferences and snapshots open and close (`DiskInv`, `DiskIsImage`), and the head stays on the disk (`HeadInv`; `SavedAssumption` says so of snapshots). Runs of groups are decoded to what they were made of (`DecodesGroups`). And the search finds the right
  place: only the third byte of a group can be 255, when its bytes end in a nibble 5 and begin with a nibble 14 (`GroupBytes`), and the two bytes behind it never decode to 8, the mark of a header (`HeaderMark`, `NoHeaderElsewhere`);
  a header has no such byte, since there are no 224 sectors (`NoSyncInHeader`). So a header is found once in a revolution, and the SYNC behind it is that of the data (`HeaderOnce`, `DataFound`). `GcrAssumption` allows at most
  35 tracks of at most 21 sectors, as `num_sectors` in `1541job.cpp:68` has them; the length of a block and its bytes are free.

* `Cpu6510Proofs`. `CpuImplementsMos6502`: for all registers, operands and bytes from memory, every opcode, interrupt entry, reset, saving and loading is a step
  of `Mos6502`. The invariant, `CInv`, is small: types, and `banks` is what the port selects, in the machine and in a snapshot (`SnapshotsAssumption`). The rest is
  arithmetic, one lemma for each way the code computes what the 6510 does: borrow and overflow read off a difference of sixteen bits (`WrapIs`, `DifferenceIs`), digits
  corrected by six (`SumOfDigitsIs`, `DifferenceOfDigitsIs`), pages and switches for areas and port lines (`SwitchesAreMode`, `JumpsAreSeen`, `ReadsAreSeen`, `WritesReach`), a `pc` that is not cut
  (`PcIs`). Upon these stand the three ways to use an operand (`ReadsByteIs`, `WritesByteIs`, `ModifiesIs`) and one lemma per group of opcodes, each of which also keeps the registers
  bytes (`Registers`). One step of `Cpu6510` is one step of `Mos6502` or none. That
  the run takes one opcode from forty states is no restriction here.

Only model-checked: all liveness properties (beyond the prover), the other half of `KeepsProtocol` among them.
Every safety property of the passing runs has its theorem.
Type invariants are proved where there is a proof (`CiaTypeOK`, `DriveTypeOK` and others) and the runs spend their time on the rest.

## Disagreements between the code and its comments

Run `load_completes` must fail; `PROJECT.json` ("findings") quotes both sides: `C64::Run` announces itself before it clears
`have_a_break`, so a pause can be forgotten and its waiter waits for ever.

Another one can be read off the same module: comments demand a paused machine for loading and saving a snapshot (`C64.mm:830`, `C64.mm:871`). The load
waits on a flag that may be left over from the pause before: `emu = "paused"` is not an invariant of `Top = "loading"`. Saving does not wait at
all, and `NewPrefs`, which asks for the same, is called likewise.

## Limits of the models

Memory is sequentially consistent and `OSAtomicAdd32` atomic: reorderings by a multi-core ARM are not
explored. The lock of the key queue works (it is allocated but never initialised). CoreAudio, Foundation and the
run loop do what their use in the code presumes; a freed C64 or a NULL run loop ends the
program or answers anything. `quit_thyself` is left out since nothing calls `stopEmulator`.
A snapshot is what some state between two lines holds (`InterruptsAssumption`, `SavedVicAssumption`, `SavedAssumption`, `SnapshotsAssumption`): one that `saveGameState` tears, because it does not wait for the
pause and copies one chip after the other while the machine runs, may hold what no state does, and nothing is claimed of it.
In run `sound` the latency asks for more fragments than there are, so of `LatencyBounded` only the second part bites there; `SoundLatencyBounded` proves both for every size.
In `GameStore` the mutable array of games is a list that the threads change in one step (the code does not synchronise it), every
transaction names a product of the list, and the pictures that games share are left out.
Of `Cpu6510`, cycle counts, the traps at an address (`BRK` is the regular one) and the decrease of the single-cycle variant are left out: neither `SINGLE_CYCLE` nor
`PRECISE_CPU_CYCLES` is defined anywhere. The 1541 processor shares `CPU_emulline.i`, but its memory and its BVC, which looks at the
byte-ready line, are not modelled.
Of `DriveCpu` are left out the flag registers of the VIAs, the timers that only set those flags, and the write-protect sensor: the emulation
does not go by them. `FormatTrack` and `WriteSector` are modelled with an image open; the code uses `the_file` without a look at it, and with none open the program ends in `fseek`.
Of the VIC are left out the colours, the horizontal positions and scroll value, the modes of the display, the cycles stolen from the CPU and the pixels; whether shapes collide is free.
A byte under the head comes when the program asks for it, not with the rotation.
Bounds are the constants named `Max...` and guard only the environment: touches, register accesses,
resets, frames and nesting.

## Not modelled, and why

SID is arithmetic on samples. The T64 archive is a simpler drive behind the same bus. OpenFeint, Lua,
JSON and LiteUnzip are libraries. The remaining views are layout; where they act on the machine, the handler is in
`EmulatorLifecycle` or `KeyInput`. The joystick is one word, written by one thread and read by another.

## Plan

In order of importance.

1. `RingQ`, `SoundQueue`, with proofs. Done.
2. `EmulatorLifecycle` refining `PauseProtocol`, with proofs. Done.
3. `KeyInput`, with proofs. Done.
4. `Cia`, `TimeOfDay`, `CiaChip`, `CpuInterrupts`, with proofs. Done.
5. `D64Drive`, `IecBus`, with proofs. Done; next to it the T64 archive behind the same bus.
6. `GameStore`, with proofs. Done.
7. `Cpu6510` refining `Mos6502`, with proofs. Done.
8. `GcrHead`, `DriveCpu`, with proofs. Done.
9. `VicII`, with proofs. Done.
10. `CpuTraps`: the list of traps, the bytes it patches, reset on the UI thread, Lua release functions; property:
   every patched byte is restored, and no freed trap is read.
11. `Snapshot` and `Preferences`: order of restoring, the renderer that is replaced under the emulation thread.
