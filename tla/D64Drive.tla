------------------------------ MODULE D64Drive ------------------------------
(***************************************************************************)
(* The DOS of a 1541 with a .d64 image: the operations Open, Close, Read,  *)
(* Write and Reset of D64Drive and the commands of channel 15, as actions  *)
(* on the state of the drive.  Module IecBus calls them.                   *)
(*                                                                         *)
(* A block is named by a number; its data bytes are named by their place.  *)
(* What a directory listing, a message or a floppy buffer says is left     *)
(* out, how much of it is left to read is not.  The directory is in order, *)
(* in the image and in the drive's memory, and block commands name one of  *)
(* the drive's channels.                                                   *)
(***************************************************************************)
EXTENDS Integers

CONSTANTS
    Channels,       \* the data channels, 0 to 14
    Buffers,        \* the floppy buffers, 0 to 3
    BlockSize,      \* data bytes of a block (254)
    Blocks,         \* the blocks that exist, track and sector in one number
    Chain,          \* the link of each block: the next one, or 0 and the bytes used
    First,          \* the first block of each file, and of "$", track 18 sector 0
    DirSize,        \* length of the directory as a program
    MessageLen,     \* length of a message
    CmdMax          \* longest command collected on channel 15 (40)

Files == DOMAIN First \ {"$"}

ASSUME DriveAssumption ==
    /\ Channels \subseteq 0 .. 14 /\ Buffers \subseteq Nat
    /\ BlockSize \in Nat \ {0} /\ DirSize \in Nat \ {0}
    /\ MessageLen \in Nat \ {0} /\ CmdMax \in Nat

\* Any image: a link need not name a block, and a last block may be empty
ASSUME ImageAssumption ==
    /\ Blocks \subseteq Nat \ {0}
    /\ Chain \in [Blocks -> [next : Nat, used : 0 .. BlockSize]]
    /\ "$" \in DOMAIN First /\ First \in [DOMAIN First -> Nat]

VARIABLES
    the_file,       \* there is an image
    chan,           \* chan_mode, chan_buf, buf_ptr, buf_len, chan_buf_num, and
                    \* as history the last byte read and whether it came with EOF
    buf_free,       \* the floppy buffers that are free
    status,         \* the message in error_ptr, error_len and the LED
    cmd_len         \* length of the command collected so far

driveVars == <<the_file, chan, buf_free, status, cmd_len>>

DirectSize == BlockSize + 2     \* a floppy buffer has the two link bytes too

Place(b, i) == [block |-> b, i |-> i]
NoPlace == Place(0, 0)

FreeChannel(len) ==
    [mode |-> "FREE", link |-> 0, ptr |-> NoPlace, len |-> len, num |-> 0,
     last |-> NoPlace, ended |-> FALSE]

\* Drive::set_error
SetError(s, error) ==
    [error |-> error, left |-> MessageLen,
     led |-> CASE error = "OK"      -> IF s.led = "error" THEN "off" ELSE s.led
               [] error = "STARTUP" -> "off"
               [] OTHER             -> "error"]

Startup == SetError([error |-> "OK", left |-> MessageLen, led |-> "off"], "STARTUP")

\* A channel that is not open.  buf_len is left as it was: of use to channel 0 only,
\* the others set it when they are opened.
Closed(c, len) == FreeChannel(IF c = 0 THEN len ELSE 0)

\* The constructor: buf_len is not initialised
NewDrive(image, channels) ==
    /\ image \in BOOLEAN
    /\ \E len \in 0 .. 1 : channels = [c \in Channels |-> Closed(c, len)]

-----------------------------------------------------------------------------
(* Closing *)

Direct == {c \in Channels : chan[c].mode = "DIRECT"}

\* close_all_channels
CloseAllChannels ==
    /\ chan' = [c \in Channels |-> Closed(c, chan[c].len)]
    /\ buf_free' = buf_free \cup {chan[c].num : c \in Direct}
    /\ cmd_len' = 0

\* Broken variant: the floppy buffer is not given back
CloseKeepsBuffer(c) ==
    \/ c = 15 /\ CloseAllChannels
    \/ /\ c \in Channels
       /\ chan' = [chan EXCEPT ![c] = Closed(c, @.len)]
       /\ UNCHANGED <<buf_free, cmd_len>>

Close(c) ==
    \/ c = 15 /\ CloseAllChannels
    \/ /\ c \in Channels
       /\ chan' = [chan EXCEPT ![c] = Closed(c, @.len)]
       /\ buf_free' = buf_free \cup {chan[d].num : d \in Direct \cap {c}}
       /\ UNCHANGED cmd_len

Reset ==
    /\ chan' = [c \in Channels |-> Closed(c, chan[c].len)]
    /\ buf_free' = Buffers
    /\ cmd_len' = 0
    /\ status' = SetError(status, "STARTUP")
    /\ UNCHANGED the_file

-----------------------------------------------------------------------------
(* Commands.  s and n are the status and cmd_len the command finds. *)

Refuse(error, s, n) ==
    /\ status' = SetError(s, error) /\ cmd_len' = n
    /\ UNCHANGED <<the_file, chan, buf_free>>

\* block_read_cmd: an error of read_sector does not survive
BlockRead(c, s, n) ==
    /\ c \in Direct
    /\ chan' = [chan EXCEPT ![c].ptr = NoPlace, ![c].len = DirectSize]
    /\ status' = SetError(s, "OK") /\ cmd_len' = n
    /\ UNCHANGED <<the_file, buf_free>>

\* Broken variant: as much is left to read as before
BufferPtrKeepsLength(c, pointer, s, n) ==
    /\ c \in Direct
    /\ chan' = [chan EXCEPT ![c].ptr = Place(0, pointer)]
    /\ status' = SetError(s, "OK") /\ cmd_len' = n
    /\ UNCHANGED <<the_file, buf_free>>

\* buffer_ptr_cmd
BufferPtr(c, pointer, s, n) ==
    /\ c \in Direct
    /\ chan' = [chan EXCEPT ![c].ptr = Place(0, pointer),
                            ![c].len = DirectSize - pointer]
    /\ status' = SetError(s, "OK") /\ cmd_len' = n
    /\ UNCHANGED <<the_file, buf_free>>

\* M-R: the message is now a piece of the drive's memory
MemoryRead(s, n) ==
    /\ \E len \in 1 .. MessageLen :
          status' = [s EXCEPT !.error = "memory", !.left = len]
    /\ cmd_len' = n
    /\ UNCHANGED <<the_file, chan, buf_free>>

\* M-W
MemoryWrite(s, n) ==
    status' = s /\ cmd_len' = n /\ UNCHANGED <<the_file, chan, buf_free>>

\* I: an error of read_sector does not survive
Initialize(s) ==
    /\ CloseAllChannels
    /\ status' = SetError(s, "OK")
    /\ UNCHANGED the_file

\* G: another image, which may not exist (chd64_cmd)
ChangeImage(image, s) ==
    /\ CloseAllChannels
    /\ the_file' = image
    /\ status' = IF image THEN s ELSE SetError(s, "NOTREADY")

\* execute_command
ExecuteCommand(s, n) ==
    \/ Refuse("SYNTAX30", s, n) \/ Refuse("WRITEPROTECT", s, n)
    \/ Refuse("NOCHANNEL", s, n)
    \/ \E c \in Channels : \/ BlockRead(c, s, n)
                           \/ \E p \in 0 .. DirectSize - 1 : BufferPtr(c, p, s, n)
    \/ MemoryRead(s, n) \/ MemoryWrite(s, n)
    \/ Initialize(s) \/ Reset
    \/ \E image \in BOOLEAN : ChangeImage(image, s)

-----------------------------------------------------------------------------
(* Opening.  s is the status after set_error(ERR_OK). *)

OpenFails(error, s) ==
    status' = SetError(s, error) /\ UNCHANGED <<the_file, chan, buf_free, cmd_len>>

\* open_file_ts: the first call of Read gets the first block
OpenFileTs(c, block, s) ==
    /\ chan' = [chan EXCEPT ![c] =
                  [FreeChannel(0) EXCEPT !.mode = "FILE", !.link = block,
                                         !.last = Place(block, -1)]]
    /\ status' = s
    /\ UNCHANGED <<the_file, buf_free, cmd_len>>

\* open_file: channel 1 is for writing, other channels may ask for it
OpenFile(c, s) ==
    \/ c # 0 /\ OpenFails("WRITEPROTECT", s)
    \/ c # 1 /\ OpenFails("FILENOTFOUND", s)
    \/ c # 1 /\ the_file /\ \E f \in Files : OpenFileTs(c, First[f], s)

\* open_directory: without an image buf_len is what it was
OpenDirectory(s) ==
    /\ chan' = [chan EXCEPT ![0].mode = "DIRECTORY",
                            ![0].len = IF the_file THEN DirSize ELSE @]
    /\ status' = IF the_file THEN s ELSE SetError(s, "NOTREADY")
    /\ UNCHANGED <<the_file, buf_free, cmd_len>>

\* open_direct with alloc_buffer: the wanted buffer, or the last one that is free
OpenDirect(c, s) ==
    \/ OpenFails("NOCHANNEL", s)
    \/ \E buf \in buf_free :
        /\ chan' = [chan EXCEPT ![c] = [FreeChannel(1) EXCEPT !.mode = "DIRECT",
                                                             !.num = buf]]
        /\ buf_free' = buf_free \ {buf}
        /\ status' = s
        /\ UNCHANGED <<the_file, cmd_len>>

\* Open; s is the status the drive has when it is called
Open(c, s) ==
    LET ok == SetError(s, "OK") IN
    \/ c = 15 /\ ExecuteCommand(ok, cmd_len)
    \/ c \in Channels /\ chan[c].mode # "FREE" /\ OpenFails("NOCHANNEL", ok)
    \/ /\ c \in Channels /\ chan[c].mode = "FREE"
       /\ \/ OpenFile(c, ok) \/ OpenDirect(c, ok)
          \/ c = 0 /\ OpenDirectory(ok)
          \/ c # 0 /\ OpenFileTs(c, First["$"], ok)

-----------------------------------------------------------------------------
(* Reading *)

\* Channel 15: the message, after which there is no error
ReadMessage ==
    /\ status' = IF status.left > 1 THEN [status EXCEPT !.left = @ - 1]
                 ELSE SetError(status, "OK")
    /\ UNCHANGED <<the_file, chan, buf_free, cmd_len>>

NeedsBlock(c) == chan[c].link # 0 /\ chan[c].len = 0

\* read_sector fails: the channel stays where it is
ReadFails(c) ==
    /\ NeedsBlock(c)
    /\ \/ chan[c].link \notin Blocks /\ status' = SetError(status, "ILLEGALTS")
       \/ chan[c].link \in Blocks /\ ~the_file /\ status' = SetError(status, "NOTREADY")
    /\ UNCHANGED <<the_file, chan, buf_free, cmd_len>>

\* Broken variant: the position of the last byte is taken for their number
BlockLengthByLink(b) == IF Chain[b].next # 0 THEN BlockSize ELSE Chain[b].used + 1

BlockLength(b) == IF Chain[b].next # 0 THEN BlockSize ELSE Chain[b].used

\* The channel with a block in its buffer
Loaded(c) ==
    IF NeedsBlock(c)
    THEN [chan[c] EXCEPT !.link = Chain[chan[c].link].next,
                         !.ptr = Place(chan[c].link, 0),
                         !.len = BlockLength(chan[c].link)]
    ELSE chan[c]

\* ... from which a byte is read, the last one with EOF
NextByte(ch) ==
    [ch EXCEPT !.ptr.i = @ + 1, !.len = @ - 1, !.last = ch.ptr,
               !.ended = ch.len = 1 /\ ch.link = 0]

\* Without a byte the read times out: at the end, or in an empty block
ReadFile(c) ==
    /\ NeedsBlock(c) => chan[c].link \in Blocks /\ the_file
    /\ chan' = [chan EXCEPT ![c] = IF Loaded(c).len > 0 THEN NextByte(Loaded(c))
                                  ELSE Loaded(c)]
    /\ UNCHANGED <<the_file, buf_free, status, cmd_len>>

\* A directory or a floppy buffer
ReadBuffer(c) ==
    /\ chan[c].len > 0
    /\ chan' = [chan EXCEPT ![c].ptr.i = @ + 1, ![c].len = @ - 1]
    /\ UNCHANGED <<the_file, buf_free, status, cmd_len>>

\* Read; what changes nothing is left out
Read(c) ==
    \/ c = 15 /\ ReadMessage
    \/ c \in Channels /\ chan[c].mode = "FILE" /\ (ReadFails(c) \/ ReadFile(c))
    \/ c \in Channels /\ chan[c].mode \in {"DIRECTORY", "DIRECT"} /\ ReadBuffer(c)

-----------------------------------------------------------------------------
(* Writing *)

\* Channel 15: the command is executed at its end, if it was not too long
Collect(eoi) ==
    /\ cmd_len < CmdMax
    /\ IF eoi THEN ExecuteCommand(status, 0)
       ELSE cmd_len' = cmd_len + 1 /\ UNCHANGED <<the_file, chan, buf_free, status>>

Write(c, eoi) ==
    \/ c = 15 /\ Collect(eoi)
    \/ c \in Channels /\ chan[c].mode = "FREE" /\ Refuse("FILENOTOPEN", status, cmd_len)
    \/ /\ c \in Channels /\ chan[c].mode = "DIRECTORY"
       /\ Refuse("WRITEFILEOPEN", status, cmd_len)
=============================================================================
