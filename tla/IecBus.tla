------------------------------- MODULE IecBus -------------------------------
(***************************************************************************)
(* The IEC bus of the patched KERNAL: talkers, listeners and secondary     *)
(* addresses, and the one drive on it, device 8.  A program may call the   *)
(* KERNAL's serial routines in any order; the UI thread resets the bus and *)
(* exchanges the drive between two of them.                                *)
(***************************************************************************)
EXTENDS D64Drive

VARIABLES
    drive,          \* "NULL", "not ready" or "ready"; "gone" once the program ended
    listener,       \* "none" (not active), "drive", or "deleted"
    talker,
    listening,      \* the last ATN was listen
    received_cmd,   \* "none", "DATA", "CLOSE" or "OPEN"
    sec_addr

busVars == <<drive, listener, talker, listening, received_cmd, sec_addr>>
vars == <<driveVars, busVars>>

NoCommand == received_cmd' = "none" /\ sec_addr' = 0

Init ==
    /\ NewDrive(the_file, chan)
    /\ buf_free = Buffers /\ status = Startup /\ cmd_len = 0
    /\ drive = IF the_file THEN "ready" ELSE "not ready"
    /\ listener = "none" /\ talker = "none" /\ listening = FALSE
    /\ received_cmd = "none" /\ sec_addr = 0

-----------------------------------------------------------------------------
(* OutATN *)

\* listen and talk: is the device there?
Addressed(device) == IF device = 8 /\ drive = "ready" THEN "drive" ELSE "none"

Listen(device) ==
    /\ NoCommand /\ listening' = TRUE
    /\ listener' = Addressed(device)
    /\ UNCHANGED <<driveVars, drive, talker>>

Unlisten ==
    /\ NoCommand /\ listening' = FALSE
    /\ listener' = "none"
    /\ UNCHANGED <<driveVars, drive, talker>>

Talk(device) ==
    /\ NoCommand /\ listening' = FALSE
    /\ talker' = Addressed(device)
    /\ UNCHANGED <<driveVars, drive, listener>>

Untalk ==
    /\ NoCommand /\ listening' = FALSE
    /\ talker' = "none"
    /\ UNCHANGED <<driveVars, drive, listener>>

\* A byte that is none of the four commands
OtherATN ==
    /\ NoCommand
    /\ UNCHANGED <<driveVars, drive, listener, talker, listening>>

-----------------------------------------------------------------------------
(* OutSec *)

Second(command, channel) == received_cmd' = command /\ sec_addr' = channel

\* sec_talk, and sec_listen for a command that concerns no channel yet
OutSec(command, channel) ==
    /\ IF listening THEN listener # "none" /\ command # "CLOSE" ELSE talker # "none"
    /\ Second(command, channel)
    /\ UNCHANGED <<driveVars, drive, listener, talker, listening>>

\* Broken variant: the LED is turned off although there is an error
SecCloseTurnsOff(channel) ==
    /\ listening /\ listener = "drive"
    /\ Second("CLOSE", channel)
    /\ status' = [status EXCEPT !.led = "off"]
    /\ Close(channel)
    /\ UNCHANGED <<the_file, drive, listener, talker, listening>>

\* sec_listen, CMD_CLOSE: the LED goes off unless it blinks
SecClose(channel) ==
    /\ listening /\ listener = "drive"
    /\ Second("CLOSE", channel)
    /\ status' = IF status.led = "error" THEN status ELSE [status EXCEPT !.led = "off"]
    /\ Close(channel)
    /\ UNCHANGED <<the_file, drive, listener, talker, listening>>

-----------------------------------------------------------------------------
(* Out and In *)

\* open_out: the last character of the name.  The ones before are only stored.
OpenOut ==
    /\ listener = "drive" /\ received_cmd = "OPEN"
    /\ Open(sec_addr, [status EXCEPT !.led = "on"])
    /\ UNCHANGED busVars

\* data_out
DataOut(eoi) ==
    /\ listener = "drive" /\ received_cmd = "DATA"
    /\ Write(sec_addr, eoi)
    /\ UNCHANGED busVars

\* data_in
In ==
    /\ talker = "drive" /\ received_cmd = "DATA"
    /\ Read(sec_addr)
    /\ UNCHANGED busVars

\* A call through a pointer to a deleted drive: the model follows the program no further
CallDeleted ==
    /\ \/ listener = "deleted" /\ listening /\ drive' = "gone"
       \/ listener = "deleted" /\ received_cmd \in {"OPEN", "DATA"} /\ drive' = "gone"
       \/ talker = "deleted" /\ received_cmd = "DATA" /\ drive' = "gone"
    /\ UNCHANGED <<driveVars, listener, talker, listening, received_cmd, sec_addr>>

-----------------------------------------------------------------------------
(* The UI thread *)

ResetBus ==
    /\ drive = "ready"
    /\ Reset
    /\ UNCHANGED busVars

Deleted(device) == IF device = "drive" THEN "deleted" ELSE device

\* NewPrefs: the drive is deleted and, unless the 1541 processor is emulated, made
\* anew.  Who listens and who talks is not looked at.
NewPrefs ==
    /\ drive' \in {"NULL", "ready", "not ready"}
    /\ NewDrive(the_file', chan')
    /\ the_file' <=> drive' = "ready"
    /\ buf_free' = Buffers /\ status' = Startup /\ cmd_len' = 0
    /\ listener' = Deleted(listener) /\ talker' = Deleted(talker)
    /\ UNCHANGED <<listening, received_cmd, sec_addr>>

-----------------------------------------------------------------------------
Addresses == Channels \cup {15}

Kernal ==
    \/ \E device \in {4, 8} : Listen(device) \/ Talk(device)
    \/ Unlisten \/ Untalk \/ OtherATN
    \/ \E channel \in Addresses :
          \/ \E command \in {"DATA", "CLOSE", "OPEN"} : OutSec(command, channel)
          \/ SecClose(channel)
    \/ OpenOut \/ In \/ CallDeleted
    \/ \E eoi \in BOOLEAN : DataOut(eoi)

Next == drive # "gone" /\ (Kernal \/ ResetBus \/ NewPrefs)

Spec == Init /\ [][Next]_vars

-----------------------------------------------------------------------------
(* Properties *)

Errors == {"SYNTAX30", "WRITEPROTECT", "WRITEFILEOPEN", "FILENOTOPEN",
           "FILENOTFOUND", "ILLEGALTS", "NOCHANNEL", "NOTREADY"}

Places == [block : Nat, i : Int]

Channel ==
    [mode : {"FREE", "FILE", "DIRECTORY", "DIRECT"}, link : Nat, ptr : Places,
     len : Nat, num : Buffers \cup {0}, last : Places, ended : BOOLEAN]

\* Every variable has its type; the length of a buffer never becomes negative.
TypeOK ==
    /\ the_file \in BOOLEAN
    /\ chan \in [Channels -> Channel]
    /\ buf_free \subseteq Buffers
    /\ status \in [error : Errors \cup {"OK", "STARTUP", "memory"},
                  left : 1 .. MessageLen, led : {"off", "on", "error"}]
    /\ cmd_len \in 0 .. CmdMax
    /\ drive \in {"NULL", "not ready", "ready", "gone"}
    /\ {listener, talker} \subseteq {"none", "drive", "deleted"}
    /\ listening \in BOOLEAN
    /\ received_cmd \in {"none", "DATA", "CLOSE", "OPEN"}
    /\ sec_addr \in Channels \cup {0, 15}

\* A floppy buffer is taken exactly while a direct channel has it, and never by two:
\* no sequence of OPEN, CLOSE, I, U:, G: and resets loses one of the four buffers or
\* gives it to a second channel (alloc_buffer, free_buffer, close_all_channels).
BuffersOwned ==
    /\ \A b \in Buffers : b \notin buf_free <=> \E c \in Direct : chan[c].num = b
    /\ \A c, d \in Direct : chan[c].num = chan[d].num => c = d

\* What is left to read of a buffer lies within it: of a file's block the bytes it
\* uses, of a floppy buffer its 256 bytes, wherever B-P put the pointer.
WithinBuffer ==
    \A c \in Channels :
        /\ chan[c].mode = "FILE" /\ chan[c].len > 0 =>
              chan[c].ptr.i + chan[c].len = BlockLength(chan[c].ptr.block)
        /\ chan[c].mode = "DIRECT" => chan[c].ptr.i + chan[c].len <= DirectSize

\* The LED blinks while the message is an error nobody has read, through every
\* OPEN, CLOSE and command that sets one of the two (set_error, open_out, sec_listen).
LedShowsError ==
    /\ status.error \in Errors => status.led = "error"
    /\ status.led = "error" => status.error \notin {"OK", "STARTUP"}

\* The place of the byte after the one at p in its file
After(p) ==
    IF p.i = -1 \/ p.i + 1 < BlockLength(p.block) THEN Place(p.block, p.i + 1)
    ELSE Place(Chain[p.block].next, 0)

IsLast(p) == Chain[p.block].next = 0 /\ p.i + 1 = Chain[p.block].used

\* A file is read byte by byte along its chain of blocks, none left out and none
\* twice, whatever is done on other channels in between and after reads that failed;
\* EOF comes with the last byte and with no other, and nothing comes after it.
FileInOrder ==
    [][\A c \in Channels :
         chan[c].mode = "FILE" /\ chan'[c].mode = "FILE" /\ chan'[c].last # chan[c].last =>
             /\ ~chan[c].ended
             /\ chan'[c].last = After(chan[c].last)
             /\ chan'[c].ended <=> IsLast(chan'[c].last)]_vars
=============================================================================
