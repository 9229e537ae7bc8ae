---------------------------- MODULE IecBusProofs ----------------------------
(***************************************************************************)
(* Proofs about IecBus for any channels, buffers, disk image and length of *)
(* a command: who owns a floppy buffer, in what order a file is read, and  *)
(* what the LED says.                                                      *)
(***************************************************************************)
EXTENDS IecBus, TLAPS

Status == [error : Errors \cup {"OK", "STARTUP", "memory"},
           left : 1 .. MessageLen, led : {"off", "on", "error"}]

StatusGood(s) ==
    /\ s \in Status
    /\ s.error \in Errors => s.led = "error"
    /\ s.led = "error" => s.error \notin {"OK", "STARTUP"}

\* Where a channel that reads a file stands: in the middle of a block the last byte is
\* the one before the pointer, and at its end the link leads to the next byte.
FileGood(ch) ==
    ch.mode = "FILE" =>
        /\ ch.len > 0 =>
              /\ ch.ptr.block \in Blocks /\ ch.ptr.i > 0 /\ ~ch.ended
              /\ ch.link = Chain[ch.ptr.block].next
              /\ ch.ptr.i + ch.len = BlockLength(ch.ptr.block)
              /\ ch.last = Place(ch.ptr.block, ch.ptr.i - 1)
        /\ ch.len = 0 /\ ch.link # 0 => ~ch.ended /\ After(ch.last) = Place(ch.link, 0)

DirectGood(ch) ==
    ch.mode = "DIRECT" => ch.num \in Buffers /\ ch.ptr.i + ch.len <= DirectSize

ChannelGood(ch) == ch \in Channel /\ FileGood(ch) /\ DirectGood(ch)

ChannelsGood ==
    /\ chan \in [Channels -> Channel]
    /\ \A c \in Channels : ChannelGood(chan[c])
    /\ buf_free \subseteq Buffers
    /\ BuffersOwned

DriveGood ==
    /\ the_file \in BOOLEAN /\ cmd_len \in 0 .. CmdMax
    /\ ChannelsGood /\ StatusGood(status)

BusGood ==
    /\ drive \in {"NULL", "not ready", "ready", "gone"}
    /\ {listener, talker} \subseteq {"none", "drive", "deleted"}
    /\ listening \in BOOLEAN
    /\ received_cmd \in {"none", "DATA", "CLOSE", "OPEN"}
    /\ sec_addr \in Channels \cup {0, 15}

\* The inductive invariant
IInv == DriveGood /\ BusGood

\* What FileInOrder says of one channel in one step
InOrder(old, new) ==
    old.mode = "FILE" /\ new.mode = "FILE" /\ new.last # old.last =>
        /\ ~old.ended
        /\ new.last = After(old.last)
        /\ new.ended <=> IsLast(new.last)

\* A step keeps every channel in order and the drive's part of the invariant
GoodStep == ChannelsGood' /\ \A c \in Channels : InOrder(chan[c], chan'[c])

DriveStep == DriveGood' /\ \A c \in Channels : InOrder(chan[c], chan'[c])

-----------------------------------------------------------------------------
(* The status *)

\* Whatever the status was, set_error leaves LED and message in agreement.
LEMMA SetErrorGood ==
    ASSUME NEW s \in Status, NEW error \in Errors \cup {"OK", "STARTUP"}
    PROVE  StatusGood(SetError(s, error)) /\ SetError(s, error) \in Status
<1>1. MessageLen \in 1 .. MessageLen
  BY DriveAssumption DEF DriveAssumption
<1>2. SetError(s, error) \in Status
  BY <1>1 DEF SetError, Status
<1>3. /\ SetError(s, error).error = error
      /\ SetError(s, error).led = CASE error = "OK" -> IF s.led = "error" THEN "off" ELSE s.led
                                    [] error = "STARTUP" -> "off"
                                    [] OTHER -> "error"
  BY DEF SetError
<1>4. error \in Errors => error # "OK" /\ error # "STARTUP"
  BY DEF Errors
<1> QED BY <1>2, <1>3, <1>4 DEF StatusGood, Status, Errors

LEMMA StartupGood == StatusGood(Startup)
<1>1. [error |-> "OK", left |-> MessageLen, led |-> "off"] \in Status
  BY DriveAssumption DEF DriveAssumption, Status
<1> QED BY <1>1, SetErrorGood DEF Startup

-----------------------------------------------------------------------------
(* The channels, by the shape of a step *)

LEMMA FreeChannelType ==
    ASSUME NEW len \in Nat
    PROVE  FreeChannel(len) \in Channel
BY DEF FreeChannel, Channel, NoPlace, Place, Places

\* A closed channel is in order.
LEMMA ClosedGood ==
    ASSUME NEW c \in Channels, NEW len \in Nat
    PROVE  ChannelGood(Closed(c, len)) /\ Closed(c, len).mode = "FREE"
<1>1. Closed(c, len).mode = "FREE"
  BY DEF Closed, FreeChannel
<1>2. Closed(c, len) \in Channel
  BY DEF Closed, FreeChannel, Channel, NoPlace, Place, Places
<1> QED BY <1>1, <1>2 DEF ChannelGood, FileGood, DirectGood

LEMMA KeepsChannels ==
    ASSUME ChannelsGood, UNCHANGED <<chan, buf_free>>
    PROVE  GoodStep
<1>1. ChannelsGood'
  BY DEF ChannelsGood, BuffersOwned, Direct
<1> QED BY <1>1 DEF GoodStep, InOrder

\* All channels are closed and every buffer is free: close_all_channels and Reset.
LEMMA AllClosed ==
    ASSUME ChannelsGood,
           chan' = [c \in Channels |-> Closed(c, chan[c].len)], buf_free' = Buffers
    PROVE  GoodStep
<1>1. \A c \in Channels : ChannelGood(chan'[c]) /\ chan'[c].mode = "FREE"
  BY ClosedGood DEF ChannelsGood, Channel
<1>2. chan' \in [Channels -> Channel]
  BY ClosedGood DEF ChannelsGood, ChannelGood, Channel
<1>3. Direct' = {}
  BY <1>1 DEF Direct
<1>4. BuffersOwned'
  BY <1>3 DEF BuffersOwned
<1> QED BY <1>1, <1>2, <1>4 DEF GoodStep, ChannelsGood, InOrder

\* Closing everything frees what was taken and no more.
LEMMA CloseAllFreesAll ==
    ASSUME ChannelsGood
    PROVE  buf_free \cup {chan[c].num : c \in Direct} = Buffers
BY DEF ChannelsGood, ChannelGood, DirectGood, BuffersOwned, Direct

\* One channel is replaced by another that has the same buffer, if any.
LEMMA ReplaceGood ==
    ASSUME ChannelsGood, NEW c \in Channels, NEW new, ChannelGood(new),
           chan' = [chan EXCEPT ![c] = new], UNCHANGED buf_free,
           new.mode = "DIRECT" <=> chan[c].mode = "DIRECT",
           new.mode = "DIRECT" => new.num = chan[c].num,
           InOrder(chan[c], new)
    PROVE  GoodStep
<1>1. chan' \in [Channels -> Channel]
  BY DEF ChannelsGood, ChannelGood
<1>2. \A d \in Channels : chan'[d] = IF d = c THEN new ELSE chan[d]
  BY DEF ChannelsGood
<1>3. Direct' = Direct /\ \A d \in Direct : chan'[d].num = chan[d].num
  BY <1>2 DEF Direct
<1>4. BuffersOwned'
  BY <1>3 DEF BuffersOwned, ChannelsGood
<1>5. \A d \in Channels : InOrder(chan[d], chan'[d])
  BY <1>2 DEF InOrder
<1> QED BY <1>1, <1>2, <1>4, <1>5 DEF GoodStep, ChannelsGood

-----------------------------------------------------------------------------
(* Closing and opening *)

LEMMA CloseAllChannelsGood ==
    ASSUME ChannelsGood, CloseAllChannels
    PROVE  GoodStep /\ cmd_len' = 0
BY AllClosed, CloseAllFreesAll DEF CloseAllChannels

\* Closing a direct channel gives its buffer back, closing another one nothing.
LEMMA CloseGood ==
    ASSUME ChannelsGood, NEW c \in Channels \cup {15}, Close(c)
    PROVE  GoodStep /\ cmd_len' \in {0, cmd_len}
<1>1. CASE CloseAllChannels
  BY <1>1, CloseAllChannelsGood
<1>2. CASE /\ c \in Channels
           /\ chan' = [chan EXCEPT ![c] = Closed(c, @.len)]
           /\ buf_free' = buf_free \cup {chan[d].num : d \in Direct \cap {c}}
           /\ UNCHANGED cmd_len
  <2> DEFINE new == Closed(c, chan[c].len)
  <2>1. ChannelGood(new) /\ new.mode = "FREE"
    BY <1>2, ClosedGood DEF ChannelsGood, Channel
  <2>2. \A d \in Channels : chan'[d] = IF d = c THEN new ELSE chan[d]
    BY <1>2 DEF ChannelsGood
  <2>3. chan' \in [Channels -> Channel]
    BY <1>2, <2>1 DEF ChannelsGood, ChannelGood
  <2> HIDE DEF new
  <2>4. /\ Direct' = Direct \ {c}
        /\ \A d \in Direct' : chan'[d].num = chan[d].num
    BY <2>1, <2>2 DEF Direct
  <2>5. buf_free' = buf_free \cup {b \in Buffers : c \in Direct /\ chan[c].num = b}
    BY <1>2 DEF ChannelsGood, ChannelGood, DirectGood, Direct
  <2>6. BuffersOwned'
    BY <2>4, <2>5 DEF BuffersOwned, ChannelsGood
  <2>7. \A d \in Channels : InOrder(chan[d], chan'[d])
    BY <2>1, <2>2 DEF InOrder
  <2> QED BY <1>2, <2>1, <2>2, <2>3, <2>5, <2>6, <2>7 DEF GoodStep, ChannelsGood
<1> QED BY <1>1, <1>2 DEF Close

\* A file that has just been opened has its first byte next.
LEMMA OpenFileTsGood ==
    ASSUME ChannelsGood, NEW c \in Channels, chan[c].mode = "FREE",
           NEW block \in Nat, NEW s, OpenFileTs(c, block, s)
    PROVE  GoodStep
<1> DEFINE new == [FreeChannel(0) EXCEPT !.mode = "FILE", !.link = block,
                                         !.last = Place(block, -1)]
<1>1. new.mode = "FILE" /\ new.len = 0 /\ ~new.ended /\ new.link = block
      /\ new.last = Place(block, -1)
  BY DEF FreeChannel
<1>2. new \in Channel
  <2>1. Place(block, -1) \in Places
    BY DEF Place, Places
  <2>2. FreeChannel(0) \in Channel
    BY FreeChannelType
  <2> QED BY <2>1, <2>2 DEF Channel
<1>3. chan' = [chan EXCEPT ![c] = new] /\ UNCHANGED buf_free
  BY DEF OpenFileTs
<1> HIDE DEF new
<1>4. After(new.last) = Place(block, 0)
  BY <1>1 DEF After, Place
<1>5. ChannelGood(new)
  BY <1>1, <1>2, <1>4 DEF ChannelGood, FileGood, DirectGood
<1>6. InOrder(chan[c], new)
  BY DEF InOrder
<1> QED BY <1>1, <1>3, <1>5, <1>6, ReplaceGood

LEMMA OpenDirectoryGood ==
    ASSUME ChannelsGood, 0 \in Channels, chan[0].mode = "FREE", NEW s, OpenDirectory(s)
    PROVE  GoodStep
<1> DEFINE new == [chan[0] EXCEPT !.mode = "DIRECTORY",
                                  !.len = IF the_file THEN DirSize ELSE chan[0].len]
<1>1. chan' = [chan EXCEPT ![0] = new] /\ UNCHANGED buf_free
  BY DEF OpenDirectory, ChannelsGood, Channel
<1>2. chan[0] \in Channel /\ DirSize \in Nat
  BY DriveAssumption DEF ChannelsGood, DriveAssumption
<1>3. new.mode = "DIRECTORY" /\ new \in Channel
  BY <1>2 DEF Channel
<1> HIDE DEF new
<1>4. ChannelGood(new) /\ InOrder(chan[0], new)
  BY <1>3 DEF ChannelGood, FileGood, DirectGood, InOrder
<1> QED BY <1>1, <1>3, <1>4, ReplaceGood

\* The buffer a direct channel gets is free, so no other channel has it.
LEMMA OpenDirectGood ==
    ASSUME ChannelsGood, NEW c \in Channels, chan[c].mode = "FREE",
           NEW buf \in buf_free,
           chan' = [chan EXCEPT ![c] = [FreeChannel(1) EXCEPT !.mode = "DIRECT",
                                                             !.num = buf]],
           buf_free' = buf_free \ {buf}
    PROVE  GoodStep
<1> DEFINE new == [FreeChannel(1) EXCEPT !.mode = "DIRECT", !.num = buf]
<1>1. buf \in Buffers
  BY DEF ChannelsGood
<1>2. new.mode = "DIRECT" /\ new.num = buf /\ new.ptr.i = 0 /\ new.len = 1
  BY DEF FreeChannel, NoPlace, Place
<1>3. new \in Channel
  <2>1. FreeChannel(1) \in Channel
    BY FreeChannelType
  <2> QED BY <1>1, <2>1 DEF Channel
<1>4. \A d \in Channels : chan'[d] = IF d = c THEN new ELSE chan[d]
  BY DEF ChannelsGood
<1>5. chan' \in [Channels -> Channel]
  BY <1>3 DEF ChannelsGood
<1> HIDE DEF new
<1>6. ChannelGood(new)
  <2>1. 1 <= DirectSize
    BY DriveAssumption DEF DriveAssumption, DirectSize
  <2> QED BY <1>1, <1>2, <1>3, <2>1 DEF ChannelGood, FileGood, DirectGood
<1>7. /\ Direct' = Direct \cup {c} /\ c \notin Direct
      /\ \A d \in Direct : chan'[d].num = chan[d].num
      /\ chan'[c].num = buf
  BY <1>2, <1>4 DEF Direct
<1>8. \A d \in Direct : chan[d].num # buf
  BY <1>1 DEF ChannelsGood, BuffersOwned
<1>9. BuffersOwned'
  BY <1>7, <1>8 DEF BuffersOwned, ChannelsGood
<1>10. \A d \in Channels : InOrder(chan[d], chan'[d])
  BY <1>2, <1>4 DEF InOrder
<1> QED BY <1>4, <1>5, <1>6, <1>9, <1>10 DEF GoodStep, ChannelsGood

-----------------------------------------------------------------------------
(* Floppy buffers *)

\* A step inside the buffer of a channel that reads no file.
LEMMA MoveGood ==
    ASSUME ChannelsGood, NEW c \in Channels, chan[c].mode \in {"DIRECTORY", "DIRECT"},
           NEW ptr \in Places, NEW len \in Nat,
           chan[c].mode = "DIRECT" => ptr.i + len <= DirectSize,
           chan' = [chan EXCEPT ![c] = [chan[c] EXCEPT !.ptr = ptr, !.len = len]],
           UNCHANGED buf_free
    PROVE  GoodStep
<1> DEFINE new == [chan[c] EXCEPT !.ptr = ptr, !.len = len]
<1>1. chan[c] \in Channel /\ DirectGood(chan[c])
  BY DEF ChannelsGood, ChannelGood
<1>2. /\ new \in Channel /\ new.mode = chan[c].mode /\ new.num = chan[c].num
      /\ new.ptr = ptr /\ new.len = len
  BY <1>1 DEF Channel
<1> HIDE DEF new
<1>3. ChannelGood(new) /\ InOrder(chan[c], new)
  BY <1>1, <1>2 DEF ChannelGood, FileGood, DirectGood, InOrder
<1>4. chan' = [chan EXCEPT ![c] = new]
  BY DEF new
<1> QED BY <1>2, <1>3, <1>4, ReplaceGood

LEMMA BlockReadGood ==
    ASSUME ChannelsGood, NEW c \in Channels, NEW s, NEW n, BlockRead(c, s, n)
    PROVE  GoodStep
<1>1. chan[c].mode = "DIRECT" /\ UNCHANGED buf_free
  BY DEF BlockRead, Direct
<1>2. chan' = [chan EXCEPT ![c] = [chan[c] EXCEPT !.ptr = NoPlace, !.len = DirectSize]]
  BY DEF BlockRead, ChannelsGood
<1>3. NoPlace \in Places /\ NoPlace.i + DirectSize <= DirectSize /\ DirectSize \in Nat
  BY DriveAssumption DEF NoPlace, Place, Places, DirectSize, DriveAssumption
<1> QED BY <1>1, <1>2, <1>3, MoveGood

LEMMA BufferPtrGood ==
    ASSUME ChannelsGood, NEW c \in Channels, NEW pointer \in 0 .. DirectSize - 1,
           NEW s, NEW n, BufferPtr(c, pointer, s, n)
    PROVE  GoodStep
<1>1. chan[c].mode = "DIRECT" /\ UNCHANGED buf_free
  BY DEF BufferPtr, Direct
<1>2. chan' = [chan EXCEPT ![c] = [chan[c] EXCEPT !.ptr = Place(0, pointer),
                                                 !.len = DirectSize - pointer]]
  BY DEF BufferPtr, ChannelsGood
<1>3. DirectSize \in Nat
  BY DriveAssumption DEF DirectSize, DriveAssumption
<1> DEFINE ptr == Place(0, pointer)
           len == DirectSize - pointer
<1>4. ptr \in Places /\ len \in Nat /\ ptr.i + len <= DirectSize
  BY <1>3 DEF Place, Places
<1> HIDE DEF ptr, len
<1>5. chan' = [chan EXCEPT ![c] = [chan[c] EXCEPT !.ptr = ptr, !.len = len]]
  BY <1>2 DEF ptr, len
<1> QED BY <1>1, <1>4, <1>5, MoveGood

LEMMA ReadBufferGood ==
    ASSUME ChannelsGood, NEW c \in Channels, chan[c].mode \in {"DIRECTORY", "DIRECT"},
           ReadBuffer(c)
    PROVE  GoodStep
<1>1. chan[c] \in Channel /\ DirectGood(chan[c]) /\ chan[c].len > 0 /\ UNCHANGED buf_free
  BY DEF ReadBuffer, ChannelsGood, ChannelGood
<1> DEFINE ptr == [chan[c].ptr EXCEPT !.i = @ + 1]
           len == chan[c].len - 1
<1>2. chan' = [chan EXCEPT ![c] = [chan[c] EXCEPT !.ptr = ptr, !.len = len]]
  BY DEF ReadBuffer, ChannelsGood
<1>3. ptr \in Places /\ ptr.i = chan[c].ptr.i + 1 /\ len \in Nat
  BY <1>1 DEF Channel, Places
<1>4. chan[c].mode = "DIRECT" => ptr.i + len <= DirectSize
  BY <1>1, <1>3 DEF DirectGood, Channel, Places, DirectSize
<1> QED BY <1>1, <1>2, <1>3, <1>4, MoveGood

-----------------------------------------------------------------------------
(* Files *)

LEMMA BlockLengthType ==
    ASSUME NEW b \in Blocks
    PROVE  /\ BlockLength(b) \in 0 .. BlockSize /\ Chain[b].next \in Nat
           /\ Chain[b].next # 0 => BlockLength(b) = BlockSize /\ BlockSize > 0
           /\ Chain[b].next = 0 => BlockLength(b) = Chain[b].used
BY ImageAssumption, DriveAssumption DEF BlockLength, ImageAssumption, DriveAssumption

\* A loaded channel whose next byte is the one after the last: reading it keeps the order.
LEMMA NextByteGood ==
    ASSUME NEW old \in Channel, NEW ch \in Channel, ch.mode = "FILE", old.mode = "FILE",
           ch.len > 0, ch.ptr.block \in Blocks, ch.ptr.i >= 0,
           ch.link = Chain[ch.ptr.block].next,
           ch.ptr.i + ch.len = BlockLength(ch.ptr.block),
           ~old.ended, After(old.last) = ch.ptr
    PROVE  /\ ChannelGood(NextByte(ch)) /\ NextByte(ch).mode = "FILE"
           /\ InOrder(old, NextByte(ch))
<1> DEFINE new == NextByte(ch)
           b == ch.ptr.block
           i == ch.ptr.i
<1>1. /\ b \in Nat /\ i \in Nat /\ ch.len \in Nat /\ ch.ptr = Place(b, i)
      /\ ch.ptr \in Places
  BY DEF Channel, Places, Place
<1>2. /\ new.mode = "FILE" /\ new.link = ch.link /\ new.len = ch.len - 1
      /\ new.ptr = Place(b, i + 1) /\ new.last = Place(b, i)
      /\ new.ended <=> (ch.len = 1 /\ ch.link = 0)
  BY <1>1 DEF NextByte, Channel, Places, Place
<1>3. new \in Channel
  <2>1. [ch.ptr EXCEPT !.i = @ + 1] \in Places /\ ch.len - 1 \in Nat
    BY <1>1 DEF Places
  <2>2. (ch.len = 1 /\ ch.link = 0) \in BOOLEAN
    OBVIOUS
  <2>3. NextByte(ch) = [ch EXCEPT !.ptr = [ch.ptr EXCEPT !.i = @ + 1], !.len = ch.len - 1,
                                  !.last = ch.ptr, !.ended = ch.len = 1 /\ ch.link = 0]
    BY DEF NextByte, Channel
  <2> QED BY <1>1, <2>1, <2>2, <2>3 DEF Channel
<1>4. /\ Place(b, i).block = b /\ Place(b, i).i = i
      /\ Place(b, i + 1).block = b /\ Place(b, i + 1).i = i + 1
  BY DEF Place
<1> HIDE DEF new
<1>5. new.ended <=> IsLast(new.last)
  BY <1>1, <1>2, <1>4, BlockLengthType DEF IsLast
<1>6. FileGood(new)
  <2>1. CASE new.len > 0
    <3>1. Place(b, i + 1 - 1) = Place(b, i)
      BY <1>1 DEF Place
    <3> QED BY <1>1, <1>2, <1>4, <2>1, <3>1 DEF FileGood
  <2>2. CASE new.len = 0
    <3>1. i + 1 = BlockLength(b)
      BY <1>1, <1>2, <2>2
    <3>2. After(Place(b, i)) = Place(ch.link, 0)
      BY <1>1, <1>4, <3>1 DEF After
    <3> QED BY <1>2, <2>2, <3>2 DEF FileGood
  <2> QED BY <1>3, <2>1, <2>2 DEF Channel
<1>7. InOrder(old, new)
  BY <1>1, <1>2, <1>5 DEF InOrder
<1> QED BY <1>2, <1>3, <1>6, <1>7 DEF ChannelGood, DirectGood, new

LEMMA ReadFileGood ==
    ASSUME ChannelsGood, NEW c \in Channels, chan[c].mode = "FILE", ReadFile(c)
    PROVE  GoodStep
<1> DEFINE old == chan[c]
           ch == Loaded(c)
<1>1. old \in Channel /\ FileGood(old) /\ UNCHANGED buf_free
  BY DEF ChannelsGood, ChannelGood, ReadFile
<1>2. chan' = [chan EXCEPT ![c] = IF ch.len > 0 THEN NextByte(ch) ELSE ch]
  BY DEF ReadFile
<1>3. CASE NeedsBlock(c)
  <2> DEFINE b == old.link
  <2>1. b \in Blocks /\ b # 0 /\ old.len = 0
    BY <1>3 DEF ReadFile, NeedsBlock
  <2>2. ~old.ended /\ After(old.last) = Place(b, 0)
    BY <1>1, <2>1 DEF FileGood
  <2>3. ch = [old EXCEPT !.link = Chain[b].next, !.ptr = Place(b, 0), !.len = BlockLength(b)]
    BY <1>3 DEF Loaded
  <2>4. Place(b, 0) \in Places /\ BlockLength(b) \in Nat /\ Chain[b].next \in Nat
    BY <2>1, BlockLengthType, DriveAssumption, ImageAssumption
       DEF Place, Places, DriveAssumption, ImageAssumption
  <2>5. /\ ch \in Channel /\ ch.mode = "FILE" /\ ch.link = Chain[b].next
        /\ ch.ptr = Place(b, 0) /\ ch.len = BlockLength(b) /\ ch.last = old.last
        /\ ch.ended = old.ended
    BY <1>1, <2>3, <2>4 DEF Channel
  <2>6. ch.ptr.block = b /\ ch.ptr.i = 0
    BY <2>5 DEF Place
  <2> HIDE DEF old, ch, b
  <2>7. CASE ch.len > 0
    <3>1. ch.ptr.i + ch.len = BlockLength(b)
      BY <2>4, <2>5, <2>6
    <3>2. /\ ChannelGood(NextByte(ch)) /\ NextByte(ch).mode = "FILE"
          /\ InOrder(old, NextByte(ch))
      BY <1>1, <2>1, <2>2, <2>5, <2>6, <2>7, <3>1, NextByteGood DEF old
    <3> QED BY <1>1, <1>2, <2>7, <3>2, ReplaceGood DEF old
  <2>8. CASE ch.len = 0
    <3>1. ch.link = 0
      <4>1. Chain[b].next # 0 => BlockLength(b) = BlockSize /\ BlockSize > 0
        BY <2>1, BlockLengthType
      <4> QED BY <2>5, <2>8, <4>1
    <3>2. ChannelGood(ch) /\ InOrder(old, ch)
      BY <2>5, <2>8, <3>1 DEF ChannelGood, FileGood, DirectGood, InOrder
    <3>3. chan' = [chan EXCEPT ![c] = ch]
      BY <1>2, <2>8
    <3> QED BY <1>1, <2>5, <3>2, <3>3, ReplaceGood DEF old
  <2> QED BY <2>4, <2>5, <2>7, <2>8
<1>4. CASE ~NeedsBlock(c)
  <2>1. ch = old
    BY <1>4 DEF Loaded
  <2> HIDE DEF ch
  <2>2. CASE old.len > 0
    <3>1. /\ old.ptr.block \in Blocks /\ old.ptr.i > 0 /\ ~old.ended
          /\ old.link = Chain[old.ptr.block].next
          /\ old.ptr.i + old.len = BlockLength(old.ptr.block)
          /\ old.last = Place(old.ptr.block, old.ptr.i - 1)
      BY <1>1, <2>2 DEF FileGood
    <3>2. old.ptr \in Places /\ old.ptr.i \in Int /\ old.len \in Nat
      BY <1>1 DEF Channel, Places
    <3>3. /\ old.last.block = old.ptr.block /\ old.last.i = old.ptr.i - 1
          /\ Place(old.ptr.block, old.ptr.i) = old.ptr
      BY <3>1, <3>2 DEF Place, Places
    <3>4. old.last.i + 1 = old.ptr.i /\ old.ptr.i < BlockLength(old.ptr.block)
      BY <2>2, <3>1, <3>2, <3>3, BlockLengthType
    <3>5. After(old.last) = old.ptr
      BY <3>3, <3>4 DEF After
    <3>6. /\ ChannelGood(NextByte(old)) /\ NextByte(old).mode = "FILE"
          /\ InOrder(old, NextByte(old))
      BY <1>1, <2>2, <3>1, <3>2, <3>5, NextByteGood
    <3> QED BY <1>1, <1>2, <2>1, <2>2, <3>6, ReplaceGood
  <2>3. CASE old.len = 0
    <3>1. UNCHANGED chan
      BY <1>2, <2>1, <2>3 DEF ChannelsGood
    <3> QED BY <1>1, <3>1, KeepsChannels
  <2> QED BY <1>1, <2>2, <2>3 DEF Channel
<1> QED BY <1>3, <1>4

-----------------------------------------------------------------------------
(* The operations of the drive *)

\* Channels, status and the rest can be looked at one after the other.
LEMMA Together ==
    ASSUME GoodStep, StatusGood(status'), the_file' \in BOOLEAN, cmd_len' \in 0 .. CmdMax
    PROVE  DriveStep
BY DEF GoodStep, DriveStep, DriveGood

LEMMA StatusOnly ==
    ASSUME DriveGood, UNCHANGED <<the_file, chan, buf_free>>, StatusGood(status'),
           cmd_len' \in 0 .. CmdMax
    PROVE  DriveStep
BY KeepsChannels, Together DEF DriveGood

LEMMA RefuseGood ==
    ASSUME DriveGood, NEW error \in Errors, NEW s \in Status, NEW n \in 0 .. CmdMax,
           Refuse(error, s, n)
    PROVE  DriveStep
BY SetErrorGood, StatusOnly DEF Refuse

LEMMA ResetGood ==
    ASSUME DriveGood, Reset
    PROVE  DriveStep
<1>1. GoodStep
  BY AllClosed DEF Reset, DriveGood
<1>2. StatusGood(status')
  BY SetErrorGood DEF Reset, DriveGood, StatusGood
<1>3. the_file' \in BOOLEAN /\ cmd_len' \in 0 .. CmdMax
  BY DriveAssumption DEF Reset, DriveGood, DriveAssumption
<1> QED BY <1>1, <1>2, <1>3, Together

LEMMA ExecuteCommandGood ==
    ASSUME DriveGood, NEW s, StatusGood(s), NEW n \in 0 .. CmdMax, ExecuteCommand(s, n)
    PROVE  DriveStep
<1>1. /\ s \in Status /\ ChannelsGood /\ the_file \in BOOLEAN
      /\ 0 \in 0 .. CmdMax /\ StatusGood(SetError(s, "OK"))
  BY SetErrorGood, DriveAssumption DEF DriveGood, StatusGood, DriveAssumption
<1>2. CASE Refuse("SYNTAX30", s, n) \/ Refuse("WRITEPROTECT", s, n) \/ Refuse("NOCHANNEL", s, n)
  BY <1>1, <1>2, RefuseGood DEF Errors
<1>3. ASSUME NEW c \in Channels, BlockRead(c, s, n) PROVE DriveStep
  BY <1>1, <1>3, BlockReadGood, Together DEF BlockRead
<1>4. ASSUME NEW c \in Channels, NEW p \in 0 .. DirectSize - 1, BufferPtr(c, p, s, n)
      PROVE  DriveStep
  BY <1>1, <1>4, BufferPtrGood, Together DEF BufferPtr
<1>5. CASE MemoryRead(s, n)
  <2>1. PICK len \in 1 .. MessageLen :
           status' = [s EXCEPT !.error = "memory", !.left = len]
    BY <1>5 DEF MemoryRead
  <2>2. StatusGood(status')
    BY <1>1, <2>1 DEF StatusGood, Status, Errors
  <2> QED BY <1>5, <2>2, StatusOnly DEF MemoryRead
<1>6. CASE MemoryWrite(s, n)
  BY <1>6, StatusOnly DEF MemoryWrite
<1>7. CASE Initialize(s)
  <2>1. GoodStep /\ cmd_len' = 0
    BY <1>1, <1>7, CloseAllChannelsGood DEF Initialize
  <2> QED BY <1>1, <1>7, <2>1, Together DEF Initialize
<1>8. CASE Reset
  BY <1>8, ResetGood
<1>9. ASSUME NEW image \in BOOLEAN, ChangeImage(image, s) PROVE DriveStep
  <2>1. GoodStep /\ cmd_len' = 0
    BY <1>1, <1>9, CloseAllChannelsGood DEF ChangeImage
  <2>2. StatusGood(status')
    BY <1>1, <1>9, SetErrorGood DEF ChangeImage, Errors
  <2> QED BY <1>1, <1>9, <2>1, <2>2, Together DEF ChangeImage
<1> QED BY <1>2, <1>3, <1>4, <1>5, <1>6, <1>7, <1>8, <1>9 DEF ExecuteCommand

LEMMA OpenFailsGood ==
    ASSUME DriveGood, NEW error \in Errors, NEW s \in Status, OpenFails(error, s)
    PROVE  DriveStep
BY SetErrorGood, StatusOnly DEF OpenFails, DriveGood

LEMMA OpenGood ==
    ASSUME DriveGood, NEW c, NEW s \in Status, Open(c, s)
    PROVE  DriveStep
<1> DEFINE ok == SetError(s, "OK")
<1>1. /\ ok \in Status /\ StatusGood(ok) /\ ChannelsGood /\ the_file \in BOOLEAN
      /\ cmd_len \in 0 .. CmdMax
  BY SetErrorGood DEF DriveGood
<1> HIDE DEF ok
<1>2. CASE c = 15 /\ ExecuteCommand(ok, cmd_len)
  BY <1>1, <1>2, ExecuteCommandGood
<1>3. ASSUME NEW error \in Errors, OpenFails(error, ok) PROVE DriveStep
  BY <1>1, <1>3, OpenFailsGood
<1>4. ASSUME NEW d \in Channels, chan[d].mode = "FREE", NEW block \in Nat,
             OpenFileTs(d, block, ok)
      PROVE  DriveStep
  BY <1>1, <1>4, OpenFileTsGood, Together DEF OpenFileTs
<1>5. \A f \in DOMAIN First : First[f] \in Nat
  BY ImageAssumption DEF ImageAssumption
<1>6. CASE c \in Channels /\ chan[c].mode = "FREE" /\ OpenFile(c, ok)
  BY <1>3, <1>4, <1>5, <1>6 DEF OpenFile, Files, Errors
<1>7. CASE c \in Channels /\ chan[c].mode = "FREE" /\ OpenDirect(c, ok)
  <2>1. CASE OpenFails("NOCHANNEL", ok)
    BY <1>3, <2>1 DEF Errors
  <2>2. ASSUME NEW buf \in buf_free,
               chan' = [chan EXCEPT ![c] = [FreeChannel(1) EXCEPT !.mode = "DIRECT",
                                                                 !.num = buf]],
               buf_free' = buf_free \ {buf}
        PROVE  GoodStep
    BY <1>1, <1>7, <2>2, OpenDirectGood
  <2> QED BY <1>1, <1>7, <2>1, <2>2, Together DEF OpenDirect
<1>8. CASE c \in Channels /\ chan[c].mode = "FREE" /\ c = 0 /\ OpenDirectory(ok)
  <2>1. GoodStep
    BY <1>1, <1>8, OpenDirectoryGood
  <2>2. StatusGood(status')
    BY <1>1, <1>8, SetErrorGood DEF OpenDirectory, Errors
  <2> QED BY <1>1, <1>8, <2>1, <2>2, Together DEF OpenDirectory
<1>9. CASE c \in Channels /\ chan[c].mode = "FREE" /\ OpenFileTs(c, First["$"], ok)
  BY <1>4, <1>5, <1>9, ImageAssumption DEF ImageAssumption
<1>10. CASE OpenFails("NOCHANNEL", ok)
  BY <1>3, <1>10 DEF Errors
<1> QED BY <1>2, <1>6, <1>7, <1>8, <1>9, <1>10 DEF Open, ok

LEMMA ReadGood ==
    ASSUME DriveGood, NEW c, Read(c)
    PROVE  DriveStep
<1>1. ChannelsGood /\ StatusGood(status) /\ status \in Status
  BY DEF DriveGood, StatusGood
<1>2. CASE ReadMessage
  <2>1. StatusGood(SetError(status, "OK"))
    BY <1>1, SetErrorGood
  <2>2. status.left > 1 => StatusGood([status EXCEPT !.left = @ - 1])
    BY <1>1, DriveAssumption DEF StatusGood, Status, DriveAssumption
  <2> QED BY <1>2, <2>1, <2>2, StatusOnly DEF ReadMessage, DriveGood
<1>3. CASE ReadFails(c)
  BY <1>1, <1>3, SetErrorGood, StatusOnly DEF ReadFails, DriveGood, Errors
<1>4. CASE c \in Channels /\ chan[c].mode = "FILE" /\ ReadFile(c)
  BY <1>1, <1>4, ReadFileGood, Together DEF ReadFile, DriveGood
<1>5. CASE c \in Channels /\ chan[c].mode \in {"DIRECTORY", "DIRECT"} /\ ReadBuffer(c)
  BY <1>1, <1>5, ReadBufferGood, Together DEF ReadBuffer, DriveGood
<1> QED BY <1>2, <1>3, <1>4, <1>5 DEF Read

LEMMA WriteGood ==
    ASSUME DriveGood, NEW c, NEW eoi \in BOOLEAN, Write(c, eoi)
    PROVE  DriveStep
<1>1. /\ StatusGood(status) /\ status \in Status /\ cmd_len \in 0 .. CmdMax
      /\ 0 \in 0 .. CmdMax
  BY DriveAssumption DEF DriveGood, StatusGood, DriveAssumption
<1>2. CASE Collect(eoi)
  <2>1. CASE ExecuteCommand(status, 0)
    BY <1>1, <2>1, ExecuteCommandGood
  <2>2. CASE /\ cmd_len < CmdMax /\ cmd_len' = cmd_len + 1
             /\ UNCHANGED <<the_file, chan, buf_free, status>>
    <3>1. cmd_len' \in 0 .. CmdMax
      BY <1>1, <2>2, DriveAssumption DEF DriveAssumption
    <3> QED BY <1>1, <2>2, <3>1, StatusOnly
  <2> QED BY <1>2, <2>1, <2>2 DEF Collect
<1>3. ASSUME NEW error \in Errors, Refuse(error, status, cmd_len) PROVE DriveStep
  BY <1>1, <1>3, RefuseGood
<1> QED BY <1>2, <1>3 DEF Write, Errors

-----------------------------------------------------------------------------
(* The bus *)

\* A drive as its constructor leaves it.
LEMMA NewDriveGood ==
    ASSUME NewDrive(the_file, chan), buf_free = Buffers, status = Startup, cmd_len = 0
    PROVE  DriveGood
<1>1. PICK len \in 0 .. 1 : chan = [c \in Channels |-> Closed(c, len)]
  BY DEF NewDrive
<1>2. \A c \in Channels : ChannelGood(chan[c]) /\ chan[c].mode = "FREE"
  <2>1. len \in Nat /\ \A c \in Channels : chan[c] = Closed(c, len)
    BY <1>1
  <2> QED BY <2>1, ClosedGood
<1>3. chan \in [Channels -> Channel]
  BY <1>1, ClosedGood DEF ChannelGood
<1>4. BuffersOwned
  BY <1>2 DEF BuffersOwned, Direct
<1> QED BY <1>2, <1>3, <1>4, StartupGood, DriveAssumption
        DEF DriveGood, ChannelsGood, NewDrive, DriveAssumption

LEMMA InitIInv == Init => IInv
BY NewDriveGood DEF Init, IInv, BusGood

\* What the bus keeps to itself does not move the drive.
LEMMA DriveKept ==
    ASSUME DriveGood, UNCHANGED driveVars
    PROVE  DriveStep
BY StatusOnly DEF DriveGood, driveVars

\* Every step keeps the invariant and every file in order.
LEMMA NextGood ==
    ASSUME IInv, [Next]_vars
    PROVE  IInv' /\ \A c \in Channels : InOrder(chan[c], chan'[c])
<1> SUFFICES DriveStep /\ BusGood'
  BY DEF IInv, DriveStep
<1>1. DriveGood /\ BusGood
  BY DEF IInv
<1>2. UNCHANGED busVars => BusGood'
  BY <1>1 DEF BusGood, busVars
<1>3. ASSUME NEW device, Listen(device) \/ Talk(device) PROVE DriveStep /\ BusGood'
  BY <1>1, <1>3, DriveKept DEF Listen, Talk, NoCommand, Addressed, BusGood
<1>4. CASE Unlisten \/ Untalk \/ OtherATN
  BY <1>1, <1>4, DriveKept DEF Unlisten, Untalk, OtherATN, NoCommand, BusGood
<1>5. ASSUME NEW channel \in Addresses, NEW command \in {"DATA", "CLOSE", "OPEN"},
             OutSec(command, channel)
      PROVE  DriveStep /\ BusGood'
  BY <1>1, <1>5, DriveKept DEF OutSec, Second, BusGood, Addresses
<1>6. ASSUME NEW channel \in Addresses, SecClose(channel) PROVE DriveStep /\ BusGood'
  <2>1. GoodStep /\ cmd_len' \in {0, cmd_len}
    BY <1>1, <1>6, CloseGood DEF SecClose, DriveGood, Addresses
  <2>2. cmd_len' \in 0 .. CmdMax /\ the_file' \in BOOLEAN
    BY <1>1, <1>6, <2>1, DriveAssumption DEF SecClose, DriveGood, DriveAssumption
  <2>3. StatusGood(status')
    BY <1>1, <1>6 DEF SecClose, DriveGood, StatusGood, Status
  <2>4. BusGood'
    BY <1>1, <1>6 DEF SecClose, Second, BusGood, Addresses
  <2> QED BY <2>1, <2>2, <2>3, <2>4, Together
<1>7. CASE OpenOut
  <2>1. [status EXCEPT !.led = "on"] \in Status
    BY <1>1 DEF DriveGood, StatusGood, Status
  <2> QED BY <1>1, <1>2, <1>7, <2>1, OpenGood DEF OpenOut
<1>8. CASE In
  BY <1>1, <1>2, <1>8, ReadGood DEF In
<1>9. ASSUME NEW eoi \in BOOLEAN, DataOut(eoi) PROVE DriveStep /\ BusGood'
  BY <1>1, <1>2, <1>9, WriteGood DEF DataOut
<1>10. CASE CallDeleted
  BY <1>1, <1>10, DriveKept DEF CallDeleted, BusGood
<1>11. CASE ResetBus
  BY <1>1, <1>2, <1>11, ResetGood DEF ResetBus
<1>12. CASE NewPrefs
  <2>1. DriveGood'
    <3>1. PICK len \in 0 .. 1 : chan' = [c \in Channels |-> Closed(c, len)]
      BY <1>12 DEF NewPrefs, NewDrive
    <3>2. \A c \in Channels : ChannelGood(chan'[c]) /\ chan'[c].mode = "FREE"
      BY <3>1, ClosedGood
    <3>3. chan' \in [Channels -> Channel]
      BY <3>1, ClosedGood DEF ChannelGood
    <3>4. BuffersOwned'
      BY <1>12, <3>2 DEF BuffersOwned, Direct, NewPrefs
    <3>5. /\ buf_free' = Buffers /\ status' = Startup
          /\ cmd_len' \in 0 .. CmdMax /\ the_file' \in BOOLEAN
      <4>1. /\ buf_free' = Buffers /\ status' = Startup
            /\ cmd_len' = 0 /\ the_file' \in BOOLEAN
        BY <1>12 DEF NewPrefs, NewDrive
      <4>2. 0 \in 0 .. CmdMax
        BY DriveAssumption DEF DriveAssumption
      <4> QED BY <4>1, <4>2
    <3> QED BY <3>2, <3>3, <3>4, <3>5, StartupGood DEF DriveGood, ChannelsGood
  <2>2. \A c \in Channels : InOrder(chan[c], chan'[c])
    <3>1. PICK len \in 0 .. 1 : chan' = [c \in Channels |-> Closed(c, len)]
      BY <1>12 DEF NewPrefs, NewDrive
    <3>2. \A c \in Channels : chan'[c].mode = "FREE"
      BY <3>1, ClosedGood
    <3> QED BY <3>2 DEF InOrder
  <2>3. BusGood'
    BY <1>1, <1>12 DEF NewPrefs, Deleted, BusGood
  <2> QED BY <2>1, <2>2, <2>3 DEF DriveStep
<1>13. CASE UNCHANGED vars
  BY <1>1, <1>2, <1>13, DriveKept DEF vars
<1> QED
  BY <1>3, <1>4, <1>5, <1>6, <1>7, <1>8, <1>9, <1>10, <1>11, <1>12, <1>13
     DEF Next, Kernal

-----------------------------------------------------------------------------
(* The theorems *)

\* The invariant holds in every state: for any image, any number of channels and
\* buffers and any sequence of bus commands (IEC.cpp, 1541d64.cpp).
THEOREM DriveInvariant == Spec => []IInv
<1>1. IInv /\ [Next]_vars => IInv'
  BY NextGood
<1> QED BY InitIInv, <1>1, PTL DEF Spec

\* Type correctness; no length becomes negative (D64Drive::Read, buffer_ptr_cmd).
THEOREM DriveTypeOK == Spec => []TypeOK
<1>1. IInv => TypeOK
  BY DEF IInv, DriveGood, BusGood, ChannelsGood, StatusGood, Status, TypeOK
<1> QED BY <1>1, DriveInvariant, PTL

\* No floppy buffer is lost or shared (alloc_buffer, free_buffer, close_all_channels).
THEOREM DriveBuffersOwned == Spec => []BuffersOwned
<1>1. IInv => BuffersOwned
  BY DEF IInv, DriveGood, ChannelsGood
<1> QED BY <1>1, DriveInvariant, PTL

\* What is left to read lies within the buffer (D64Drive::Read, buffer_ptr_cmd).
THEOREM DriveWithinBuffer == Spec => []WithinBuffer
<1>1. IInv => WithinBuffer
  BY DEF IInv, DriveGood, ChannelsGood, ChannelGood, FileGood, DirectGood, WithinBuffer
<1> QED BY <1>1, DriveInvariant, PTL

\* The LED blinks exactly for an unread error (set_error, open_out, sec_listen).
THEOREM DriveLedShowsError == Spec => []LedShowsError
<1>1. IInv => LedShowsError
  BY DEF IInv, DriveGood, StatusGood, LedShowsError
<1> QED BY <1>1, DriveInvariant, PTL

\* Every file is read in the order of its chain and ends where the chain does
\* (D64Drive::Read), whatever happens on other channels and however often a read fails.
THEOREM DriveFileInOrder == Spec => FileInOrder
<1>1. IInv /\ [Next]_vars =>
        [\A c \in Channels :
           chan[c].mode = "FILE" /\ chan'[c].mode = "FILE" /\ chan'[c].last # chan[c].last =>
               /\ ~chan[c].ended
               /\ chan'[c].last = After(chan[c].last)
               /\ chan'[c].ended <=> IsLast(chan'[c].last)]_vars
  BY NextGood DEF InOrder
<1> QED BY <1>1, DriveInvariant, PTL DEF Spec, FileInOrder
=============================================================================
