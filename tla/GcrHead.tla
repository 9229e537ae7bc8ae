------------------------------ MODULE GcrHead ------------------------------
(***************************************************************************)
(* The disk under the head of the emulated 1541: Job1541.  An image is     *)
(* translated into GCR when it is opened, sector by sector; the drive's    *)
(* program reads the GCR under the head, and two patches of its ROM write  *)
(* a sector or a whole track to the image and translate it again.          *)
(*                                                                         *)
(* The tracks, their sectors and the length of a block are small; the      *)
(* encoding is the one of the code.  The gaps are one byte.  What the      *)
(* drive does with the bytes it reads is its program's business; ReadBack  *)
(* is how a disk controller finds a sector.                                *)
(***************************************************************************)
EXTENDS Bytes, SequencesExt

CONSTANTS
    num_sectors,    \* the sectors of each track, a sequence: 35 tracks of 17 to 21
    Blocks,         \* what is written to a sector, sequences of BlockSize bytes
    BlockSize,      \* 256
    IdAt,           \* 162: where the first block of IdTrack holds the ID
    IdTrack,        \* 18
    Disks,          \* the images there are
    NoDisk,         \* a path that names none of them, and the_file == NULL
    FirstPaths,     \* what ThePrefs.DrivePath may be when the program starts
    ReadOnly,       \* the images that can only be opened for reading
    TooShort,       \* the files that are no image
    Image           \* what the images hold at first

Tracks == 1 .. Len(num_sectors)
Sectors(track) == 0 .. num_sectors[track] - 1
Places == {p \in Tracks \X (0 .. 255) : p[2] < num_sectors[p[1]]}

ASSUME GcrAssumption ==
    /\ num_sectors \in Seq(1 .. 21) /\ Len(num_sectors) <= 35 /\ IdTrack \in Tracks
    /\ BlockSize \in Nat /\ BlockSize % 4 = 0 /\ IdAt \in 0 .. BlockSize - 2
    /\ Blocks \subseteq [1 .. BlockSize -> Byte]
    /\ NoDisk \notin Disks /\ FirstPaths \subseteq Disks \cup {NoDisk}
    /\ ReadOnly \subseteq Disks /\ TooShort \subseteq Disks
    /\ Image \in [Disks -> [Places -> [1 .. BlockSize -> Byte]]]

VARIABLES
    content,            \* the images as they are in the file system
    DrivePath,          \* ThePrefs.DrivePath
    Emul1541Proc,       \* ThePrefs.Emul1541Proc
    the_file,           \* the image that is open
    id,                 \* id1 and id2
    gcr_data,           \* the GCR of each sector
    current_halftrack,
    gcr_ptr             \* the distance of the head from gcr_track_start

disk == <<content, the_file, id, gcr_data>>
head == <<current_halftrack, gcr_ptr>>
jobVars == <<disk, head, DrivePath, Emul1541Proc>>

-----------------------------------------------------------------------------
(* Group coded recording *)

gcr_table == <<10, 11, 18, 19, 14, 15, 22, 23, 9, 25, 26, 27, 13, 29, 30, 21>>

\* The ten bits of a byte
Code(byte) == 32 * gcr_table[(byte \div 16) + 1] + gcr_table[(byte % 16) + 1]

\* Four bytes become five
gcr_conv4(b) ==
    LET g == [i \in 1 .. 4 |-> Code(b[i])] IN
    << g[1] \div 4,
       ((g[1] % 4) * 64) + (g[2] \div 16),
       ((g[2] % 16) * 16) + (g[3] \div 64),
       ((g[3] % 64) * 4) + (g[4] \div 256),
       g[4] % 256 >>

Groups(bytes) ==
    LET Group(k) == gcr_conv4(<<bytes[4 * k + 1], bytes[4 * k + 2], bytes[4 * k + 3],
                                bytes[4 * k + 4]>>)
    IN  [i \in 1 .. 5 * (Len(bytes) \div 4) |-> Group((i - 1) \div 5)[((i - 1) % 5) + 1]]

SYNC == 255
Gap == 85

\* The exclusive or of the bytes: the bits that are set in an odd number of them
Checksum(bytes) ==
    FromBits({w \in Weights : Cardinality({i \in DOMAIN bytes : Bit(bytes[i], w) = 1}) % 2 = 1})

Header(track, sector, ids) ==
    <<8, Checksum(<<sector, track, ids[2], ids[1]>>), sector, track, ids[2], ids[1], 15, 15>>

Data(block) == <<7>> \o block \o <<Checksum(block), 0, 0>>

\* sector2gcr: header and data of a sector, each behind a SYNC
Sector2gcr(track, sector, ids, block) ==
    <<SYNC>> \o Groups(Header(track, sector, ids)) \o <<Gap>>
    \o <<SYNC>> \o Groups(Data(block)) \o <<Gap>>

DataSize == 5 * ((BlockSize + 4) \div 4)
SectorSize == 14 + DataSize

\* The GCR buffer is cleared with 0x55
Blank == [p \in Places |-> [i \in 1 .. SectorSize |-> Gap]]

\* disk2gcr
Formatted(image, ids) == [p \in Places |-> Sector2gcr(p[1], p[2], ids, image[p])]

\* Some sectors are translated anew
Translated(image, ids, places) ==
    [p \in Places |-> IF p \in places THEN Sector2gcr(p[1], p[2], ids, image[p])
                      ELSE gcr_data[p]]

\* The ID in the image
IdOf(path) ==
    LET bam == content[path][<<IdTrack, 0>>] IN <<bam[IdAt + 1], bam[IdAt + 2]>>

-----------------------------------------------------------------------------
(* Opening and closing *)

\* open_d64_file: for reading and writing if that can be, else for reading; a
\* file that is too short is closed again
Open(path) ==
    /\ IF path \in Disks \ TooShort
       THEN /\ the_file' = path /\ id' = IdOf(path)
            /\ gcr_data' = Formatted(content[path], id')
       ELSE the_file' = NoDisk /\ gcr_data' = Blank /\ UNCHANGED id
    /\ UNCHANGED content

\* close_d64_file
Close == the_file' = NoDisk /\ UNCHANGED <<content, id, gcr_data>>

\* NewPrefs.  ThePrefs follows when all the parts have been told.
JobNewPrefs(emul, path) ==
    /\ Emul1541Proc' = emul /\ DrivePath' = path
    /\ \/ ~emul /\ Close
       \/ emul /\ (~Emul1541Proc \/ path # DrivePath) /\ Open(path)
       \/ emul /\ Emul1541Proc /\ path = DrivePath /\ UNCHANGED disk
    /\ UNCHANGED head

\* The constructor
JobInit ==
    /\ content = Image
    /\ Emul1541Proc \in BOOLEAN /\ DrivePath \in FirstPaths
    /\ IF Emul1541Proc /\ DrivePath \in Disks \ TooShort
       THEN /\ the_file = DrivePath /\ id = IdOf(DrivePath)
            /\ gcr_data = Formatted(content[the_file], id)
       ELSE the_file = NoDisk /\ id = <<0, 0>> /\ gcr_data = Blank
    /\ current_halftrack = 2 /\ gcr_ptr = 0

-----------------------------------------------------------------------------
(* The two patches of the ROM *)

\* fwrite fails without a word on an image that is open for reading only
Written(places, block) ==
    IF the_file \in ReadOnly THEN content
    ELSE [content EXCEPT ![the_file] =
             [p \in Places |-> IF p \in places THEN block ELSE @[p]]]

\* Broken variant: what was written does not come under the head
WriteSectorUnseen(place, block) ==
    /\ the_file # NoDisk
    /\ content' = Written({place}, block)
    /\ UNCHANGED <<the_file, id, gcr_data, head, DrivePath, Emul1541Proc>>

\* WriteSector, of a sector there is and from a buffer of the drive
WriteSector(place, block) ==
    /\ the_file # NoDisk
    /\ content' = Written({place}, block)
    /\ gcr_data' = Translated(content'[the_file], id, {place})
    /\ UNCHANGED <<the_file, id, head, DrivePath,
                   Emul1541Proc>>

EmptyBlock == [i \in 1 .. BlockSize |-> IF i = 1 THEN 75 ELSE 1]

\* FormatTrack: the new ID, and an empty block in all the sectors of the track.
\* (With no image open the program ends in fseek.)
FormatTrack(track, ids) ==
    LET places == {p \in Places : p[1] = track} IN
    /\ the_file # NoDisk
    /\ content' = Written(places, EmptyBlock)
    /\ id' = ids
    /\ gcr_data' = Translated(content'[the_file], ids, places)
    /\ UNCHANGED <<the_file, head, DrivePath, Emul1541Proc>>

-----------------------------------------------------------------------------
(* The head *)

TrackAt(halftrack) == halftrack \div 2

\* The distance from gcr_track_start to gcr_track_end
TrackLength == SectorSize * num_sectors[TrackAt(current_halftrack)]

\* The byte at this distance from gcr_track_start
ByteAt(p) == gcr_data[<<TrackAt(current_halftrack), p \div SectorSize>>][(p % SectorSize) + 1]

\* MoveHeadOut and MoveHeadIn, between the stops
MoveHead(halftrack) ==
    /\ halftrack \in {current_halftrack - 1, current_halftrack + 1}
    /\ halftrack \in 2 .. 2 * Len(num_sectors)
    /\ current_halftrack' = halftrack /\ gcr_ptr' = 0
    /\ UNCHANGED <<disk, DrivePath, Emul1541Proc>>

\* ReadGCRByte: the disk turns, from gcr_track_end back to gcr_track_start
ReadGCRByte ==
    /\ gcr_ptr' = IF gcr_ptr + 1 = TrackLength THEN 0 ELSE gcr_ptr + 1
    /\ UNCHANGED <<disk, current_halftrack, DrivePath, Emul1541Proc>>

\* The distance from one place to another in the sense of the rotation
Ahead(from, to) == (to + TrackLength - from) % TrackLength

\* SyncFound, again and again until the head is over a SYNC
WaitForSync ==
    LET syncs == {p \in 0 .. TrackLength - 1 : ByteAt(p) = SYNC}
    IN  /\ gcr_ptr' \in syncs
        /\ \A p \in syncs : Ahead(gcr_ptr, gcr_ptr') <= Ahead(gcr_ptr, p)
        /\ UNCHANGED <<disk, current_halftrack, DrivePath, Emul1541Proc>>

-----------------------------------------------------------------------------
(* How a disk controller finds a sector under its head *)

\* The nibbles of the codes; others are no codes
Nibble == [code \in 0 .. 31 |->
    IF \E n \in 1 .. 16 : gcr_table[n] = code
    THEN (CHOOSE n \in 1 .. 16 : gcr_table[n] = code) - 1 ELSE 16]

\* Five bytes are eight codes, which are four bytes
FromGroup(b) ==
    LET n == << Nibble[b[1] \div 8],
                Nibble[((b[1] % 8) * 4) + (b[2] \div 64)],
                Nibble[(b[2] \div 2) % 32],
                Nibble[((b[2] % 2) * 16) + (b[3] \div 16)],
                Nibble[((b[3] % 16) * 2) + (b[4] \div 128)],
                Nibble[(b[4] \div 4) % 32],
                Nibble[((b[4] % 4) * 8) + (b[5] \div 32)],
                Nibble[b[5] % 32] >>
    IN  [i \in 1 .. 4 |-> 16 * n[2 * i - 1] + n[2 * i]]

Decode(bytes) ==
    LET Group(k) == FromGroup(<<bytes[5 * k + 1], bytes[5 * k + 2], bytes[5 * k + 3],
                                bytes[5 * k + 4], bytes[5 * k + 5]>>)
    IN  [i \in 1 .. 4 * (Len(bytes) \div 5) |-> Group((i - 1) \div 4)[((i - 1) % 4) + 1]]

\* What passes under the head when the disk has turned this far, and the n bytes then
Turned(i) == ByteAt((gcr_ptr + i) % TrackLength)
Behind(i, n) == [k \in 1 .. n |-> Turned(i + k)]

\* The next SYNC from there
NextSync(from) ==
    CHOOSE i \in from .. from + TrackLength - 1 :
        Turned(i) = SYNC /\ \A j \in from .. i - 1 : Turned(j) # SYNC

IsHeader(h, track, sector) ==
    h[1] = 8 /\ h[3] = sector /\ h[4] = track /\ h[2] = Checksum(<<h[3], h[4], h[5], h[6]>>)

\* The SYNCs of a revolution that are followed by the header of the sector
Headers(track, sector) ==
    {i \in 0 .. TrackLength - 1 :
        Turned(i) = SYNC /\ IsHeader(Decode(Behind(i, 10)), track, sector)}

\* The sector's block as it is found in the course of a revolution from where the
\* head is: behind the first SYNC with the right header, in what follows the next
ReadBack(track, sector) ==
    LET headers == Headers(track, sector)
        first   == CHOOSE i \in headers : \A j \in headers : i <= j
        start   == NextSync(first + 1)
        data    == Decode(Behind(start, DataSize))
        block   == [i \in 1 .. BlockSize |-> data[i + 1]]
    IN  IF /\ gcr_ptr \in 0 .. TrackLength - 1 /\ headers # {}
           /\ data[1] = 7 /\ data[BlockSize + 2] = Checksum(block)
        THEN block
        ELSE << >>

\* Every sector of the track under the head can be found and holds what the image holds
Readable ==
    the_file # NoDisk =>
        LET track == TrackAt(current_halftrack) IN
        \A sector \in Sectors(track) :
            ReadBack(track, sector) = content[the_file][<<track, sector>>]
=============================================================================
