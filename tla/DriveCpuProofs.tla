--------------------------- MODULE DriveCpuProofs ---------------------------
(***************************************************************************)
(* The drive never sleeps on work, and its bus lines follow its port and   *)
(* ATN, whatever the programs of the drive and the C64, the disks and the  *)
(* snapshots are.                                                          *)
(*                                                                         *)
(* SleepsWithoutWork is not inductive: when opcode $f2 00 sets Idle it     *)
(* looks at the RAM only.  What makes it safe is that an interrupt never   *)
(* waits at an instruction that it may interrupt (NoneWaits): the flag is  *)
(* raised between two lines and handle_int follows, and so it does when    *)
(* the I flag is cleared.                                                  *)
(*                                                                         *)
(* What the head reads is the image: all that passes under it is the       *)
(* translation of the open image (DiskInv), and the head stays on a track  *)
(* (HeadInv).  A group of five bytes holds the four that gcr_conv4 made it *)
(* of, and of its bytes only the third can look like a SYNC; what is       *)
(* behind that cannot be the first byte of a header.  So the search finds  *)
(* the header of each sector, once in a revolution, and behind it the data.*)
(***************************************************************************)
EXTENDS DriveCpu, SequenceTheorems, TLAPS

Booleans ==
    /\ Idle \in BOOLEAN /\ i_flag \in BOOLEAN /\ VIA2IRQ \in BOOLEAN
    /\ RESET \in BOOLEAN /\ work \in BOOLEAN

NoneWaits == VIA2IRQ => i_flag

Wakeful == Idle => ~work

PortBooleans == ddrb \in BOOLEAN /\ ATN \in BOOLEAN /\ settled \in BOOLEAN

\* The lines are those of the port and ATN, once they are settled
Settled == settled => IECLines = Lines(prb, ddrb, ATN)

CpuInv == Booleans /\ NoneWaits /\ Wakeful
PortInv == PortBooleans /\ Settled

-----------------------------------------------------------------------------
(* handle_int and the C64's access to its port *)

LEMMA HandleIntCpu ==
    ASSUME NEW i \in BOOLEAN, NEW irq \in BOOLEAN, NEW idle \in BOOLEAN,
           CpuInv, HandleInt(i, irq, idle), work' = work, idle => ~work
    PROVE  CpuInv'
<1>1. CASE RESET /\ ~(irq /\ ~i)
  <2>1. i_flag' = i /\ VIA2IRQ' = FALSE /\ RESET' = FALSE /\ Idle' = FALSE
    BY <1>1 DEF HandleInt, Reset
  <2>. QED  BY <2>1 DEF CpuInv, Booleans, NoneWaits, Wakeful
<1>2. CASE ~(RESET /\ ~(irq /\ ~i))
  <2>1. i_flag' = (i \/ irq) /\ VIA2IRQ' = irq /\ Idle' = idle /\ RESET' = RESET
    BY <1>2 DEF HandleInt
  <2>. QED  BY <2>1 DEF CpuInv, Booleans, NoneWaits, Wakeful
<1>. QED  BY <1>1, <1>2

LEMMA HandleIntPort ==
    ASSUME NEW i, NEW irq, NEW idle, PortInv, HandleInt(i, irq, idle), ATN' = ATN
    PROVE  PortInv'
<1>1. CASE RESET /\ ~(irq /\ ~i)
  <2>1. ddrb' = FALSE /\ settled' = FALSE
    BY <1>1 DEF HandleInt, Reset
  <2>. QED  BY <2>1 DEF PortInv, PortBooleans, Settled
<1>2. CASE ~(RESET /\ ~(irq /\ ~i))
  BY <1>2 DEF HandleInt, port, PortInv, PortBooleans, Settled
<1>. QED  BY <1>1, <1>2

\* An action that leaves the processor alone
LEMMA CpuUnchanged == ASSUME CpuInv, UNCHANGED <<cpu, work>> PROVE CpuInv'
BY DEF CpuInv, Booleans, NoneWaits, Wakeful, cpu

LEMMA PortUnchanged == ASSUME PortInv, UNCHANGED <<port, ATN>> PROVE PortInv'
BY DEF PortInv, PortBooleans, Settled, port

-----------------------------------------------------------------------------
(* The two invariants *)

LEMMA ExecuteCpu == ASSUME CpuInv, Execute PROVE CpuInv'
<1>1. CASE SetI  BY <1>1 DEF SetI, CpuInv, Booleans, NoneWaits, Wakeful
<1>2. CASE ClearI
  <2>1. HandleInt(FALSE, VIA2IRQ, Idle) /\ work' = work  BY <1>2 DEF ClearI
  <2>. QED  BY <2>1, HandleIntCpu DEF CpuInv, Booleans, Wakeful
<1>3. CASE Sleep  BY <1>3 DEF Sleep, CpuInv, Booleans, NoneWaits, Wakeful
<1>4. CASE WriteRam  BY <1>4 DEF WriteRam, cpu, CpuInv, Booleans, NoneWaits, Wakeful
<1>5. CASE ReadT1  BY <1>5 DEF ReadT1, CpuInv, Booleans, NoneWaits, Wakeful
<1>6. CASE Illegal  BY <1>6 DEF Illegal, Reset, CpuInv, Booleans, NoneWaits, Wakeful
<1>7. CASE WriteRegister
  BY <1>7, CpuUnchanged DEF WriteRegister, WriteControl, WriteT1, WritePort
<1>8. CASE UseDisk  BY <1>8, CpuUnchanged DEF UseDisk
<1>. QED  BY <1>1, <1>2, <1>3, <1>4, <1>5, <1>6, <1>7, <1>8 DEF Execute

LEMMA ExecutePort == ASSUME PortInv, Execute PROVE PortInv'
<1>1. CASE SetI  BY <1>1, PortUnchanged DEF SetI
<1>2. CASE ClearI
  <2>1. HandleInt(FALSE, VIA2IRQ, Idle) /\ ATN' = ATN  BY <1>2 DEF ClearI
  <2>. QED  BY <2>1, HandleIntPort
<1>3. CASE Sleep \/ WriteRam \/ ReadT1
  BY <1>3, PortUnchanged DEF Sleep, WriteRam, ReadT1
<1>4. CASE Illegal  BY <1>4 DEF Illegal, Reset, PortInv, PortBooleans, Settled
<1>5. CASE WriteRegister
  <2>1. ASSUME NEW pulled, NEW output \in BOOLEAN, WritePort(pulled, output)
        PROVE  PortInv'
    BY <2>1 DEF WritePort, PortInv, PortBooleans, Settled
  <2>2. CASE UNCHANGED <<port, ATN>>  BY <2>2, PortUnchanged
  <2>. QED  BY <1>5, <2>1, <2>2 DEF WriteRegister, WriteControl, WriteT1, PortInv, PortBooleans
<1>6. CASE UseDisk  BY <1>6, PortUnchanged DEF UseDisk
<1>. QED  BY <1>1, <1>2, <1>3, <1>4, <1>5, <1>6 DEF Execute

LEMMA CpuInit == Init => CpuInv
BY DEF Init, CpuInv, Booleans, NoneWaits, Wakeful

LEMMA CpuStep == CpuInv /\ [Next]_vars => CpuInv'
<1>. SUFFICES ASSUME CpuInv, [Next]_vars PROVE CpuInv'
  OBVIOUS
<1>1. CASE LineOfC64  BY <1>1, CpuUnchanged DEF LineOfC64
<1>2. CASE LineOfBoth
  <2>1. HandleInt(i_flag, VIA2IRQ \/ Triggers, FALSE) /\ work' = work
    BY <1>2 DEF LineOfBoth
  <2>2. i_flag \in BOOLEAN /\ (VIA2IRQ \/ Triggers) \in BOOLEAN
    BY DEF CpuInv, Booleans
  <2>. HIDE DEF HandleInt, Triggers, CpuInv
  <2>. QED  BY <2>1, <2>2, HandleIntCpu
<1>3. CASE DriveStep  BY <1>3, ExecuteCpu DEF DriveStep
<1>4. CASE C64Step
  <2>1. CASE WriteCia2
    BY <1>4, <2>1 DEF C64Step, WriteCia2, CpuInv, Booleans, NoneWaits, Wakeful
  <2>2. CASE UNCHANGED <<ATN, work, Idle, port>>
    BY <1>4, <2>2 DEF C64Step, CpuInv, Booleans, NoneWaits, Wakeful
  <2>. QED  BY <1>4, <2>1, <2>2 DEF C64Step
<1>5. CASE AsyncReset  BY <1>5 DEF AsyncReset, CpuInv, Booleans, NoneWaits, Wakeful
<1>6. ASSUME NEW emul \in BOOLEAN, NEW path \in Disks \cup {NoDisk}, NewPrefs(emul, path)
      PROVE  CpuInv'
  BY <1>6 DEF NewPrefs, CpuInv, Booleans, NoneWaits, Wakeful
<1>7. ASSUME NEW s \in Saved, LoadSnapshot(s) PROVE CpuInv'
  BY <1>7, SavedAssumption DEF LoadSnapshot, CpuInv, Booleans, NoneWaits, Wakeful
<1>8. ASSUME NEW atn \in BOOLEAN, LoadWithout(atn) PROVE CpuInv'
  BY <1>8, CpuUnchanged DEF LoadWithout
<1>9. CASE UNCHANGED vars  BY <1>9, CpuUnchanged DEF vars
<1>. QED  BY <1>1, <1>2, <1>3, <1>4, <1>5, <1>6, <1>7, <1>8, <1>9 DEF Next, Emulation

\* The drive never sleeps while the C64 calls it, an error is to be shown or an
\* interrupt waits that it would let in
THEOREM SleepsSafely == Spec => []SleepsWithoutWork
<1>1. CpuInv => SleepsWithoutWork
  BY DEF CpuInv, NoneWaits, Wakeful, SleepsWithoutWork
<1>. QED  BY <1>1, CpuInit, CpuStep, PTL DEF Spec

-----------------------------------------------------------------------------

LEMMA PortInit == Init => PortInv
BY DEF Init, PortInv, PortBooleans, Settled

LEMMA PortStep == PortInv /\ [Next]_vars => PortInv'
<1>. SUFFICES ASSUME PortInv, [Next]_vars PROVE PortInv'
  OBVIOUS
<1>1. CASE LineOfC64  BY <1>1, PortUnchanged DEF LineOfC64
<1>2. CASE LineOfBoth
  <2>1. HandleInt(i_flag, VIA2IRQ \/ Triggers, FALSE) /\ ATN' = ATN
    BY <1>2 DEF LineOfBoth
  <2>. HIDE DEF HandleInt, Triggers, PortInv
  <2>. QED  BY <2>1, HandleIntPort
<1>3. CASE DriveStep  BY <1>3, ExecutePort DEF DriveStep
<1>4. CASE C64Step
  <2>1. CASE WriteCia2
    BY <2>1 DEF WriteCia2, PortInv, PortBooleans, Settled
  <2>2. CASE UNCHANGED <<ATN, work, Idle, port>>
    BY <2>2, PortUnchanged
  <2>. QED  BY <1>4, <2>1, <2>2 DEF C64Step
<1>5. CASE AsyncReset  BY <1>5 DEF AsyncReset, PortInv, PortBooleans, Settled
<1>6. ASSUME NEW emul \in BOOLEAN, NEW path \in Disks \cup {NoDisk}, NewPrefs(emul, path)
      PROVE  PortInv'
  BY <1>6, PortUnchanged DEF NewPrefs
<1>7. ASSUME NEW s \in Saved, LoadSnapshot(s) PROVE PortInv'
  BY <1>7, SavedAssumption DEF LoadSnapshot, PortInv, PortBooleans, Settled
<1>8. ASSUME NEW atn \in BOOLEAN, LoadWithout(atn) PROVE PortInv'
  BY <1>8 DEF LoadWithout, PortInv, PortBooleans, Settled
<1>9. CASE UNCHANGED vars  BY <1>9, PortUnchanged DEF vars
<1>. QED  BY <1>1, <1>2, <1>3, <1>4, <1>5, <1>6, <1>7, <1>8, <1>9 DEF Next, Emulation

\* What the drive does to the bus follows its port and ATN
THEOREM BusIsGates == Spec => []BusFollowsAtn
<1>1. PortInv => BusFollowsAtn
  BY DEF PortInv, PortBooleans, Settled, Lines, BusFollowsAtn
<1>. QED  BY <1>1, PortInit, PortStep, PTL DEF Spec

-----------------------------------------------------------------------------
(* Types *)

\* What Reset and HandleInt do to the types
LEMMA ResetType == ASSUME Reset PROVE
    /\ Idle' \in BOOLEAN /\ VIA2IRQ' \in BOOLEAN /\ RESET' \in BOOLEAN
    /\ freerun' \in BOOLEAN /\ ier' \in BOOLEAN /\ ddrb' \in BOOLEAN /\ settled' \in BOOLEAN
    /\ prb' \subseteq {"data", "clk", "atna"} /\ IECLines' \subseteq {"data", "clk"}
BY DEF Reset

LEMMA HandleIntType ==
    ASSUME TypeOK, NEW i \in BOOLEAN, NEW irq \in BOOLEAN, NEW idle \in BOOLEAN,
           HandleInt(i, irq, idle)
    PROVE  /\ Idle' \in BOOLEAN /\ i_flag' \in BOOLEAN /\ VIA2IRQ' \in BOOLEAN /\ RESET' \in BOOLEAN
           /\ freerun' \in BOOLEAN /\ ier' \in BOOLEAN /\ ddrb' \in BOOLEAN /\ settled' \in BOOLEAN
           /\ prb' \subseteq {"data", "clk", "atna"} /\ IECLines' \subseteq {"data", "clk"}
<1>1. CASE RESET /\ ~(irq /\ ~i)  BY <1>1, ResetType DEF HandleInt
<1>2. CASE ~(RESET /\ ~(irq /\ ~i))  BY <1>2 DEF HandleInt, TypeOK, port
<1>. QED  BY <1>1, <1>2

\* A count leaves the timer in its range, whether it underflows or not
LEMMA CountTimerType == ASSUME TypeOK, CountTimer PROVE t1c' \in 0 .. MaxTimer
BY DriveAssumption DEF TypeOK, CountTimer, Underflow

LEMMA ExecuteType ==
    ASSUME TypeOK, Execute, line' \in {"start", "drive", "c64", "rest"}
    PROVE  TypeOK'
<1>1. CASE SetI \/ Sleep \/ WriteRam \/ ReadT1
  BY <1>1 DEF SetI, Sleep, WriteRam, ReadT1, TypeOK, cpu, timer, port, disks
<1>2. CASE ClearI
  <2>1. HandleInt(FALSE, VIA2IRQ, Idle) /\ UNCHANGED <<work, t1c, t1l, ATN, disks>>
    BY <1>2 DEF ClearI
  <2>2. VIA2IRQ \in BOOLEAN /\ Idle \in BOOLEAN  BY DEF TypeOK
  <2>. QED  BY <2>1, <2>2, HandleIntType DEF TypeOK, disks
<1>3. CASE Illegal  BY <1>3, ResetType DEF Illegal, TypeOK, disks
<1>4. CASE WriteRegister
  <2>1. jobs' \in 0 .. MaxJobs  BY <1>4, DriveAssumption DEF WriteRegister, TypeOK
  <2>2. CASE WriteControl  BY <1>4, <2>1, <2>2 DEF WriteControl, TypeOK, cpu, port
  <2>3. ASSUME NEW value \in Latches, NEW start \in BOOLEAN, WriteT1(value, start)
        PROVE  TypeOK'
    BY <2>1, <2>3, DriveAssumption DEF WriteT1, TypeOK, cpu, port
  <2>4. ASSUME NEW pulled \in SUBSET {"data", "clk", "atna"}, NEW output \in BOOLEAN,
               WritePort(pulled, output)
        PROVE  TypeOK'
    BY <2>1, <2>4 DEF WritePort, Lines, TypeOK, cpu, timer
  <2>5. prb \in SUBSET {"data", "clk", "atna"} /\ ddrb \in BOOLEAN
    BY DEF TypeOK
  <2>6. (~ddrb) \in BOOLEAN
    OBVIOUS
  <2>7. ASSUME NEW pulled \in PortValues, WritePort(pulled, ddrb) PROVE TypeOK'
    <3>1. pulled \in SUBSET {"data", "clk", "atna"}  BY DriveAssumption
    <3>. QED  BY <3>1, <2>4, <2>5, <2>7
  <2>8. CASE WritePort(prb, ~ddrb)  BY <2>4, <2>5, <2>6, <2>8
  <2>. HIDE DEF WriteT1, WritePort, WriteControl
  <2>. QED  BY <1>4, <2>2, <2>3, <2>7, <2>8 DEF WriteRegister
<1>5. CASE UseDisk
  BY <1>5, DriveAssumption DEF UseDisk, TypeOK, cpu, timer, port
<1>. QED  BY <1>1, <1>2, <1>3, <1>4, <1>5 DEF Execute

LEMMA TypeInit == Init => TypeOK
<1>. SUFFICES ASSUME Init PROVE TypeOK
  OBVIOUS
<1>1. 0 \in 0 .. MaxTimer /\ 0 \in 0 .. MaxJobs
  BY DriveAssumption
<1>. QED  BY <1>1 DEF Init, TypeOK

LEMMA TypeStep == TypeOK /\ [Next]_vars => TypeOK'
<1>. SUFFICES ASSUME TypeOK, [Next]_vars PROVE TypeOK'
  OBVIOUS
<1>1. CASE LineOfC64
  BY <1>1, CountTimerType DEF LineOfC64, TypeOK, cpu, port, disks
<1>2. CASE LineOfBoth
  <2>1. HandleInt(i_flag, VIA2IRQ \/ Triggers, FALSE) /\ CountTimer /\ line' = "drive"
        /\ UNCHANGED <<work, t1l, ATN, disks>>
    BY <1>2 DEF LineOfBoth
  <2>2. i_flag \in BOOLEAN /\ (VIA2IRQ \/ Triggers) \in BOOLEAN
    BY DEF TypeOK
  <2>. HIDE DEF Triggers
  <2>. QED  BY <2>1, <2>2, HandleIntType, CountTimerType DEF TypeOK, disks
<1>3. CASE DriveStep  BY <1>3, ExecuteType DEF DriveStep
<1>4. CASE C64Step
  BY <1>4 DEF C64Step, WriteCia2, Lines, TypeOK, port, timer, disks
<1>5. CASE AsyncReset
  <2>1. settled' \in BOOLEAN  BY <1>5 DEF AsyncReset
  <2>2. jobs' = jobs /\ line' = line /\ t1c' = t1c /\ t1l' = t1l
        /\ freerun' = freerun /\ ier' = ier
    BY <1>5 DEF AsyncReset, disks, timer
  <2>3. RESET' = TRUE /\ Idle' = FALSE /\ ATN' = TRUE
        /\ UNCHANGED <<i_flag, VIA2IRQ, work, prb, ddrb, IECLines>>
    BY <1>5 DEF AsyncReset
  <2>. QED  BY <2>1, <2>2, <2>3 DEF TypeOK
<1>6. ASSUME NEW emul \in BOOLEAN, NEW path \in Disks \cup {NoDisk}, NewPrefs(emul, path)
      PROVE  TypeOK'
  <2>1. jobs' \in 0 .. MaxJobs
    BY <1>6, DriveAssumption DEF NewPrefs, TypeOK
  <2>. QED  BY <1>6, <2>1 DEF NewPrefs, TypeOK, timer, port
<1>7. ASSUME NEW s \in Saved, LoadSnapshot(s) PROVE TypeOK'
  <2>1. jobs' \in 0 .. MaxJobs
    BY <1>7, DriveAssumption DEF LoadSnapshot, TypeOK
  <2>. QED  BY <1>7, <2>1, SavedAssumption DEF LoadSnapshot, TypeOK
<1>8. ASSUME NEW atn \in BOOLEAN, LoadWithout(atn) PROVE TypeOK'
  <2>1. jobs' \in 0 .. MaxJobs
    BY <1>8, DriveAssumption DEF LoadWithout, TypeOK
  <2>. QED  BY <1>8, <2>1 DEF LoadWithout, TypeOK, cpu, timer
<1>9. CASE UNCHANGED vars
  BY <1>9 DEF vars, TypeOK, cpu, timer, port, disks
<1>. QED  BY <1>1, <1>2, <1>3, <1>4, <1>5, <1>6, <1>7, <1>8, <1>9 DEF Next, Emulation

\* The processor, the timer and the lines stay in their ranges: the timer in sixteen bits
THEOREM DriveTypeOK == Spec => []TypeOK
BY TypeInit, TypeStep, PTL DEF Spec

-----------------------------------------------------------------------------
(* Group coded recording: what is written can be read *)

\* No two nibbles have the same code
LEMMA NibbleOfCode ==
    ASSUME NEW n \in 0 .. 15
    PROVE  gcr_table[n + 1] \in 0 .. 31 /\ Nibble[gcr_table[n + 1]] = n
<1>1. \/ n = 0 \/ n = 1 \/ n = 2 \/ n = 3 \/ n = 4 \/ n = 5 \/ n = 6 \/ n = 7
      \/ n = 8 \/ n = 9 \/ n = 10 \/ n = 11 \/ n = 12 \/ n = 13 \/ n = 14 \/ n = 15
  BY SMT
<1>2. gcr_table[n + 1] \in 0 .. 31
  BY <1>1, SMTT(60) DEF gcr_table
<1>3. \A m \in 1 .. 16 : gcr_table[m] = gcr_table[n + 1] => m = n + 1
  BY <1>1, SMTT(60) DEF gcr_table
<1>. QED  BY <1>2, <1>3 DEF Nibble

LEMMA CodeOfByte ==
    ASSUME NEW b \in Byte
    PROVE  /\ Code(b) \in 0 .. 1023
           /\ Nibble[Code(b) \div 32] = b \div 16 /\ Nibble[Code(b) % 32] = b % 16
           /\ 16 * (b \div 16) + (b % 16) = b
<1>1. b \div 16 \in 0 .. 15 /\ b % 16 \in 0 .. 15 /\ 16 * (b \div 16) + (b % 16) = b
  BY SMT DEF Byte
<1>2. \A hi \in 0 .. 31, lo \in 0 .. 31 :
         32 * hi + lo \in 0 .. 1023 /\ (32 * hi + lo) \div 32 = hi /\ (32 * hi + lo) % 32 = lo
  BY SMTT(60)
<1>. DEFINE h == gcr_table[(b \div 16) + 1]
            l == gcr_table[(b % 16) + 1]
<1>3. h \in 0 .. 31 /\ Nibble[h] = b \div 16 /\ l \in 0 .. 31 /\ Nibble[l] = b % 16
  BY <1>1, NibbleOfCode
<1>4. Code(b) = 32 * h + l
  BY DEF Code
<1>. HIDE DEF h, l
<1>5. Code(b) \in 0 .. 1023 /\ Code(b) \div 32 = h /\ Code(b) % 32 = l
  BY <1>2, <1>3, <1>4
<1>. QED  BY <1>1, <1>3, <1>5

\* The five bytes that gcr_conv4 makes of four hold just these four, whatever they are
THEOREM GroupsReadBack == \A b \in [1 .. 4 -> Byte] : FromGroup(gcr_conv4(b)) = b
<1>. SUFFICES ASSUME NEW b \in [1 .. 4 -> Byte] PROVE FromGroup(gcr_conv4(b)) = b
  OBVIOUS
<1>1. \A i \in 1 .. 4 :
         /\ Code(b[i]) \in 0 .. 1023
         /\ Nibble[Code(b[i]) \div 32] = b[i] \div 16 /\ Nibble[Code(b[i]) % 32] = b[i] % 16
         /\ 16 * (b[i] \div 16) + (b[i] % 16) = b[i]
  BY CodeOfByte
<1>. DEFINE g == [i \in 1 .. 4 |-> Code(b[i])]
            c == gcr_conv4(b)
<1>2. /\ g[1] \in 0 .. 1023 /\ g[2] \in 0 .. 1023 /\ g[3] \in 0 .. 1023 /\ g[4] \in 0 .. 1023
      /\ g[1] = Code(b[1]) /\ g[2] = Code(b[2]) /\ g[3] = Code(b[3]) /\ g[4] = Code(b[4])
  BY <1>1
<1>3. /\ c[1] = g[1] \div 4
      /\ c[2] = ((g[1] % 4) * 64) + (g[2] \div 16)
      /\ c[3] = ((g[2] % 16) * 16) + (g[3] \div 64)
      /\ c[4] = ((g[3] % 64) * 4) + (g[4] \div 256)
      /\ c[5] = g[4] % 256
  BY DEF gcr_conv4
<1>. HIDE DEF g, c
<1>4. /\ c[1] \div 8 = g[1] \div 32
      /\ ((c[1] % 8) * 4) + (c[2] \div 64) = g[1] % 32
      /\ (c[2] \div 2) % 32 = g[2] \div 32
      /\ ((c[2] % 2) * 16) + (c[3] \div 16) = g[2] % 32
      /\ ((c[3] % 16) * 2) + (c[4] \div 128) = g[3] \div 32
      /\ (c[4] \div 4) % 32 = g[3] % 32
      /\ ((c[4] % 4) * 8) + (c[5] \div 32) = g[4] \div 32
      /\ c[5] % 32 = g[4] % 32
  <2>. USE <1>2, <1>3
  <2>1. c[1] \div 8 = g[1] \div 32
    BY SMTT(60)
  <2>2. ((c[1] % 8) * 4) + (c[2] \div 64) = g[1] % 32
    BY SMTT(60)
  <2>3. (c[2] \div 2) % 32 = g[2] \div 32
    BY SMTT(60)
  <2>4. ((c[2] % 2) * 16) + (c[3] \div 16) = g[2] % 32
    BY SMTT(60)
  <2>5. ((c[3] % 16) * 2) + (c[4] \div 128) = g[3] \div 32
    BY SMTT(60)
  <2>6. (c[4] \div 4) % 32 = g[3] % 32
    BY SMTT(60)
  <2>7. ((c[4] % 4) * 8) + (c[5] \div 32) = g[4] \div 32
    BY SMTT(60)
  <2>8. c[5] % 32 = g[4] % 32
    BY SMTT(60)
  <2>. QED  BY <2>1, <2>2, <2>3, <2>4, <2>5, <2>6, <2>7, <2>8, Zenon
<1>5. FromGroup(c) = [i \in 1 .. 4 |-> b[i]]
  <2>. DEFINE n == << Nibble[c[1] \div 8],
                      Nibble[((c[1] % 8) * 4) + (c[2] \div 64)],
                      Nibble[(c[2] \div 2) % 32],
                      Nibble[((c[2] % 2) * 16) + (c[3] \div 16)],
                      Nibble[((c[3] % 16) * 2) + (c[4] \div 128)],
                      Nibble[(c[4] \div 4) % 32],
                      Nibble[((c[4] % 4) * 8) + (c[5] \div 32)],
                      Nibble[c[5] % 32] >>
  <2>1. /\ Nibble[g[1] \div 32] = b[1] \div 16 /\ Nibble[g[1] % 32] = b[1] % 16
        /\ Nibble[g[2] \div 32] = b[2] \div 16 /\ Nibble[g[2] % 32] = b[2] % 16
        /\ Nibble[g[3] \div 32] = b[3] \div 16 /\ Nibble[g[3] % 32] = b[3] % 16
        /\ Nibble[g[4] \div 32] = b[4] \div 16 /\ Nibble[g[4] % 32] = b[4] % 16
    BY <1>1, <1>2
  <2>2. n = << b[1] \div 16, b[1] % 16, b[2] \div 16, b[2] % 16,
               b[3] \div 16, b[3] % 16, b[4] \div 16, b[4] % 16 >>
    BY <1>4, <2>1
  <2>3. /\ 16 * n[1] + n[2] = b[1] /\ 16 * n[3] + n[4] = b[2]
        /\ 16 * n[5] + n[6] = b[3] /\ 16 * n[7] + n[8] = b[4]
    BY <1>1, <2>2
  <2>4. FromGroup(c) = [i \in 1 .. 4 |-> 16 * n[2 * i - 1] + n[2 * i]]
    BY DEF FromGroup
  <2>. HIDE DEF n
  <2>5. \A i \in 1 .. 4 : 16 * n[2 * i - 1] + n[2 * i] = b[i]
    BY <2>3
  <2>. QED  BY <2>4, <2>5
<1>. QED  BY <1>5 DEF c

-----------------------------------------------------------------------------
(* The disk under the head *)

\* A sector on the disk is the translation of what the image holds: with the ID that
\* the image had when it was opened, or that of the formatting of its track
OnDisk(p) ==
    \E ids \in Byte \X Byte :
        gcr_data[p] = Sector2gcr(p[1], p[2], ids, content[the_file][p])

Block == [1 .. BlockSize -> Byte]

FileInv ==
    /\ content \in [Disks -> [Places -> Block]] /\ id \in Byte \X Byte
    /\ the_file \in Disks \cup {NoDisk}

HeadOverImage == the_file # NoDisk => \A p \in Places : OnDisk(p)

DiskInv == FileInv /\ HeadOverImage

LEMMA DiskUnchanged == ASSUME DiskInv, UNCHANGED disk PROVE DiskInv'
BY DEF disk, DiskInv, FileInv, HeadOverImage, OnDisk

\* The ID of an image is two bytes of its first block
LEMMA IdIs ==
    ASSUME content \in [Disks -> [Places -> Block]], NEW path \in Disks
    PROVE  IdOf(path) \in Byte \X Byte
<1>1. <<IdTrack, 0>> \in Places
  <2>1. IdTrack \in 1 .. Len(num_sectors) /\ num_sectors \in Seq(1 .. 21)
    BY GcrAssumption, Zenon DEF Tracks
  <2>2. num_sectors[IdTrack] \in 1 .. 21
    BY <2>1, ElementOfSeq
  <2>3. 0 \in 0 .. 255
    OBVIOUS
  <2>. QED  BY <2>1, <2>2, <2>3 DEF Places, Tracks
<1>2. content[path][<<IdTrack, 0>>] \in Block
  BY <1>1
<1>3. IdAt + 1 \in 1 .. BlockSize /\ IdAt + 2 \in 1 .. BlockSize
  BY GcrAssumption
<1>. QED  BY <1>2, <1>3 DEF Block, IdOf

\* open_d64_file translates the whole image
LEMMA OpensOnDisk ==
    ASSUME FileInv, NEW path \in Disks \cup {NoDisk}, Open(path)
    PROVE  DiskInv'
<1>1. CASE path \in Disks \ TooShort
  <2>1. /\ the_file' = path /\ id' = IdOf(path) /\ UNCHANGED content
        /\ gcr_data' = [p \in Places |-> Sector2gcr(p[1], p[2], id', content[path][p])]
    BY <1>1 DEF Open, Formatted
  <2>2. id' \in Byte \X Byte
    BY <1>1, <2>1, IdIs DEF FileInv
  <2>3. \A p \in Places : OnDisk(p)'
    BY <2>1, <2>2 DEF OnDisk
  <2>. QED  BY <1>1, <2>1, <2>2, <2>3 DEF DiskInv, FileInv, HeadOverImage
<1>2. CASE path \notin Disks \ TooShort
  BY <1>2 DEF Open, DiskInv, FileInv, HeadOverImage
<1>. QED  BY <1>1, <1>2

LEMMA NewPrefsOnDisk ==
    ASSUME DiskInv, NEW emul \in BOOLEAN, NEW path \in Disks \cup {NoDisk}, JobNewPrefs(emul, path)
    PROVE  DiskInv'
<1>1. CASE Close
  BY <1>1 DEF Close, DiskInv, FileInv, HeadOverImage
<1>2. CASE Open(path)
  BY <1>2, OpensOnDisk DEF DiskInv
<1>3. CASE UNCHANGED disk
  BY <1>3, DiskUnchanged
<1>. QED  BY <1>1, <1>2, <1>3 DEF JobNewPrefs

\* The patches of the ROM translate what they have written, and no more: elsewhere
\* neither the image nor the disk changes
LEMMA WritesOnDisk ==
    ASSUME DiskInv, NEW places \in SUBSET Places, NEW block \in Block, NEW ids \in Byte \X Byte,
           the_file # NoDisk, UNCHANGED the_file, content' = Written(places, block),
           gcr_data' = Translated(content'[the_file], ids, places), id' \in Byte \X Byte
    PROVE  DiskInv'
<1>1. the_file \in Disks /\ content \in [Disks -> [Places -> Block]]
  BY DEF DiskInv, FileInv
<1>2. /\ content' \in [Disks -> [Places -> Block]]
      /\ \A p \in Places \ places : content'[the_file][p] = content[the_file][p]
  <2>1. CASE the_file \in ReadOnly
    BY <1>1, <2>1 DEF Written
  <2>2. CASE the_file \notin ReadOnly
    <3>. DEFINE new == [p \in Places |-> IF p \in places THEN block ELSE content[the_file][p]]
    <3>1. new \in [Places -> Block] /\ \A p \in Places \ places : new[p] = content[the_file][p]
      BY <1>1
    <3>2. content' = [content EXCEPT ![the_file] = new]
      BY <2>2 DEF Written
    <3>. HIDE DEF new
    <3>. QED  BY <1>1, <3>1, <3>2
  <2>. QED  BY <2>1, <2>2
<1>3. \A p \in Places :
         gcr_data'[p] = IF p \in places THEN Sector2gcr(p[1], p[2], ids, content'[the_file][p])
                        ELSE gcr_data[p]
  BY DEF Translated
<1>4. \A p \in places : OnDisk(p)'
  BY <1>3 DEF OnDisk
<1>5. \A p \in Places \ places : OnDisk(p)'
  BY <1>2, <1>3 DEF OnDisk, DiskInv, HeadOverImage
<1>. QED  BY <1>1, <1>2, <1>4, <1>5 DEF DiskInv, FileInv, HeadOverImage

LEMMA UseDiskOnDisk == ASSUME DiskInv, UseDisk PROVE DiskInv'
<1>1. ASSUME NEW place \in Places, NEW block \in Blocks, WriteSector(place, block)
      PROVE  DiskInv'
  <2>1. {place} \in SUBSET Places /\ block \in Block /\ id \in Byte \X Byte
    BY GcrAssumption DEF Block, DiskInv, FileInv
  <2>. QED  BY <1>1, <2>1, WritesOnDisk DEF WriteSector
<1>2. ASSUME NEW track \in Tracks, NEW ids \in Ids, FormatTrack(track, ids)
      PROVE  DiskInv'
  <2>. DEFINE places == {p \in Places : p[1] = track}
  <2>1. places \in SUBSET Places /\ ids \in Byte \X Byte
    BY DriveAssumption
  <2>2. EmptyBlock \in Block
    BY DEF EmptyBlock, Block, Byte
  <2>. QED  BY <1>2, <2>1, <2>2, WritesOnDisk DEF FormatTrack
<1>3. ASSUME NEW halftrack, MoveHead(halftrack) PROVE DiskInv'
  BY <1>3, DiskUnchanged DEF MoveHead
<1>4. CASE ReadGCRByte \/ WaitForSync
  BY <1>4, DiskUnchanged DEF ReadGCRByte, WaitForSync
<1>. QED  BY <1>1, <1>2, <1>3, <1>4 DEF UseDisk

LEMMA ExecuteOnDisk == ASSUME DiskInv, Execute PROVE DiskInv'
<1>1. CASE UseDisk
  BY <1>1, UseDiskOnDisk
<1>2. CASE SetI \/ ClearI \/ Sleep \/ WriteRam \/ ReadT1 \/ Illegal \/ WriteRegister
  BY <1>2, DiskUnchanged DEF SetI, ClearI, Sleep, WriteRam, ReadT1, Illegal, WriteRegister,
     WriteControl, WriteT1, WritePort, disks, jobVars
<1>. QED  BY <1>1, <1>2 DEF Execute

LEMMA InitOnDisk == Init => DiskInv
<1>. SUFFICES ASSUME JobInit PROVE DiskInv
  BY DEF Init
<1>1. content \in [Disks -> [Places -> Block]]
  BY GcrAssumption DEF JobInit, Block
<1>2. CASE Emul1541Proc /\ DrivePath \in Disks \ TooShort
  <2>1. /\ the_file = DrivePath /\ id = IdOf(DrivePath)
        /\ gcr_data = [p \in Places |-> Sector2gcr(p[1], p[2], id, content[the_file][p])]
    BY <1>2 DEF JobInit, Formatted
  <2>2. id \in Byte \X Byte
    BY <1>1, <1>2, <2>1, IdIs
  <2>3. \A p \in Places : OnDisk(p)
    BY <2>1, <2>2 DEF OnDisk
  <2>. QED  BY <1>1, <1>2, <2>1, <2>2, <2>3 DEF DiskInv, FileInv, HeadOverImage
<1>3. CASE ~(Emul1541Proc /\ DrivePath \in Disks \ TooShort)
  <2>1. the_file = NoDisk /\ id = <<0, 0>>
    BY <1>3 DEF JobInit
  <2>2. 0 \in Byte
    BY DEF Byte
  <2>. QED  BY <1>1, <2>1, <2>2 DEF DiskInv, FileInv, HeadOverImage
<1>. QED  BY <1>2, <1>3

LEMMA NextOnDisk == DiskInv /\ [Next]_vars => DiskInv'
<1>. SUFFICES ASSUME DiskInv, [Next]_vars PROVE DiskInv'
  OBVIOUS
<1>1. CASE LineOfC64 \/ LineOfBoth \/ C64Step \/ AsyncReset
  BY <1>1, DiskUnchanged DEF LineOfC64, LineOfBoth, C64Step, AsyncReset, disks, jobVars
<1>2. CASE DriveStep
  BY <1>2, ExecuteOnDisk DEF DriveStep
<1>3. ASSUME NEW emul \in BOOLEAN, NEW path \in Disks \cup {NoDisk}, NewPrefs(emul, path)
      PROVE  DiskInv'
  BY <1>3, NewPrefsOnDisk DEF NewPrefs
<1>4. ASSUME NEW s \in Saved, LoadSnapshot(s) PROVE DiskInv'
  BY <1>4, DiskUnchanged DEF LoadSnapshot, disk
<1>5. ASSUME NEW atn \in BOOLEAN, LoadWithout(atn) PROVE DiskInv'
  <2>1. CASE Close
    BY <2>1 DEF Close, DiskInv, FileInv, HeadOverImage
  <2>2. CASE UNCHANGED disk
    BY <2>2, DiskUnchanged
  <2>. QED  BY <1>5, <2>1, <2>2 DEF LoadWithout
<1>6. CASE UNCHANGED vars
  BY <1>6, DiskUnchanged DEF vars, disks, jobVars
<1>. QED  BY <1>1, <1>2, <1>3, <1>4, <1>5, <1>6 DEF Next, Emulation

\* Whatever is opened, closed, written, formatted, preferred and loaded, in any
\* order, and although a snapshot forgets the path of the open image: what passes
\* under the head is the translation of the image that is open, in all its sectors
THEOREM DiskIsImage == Spec => []HeadOverImage
<1>1. DiskInv => HeadOverImage
  BY DEF DiskInv
<1>. QED  BY <1>1, InitOnDisk, NextOnDisk, PTL DEF Spec

-----------------------------------------------------------------------------
(* A group of five bytes has a byte 0xff only in its middle *)

\* No code begins or ends with five bits set, and a nibble 14 is the only one that
\* begins with four
LEMMA CodeOfNibble ==
    ASSUME NEW n \in 0 .. 15
    PROVE  /\ gcr_table[n + 1] \in 9 .. 30
           /\ gcr_table[n + 1] = 30 => n = 14
           /\ gcr_table[n + 1] = 10 => n = 0
           /\ gcr_table[n + 1] = 9 => n = 8
           /\ gcr_table[n + 1] # 20
<1>1. \/ n = 0 \/ n = 1 \/ n = 2 \/ n = 3 \/ n = 4 \/ n = 5 \/ n = 6 \/ n = 7
      \/ n = 8 \/ n = 9 \/ n = 10 \/ n = 11 \/ n = 12 \/ n = 13 \/ n = 14 \/ n = 15
  BY SMT
<1>. QED  BY <1>1, SMTT(60) DEF gcr_table

\* The ten bits of a byte, as the codes of its nibbles
LEMMA CodeParts ==
    ASSUME NEW b \in Byte
    PROVE  \E h \in 9 .. 30, l \in 9 .. 30 :
              /\ Code(b) = 32 * h + l /\ l # 20
              /\ h = 30 => b \div 16 = 14
<1>1. b \div 16 \in 0 .. 15 /\ b % 16 \in 0 .. 15
  BY SMT DEF Byte
<1>. DEFINE h == gcr_table[(b \div 16) + 1]
            l == gcr_table[(b % 16) + 1]
<1>2. h \in 9 .. 30 /\ l \in 9 .. 30 /\ l # 20 /\ (h = 30 => b \div 16 = 14)
  BY <1>1, CodeOfNibble
<1>3. Code(b) = 32 * h + l
  BY DEF Code
<1>. HIDE DEF h, l
<1>. QED  BY <1>2, <1>3

\* The nibbles that the first byte of a header has
LEMMA NibbleIs ==
    ASSUME NEW code \in 0 .. 31
    PROVE  /\ Nibble[code] \in 0 .. 16
           /\ Nibble[code] = 0 => code = 10
           /\ Nibble[code] = 8 => code = 9
<1>. DEFINE n == CHOOSE m \in 1 .. 16 : gcr_table[m] = code
<1>1. CASE \E m \in 1 .. 16 : gcr_table[m] = code
  <2>1. n \in 1 .. 16 /\ gcr_table[n] = code
    BY <1>1
  <2>2. Nibble[code] = n - 1
    BY <1>1 DEF Nibble
  <2>. HIDE DEF n
  <2>3. n = 1 => gcr_table[n] = 10
    BY DEF gcr_table
  <2>4. n = 9 => gcr_table[n] = 9
    BY DEF gcr_table
  <2>. QED  BY <2>1, <2>2, <2>3, <2>4
<1>2. CASE ~ \E m \in 1 .. 16 : gcr_table[m] = code
  <2>1. Nibble[code] = 16
    BY <1>2 DEF Nibble
  <2>. QED  BY <2>1
<1>. QED  BY <1>1, <1>2

\* Only the third of the five bytes can be taken for a SYNC, and what comes behind it
\* is then not the first byte of a header
LEMMA GroupBytes ==
    ASSUME NEW b \in [1 .. 4 -> Byte]
    PROVE  LET c == gcr_conv4(b) IN
           /\ \A j \in 1 .. 5 : c[j] \in Byte
           /\ c[1] # SYNC /\ c[2] # SYNC /\ c[4] # SYNC /\ c[5] # SYNC
           /\ c[3] = SYNC => b[3] \div 16 = 14 /\ ~(c[4] \div 8 = 10 /\ ((c[4] % 8) * 4) + (c[5] \div 64) = 9)
<1>. DEFINE g == [i \in 1 .. 4 |-> Code(b[i])]
            c == gcr_conv4(b)
<1>1. PICK h1 \in 9 .. 30, l1 \in 9 .. 30 : g[1] = 32 * h1 + l1
  BY CodeParts
<1>2. PICK h2 \in 9 .. 30, l2 \in 9 .. 30 : g[2] = 32 * h2 + l2
  BY CodeParts
<1>3. PICK h3 \in 9 .. 30, l3 \in 9 .. 30 :
         g[3] = 32 * h3 + l3 /\ l3 # 20 /\ (h3 = 30 => b[3] \div 16 = 14)
  BY CodeParts
<1>4. PICK h4 \in 9 .. 30, l4 \in 9 .. 30 : g[4] = 32 * h4 + l4
  BY CodeParts
<1>5. /\ c[1] = g[1] \div 4
      /\ c[2] = ((g[1] % 4) * 64) + (g[2] \div 16)
      /\ c[3] = ((g[2] % 16) * 16) + (g[3] \div 64)
      /\ c[4] = ((g[3] % 64) * 4) + (g[4] \div 256)
      /\ c[5] = g[4] % 256
  BY DEF gcr_conv4
<1>. HIDE DEF g, c
<1>6. c[1] \in 0 .. 254
  BY <1>1, <1>5, SMTT(60)
<1>7. c[2] \in 0 .. 254
  BY <1>1, <1>2, <1>5, SMTT(60)
<1>8. c[3] \in 0 .. 255 /\ (c[3] = 255 => h3 = 30)
  BY <1>2, <1>3, <1>5, SMTT(60)
<1>9. c[4] \in 0 .. 254
  BY <1>3, <1>4, <1>5, SMTT(60)
<1>10. c[5] \in 0 .. 254
  BY <1>4, <1>5, SMTT(60)
<1>11. h3 = 30 => ~(c[4] \div 8 = 10 /\ ((c[4] % 8) * 4) + (c[5] \div 64) = 9)
  <2>. SUFFICES ASSUME h3 = 30, c[4] \div 8 = 10, ((c[4] % 8) * 4) + (c[5] \div 64) = 9
                PROVE  FALSE
    OBVIOUS
  <2>1. g[3] % 64 = l3
    BY <1>3, SMTT(60)
  <2>2. g[4] \div 256 \in 0 .. 3
    BY <1>4, SMTT(60)
  <2>3. c[4] = l3 * 4 + (g[4] \div 256)
    BY <1>5, <2>1
  <2>4. l3 \div 2 = 10
    BY <1>3, <2>2, <2>3, SMTT(60)
  <2>5. l3 = 21
    BY <1>3, <2>4
  <2>6. c[4] % 8 >= 4
    BY <2>2, <2>3, <2>5, SMTT(60)
  <2>7. c[5] \div 64 >= 0
    BY <1>10, SMTT(60)
  <2>. QED  BY <2>6, <2>7, <1>9, <1>10, SMTT(60)
<1>. QED  BY <1>3, <1>6, <1>7, <1>8, <1>9, <1>10, <1>11 DEF Byte, SYNC, c

-----------------------------------------------------------------------------
(* Whole runs of groups *)

\* The place of a byte in its group
LEMMA InGroup ==
    ASSUME NEW n \in Nat, NEW size \in {4, 5}, NEW i \in 1 .. size * n
    PROVE  /\ (i - 1) \div size \in 0 .. n - 1
           /\ ((i - 1) % size) + 1 \in 1 .. size
           /\ size * ((i - 1) \div size) + (((i - 1) % size) + 1) = i
<1>1. CASE size = 4
  BY <1>1, SMTT(60)
<1>2. CASE size = 5
  BY <1>2, SMTT(60)
<1>. QED  BY <1>1, <1>2

LEMMA GroupPlace ==
    ASSUME NEW size \in {4, 5}, NEW k \in Nat, NEW j \in 1 .. size
    PROVE  /\ (size * k + j - 1) \div size = k
           /\ ((size * k + j - 1) % size) + 1 = j
<1>1. CASE size = 4
  BY <1>1, SMTT(60)
<1>2. CASE size = 5
  BY <1>2, SMTT(60)
<1>. QED  BY <1>1, <1>2

LEMMA LenIs ==
    ASSUME NEW n \in Nat, NEW S, NEW f \in [1 .. n -> S]
    PROVE  f \in Seq(S) /\ Len(f) = n /\ DOMAIN f = 1 .. n
BY SMT

\* The four bytes that a group is made of
Four(bytes, k) == <<bytes[4 * k + 1], bytes[4 * k + 2], bytes[4 * k + 3], bytes[4 * k + 4]>>

LEMMA FourBytes ==
    ASSUME NEW n \in Nat, NEW x \in [1 .. 4 * n -> Byte], NEW k \in 0 .. n - 1
    PROVE  /\ Four(x, k) \in [1 .. 4 -> Byte]
           /\ \A j \in 1 .. 4 : Four(x, k)[j] = x[4 * k + j]
<1>1. 4 * k + 1 \in 1 .. 4 * n /\ 4 * k + 2 \in 1 .. 4 * n
      /\ 4 * k + 3 \in 1 .. 4 * n /\ 4 * k + 4 \in 1 .. 4 * n
  OBVIOUS
<1>2. x[4 * k + 1] \in Byte /\ x[4 * k + 2] \in Byte /\ x[4 * k + 3] \in Byte /\ x[4 * k + 4] \in Byte
  BY <1>1
<1>. QED  BY <1>2 DEF Four

LEMMA GroupsAre ==
    ASSUME NEW n \in Nat, NEW x \in [1 .. 4 * n -> Byte]
    PROVE  /\ Groups(x) \in [1 .. 5 * n -> Byte]
           /\ \A k \in 0 .. n - 1, j \in 1 .. 5 : Groups(x)[5 * k + j] = gcr_conv4(Four(x, k))[j]
<1>1. Len(x) = 4 * n /\ Len(x) \div 4 = n
  <2>1. Len(x) = 4 * n
    BY LenIs, 4 * n \in Nat
  <2>2. (4 * n) \div 4 = n
    BY SMT
  <2>. QED  BY <2>1, <2>2
<1>2. Groups(x) = [i \in 1 .. 5 * n |-> gcr_conv4(Four(x, (i - 1) \div 5))[((i - 1) % 5) + 1]]
  BY <1>1 DEF Groups, Four
<1>3. ASSUME NEW i \in 1 .. 5 * n
      PROVE  gcr_conv4(Four(x, (i - 1) \div 5))[((i - 1) % 5) + 1] \in Byte
  <2>1. (i - 1) \div 5 \in 0 .. n - 1 /\ ((i - 1) % 5) + 1 \in 1 .. 5
    BY InGroup
  <2>. QED  BY <2>1, FourBytes, GroupBytes
<1>4. ASSUME NEW k \in 0 .. n - 1, NEW j \in 1 .. 5
      PROVE  Groups(x)[5 * k + j] = gcr_conv4(Four(x, k))[j]
  <2>1. 5 * k + j \in 1 .. 5 * n
    OBVIOUS
  <2>2. (5 * k + j - 1) \div 5 = k /\ ((5 * k + j - 1) % 5) + 1 = j
    BY GroupPlace
  <2>. QED  BY <1>2, <2>1, <2>2
<1>. QED  BY <1>2, <1>3, <1>4

\* What Decode finds at a place of a run of groups depends on the five bytes there
LEMMA DecodeIs ==
    ASSUME NEW n \in Nat, NEW S, NEW y \in [1 .. 5 * n -> S], NEW i \in 1 .. 4 * n
    PROVE  LET k == (i - 1) \div 4 IN
           Decode(y)[i] = FromGroup(<<y[5 * k + 1], y[5 * k + 2], y[5 * k + 3],
                                      y[5 * k + 4], y[5 * k + 5]>>)[((i - 1) % 4) + 1]
<1>1. Len(y) \div 5 = n
  <2>1. Len(y) = 5 * n
    BY LenIs, 5 * n \in Nat
  <2>2. (5 * n) \div 5 = n
    BY SMT
  <2>. QED  BY <2>1, <2>2
<1>. QED  BY <1>1 DEF Decode

LEMMA DecodeDomain ==
    ASSUME NEW n \in Nat, NEW S, NEW y \in [1 .. 5 * n -> S]
    PROVE  \E e : Decode(y) = [i \in 1 .. 4 * n |-> e[i]]
<1>1. Len(y) \div 5 = n
  <2>1. Len(y) = 5 * n
    BY LenIs, 5 * n \in Nat
  <2>2. (5 * n) \div 5 = n
    BY SMT
  <2>. QED  BY <2>1, <2>2
<1>2. Decode(y) = [i \in 1 .. 4 * n |-> Decode(y)[i]]
  BY <1>1 DEF Decode
<1>. QED  BY <1>2

\* What is written as groups is read back, however long it is
THEOREM DecodesGroups ==
    ASSUME NEW n \in Nat, NEW x \in [1 .. 4 * n -> Byte]
    PROVE  Decode(Groups(x)) = x
<1>. DEFINE y == Groups(x)
<1>1. y \in [1 .. 5 * n -> Byte]
  BY GroupsAre
<1>2. ASSUME NEW i \in 1 .. 4 * n PROVE Decode(y)[i] = x[i]
  <2>. DEFINE k == (i - 1) \div 4
              j == ((i - 1) % 4) + 1
  <2>1. k \in 0 .. n - 1 /\ j \in 1 .. 4 /\ 4 * k + j = i
    BY InGroup
  <2>. HIDE DEF k, j, y
  <2>2. Decode(y)[i] = FromGroup(<<y[5 * k + 1], y[5 * k + 2], y[5 * k + 3],
                                   y[5 * k + 4], y[5 * k + 5]>>)[j]
    BY <1>1, DecodeIs DEF k, j
  <2>3. <<y[5 * k + 1], y[5 * k + 2], y[5 * k + 3], y[5 * k + 4], y[5 * k + 5]>>
           = gcr_conv4(Four(x, k))
    <3>. DEFINE c == gcr_conv4(Four(x, k))
    <3>1. y[5 * k + 1] = c[1] /\ y[5 * k + 2] = c[2] /\ y[5 * k + 3] = c[3]
          /\ y[5 * k + 4] = c[4] /\ y[5 * k + 5] = c[5]
      BY <2>1, GroupsAre DEF y
    <3>2. c = <<c[1], c[2], c[3], c[4], c[5]>>
      BY DEF gcr_conv4
    <3>. HIDE DEF c
    <3>. QED  BY <3>1, <3>2 DEF c
  <2>4. FromGroup(gcr_conv4(Four(x, k))) = Four(x, k)
    BY <2>1, FourBytes, GroupsReadBack
  <2>. QED  BY <2>1, <2>2, <2>3, <2>4, FourBytes
<1>. HIDE DEF y
<1>3. PICK e : Decode(y) = [i \in 1 .. 4 * n |-> e[i]]
  BY <1>1, DecodeDomain
<1>4. x = [i \in 1 .. 4 * n |-> x[i]]
  OBVIOUS
<1>5. \A i \in 1 .. 4 * n : e[i] = x[i]
  BY <1>2, <1>3
<1>. QED  BY <1>3, <1>4, <1>5 DEF y

-----------------------------------------------------------------------------
(* What sector2gcr writes *)

LEMMA ChecksumIsByte == \A bytes : Checksum(bytes) \in Byte
<1>. SUFFICES ASSUME NEW B PROVE FromBits(B) \in Byte
  BY DEF Checksum
<1>. QED  BY DEF FromBits, Byte

\* The groups of the data of a sector
Size == (BlockSize + 4) \div 4

LEMMA SizeIs == Size \in Nat \ {0} /\ BlockSize + 4 = 4 * Size /\ DataSize = 5 * Size
<1>1. BlockSize \in Nat /\ BlockSize % 4 = 0
  BY GcrAssumption
<1>2. Size \in Nat \ {0} /\ BlockSize + 4 = 4 * Size
  BY <1>1, SMTT(60) DEF Size
<1>. QED  BY <1>2 DEF Size, DataSize

LEMMA HeaderBytes ==
    ASSUME NEW track \in Byte, NEW sector \in Byte, NEW ids \in Byte \X Byte
    PROVE  Header(track, sector, ids) \in [1 .. 4 * 2 -> Byte]
<1>. DEFINE c == Checksum(<<sector, track, ids[2], ids[1]>>)
<1>1. c \in Byte
  BY ChecksumIsByte
<1>2. ids[1] \in Byte /\ ids[2] \in Byte /\ 8 \in Byte /\ 15 \in Byte
  BY DEF Byte
<1>3. Header(track, sector, ids) = <<8, c, sector, track, ids[2], ids[1], 15, 15>>
  BY DEF Header
<1>. HIDE DEF c
<1>4. <<8, c, sector, track, ids[2], ids[1], 15, 15>> \in [1 .. 8 -> Byte]
  BY <1>1, <1>2
<1>5. 4 * 2 = 8
  OBVIOUS
<1>. QED  BY <1>3, <1>4, <1>5, Zenon

\* Concatenation, with the lengths by name
LEMMA ConcatSeq == ASSUME NEW s \in Seq(Byte), NEW t \in Seq(Byte) PROVE s \o t \in Seq(Byte)
OBVIOUS

LEMMA ConcatLen ==
    ASSUME NEW s \in Seq(Byte), NEW t \in Seq(Byte)
    PROVE  Len(s \o t) = Len(s) + Len(t)
OBVIOUS

LEMMA ConcatLeft ==
    ASSUME NEW m \in Nat, NEW s \in Seq(Byte), Len(s) = m, NEW t \in Seq(Byte), NEW i \in 1 .. m
    PROVE  (s \o t)[i] = s[i]
OBVIOUS

LEMMA ConcatRight ==
    ASSUME NEW m \in Nat, NEW n \in Nat,
           NEW s \in Seq(Byte), Len(s) = m, NEW t \in Seq(Byte), Len(t) = n, NEW i \in 1 .. n
    PROVE  (s \o t)[m + i] = t[i]
OBVIOUS

LEMMA DataBytes ==
    ASSUME NEW block \in Block
    PROVE  /\ Data(block) \in [1 .. 4 * Size -> Byte]
           /\ Data(block)[1] = 7
           /\ \A i \in 1 .. BlockSize : Data(block)[i + 1] = block[i]
           /\ Data(block)[BlockSize + 2] = Checksum(block)
<1>. DEFINE c == Checksum(block)
            tail == <<c, 0, 0>>
            front == <<7>> \o block
<1>1. BlockSize \in Nat
  BY GcrAssumption
<1>2. c \in Byte /\ 0 \in Byte /\ 7 \in Byte
  BY ChecksumIsByte DEF Byte
<1>3. block \in Seq(Byte) /\ Len(block) = BlockSize
  BY <1>1, LenIs DEF Block
<1>. HIDE DEF c
<1>4. <<7>> \in Seq(Byte) /\ Len(<<7>>) = 1 /\ tail \in Seq(Byte) /\ Len(tail) = 3
  BY <1>2
<1>5. /\ front \in Seq(Byte) /\ Len(front) = BlockSize + 1 /\ front[1] = 7
      /\ \A i \in 1 .. BlockSize : front[i + 1] = block[i]
  <2>1. /\ front \in Seq(Byte) /\ Len(front) = BlockSize + 1
        /\ \A i \in 1 .. 1 + BlockSize : front[i] = IF i <= 1 THEN <<7>>[i] ELSE block[i - 1]
    BY <1>3, <1>4, ConcatProperties
  <2>. QED  BY <1>1, <2>1
<1>. HIDE DEF front, tail
<1>6. /\ front \o tail \in Seq(Byte) /\ Len(front \o tail) = BlockSize + 4
      /\ \A i \in 1 .. BlockSize + 1 : (front \o tail)[i] = front[i]
      /\ (front \o tail)[BlockSize + 2] = c
  <2>1. BlockSize + 1 \in Nat /\ 3 \in Nat
    BY <1>1
  <2>2. front \o tail \in Seq(Byte)
    BY <1>4, <1>5, <2>1, ConcatSeq, Zenon
  <2>7. Len(front \o tail) = BlockSize + 1 + 3
    BY <1>4, <1>5, <2>1, ConcatLen, Zenon
  <2>5. ASSUME NEW i \in 1 .. BlockSize + 1 PROVE (front \o tail)[i] = front[i]
    BY <1>4, <1>5, <2>1, ConcatLeft, Zenon
  <2>6. ASSUME NEW i \in 1 .. 3 PROVE (front \o tail)[BlockSize + 1 + i] = tail[i]
    BY <1>4, <1>5, <2>1, ConcatRight, Zenon
  <2>3. tail[1] = c /\ 1 \in 1 .. 3 /\ BlockSize + 1 + 1 = BlockSize + 2
    BY <1>1 DEF tail
  <2>4. (front \o tail)[BlockSize + 2] = c
    BY <2>3, <2>6
  <2>. QED  BY <1>1, <2>2, <2>4, <2>5, <2>7
<1>7. Data(block) = front \o tail
  BY DEF Data, front, tail, c
<1>8. front \o tail \in [1 .. BlockSize + 4 -> Byte]
  BY <1>6, LenProperties
<1>9. \A i \in 1 .. BlockSize : (front \o tail)[i + 1] = block[i]
  BY <1>1, <1>5, <1>6
<1>10. 1 \in 1 .. BlockSize + 1
  BY <1>1
<1>. QED  BY <1>5, <1>6, <1>7, <1>8, <1>9, <1>10, SizeIs DEF c

\* Header, gap, data and gap in their places
LEMMA SectorBytes ==
    ASSUME NEW track \in Byte, NEW sector \in Byte, NEW ids \in Byte \X Byte, NEW block \in Block
    PROVE  LET s == Sector2gcr(track, sector, ids, block) IN
           /\ s[1] = SYNC /\ s[12] = Gap /\ s[13] = SYNC /\ s[14 + DataSize] = Gap
           /\ \A k \in 1 .. 10 : s[1 + k] = Groups(Header(track, sector, ids))[k]
           /\ \A k \in 1 .. DataSize : s[13 + k] = Groups(Data(block))[k]
<1>. DEFINE h == Groups(Header(track, sector, ids))
            d == Groups(Data(block))
            s1 == <<SYNC>> \o h
            s2 == s1 \o <<Gap>>
            s3 == s2 \o <<SYNC>>
            s4 == s3 \o d
            s5 == s4 \o <<Gap>>
<1>1. h \in Seq(Byte) /\ Len(h) = 10
  <2>1. h \in [1 .. 5 * 2 -> Byte]
    BY HeaderBytes, GroupsAre, 2 \in Nat
  <2>. HIDE DEF h
  <2>. QED  BY <2>1, LenIs, 5 * 2 = 10, 10 \in Nat
<1>2. d \in Seq(Byte) /\ Len(d) = DataSize /\ DataSize \in Nat
  <2>1. d \in [1 .. 5 * Size -> Byte]
    BY DataBytes, GroupsAre, SizeIs
  <2>2. DataSize = 5 * Size /\ DataSize \in Nat
    BY SizeIs
  <2>. HIDE DEF d
  <2>. QED  BY <2>1, <2>2, LenIs
<1>3. <<SYNC>> \in Seq(Byte) /\ <<Gap>> \in Seq(Byte) /\ Len(<<SYNC>>) = 1 /\ Len(<<Gap>>) = 1
  BY DEF SYNC, Gap, Byte
<1>. HIDE DEF h, d
<1>4. /\ s1 \in Seq(Byte) /\ Len(s1) = 11 /\ s1[1] = SYNC
      /\ \A i \in 1 .. 10 : s1[1 + i] = h[i]
  <2>1. s1 \in Seq(Byte)
    BY <1>1, <1>3, ConcatSeq, Zenon
  <2>4. Len(s1) = 1 + 10
    BY <1>1, <1>3, ConcatLen, Zenon
  <2>2. ASSUME NEW i \in 1 .. 1 PROVE s1[i] = <<SYNC>>[i]
    BY <1>1, <1>3, ConcatLeft, 1 \in Nat, Zenon
  <2>3. ASSUME NEW i \in 1 .. 10 PROVE s1[1 + i] = h[i]
    BY <1>1, <1>3, ConcatRight, 1 \in Nat, 10 \in Nat, Zenon
  <2>. HIDE DEF s1
  <2>. QED  BY <2>1, <2>2, <2>3, <2>4
<1>. HIDE DEF s1
<1>5. /\ s2 \in Seq(Byte) /\ Len(s2) = 12 /\ s2[12] = Gap
      /\ \A i \in 1 .. 11 : s2[i] = s1[i]
  <2>1. s2 \in Seq(Byte)
    BY <1>3, <1>4, ConcatSeq, Zenon
  <2>4. Len(s2) = 11 + 1
    BY <1>3, <1>4, ConcatLen, Zenon
  <2>2. ASSUME NEW i \in 1 .. 11 PROVE s2[i] = s1[i]
    BY <1>3, <1>4, ConcatLeft, 11 \in Nat, Zenon
  <2>3. ASSUME NEW i \in 1 .. 1 PROVE s2[11 + i] = <<Gap>>[i]
    BY <1>3, <1>4, ConcatRight, 11 \in Nat, 1 \in Nat, Zenon
  <2>. HIDE DEF s2
  <2>. QED  BY <2>1, <2>2, <2>3, <2>4
<1>. HIDE DEF s2
<1>6. /\ s3 \in Seq(Byte) /\ Len(s3) = 13 /\ s3[13] = SYNC
      /\ \A i \in 1 .. 12 : s3[i] = s2[i]
  <2>1. s3 \in Seq(Byte)
    BY <1>3, <1>5, ConcatSeq, Zenon
  <2>4. Len(s3) = 12 + 1
    BY <1>3, <1>5, ConcatLen, Zenon
  <2>2. ASSUME NEW i \in 1 .. 12 PROVE s3[i] = s2[i]
    BY <1>3, <1>5, ConcatLeft, 12 \in Nat, Zenon
  <2>3. ASSUME NEW i \in 1 .. 1 PROVE s3[12 + i] = <<SYNC>>[i]
    BY <1>3, <1>5, ConcatRight, 12 \in Nat, 1 \in Nat, Zenon
  <2>. HIDE DEF s3
  <2>. QED  BY <2>1, <2>2, <2>3, <2>4
<1>. HIDE DEF s3
<1>7. /\ s4 \in Seq(Byte) /\ Len(s4) = 13 + DataSize
      /\ \A i \in 1 .. 13 : s4[i] = s3[i]
      /\ \A i \in 1 .. DataSize : s4[13 + i] = d[i]
  <2>1. s4 \in Seq(Byte)
    BY <1>2, <1>6, ConcatSeq, Zenon
  <2>4. Len(s4) = 13 + DataSize
    BY <1>2, <1>6, ConcatLen, Zenon
  <2>2. ASSUME NEW i \in 1 .. 13 PROVE s4[i] = s3[i]
    BY <1>2, <1>6, ConcatLeft, 13 \in Nat, Zenon
  <2>3. ASSUME NEW i \in 1 .. DataSize PROVE s4[13 + i] = d[i]
    BY <1>2, <1>6, ConcatRight, 13 \in Nat, Zenon
  <2>. HIDE DEF s4
  <2>. QED  BY <2>1, <2>2, <2>3, <2>4
<1>. HIDE DEF s4
<1>8. s5[13 + DataSize + 1] = Gap /\ \A i \in 1 .. 13 + DataSize : s5[i] = s4[i]
  <2>1. 13 + DataSize \in Nat
    BY <1>2
  <2>2. ASSUME NEW i \in 1 .. 13 + DataSize PROVE s5[i] = s4[i]
    BY <1>3, <1>7, <2>1, ConcatLeft, Zenon
  <2>3. ASSUME NEW i \in 1 .. 1 PROVE s5[13 + DataSize + i] = <<Gap>>[i]
    BY <1>3, <1>7, <2>1, ConcatRight, 1 \in Nat, Zenon
  <2>. HIDE DEF s5
  <2>. QED  BY <2>2, <2>3
<1>9. Sector2gcr(track, sector, ids, block) = s5
  BY DEF Sector2gcr, s1, s2, s3, s4, h, d
<1>. HIDE DEF s5
<1>10. /\ s5[1] = SYNC /\ s5[12] = Gap /\ s5[13] = SYNC /\ s5[14 + DataSize] = Gap
  <2>1. 13 + DataSize + 1 = 14 + DataSize /\ \A i \in 1 .. 13 : i \in 1 .. 13 + DataSize
    BY <1>2
  <2>2. \A i \in 1 .. 13 : s5[i] = s3[i]
    BY <1>7, <1>8, <2>1, Zenon
  <2>. QED  BY <1>4, <1>5, <1>6, <1>8, <2>1, <2>2
<1>11. ASSUME NEW k \in 1 .. 10 PROVE s5[1 + k] = h[k]
  <2>1. 1 + k \in 1 .. 11 /\ 1 + k \in 1 .. 12 /\ 1 + k \in 1 .. 13 /\ 1 + k \in 1 .. 13 + DataSize
    BY <1>2
  <2>2. s5[1 + k] = s4[1 + k] /\ s4[1 + k] = s3[1 + k]
    BY <1>7, <1>8, <2>1
  <2>3. s3[1 + k] = s2[1 + k] /\ s2[1 + k] = s1[1 + k] /\ s1[1 + k] = h[k]
    BY <1>4, <1>5, <1>6, <2>1
  <2>. QED  BY <2>2, <2>3
<1>12. ASSUME NEW k \in 1 .. DataSize PROVE s5[13 + k] = d[k]
  <2>1. 13 + k \in 1 .. 13 + DataSize
    BY <1>2
  <2>. QED  BY <1>7, <1>8, <2>1
<1>. QED  BY <1>9, <1>10, <1>11, <1>12 DEF h, d

-----------------------------------------------------------------------------
(* Places on a track *)

LEMMA DivUnique ==
    ASSUME NEW d \in Nat \ {0}, NEW a \in Nat, NEW r \in 0 .. d - 1
    PROVE  (d * a + r) \div d = a /\ (d * a + r) % d = r
<1>. DEFINE p == d * a + r
            b == p \div d
            m == p % d
<1>1. p \in Nat
  OBVIOUS
<1>2. p = d * b + m /\ m \in 0 .. d - 1 /\ b \in Int
  BY <1>1, SMTT(60)
<1>3. p = d * a + r
  OBVIOUS
<1>. HIDE DEF p, b, m
<1>4. d * (b - a) = r - m
  <2>1. d * (b - a) = d * b - d * a
    BY <1>2, SMTT(30)
  <2>2. d * a \in Int /\ d * b \in Int
    BY <1>2
  <2>. QED  BY <1>2, <1>3, <2>1, <2>2
<1>5. ~(b - a >= 1)
  <2>. SUFFICES ASSUME b - a >= 1 PROVE FALSE
    OBVIOUS
  <2>1. d * (b - a) >= d * 1
    BY <1>2, SMTT(30)
  <2>. QED  BY <1>2, <1>4, <2>1
<1>6. ~(b - a <= -1)
  <2>. SUFFICES ASSUME b - a <= -1 PROVE FALSE
    OBVIOUS
  <2>1. d * (b - a) <= d * (-1)
    BY <1>2, SMTT(30)
  <2>2. d * (-1) = -d
    OBVIOUS
  <2>. QED  BY <1>2, <1>4, <2>1, <2>2
<1>7. b = a
  BY <1>2, <1>5, <1>6
<1>8. m = r
  <2>1. d * a \in Int
    OBVIOUS
  <2>. QED  BY <1>2, <1>3, <1>7, <2>1
<1>. QED  BY <1>7, <1>8 DEF p, b, m

LEMMA DivMod ==
    ASSUME NEW d \in Nat \ {0}, NEW p \in Nat
    PROVE  /\ p \div d \in Nat /\ p % d \in 0 .. d - 1
           /\ p = d * (p \div d) + (p % d)
BY SMTT(60)

\* A step on within the same division
LEMMA DivStep ==
    ASSUME NEW d \in Nat \ {0}, NEW p \in Nat, NEW k \in Nat, (p % d) + k < d
    PROVE  (p + k) \div d = p \div d /\ (p + k) % d = (p % d) + k
<1>. DEFINE a == p \div d
            r == (p % d) + k
<1>1. a \in Nat /\ p % d \in 0 .. d - 1 /\ p = d * a + (p % d)
  BY DivMod
<1>2. r \in 0 .. d - 1
  BY <1>1
<1>3. p + k = d * a + r
  <2>1. d * a \in Nat
    BY <1>1
  <2>. HIDE DEF a
  <2>. QED  BY <1>1, <2>1
<1>. HIDE DEF a, r
<1>4. (d * a + r) \div d = a /\ (d * a + r) % d = r
  BY <1>1, <1>2, DivUnique
<1>. QED  BY <1>3, <1>4 DEF a, r

LEMMA Mod2 ==
    ASSUME NEW d \in Nat \ {0}, NEW p \in 0 .. 2 * d - 1
    PROVE  p % d = IF p < d THEN p ELSE p - d
<1>1. CASE p < d
  <2>1. p \in 0 .. d - 1 /\ d * 0 + p = p
    BY <1>1
  <2>2. (d * 0 + p) % d = p
    BY <2>1, DivUnique, 0 \in Nat
  <2>. QED  BY <1>1, <2>1, <2>2
<1>2. CASE p >= d
  <2>1. p - d \in 0 .. d - 1 /\ d * 1 + (p - d) = p
    BY <1>2
  <2>2. (d * 1 + (p - d)) % d = p - d
    BY <2>1, DivUnique, 1 \in Nat
  <2>. QED  BY <1>2, <2>1, <2>2
<1>. QED  BY <1>1, <1>2

-----------------------------------------------------------------------------
(* What passes under the head *)

HeadInv ==
    /\ current_halftrack \in 2 .. 2 * Len(num_sectors)
    /\ gcr_ptr \in 0 .. TrackLength - 1

Here == TrackAt(current_halftrack)

LEMMA TrackIs ==
    ASSUME NEW halftrack \in 2 .. 2 * Len(num_sectors)
    PROVE  /\ TrackAt(halftrack) \in Tracks /\ TrackAt(halftrack) \in Byte
           /\ num_sectors[TrackAt(halftrack)] \in 1 .. 21
           /\ SectorSize \in Nat /\ SectorSize >= 19
           /\ SectorSize * num_sectors[TrackAt(halftrack)] \in Nat
           /\ SectorSize * num_sectors[TrackAt(halftrack)] >= SectorSize
<1>. DEFINE len == Len(num_sectors)
<1>1. num_sectors \in Seq(1 .. 21) /\ len \in Nat /\ len <= 35
  BY GcrAssumption, LenProperties
<1>2. TrackAt(halftrack) \in 1 .. Len(num_sectors)
  BY <1>1, SMTT(60) DEF TrackAt
<1>3. num_sectors[TrackAt(halftrack)] \in 1 .. 21
  BY <1>1, <1>2, ElementOfSeq
<1>4. SectorSize \in Nat /\ SectorSize >= 19
  BY SizeIs DEF SectorSize
<1>. DEFINE n == num_sectors[TrackAt(halftrack)]
<1>5. n \in 1 .. 21
  BY <1>3
<1>. HIDE DEF n
<1>6. SectorSize * n \in Nat /\ SectorSize * n >= SectorSize
  BY <1>4, <1>5, SMTT(60)
<1>7. TrackAt(halftrack) \in Byte
  <2>1. len \in Nat /\ len <= 35
    BY <1>1
  <2>2. TrackAt(halftrack) \in 1 .. len
    BY <1>2
  <2>3. \A m \in Nat, x \in Int : x \in 1 .. m /\ m <= 35 => x \in 0 .. 255
    OBVIOUS
  <2>4. TrackAt(halftrack) \in Int
    BY <2>2
  <2>. HIDE DEF len
  <2>. QED  BY <2>1, <2>2, <2>3, <2>4, Zenon DEF Byte
<1>. QED  BY <1>2, <1>3, <1>4, <1>6, <1>7, Zenon DEF Tracks, n

\* The places of a revolution, from the head
Place(i) == (gcr_ptr + i) % TrackLength
SectorOf(i) == Place(i) \div SectorSize
OffsetOf(i) == Place(i) % SectorSize

LEMMA PlaceIs ==
    ASSUME HeadInv, NEW i \in Nat
    PROVE  /\ SectorOf(i) \in Sectors(Here) /\ OffsetOf(i) \in 0 .. SectorSize - 1
           /\ Place(i) = SectorSize * SectorOf(i) + OffsetOf(i)
           /\ Place(i) \in 0 .. TrackLength - 1
<1>. DEFINE n == num_sectors[Here]
            s == SectorOf(i)
            o == OffsetOf(i)
            p == Place(i)
<1>1. n \in 1 .. 21 /\ SectorSize \in Nat \ {0} /\ TrackLength \in Nat \ {0} /\ TrackLength = SectorSize * n
  BY TrackIs DEF HeadInv, Here, TrackLength
<1>2. gcr_ptr + i \in Nat
  BY <1>1 DEF HeadInv
<1>3. p \in 0 .. TrackLength - 1
  BY <1>1, <1>2, DivMod DEF Place
<1>4. s \in Nat /\ o \in 0 .. SectorSize - 1 /\ p = SectorSize * s + o
  <2>1. p \in Nat
    BY <1>1, <1>3
  <2>2. s = p \div SectorSize /\ o = p % SectorSize
    BY DEF SectorOf, OffsetOf
  <2>. HIDE DEF n, s, o, p
  <2>3. /\ p \div SectorSize \in Nat /\ p % SectorSize \in 0 .. SectorSize - 1
        /\ p = SectorSize * (p \div SectorSize) + (p % SectorSize)
    BY <1>1, <2>1, DivMod
  <2>. QED  BY <2>2, <2>3
<1>. HIDE DEF n, s, o, p
<1>5. s < n
  <2>. SUFFICES ASSUME s >= n PROVE FALSE
    BY <1>1, <1>4
  <2>1. SectorSize * s >= SectorSize * n
    BY <1>1, <1>4, SMTT(60)
  <2>2. SectorSize * s \in Nat
    BY <1>1, <1>4
  <2>. QED  BY <1>1, <1>3, <1>4, <2>1, <2>2
<1>6. s \in Sectors(Here)
  BY <1>1, <1>4, <1>5 DEF Sectors, n
<1>. QED  BY <1>3, <1>4, <1>6 DEF s, o, p

\* Up to the end of a sector, the bytes of that sector follow each other
LEMMA TurnedIs ==
    ASSUME HeadInv, NEW i \in Nat, NEW k \in Nat, OffsetOf(i) + k < SectorSize
    PROVE  Turned(i + k) = gcr_data[<<Here, SectorOf(i)>>][OffsetOf(i) + k + 1]
<1>. DEFINE n == num_sectors[Here]
            s == SectorOf(i)
            o == OffsetOf(i)
            p == Place(i)
<1>1. n \in 1 .. 21 /\ SectorSize \in Nat \ {0} /\ TrackLength \in Nat \ {0} /\ TrackLength = SectorSize * n
  BY TrackIs DEF HeadInv, Here, TrackLength
<1>2. gcr_ptr + i \in Nat
  BY <1>1 DEF HeadInv
<1>3. /\ s \in 0 .. n - 1 /\ o \in 0 .. SectorSize - 1 /\ p = SectorSize * s + o
      /\ p \in 0 .. TrackLength - 1
  BY PlaceIs DEF Sectors
<1>4. p = (gcr_ptr + i) % TrackLength /\ s = p \div SectorSize /\ o = p % SectorSize /\ o + k < SectorSize
  BY DEF Place, SectorOf, OffsetOf
<1>. HIDE DEF n, s, o, p
<1>5. p + k < TrackLength
  <2>1. SectorSize * (s + 1) <= SectorSize * n
    BY <1>1, <1>3, SMTT(60)
  <2>2. SectorSize * (s + 1) = SectorSize * s + SectorSize
    BY <1>1, <1>3, SMTT(60)
  <2>3. SectorSize * s \in Nat
    BY <1>1, <1>3
  <2>. QED  BY <1>1, <1>3, <1>4, <2>1, <2>2, <2>3
<1>6. (gcr_ptr + i + k) % TrackLength = p + k
  BY <1>1, <1>2, <1>4, <1>5, DivStep
<1>7. (p + k) \div SectorSize = s /\ (p + k) % SectorSize = o + k
  <2>1. p \in Nat /\ (p % SectorSize) + k < SectorSize
    BY <1>1, <1>3, <1>4
  <2>2. (p + k) \div SectorSize = p \div SectorSize /\ (p + k) % SectorSize = (p % SectorSize) + k
    BY <1>1, <2>1, DivStep
  <2>. QED  BY <1>4, <2>2
<1>8. gcr_ptr + (i + k) = gcr_ptr + i + k
  BY <1>1 DEF HeadInv
<1>9. Turned(i + k) = gcr_data[<<Here, (p + k) \div SectorSize>>][((p + k) % SectorSize) + 1]
  BY <1>6, <1>8 DEF Turned, ByteAt, Here
<1>. QED  BY <1>7, <1>9 DEF s, o

\* The place of the head is in the sector that its byte is of
LEMMA WhereIs ==
    ASSUME HeadInv, NEW sector \in Sectors(Here), NEW o \in 0 .. SectorSize - 1
    PROVE  SectorSize * sector + o \in 0 .. TrackLength - 1
<1>. DEFINE n == num_sectors[Here]
<1>1. n \in 1 .. 21 /\ SectorSize \in Nat \ {0} /\ TrackLength \in Nat \ {0} /\ TrackLength = SectorSize * n
  BY TrackIs DEF HeadInv, Here, TrackLength
<1>2. sector \in 0 .. n - 1
  BY DEF Sectors
<1>. HIDE DEF n
<1>3. SectorSize * (sector + 1) <= SectorSize * n
  BY <1>1, <1>2, SMTT(60)
<1>4. SectorSize * (sector + 1) = SectorSize * sector + SectorSize
  BY <1>1, <1>2, SMTT(60)
<1>5. SectorSize * sector \in Nat
  BY <1>1, <1>2
<1>. QED  BY <1>1, <1>2, <1>3, <1>4, <1>5

-----------------------------------------------------------------------------
(* A SYNC under the head *)

\* What the search relies on
Ready == DiskInv /\ HeadInv /\ the_file # NoDisk

BlockAt(sector) == content[the_file][<<Here, sector>>]

LEMMA SectorIs ==
    ASSUME Ready, NEW sector \in Sectors(Here)
    PROVE  /\ Here \in Byte /\ sector \in 0 .. 20 /\ sector \in Byte /\ BlockAt(sector) \in Block
           /\ \E ids \in Byte \X Byte :
                 gcr_data[<<Here, sector>>] = Sector2gcr(Here, sector, ids, BlockAt(sector))
<1>1. Here \in Tracks /\ Here \in Byte /\ num_sectors[Here] \in 1 .. 21
  BY TrackIs DEF Ready, HeadInv, Here
<1>2. sector \in 0 .. 20 /\ sector \in 0 .. 255 /\ sector < num_sectors[Here]
  <2>1. \A n \in 1 .. 21 : \A s \in 0 .. n - 1 : s \in 0 .. 20 /\ s \in 0 .. 255 /\ s < n
    OBVIOUS
  <2>2. sector \in 0 .. num_sectors[Here] - 1
    BY DEF Sectors
  <2>. QED  BY <1>1, <2>1, <2>2, Zenon
<1>3. <<Here, sector>> \in Places
  BY <1>1, <1>2 DEF Places
<1>4. BlockAt(sector) \in Block
  BY <1>3 DEF Ready, DiskInv, FileInv, BlockAt
<1>5. OnDisk(<<Here, sector>>)
  BY <1>3 DEF Ready, DiskInv, HeadOverImage
<1>6. \E ids \in Byte \X Byte :
         gcr_data[<<Here, sector>>] = Sector2gcr(Here, sector, ids, BlockAt(sector))
  BY <1>5 DEF OnDisk, BlockAt
<1>. QED  BY <1>1, <1>2, <1>4, <1>6 DEF Byte

\* The first byte of a group is in the first two of its five bytes
FirstOf(x, y) == 16 * Nibble[x \div 8] + Nibble[((x % 8) * 4) + (y \div 64)]

LEMMA FirstByte == \A b : FromGroup(b)[1] = FirstOf(b[1], b[2])
<1>. SUFFICES ASSUME NEW b PROVE FromGroup(b)[1] = FirstOf(b[1], b[2])
  OBVIOUS
<1>. DEFINE n == << Nibble[b[1] \div 8],
                    Nibble[((b[1] % 8) * 4) + (b[2] \div 64)],
                    Nibble[(b[2] \div 2) % 32],
                    Nibble[((b[2] % 2) * 16) + (b[3] \div 16)],
                    Nibble[((b[3] % 16) * 2) + (b[4] \div 128)],
                    Nibble[(b[4] \div 4) % 32],
                    Nibble[((b[4] % 4) * 8) + (b[5] \div 32)],
                    Nibble[b[5] % 32] >>
<1>1. 16 * n[1] + n[2] = FirstOf(b[1], b[2])
  BY DEF FirstOf
<1>2. FromGroup(b) = [i \in 1 .. 4 |-> 16 * n[2 * i - 1] + n[2 * i]]
  BY DEF FromGroup
<1>. HIDE DEF n
<1>. QED  BY <1>1, <1>2

\* It is a header's when its nibbles are 0 and 8
LEMMA HeaderMark ==
    ASSUME NEW x \in Byte, NEW y \in Byte, FirstOf(x, y) = 8
    PROVE  x \div 8 = 10 /\ ((x % 8) * 4) + (y \div 64) = 9
<1>. DEFINE hi == x \div 8
            lo == ((x % 8) * 4) + (y \div 64)
<1>1. hi \in 0 .. 31 /\ lo \in 0 .. 31
  BY SMTT(60) DEF Byte
<1>2. 16 * Nibble[hi] + Nibble[lo] = 8
  BY DEF FirstOf
<1>. HIDE DEF hi, lo
<1>3. Nibble[hi] \in 0 .. 16 /\ Nibble[lo] \in 0 .. 16
  BY <1>1, NibbleIs
<1>4. Nibble[hi] = 0 /\ Nibble[lo] = 8
  BY <1>2, <1>3
<1>5. hi = 10 /\ lo = 9
  BY <1>1, <1>4, NibbleIs
<1>. QED  BY <1>5 DEF hi, lo

LEMMA BehindFirst ==
    ASSUME NEW i \in Nat
    PROVE  Decode(Behind(i, 10))[1] = FirstOf(Turned(i + 1), Turned(i + 2))
<1>. DEFINE y == Behind(i, 10)
            S == {Turned(i + k) : k \in 1 .. 10}
            b == <<y[1], y[2], y[3], y[4], y[5]>>
<1>1. y \in [1 .. 5 * 2 -> S] /\ y[1] = Turned(i + 1) /\ y[2] = Turned(i + 2)
  BY DEF Behind
<1>2. 1 \in 1 .. 4 * 2 /\ (1 - 1) \div 4 = 0 /\ ((1 - 1) % 4) + 1 = 1
  BY SMT
<1>. HIDE DEF y, S
<1>3. Decode(y)[1] = FromGroup(<<y[5 * 0 + 1], y[5 * 0 + 2], y[5 * 0 + 3],
                                 y[5 * 0 + 4], y[5 * 0 + 5]>>)[1]
  <2>1. LET k == (1 - 1) \div 4 IN
        Decode(y)[1] = FromGroup(<<y[5 * k + 1], y[5 * k + 2], y[5 * k + 3],
                                   y[5 * k + 4], y[5 * k + 5]>>)[((1 - 1) % 4) + 1]
    BY <1>1, <1>2, DecodeIs, 2 \in Nat, Zenon
  <2>. QED  BY <1>2, <2>1, Zenon
<1>4. 5 * 0 + 1 = 1 /\ 5 * 0 + 2 = 2 /\ 5 * 0 + 3 = 3 /\ 5 * 0 + 4 = 4 /\ 5 * 0 + 5 = 5
  OBVIOUS
<1>5. Decode(y)[1] = FromGroup(b)[1]
  BY <1>3, <1>4
<1>6. b[1] = Turned(i + 1) /\ b[2] = Turned(i + 2)
  BY <1>1
<1>. HIDE DEF b
<1>. QED  BY <1>5, <1>6, FirstByte DEF y

\* In the header there is no SYNC, whatever sector of a track it is of
LEMMA NoSyncInHeader ==
    ASSUME NEW track \in Byte, NEW sector \in 0 .. 20, NEW ids \in Byte \X Byte, NEW k \in 1 .. 10
    PROVE  Groups(Header(track, sector, ids))[k] # SYNC
<1>. DEFINE h == Header(track, sector, ids)
            g == (k - 1) \div 5
            j == ((k - 1) % 5) + 1
<1>1. sector \in Byte
  BY DEF Byte
<1>2. h \in [1 .. 4 * 2 -> Byte] /\ h[3] = sector /\ h[7] = 15
  <2>1. h \in [1 .. 4 * 2 -> Byte]
    BY <1>1, HeaderBytes
  <2>2. h[3] = sector /\ h[7] = 15
    BY DEF Header
  <2>. QED  BY <2>1, <2>2
<1>3. g \in 0 .. 2 - 1 /\ j \in 1 .. 5 /\ 5 * g + j = k
  BY InGroup, 2 \in Nat
<1>. HIDE DEF h, g, j
<1>4. Groups(h)[k] = gcr_conv4(Four(h, g))[j]
  BY <1>2, <1>3, GroupsAre, 2 \in Nat
<1>5. Four(h, g) \in [1 .. 4 -> Byte] /\ Four(h, g)[3] = h[4 * g + 3]
  <2>1. Four(h, g) \in [1 .. 4 -> Byte]
    BY <1>2, <1>3, FourBytes, 2 \in Nat, Zenon
  <2>2. Four(h, g)[3] = h[4 * g + 3]
    BY DEF Four
  <2>. QED  BY <2>1, <2>2
<1>6. Four(h, g)[3] \div 16 # 14
  <2>1. CASE g = 0
    BY <1>2, <1>5, <2>1, SMTT(60)
  <2>2. CASE g = 1
    BY <1>2, <1>5, <2>2, SMTT(60)
  <2>. QED  BY <1>3, <2>1, <2>2
<1>. QED  BY <1>3, <1>4, <1>5, <1>6, GroupBytes DEF h

\* At the beginning of a sector there is its header, and nothing before the data that
\* could be taken for a SYNC
LEMMA HeaderFound ==
    ASSUME Ready, NEW i \in Nat, OffsetOf(i) = 0
    PROVE  /\ Turned(i) = SYNC /\ Turned(i + 12) = SYNC
           /\ \A k \in 1 .. 11 : Turned(i + k) # SYNC
           /\ \A sector \in Sectors(Here) :
                 IsHeader(Decode(Behind(i, 10)), Here, sector) <=> sector = SectorOf(i)
           /\ Decode(Behind(i + 12, DataSize)) = Data(BlockAt(SectorOf(i)))
<1>. DEFINE s == SectorOf(i)
            block == BlockAt(s)
            bytes == gcr_data[<<Here, s>>]
<1>1. s \in Sectors(Here) /\ HeadInv
  BY PlaceIs DEF Ready
<1>2. PICK ids \in Byte \X Byte : bytes = Sector2gcr(Here, s, ids, block)
  BY <1>1, SectorIs
<1>3. Here \in Byte /\ s \in 0 .. 20 /\ s \in Byte /\ block \in Block
  BY <1>1, SectorIs
<1>. DEFINE h == Header(Here, s, ids)
            gh == Groups(h)
            gd == Groups(Data(block))
<1>4. DataSize \in Nat /\ DataSize = 5 * Size /\ Size \in Nat /\ SectorSize = 14 + DataSize
  BY SizeIs DEF SectorSize
<1>5. /\ bytes[1] = SYNC /\ bytes[12] = Gap /\ bytes[13] = SYNC
      /\ \A k \in 1 .. 10 : bytes[1 + k] = gh[k]
      /\ \A k \in 1 .. DataSize : bytes[13 + k] = gd[k]
  BY <1>2, <1>3, SectorBytes
<1>6. ASSUME NEW k \in Nat, k < SectorSize PROVE Turned(i + k) = bytes[k + 1]
  <2>1. OffsetOf(i) + k < SectorSize /\ OffsetOf(i) + k + 1 = k + 1
    BY <1>6
  <2>. QED  BY <1>1, <2>1, TurnedIs
<1>7. h \in [1 .. 4 * 2 -> Byte] /\ gh \in [1 .. 5 * 2 -> Byte]
  <2>1. h \in [1 .. 4 * 2 -> Byte]
    BY <1>3, HeaderBytes
  <2>. QED  BY <2>1, GroupsAre, 2 \in Nat, Zenon
<1>8. Data(block) \in [1 .. 4 * Size -> Byte] /\ gd \in [1 .. 5 * Size -> Byte]
  <2>1. Data(block) \in [1 .. 4 * Size -> Byte]
    BY <1>3, DataBytes, Zenon
  <2>. QED  BY <1>4, <2>1, GroupsAre, Zenon
<1>. HIDE DEF bytes, h, gh, gd, block, s
<1>9. Turned(i) = SYNC /\ Turned(i + 12) = SYNC
  <2>1. 0 < SectorSize /\ 12 < SectorSize /\ i + 0 = i /\ 0 + 1 = 1 /\ 12 + 1 = 13
    BY <1>4
  <2>2. Turned(i + 0) = bytes[0 + 1] /\ Turned(i + 12) = bytes[12 + 1]
    BY <1>6, <2>1, 0 \in Nat, 12 \in Nat, Zenon
  <2>. QED  BY <1>5, <2>1, <2>2
<1>10. ASSUME NEW k \in 1 .. 10 PROVE Turned(i + k) = gh[k] /\ gh[k] # SYNC
  <2>1. k \in Nat /\ k < SectorSize /\ k + 1 = 1 + k
    BY <1>4
  <2>2. Turned(i + k) = bytes[k + 1]
    BY <1>6, <2>1
  <2>3. gh[k] # SYNC
    BY <1>3, NoSyncInHeader DEF gh, h
  <2>. QED  BY <1>5, <2>1, <2>2, <2>3
<1>11. ASSUME NEW k \in 1 .. 11 PROVE Turned(i + k) # SYNC
  <2>1. CASE k \in 1 .. 10
    BY <1>10, <2>1
  <2>2. CASE k = 11
    <3>1. 11 < SectorSize /\ 11 \in Nat /\ 11 + 1 = 12
      BY <1>4
    <3>2. Turned(i + 11) = bytes[11 + 1]
      BY <1>6, <3>1, Zenon
    <3>. QED  BY <1>5, <2>2, <3>1, <3>2 DEF Gap, SYNC
  <2>. QED  BY <2>1, <2>2
<1>12. Decode(Behind(i, 10)) = h
  <2>1. Behind(i, 10) = [k \in 1 .. 10 |-> gh[k]]
    BY <1>10, Zenon DEF Behind
  <2>2. gh = [k \in 1 .. 10 |-> gh[k]]
    BY <1>7
  <2>3. Decode(gh) = h
    BY <1>7, DecodesGroups, 2 \in Nat, Zenon DEF gh
  <2>. QED  BY <2>1, <2>2, <2>3
<1>13. ASSUME NEW sector \in Sectors(Here)
       PROVE  IsHeader(h, Here, sector) <=> sector = s
  <2>1. /\ h[1] = 8 /\ h[2] = Checksum(<<s, Here, ids[2], ids[1]>>)
        /\ h[3] = s /\ h[4] = Here /\ h[5] = ids[2] /\ h[6] = ids[1]
    BY DEF h, Header
  <2>2. h[2] = Checksum(<<h[3], h[4], h[5], h[6]>>)
    BY <2>1
  <2>. QED  BY <2>1, <2>2 DEF IsHeader
<1>14. Decode(Behind(i + 12, DataSize)) = Data(block)
  <2>1. ASSUME NEW k \in 1 .. DataSize PROVE Turned(i + 12 + k) = gd[k]
    <3>1. 12 + k \in Nat /\ 12 + k < SectorSize /\ (12 + k) + 1 = 13 + k /\ i + (12 + k) = i + 12 + k
      BY <1>4
    <3>2. Turned(i + (12 + k)) = bytes[(12 + k) + 1]
      BY <1>6, <3>1
    <3>. QED  BY <1>5, <3>1, <3>2
  <2>2. Behind(i + 12, DataSize) = [k \in 1 .. DataSize |-> gd[k]]
    BY <2>1, Zenon DEF Behind
  <2>3. gd = [k \in 1 .. DataSize |-> gd[k]]
    BY <1>4, <1>8
  <2>4. Decode(gd) = Data(block)
    BY <1>4, <1>8, DecodesGroups, Zenon DEF gd
  <2>. QED  BY <2>2, <2>3, <2>4
<1>. QED  BY <1>9, <1>11, <1>12, <1>13, <1>14, Zenon DEF s, block

\* Elsewhere there is none: what looks like a SYNC in the data and the SYNC before the
\* data are not followed by a header
LEMMA NoHeaderElsewhere ==
    ASSUME Ready, NEW i \in Nat, OffsetOf(i) # 0, Turned(i) = SYNC
    PROVE  Decode(Behind(i, 10))[1] # 8
<1>. DEFINE s == SectorOf(i)
            o == OffsetOf(i)
            block == BlockAt(s)
            bytes == gcr_data[<<Here, s>>]
<1>1. s \in Sectors(Here) /\ HeadInv /\ o \in 0 .. SectorSize - 1
  BY PlaceIs DEF Ready
<1>2. PICK ids \in Byte \X Byte : bytes = Sector2gcr(Here, s, ids, block)
  BY <1>1, SectorIs
<1>3. Here \in Byte /\ s \in 0 .. 20 /\ s \in Byte /\ block \in Block
  BY <1>1, SectorIs
<1>. DEFINE gh == Groups(Header(Here, s, ids))
            gd == Groups(Data(block))
<1>4. DataSize \in Nat /\ DataSize = 5 * Size /\ Size \in Nat \ {0} /\ SectorSize = 14 + DataSize
  BY SizeIs DEF SectorSize
<1>5. /\ bytes[12] = Gap /\ bytes[14 + DataSize] = Gap
      /\ \A k \in 1 .. 10 : bytes[1 + k] = gh[k]
      /\ \A k \in 1 .. DataSize : bytes[13 + k] = gd[k]
  BY <1>2, <1>3, SectorBytes
<1>6. ASSUME NEW k \in Nat, o + k < SectorSize PROVE Turned(i + k) = bytes[o + k + 1]
  BY <1>1, <1>6, TurnedIs
<1>7. \A k \in 1 .. 10 : gh[k] # SYNC
  BY <1>3, NoSyncInHeader
<1>8. Data(block) \in [1 .. 4 * Size -> Byte] /\ Data(block)[1] = 7
  BY <1>3, DataBytes, Zenon
<1>. DEFINE Group(g) == gcr_conv4(Four(Data(block), g))
<1>9. ASSUME NEW g \in 0 .. Size - 1
      PROVE  /\ Four(Data(block), g) \in [1 .. 4 -> Byte]
             /\ \A j \in 1 .. 5 : gd[5 * g + j] = Group(g)[j]
  <2>1. Four(Data(block), g) \in [1 .. 4 -> Byte]
    BY <1>4, <1>8, FourBytes
  <2>2. ASSUME NEW j \in 1 .. 5 PROVE gd[5 * g + j] = Group(g)[j]
    BY <1>4, <1>8, GroupsAre
  <2>. QED  BY <2>1, <2>2
<1>10. o # 0 /\ bytes[o + 1] = SYNC
  <2>1. o + 0 < SectorSize /\ i + 0 = i /\ o + 0 + 1 = o + 1
    BY <1>1, <1>4
  <2>. HIDE DEF o, bytes
  <2>2. Turned(i + 0) = bytes[o + 0 + 1]
    BY <1>6, <2>1, 0 \in Nat
  <2>3. o # 0
    BY DEF o
  <2>. QED  BY <2>1, <2>2, <2>3
<1>. HIDE DEF bytes, gh, gd, Group, block, s, o
<1>11. o \notin 1 .. 10
  <2>. SUFFICES ASSUME o \in 1 .. 10 PROVE FALSE
    OBVIOUS
  <2>1. bytes[1 + o] = gh[o] /\ 1 + o = o + 1
    BY <1>5
  <2>. QED  BY <1>7, <1>10, <2>1
<1>12. o # 11 /\ o # 13 + DataSize
  BY <1>4, <1>5, <1>10 DEF Gap, SYNC
<1>. SUFFICES ASSUME Decode(Behind(i, 10))[1] = 8 PROVE FALSE
  OBVIOUS
<1>13. PICK k \in Nat : o = 12 + k /\ k <= DataSize
  <2>1. o >= 12 /\ o <= 12 + DataSize
    BY <1>1, <1>4, <1>10, <1>11, <1>12
  <2>2. o - 12 \in Nat /\ o = 12 + (o - 12) /\ o - 12 <= DataSize
    BY <1>1, <1>4, <2>1
  <2>. QED  BY <2>2
<1>14. ASSUME NEW g \in 0 .. Size - 1, NEW j \in 1 .. 5, NEW m \in Nat, k + m = 5 * g + j
       PROVE  Turned(i + m) = Group(g)[j] /\ Turned(i + m) \in Byte
  <2>1. k + m \in 1 .. DataSize /\ o + m < SectorSize /\ o + m + 1 = 13 + (k + m)
    BY <1>4, <1>13, <1>14
  <2>2. Turned(i + m) = bytes[13 + (k + m)]
    BY <1>6, <2>1
  <2>3. Turned(i + m) = gd[5 * g + j]
    BY <1>5, <1>14, <2>1, <2>2
  <2>4. Group(g)[j] \in Byte
    BY <1>9, GroupBytes DEF Group
  <2>. QED  BY <1>9, <2>3, <2>4
<1>15. CASE k = 0
  <2>. DEFINE c == Group(0)
  <2>1. 0 \in 0 .. Size - 1
    BY <1>4
  <2>2. Turned(i + 1) = c[1] /\ Turned(i + 2) = c[2]
    BY <1>14, <1>15, <2>1, 1 \in Nat, 2 \in Nat
  <2>3. FromGroup(c) = Four(Data(block), 0)
    BY <1>9, <2>1, GroupsReadBack DEF Group
  <2>4. Four(Data(block), 0)[1] = 7
    BY <1>8 DEF Four
  <2>. HIDE DEF c
  <2>5. Decode(Behind(i, 10))[1] = 7
    BY <2>2, <2>3, <2>4, BehindFirst, FirstByte
  <2>. QED  BY <2>5
<1>16. CASE k # 0
  <2>. DEFINE g == (k - 1) \div 5
              j == ((k - 1) % 5) + 1
              c == Group(g)
  <2>1. g \in 0 .. Size - 1 /\ j \in 1 .. 5 /\ 5 * g + j = k
    BY <1>4, <1>13, <1>16, InGroup
  <2>. HIDE DEF g, j, c
  <2>2. c[j] = SYNC
    <3>1. Turned(i + 0) = Group(g)[j]
      BY <1>14, <2>1, 0 \in Nat
    <3>. QED  BY <3>1 DEF c
  <2>3. j = 3 /\ ~(c[4] \div 8 = 10 /\ ((c[4] % 8) * 4) + (c[5] \div 64) = 9)
    BY <1>9, <2>1, <2>2, GroupBytes DEF c, Group
  <2>4. /\ Turned(i + 1) = c[4] /\ Turned(i + 1) \in Byte
        /\ Turned(i + 2) = c[5] /\ Turned(i + 2) \in Byte
    <3>1. k + 1 = 5 * g + 4 /\ k + 2 = 5 * g + 5
      BY <2>1, <2>3
    <3>. QED  BY <1>14, <2>1, <3>1, 1 \in Nat, 2 \in Nat DEF c
  <2>5. FirstOf(c[4], c[5]) = 8
    BY <2>4, BehindFirst
  <2>. QED  BY <2>3, <2>4, <2>5, HeaderMark
<1>. QED  BY <1>15, <1>16

\* In a revolution the head of a sector passes once
LEMMA HeaderOnce ==
    ASSUME Ready, NEW sector \in Sectors(Here)
    PROVE  \E first \in 0 .. TrackLength - 1 :
              /\ OffsetOf(first) = 0 /\ SectorOf(first) = sector
              /\ Headers(Here, sector) = {first}
<1>. DEFINE L == TrackLength
            p == SectorSize * sector + 0
            H == Headers(Here, sector)
<1>1. HeadInv /\ sector \in Nat
  <2>1. sector \in 0 .. 20
    BY SectorIs, Zenon
  <2>. QED  BY <2>1 DEF Ready
<1>2. SectorSize \in Nat \ {0} /\ L \in Nat \ {0} /\ gcr_ptr \in 0 .. L - 1
  BY <1>1, TrackIs DEF HeadInv, TrackLength
<1>3. p \in 0 .. L - 1 /\ p \div SectorSize = sector /\ p % SectorSize = 0
  <2>1. 0 \in 0 .. SectorSize - 1
    BY <1>2
  <2>2. p \in 0 .. L - 1
    BY <1>1, <2>1, WhereIs
  <2>3. p \div SectorSize = sector /\ p % SectorSize = 0
    BY <1>1, <1>2, <2>1, DivUnique
  <2>. QED  BY <2>2, <2>3
<1>4. ASSUME NEW i \in 0 .. L - 1
      PROVE  /\ gcr_ptr + i < L => Place(i) = gcr_ptr + i
             /\ gcr_ptr + i >= L => Place(i) = (gcr_ptr + i) - L
  <2>1. gcr_ptr + i \in 0 .. 2 * L - 1
    BY <1>2
  <2>2. Place(i) = (gcr_ptr + i) % L
    BY DEF Place
  <2>. DEFINE q == gcr_ptr + i
  <2>. HIDE DEF L, q
  <2>3. q % L = IF q < L THEN q ELSE q - L
    BY <1>2, <2>1, Mod2 DEF q
  <2>4. (q < L => Place(i) = q) /\ (q >= L => Place(i) = q - L)
    BY <1>2, <2>1, <2>2, <2>3 DEF q
  <2>. QED  BY <2>4 DEF q
<1>5. ASSUME NEW i \in 0 .. L - 1
      PROVE  i \in H <=> OffsetOf(i) = 0 /\ SectorOf(i) = sector
  <2>1. i \in Nat
    BY <1>2
  <2>2. CASE OffsetOf(i) = 0
    BY <2>1, <2>2, HeaderFound DEF Headers
  <2>3. CASE OffsetOf(i) # 0
    BY <2>1, <2>3, NoHeaderElsewhere DEF Headers, IsHeader
  <2>. QED  BY <2>2, <2>3
<1>6. ASSUME NEW i \in 0 .. L - 1
      PROVE  OffsetOf(i) = 0 /\ SectorOf(i) = sector <=> Place(i) = p
  <2>1. i \in Nat
    BY <1>2
  <2>2. Place(i) = SectorSize * SectorOf(i) + OffsetOf(i)
    BY <1>1, <2>1, PlaceIs
  <2>3. Place(i) = p => OffsetOf(i) = 0 /\ SectorOf(i) = sector
    BY <1>3 DEF OffsetOf, SectorOf
  <2>. QED  BY <2>2, <2>3
<1>. DEFINE first == IF p >= gcr_ptr THEN p - gcr_ptr ELSE p - gcr_ptr + L
<1>7. H \subseteq 0 .. L - 1
  BY DEF Headers
<1>. HIDE DEF L, p, H
<1>8. first \in 0 .. L - 1
  BY <1>2, <1>3
<1>9. Place(first) = p
  BY <1>2, <1>3, <1>4, <1>8
<1>10. ASSUME NEW i \in 0 .. L - 1, Place(i) = p PROVE i = first
  BY <1>2, <1>3, <1>4, <1>10
<1>. HIDE DEF first
<1>11. H = {first}
  BY <1>5, <1>6, <1>7, <1>8, <1>9, <1>10
<1>. QED  BY <1>6, <1>8, <1>9, <1>11 DEF H, L

\* The first SYNC behind a header is that of the data
LEMMA DataFound ==
    ASSUME Ready, NEW i \in Nat, OffsetOf(i) = 0
    PROVE  NextSync(i + 1) = i + 12
<1>. DEFINE from == i + 1
            P(n) == Turned(n) = SYNC /\ \A j \in from .. n - 1 : Turned(j) # SYNC
            W == from .. from + TrackLength - 1
<1>1. TrackLength \in Nat /\ TrackLength >= 19
  <2>1. HeadInv
    BY DEF Ready
  <2>2. SectorSize \in Nat /\ SectorSize >= 19 /\ TrackLength \in Nat /\ TrackLength >= SectorSize
    BY <2>1, TrackIs DEF HeadInv, TrackLength
  <2>. QED  BY <2>2
<1>2. Turned(i + 12) = SYNC /\ \A k \in 1 .. 11 : Turned(i + k) # SYNC
  BY HeaderFound
<1>3. \A j \in i + 1 .. i + 11 : Turned(j) # SYNC
  <2>. SUFFICES ASSUME NEW j \in i + 1 .. i + 11 PROVE Turned(j) # SYNC
    OBVIOUS
  <2>1. j - i \in 1 .. 11 /\ i + (j - i) = j
    OBVIOUS
  <2>. QED  BY <1>2, <2>1
<1>4. i + 12 \in W /\ P(i + 12)
  <2>1. i + 12 \in W /\ (i + 12) - 1 = i + 11
    BY <1>1
  <2>. QED  BY <1>2, <1>3, <2>1
<1>5. ASSUME NEW n \in W, P(n) PROVE n = i + 12
  <2>1. n \in Int /\ n >= i + 1
    BY <1>1
  <2>2. ~(n < i + 12)
    BY <1>3, <1>5, <2>1
  <2>3. ~(n > i + 12)
    <3>. SUFFICES ASSUME n > i + 12 PROVE FALSE
      OBVIOUS
    <3>1. i + 12 \in from .. n - 1
      BY <2>1
    <3>. QED  BY <1>2, <1>5, <3>1
  <2>. QED  BY <2>1, <2>2, <2>3
<1>6. NextSync(from) = CHOOSE n \in W : P(n)
  BY DEF NextSync
<1>. HIDE DEF P, W
<1>7. (CHOOSE n \in W : P(n)) = i + 12
  BY <1>4, <1>5
<1>. QED  BY <1>6, <1>7

\* A controller finds every sector of the track, and in it what the image holds
LEMMA Reads ==
    ASSUME Ready, NEW sector \in Sectors(Here)
    PROVE  ReadBack(Here, sector) = BlockAt(sector)
<1>. DEFINE headers == Headers(Here, sector)
            least   == CHOOSE i \in headers : \A j \in headers : i <= j
            start   == NextSync(least + 1)
            data    == Decode(Behind(start, DataSize))
            found   == [i \in 1 .. BlockSize |-> data[i + 1]]
            block   == BlockAt(sector)
<1>1. PICK first \in 0 .. TrackLength - 1 :
         OffsetOf(first) = 0 /\ SectorOf(first) = sector /\ headers = {first}
  BY HeaderOnce
<1>2. first \in Nat
  BY <1>1, TrackIs DEF Ready, HeadInv, TrackLength
<1>3. least = first
  BY <1>1, <1>2
<1>4. start = first + 12
  BY <1>1, <1>2, <1>3, DataFound
<1>5. data = Data(block)
  BY <1>1, <1>2, <1>4, HeaderFound
<1>6. block \in Block
  BY SectorIs
<1>7. data[1] = 7 /\ data[BlockSize + 2] = Checksum(block)
  BY <1>5, <1>6, DataBytes
<1>8. found = block
  <2>1. \A i \in 1 .. BlockSize : data[i + 1] = block[i]
    BY <1>5, <1>6, DataBytes
  <2>2. block = [i \in 1 .. BlockSize |-> block[i]]
    BY <1>6 DEF Block
  <2>. HIDE DEF data, block
  <2>. QED  BY <2>1, <2>2
<1>9. gcr_ptr \in 0 .. TrackLength - 1 /\ headers # {}
  BY <1>1 DEF Ready, HeadInv
<1>10. ReadBack(Here, sector) =
          IF /\ gcr_ptr \in 0 .. TrackLength - 1 /\ headers # {}
             /\ data[1] = 7 /\ data[BlockSize + 2] = Checksum(found)
          THEN found ELSE << >>
  BY DEF ReadBack
<1>. HIDE DEF headers, data, found, block
<1>. QED  BY <1>7, <1>8, <1>9, <1>10 DEF block

-----------------------------------------------------------------------------
(* The head stays on the disk *)

LEMMA HeadUnchanged == ASSUME HeadInv, UNCHANGED head PROVE HeadInv'
BY DEF HeadInv, TrackLength, head

LEMMA TrackLengthIs == ASSUME HeadInv PROVE TrackLength \in Nat /\ TrackLength >= 19
<1>1. SectorSize \in Nat /\ SectorSize >= 19 /\ TrackLength \in Nat /\ TrackLength >= SectorSize
  BY TrackIs DEF HeadInv, TrackLength
<1>. QED  BY <1>1

LEMMA HeadOfExecute == ASSUME HeadInv, Execute PROVE HeadInv'
<1>1. CASE UseDisk
  <2>1. ASSUME NEW halftrack \in 2 .. 2 * Len(num_sectors), MoveHead(halftrack)
        PROVE  HeadInv'
    <3>1. current_halftrack' = halftrack /\ gcr_ptr' = 0
      BY <2>1 DEF MoveHead
    <3>. DEFINE length == SectorSize * num_sectors[TrackAt(halftrack)]
    <3>2. TrackLength' = length
      BY <3>1 DEF TrackLength
    <3>3. length \in Nat /\ length >= SectorSize /\ SectorSize >= 19 /\ SectorSize \in Nat
      BY TrackIs
    <3>. HIDE DEF length
    <3>4. 0 \in 0 .. length - 1
      BY <3>3
    <3>. QED  BY <2>1, <3>1, <3>2, <3>4, Zenon DEF HeadInv
  <2>2. CASE ReadGCRByte
    <3>1. /\ current_halftrack' = current_halftrack
          /\ gcr_ptr' = IF gcr_ptr + 1 = TrackLength THEN 0 ELSE gcr_ptr + 1
      BY <2>2 DEF ReadGCRByte
    <3>2. TrackLength' = TrackLength
      BY <3>1 DEF TrackLength
    <3>3. gcr_ptr' \in 0 .. TrackLength - 1
      BY <3>1, TrackLengthIs DEF HeadInv
    <3>. QED  BY <3>1, <3>2, <3>3 DEF HeadInv
  <2>3. CASE WaitForSync
    <3>1. current_halftrack' = current_halftrack /\ gcr_ptr' \in 0 .. TrackLength - 1
      BY <2>3 DEF WaitForSync
    <3>2. TrackLength' = TrackLength
      BY <3>1 DEF TrackLength
    <3>. QED  BY <3>1, <3>2 DEF HeadInv
  <2>4. CASE UNCHANGED head
    BY <2>4, HeadUnchanged
  <2>. QED  BY <1>1, <2>1, <2>2, <2>3, <2>4 DEF UseDisk, WriteSector, FormatTrack
<1>2. CASE SetI \/ ClearI \/ Sleep \/ WriteRam \/ ReadT1 \/ Illegal \/ WriteRegister
  BY <1>2, HeadUnchanged DEF SetI, ClearI, Sleep, WriteRam, ReadT1, Illegal, WriteRegister,
     WriteControl, WriteT1, WritePort, disks, jobVars
<1>. QED  BY <1>1, <1>2 DEF Execute

LEMMA HeadInit == Init => HeadInv
<1>. SUFFICES ASSUME JobInit PROVE HeadInv
  BY DEF Init
<1>1. current_halftrack = 2 /\ gcr_ptr = 0
  BY DEF JobInit
<1>2. 2 \in 2 .. 2 * Len(num_sectors)
  BY GcrAssumption DEF Tracks
<1>3. TrackLength = SectorSize * num_sectors[TrackAt(2)]
  BY <1>1 DEF TrackLength
<1>4. TrackLength \in Nat /\ TrackLength >= 19
  BY <1>2, <1>3, TrackIs
<1>. QED  BY <1>1, <1>2, <1>4 DEF HeadInv

LEMMA HeadStep == HeadInv /\ [Next]_vars => HeadInv'
<1>. SUFFICES ASSUME HeadInv, [Next]_vars PROVE HeadInv'
  OBVIOUS
<1>1. CASE LineOfC64 \/ LineOfBoth \/ C64Step \/ AsyncReset
  BY <1>1, HeadUnchanged DEF LineOfC64, LineOfBoth, C64Step, AsyncReset, disks, jobVars
<1>2. CASE DriveStep
  BY <1>2, HeadOfExecute DEF DriveStep
<1>3. ASSUME NEW emul \in BOOLEAN, NEW path \in Disks \cup {NoDisk}, NewPrefs(emul, path)
      PROVE  HeadInv'
  BY <1>3, HeadUnchanged DEF NewPrefs, JobNewPrefs
<1>4. ASSUME NEW s \in Saved, LoadSnapshot(s) PROVE HeadInv'
  <2>1. current_halftrack' = s.current_halftrack /\ gcr_ptr' = s.gcr_ptr
    BY <1>4 DEF LoadSnapshot
  <2>2. TrackLength' = SectorSize * num_sectors[TrackAt(s.current_halftrack)]
    BY <2>1 DEF TrackLength
  <2>3. /\ s.current_halftrack \in 2 .. 2 * Len(num_sectors)
        /\ s.gcr_ptr \in 0 .. SectorSize * num_sectors[TrackAt(s.current_halftrack)] - 1
    BY SavedAssumption
  <2>. QED  BY <2>1, <2>2, <2>3 DEF HeadInv
<1>5. ASSUME NEW atn \in BOOLEAN, LoadWithout(atn) PROVE HeadInv'
  BY <1>5, HeadUnchanged DEF LoadWithout
<1>6. CASE UNCHANGED vars
  BY <1>6, HeadUnchanged DEF vars, disks, jobVars
<1>. QED  BY <1>1, <1>2, <1>3, <1>4, <1>5, <1>6 DEF Next, Emulation

\* Whatever is opened, written, formatted, moved and loaded: from wherever the head is,
\* a disk controller finds every sector of its track, and reads what the image holds.
\* No byte in the data that SyncFound takes for a SYNC makes it find another.
THEOREM DiskReadable == Spec => []DiskReadsBack
<1>1. DiskInv /\ HeadInv => DiskReadsBack
  <2>. SUFFICES ASSUME DiskInv, HeadInv, the_file # NoDisk, NEW sector \in Sectors(Here)
                PROVE  ReadBack(Here, sector) = BlockAt(sector)
    BY DEF DiskReadsBack, Readable, Here, BlockAt
  <2>1. Ready
    BY DEF Ready
  <2>. QED  BY <2>1, Reads
<1>. QED  BY <1>1, InitOnDisk, NextOnDisk, HeadInit, HeadStep, PTL DEF Spec
=============================================================================
