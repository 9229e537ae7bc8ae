------------------------ MODULE CpuInterruptsProofs ------------------------
(***************************************************************************)
(* Proofs about CpuInterrupts for every set of interrupt sources, and      *)
(* about the VIC that drives one of its lines: VicII is one of the chips   *)
(* that CpuInterrupts allows, and for every geometry of the screen its     *)
(* raster interrupt is exact and its rows and sprites are in order.        *)
(***************************************************************************)
EXTENDS VicII, TLAPS

\* The three invariants are inductive together: TypeOK is only needed for the
\* shape of the registers.
IInv == TypeOK /\ NoSpuriousIrq /\ NmiOpens

LEMMA InitIInv == Init => IInv
<1> SUFFICES ASSUME Init PROVE IInv
  OBVIOUS
<1>1. /\ icr \in [{1, 2} -> SUBSET CiaSources] /\ int_mask \in [{1, 2} -> SUBSET CiaSources]
      /\ ir \in [{1, 2} -> BOOLEAN]
  BY DEF Init
<1>3. TypeOK
  <2>1. vicFlag \subseteq Sources /\ vicMask \subseteq Sources /\ intr \subseteq IRQs \cup {"NMI", "RESET"}
    BY DEF Init
  <2>2. resetting \in 0 .. 2 /\ ignored \subseteq {1, 2}
    BY DEF Init
  <2> QED BY <1>1, <2>1, <2>2 DEF Init, TypeOK
<1>2. NoSpuriousIrq /\ NmiOpens
  BY DEF Init, NoSpuriousIrq, NmiOpens
<1> QED BY <1>2, <1>3 DEF IInv

-----------------------------------------------------------------------------
(* Between the lines *)

LEMMA VicEventStep ==
    ASSUME IInv, NEW events \in SUBSET Sources, VicEvent(events)
    PROVE  IInv'
<1> USE DEF IInv, VicEvent, cia, resets, IRQs
<1>1. TypeOK'
  BY DEF TypeOK
<1>2. NoSpuriousIrq' /\ NmiOpens'
  BY DEF TypeOK, NoSpuriousIrq, NmiOpens
<1> QED BY <1>1, <1>2

\* What RaiseCia may do to the CPU's side of the lines
LEMMA RaiseCiaEffect ==
    ASSUME IInv, NEW c \in {1, 2}, RaiseCia(c)
    PROVE  /\ intr' \subseteq IRQs \cup {"NMI", "RESET"} /\ nmi_state' \in BOOLEAN
           /\ "VICIRQ" \in intr' => "VICIRQ" \in intr
           /\ "CIAIRQ" \in intr' => "CIAIRQ" \in intr \/ c = 1
           /\ nmi_state' => nmi_state \/ c = 2
<1>1. intr \subseteq IRQs \cup {"NMI", "RESET"} /\ nmi_state \in BOOLEAN
  BY DEF IInv, TypeOK
<1>2. CASE c = 1
  <2>1. intr' = intr \cup {"CIAIRQ"} /\ nmi_state' = nmi_state
    BY <1>2 DEF RaiseCia
  <2>2. /\ intr' \subseteq IRQs \cup {"NMI", "RESET"}
        /\ "VICIRQ" \in intr' => "VICIRQ" \in intr
    BY <1>1, <2>1 DEF IRQs
  <2>3. nmi_state' \in BOOLEAN /\ (nmi_state' => nmi_state)
    BY <1>1, <2>1, Zenon
  <2> QED BY <1>2, <2>2, <2>3, Zenon
<1>3. CASE c = 2
  <2>1. nmi_state' = TRUE /\ (intr' = intr \/ intr' = intr \cup {"NMI"})
    BY <1>3 DEF RaiseCia, TriggerNMI
  <2>2. /\ intr' \subseteq IRQs \cup {"NMI", "RESET"}
        /\ "VICIRQ" \in intr' => "VICIRQ" \in intr
        /\ "CIAIRQ" \in intr' => "CIAIRQ" \in intr
    BY <1>1, <2>1 DEF IRQs
  <2> QED BY <1>3, <2>1, <2>2
<1> QED BY <1>2, <1>3

LEMMA CiaEventStep ==
    ASSUME IInv, NEW c \in {1, 2}, NEW events \in SUBSET CiaSources, CiaEvent(c, events)
    PROVE  IInv'
<1>1. /\ icr' = [icr EXCEPT ![c] = @ \cup events]
      /\ UNCHANGED <<vicFlag, vicMaster, vicMask, int_mask, i_flag, pc, resetting, ignored>>
  BY DEF CiaEvent, vic, resets
<1>2. CASE events \cap int_mask[c] # {}
  <2>1. ir' = [ir EXCEPT ![c] = TRUE] /\ RaiseCia(c)
    BY <1>2 DEF CiaEvent
  <2>2. TypeOK'
    BY <1>1, <2>1, RaiseCiaEffect DEF IInv, TypeOK
  <2>3. ir'[c] /\ (ir[1] => ir'[1]) /\ (ir[2] => ir'[2])
    BY <2>1 DEF IInv, TypeOK
  <2>4. NoSpuriousIrq'
    BY <1>1, <2>3, <2>1, RaiseCiaEffect DEF IInv, NoSpuriousIrq
  <2>5. NmiOpens'
    BY <1>1, <2>3, <2>1, RaiseCiaEffect DEF IInv, NmiOpens
  <2> QED BY <2>2, <2>4, <2>5 DEF IInv
<1>3. CASE events \cap int_mask[c] = {}
  <2>1. UNCHANGED <<ir, intr, nmi_state>>
    BY <1>3 DEF CiaEvent
  <2> QED BY <1>1, <2>1 DEF IInv, TypeOK, NoSpuriousIrq, NmiOpens
<1> QED BY <1>2, <1>3

LEMMA AsyncNMIStep ==
    ASSUME IInv, AsyncNMI
    PROVE  IInv'
BY DEF IInv, AsyncNMI, vic, cia, resets, TypeOK, NoSpuriousIrq, NmiOpens, IRQs

\* The CIAs are reset at once, with the CPU or before it
LEMMA ResetStep ==
    ASSUME IInv, Reset \/ IllegalOpcode
    PROVE  IInv'
<1> USE DEF IInv, Reset, IllegalOpcode, vic, TypeOK, IRQs
<1>1. /\ icr' \in [{1, 2} -> SUBSET CiaSources] /\ int_mask' \in [{1, 2} -> SUBSET CiaSources]
      /\ ir' \in [{1, 2} -> BOOLEAN]
  OBVIOUS
<1>2. TypeOK'
  BY <1>1
<1>3. NoSpuriousIrq' /\ NmiOpens'
  BY DEF NoSpuriousIrq, NmiOpens
<1> QED BY <1>2, <1>3

\* On the UI thread the CPU is told first, and each CIA has its own turn
LEMMA AsyncResetStep ==
    ASSUME IInv, AsyncReset
    PROVE  IInv'
BY DEF IInv, AsyncReset, vic, cia, TypeOK, NoSpuriousIrq, NmiOpens, IRQs

LEMMA ResetCiaStep ==
    ASSUME IInv, ResetCia
    PROVE  IInv'
<1>1. resetting \in {1, 2}
  BY DEF IInv, TypeOK, ResetCia
<1>2. /\ UNCHANGED <<vicFlag, vicMaster, vicMask, intr, nmi_state, i_flag, pc>>
      /\ icr' = [icr EXCEPT ![resetting] = {}] /\ ir' = [ir EXCEPT ![resetting] = FALSE]
      /\ int_mask' = [int_mask EXCEPT ![resetting] = {}]
      /\ ignored' = ignored \cup {resetting} /\ resetting' \in 0 .. 2
  BY DEF ResetCia, vic, cpu
<1>3. TypeOK'
  BY <1>1, <1>2 DEF IInv, TypeOK
<1>4. \A c \in {1, 2} : ir[c] \/ c \in ignored => ir'[c] \/ c \in ignored'
  BY <1>1, <1>2 DEF IInv, TypeOK
<1>5. NoSpuriousIrq' /\ NmiOpens'
  BY <1>2, <1>4 DEF IInv, NoSpuriousIrq, NmiOpens
<1> QED BY <1>3, <1>5 DEF IInv

\* What was saved satisfied the invariant, and it is restored as one
LEMMA LoadSnapshotStep ==
    ASSUME IInv, NEW s \in Saved, LoadSnapshot(s)
    PROVE  IInv'
BY InterruptsAssumption DEF IInv, LoadSnapshot, TypeOK, NoSpuriousIrq, NmiOpens

LEMMA BeginLineStep ==
    ASSUME IInv, BeginLine
    PROVE  IInv'
<1> USE DEF IInv, BeginLine, vic, cia, cpu, resets
<1>1. UNCHANGED <<vicFlag, vicMaster, vicMask, icr, ir, int_mask>> /\ pc' = "run"
  OBVIOUS
<1>2. /\ intr' \subseteq intr /\ i_flag' \in BOOLEAN /\ UNCHANGED resetting
      /\ \/ UNCHANGED <<nmi_state, ignored>>
         \/ intr' = {} /\ nmi_state' = FALSE /\ ignored' = {}
  BY DEF HandleInt, TakeNMI, TakeIRQ, TakeReset, TakeNothing, TypeOK
<1>3. TypeOK'
  BY <1>1, <1>2 DEF TypeOK
<1>4. NoSpuriousIrq'
  BY <1>1, <1>2 DEF NoSpuriousIrq
<1>5. NmiOpens'
  <2>1. CASE UNCHANGED <<nmi_state, ignored>>
    BY <2>1, <1>1, Zenon DEF NmiOpens
  <2>2. CASE nmi_state' = FALSE
    BY <2>2 DEF NmiOpens
  <2> QED BY <1>2, <2>1, <2>2
<1> QED BY <1>3, <1>4, <1>5

-----------------------------------------------------------------------------
(* Instructions *)

\* Reading ICR takes down exactly the line of the CIA it is read from.
LEMMA ReadIcrStep ==
    ASSUME IInv, NEW c \in {1, 2}, ReadIcr(c)
    PROVE  IInv'
<1> USE DEF IInv, ReadIcr, vic
<1>1. TypeOK'
  BY DEF TypeOK
<1>2. CASE c = 1
  <2>1. /\ "CIAIRQ" \notin intr' /\ ir'[2] = ir[2] /\ nmi_state' = nmi_state
        /\ 2 \in ignored => 2 \in ignored'
    BY <1>2 DEF TypeOK
  <2> QED BY <1>1, <1>2, <2>1 DEF NoSpuriousIrq, NmiOpens
<1>3. CASE c = 2
  <2>1. /\ nmi_state' = FALSE /\ ir'[1] = ir[1] /\ intr' = intr
        /\ 1 \in ignored => 1 \in ignored'
    BY <1>3 DEF TypeOK
  <2> QED BY <1>1, <1>3, <2>1 DEF NoSpuriousIrq, NmiOpens
<1> QED BY <1>2, <1>3

LEMMA EnableCiaStep ==
    ASSUME IInv, NEW c \in {1, 2}, NEW s \in CiaSources, EnableCia(c, s)
    PROVE  IInv'
<1>1. /\ int_mask' = [int_mask EXCEPT ![c] = @ \cup {s}]
      /\ UNCHANGED <<vicFlag, vicMaster, vicMask, icr, i_flag, pc, resetting, ignored>>
  BY DEF EnableCia, vic, resets
<1>2. CASE icr[c] \cap int_mask'[c] # {}
  <2>1. ir' = [ir EXCEPT ![c] = TRUE] /\ RaiseCia(c)
    BY <1>2 DEF EnableCia
  <2>2. TypeOK'
    BY <1>1, <2>1, RaiseCiaEffect DEF IInv, TypeOK
  <2>3. ir'[c] /\ (ir[1] => ir'[1]) /\ (ir[2] => ir'[2])
    BY <2>1 DEF IInv, TypeOK
  <2>4. NoSpuriousIrq'
    BY <1>1, <2>3, <2>1, RaiseCiaEffect DEF IInv, NoSpuriousIrq
  <2>5. NmiOpens'
    BY <1>1, <2>3, <2>1, RaiseCiaEffect DEF IInv, NmiOpens
  <2> QED BY <2>2, <2>4, <2>5 DEF IInv
<1>3. CASE icr[c] \cap int_mask'[c] = {}
  <2>1. UNCHANGED <<ir, intr, nmi_state>>
    BY <1>3 DEF EnableCia
  <2> QED BY <1>1, <2>1 DEF IInv, TypeOK, NoSpuriousIrq, NmiOpens
<1> QED BY <1>2, <1>3

LEMMA DisableCiaStep ==
    ASSUME IInv, NEW c \in {1, 2}, NEW s \in CiaSources, DisableCia(c, s)
    PROVE  IInv'
BY DEF IInv, DisableCia, vic, cpu, resets, TypeOK, NoSpuriousIrq, NmiOpens

\* "Clear interrupt (hack!)": the line goes down even when a source is left, so
\* nothing can be spurious afterwards.
LEMMA AckVicStep ==
    ASSUME IInv, NEW flags \in SUBSET Sources, AckVic(flags)
    PROVE  IInv'
<1> USE DEF IInv, AckVic, cia, resets
<1>1. vicFlag' \subseteq Sources /\ vicMaster' \in BOOLEAN
  BY DEF TypeOK
<1>2. TypeOK'
  BY <1>1 DEF TypeOK, IRQs
<1>3. NoSpuriousIrq' /\ NmiOpens'
  BY DEF NoSpuriousIrq, NmiOpens
<1> QED BY <1>2, <1>3

LEMMA MaskVicStep ==
    ASSUME IInv, NEW mask \in SUBSET Sources, MaskVic(mask)
    PROVE  IInv'
BY DEF IInv, MaskVic, cia, resets, TypeOK, NoSpuriousIrq, NmiOpens, IRQs

LEMMA FlagStep ==
    ASSUME IInv, EmulateLine \/ EndLine \/ SetI \/ ClearI
    PROVE  IInv'
<1>1. /\ UNCHANGED <<vicFlag, vicMaster, vicMask, icr, ir, int_mask, intr>>
      /\ UNCHANGED <<nmi_state, resetting, ignored>>
      /\ i_flag' \in BOOLEAN /\ pc' \in {"chips", "line", "run"}
  BY DEF IInv, TypeOK, EmulateLine, EndLine, SetI, ClearI, vic, cia, cpu, resets
<1> QED BY <1>1 DEF IInv, TypeOK, NoSpuriousIrq, NmiOpens

-----------------------------------------------------------------------------
LEMMA NextIInv == IInv /\ [Next]_vars => IInv'
<1> SUFFICES ASSUME IInv, [Next]_vars PROVE IInv'
  OBVIOUS
<1>1. CASE Chips
  <2>1. CASE \E s \in Saved : LoadSnapshot(s)
    BY <2>1, LoadSnapshotStep
  <2> QED BY <1>1, <2>1, AsyncNMIStep DEF Chips
<1>2. CASE Instruction
  <2>1. CASE \E c \in {1, 2} : ReadIcr(c)
    BY <2>1, ReadIcrStep
  <2>2. CASE \E c \in {1, 2}, s \in CiaSources : EnableCia(c, s) \/ DisableCia(c, s)
    BY <2>2, EnableCiaStep, DisableCiaStep
  <2>3. CASE \E flags \in SUBSET Sources : AckVic(flags) \/ MaskVic(flags)
    BY <2>3, AckVicStep, MaskVicStep
  <2> QED BY <1>2, <2>1, <2>2, <2>3, FlagStep, ResetStep DEF Instruction
<1>3. CASE \E events \in SUBSET Sources : VicEvent(events)
  BY <1>3, VicEventStep
<1>4. CASE \E c \in {1, 2}, events \in SUBSET CiaSources : CiaEvent(c, events)
  BY <1>4, CiaEventStep
<1>5. CASE UNCHANGED vars
  BY <1>5 DEF vars, vic, cia, cpu, resets, IInv, TypeOK, NoSpuriousIrq, NmiOpens
<1> QED BY <1>1, <1>2, <1>3, <1>4, <1>5, FlagStep, BeginLineStep,
       ResetStep, AsyncResetStep, ResetCiaStep DEF Next

-----------------------------------------------------------------------------
\* The inductive invariant holds in every reachable state.
THEOREM InterruptInvariant == Spec => []IInv
BY InitIInv, NextIInv, PTL DEF Spec

\* Nothing but the four entries is ever asserted.
THEOREM InterruptTypeOK == Spec => []TypeOK
<1>1. IInv => TypeOK
  BY DEF IInv
<1> QED BY InterruptInvariant, <1>1, PTL

\* However many sources the chips have and in whichever order they come up, are
\* masked, acknowledged and reset, no IRQ line is asserted without a cause.
THEOREM NoSpuriousIrqs == Spec => []NoSpuriousIrq
<1>1. IInv => NoSpuriousIrq
  BY DEF IInv
<1> QED BY InterruptInvariant, <1>1, PTL

\* In every state in which further NMIs are shut out, a read of CIA 2's ICR is
\* still owed that lets them in again.
THEOREM NmiAlwaysOpens == Spec => []NmiOpens
<1>1. IInv => NmiOpens
  BY DEF IInv
<1> QED BY InterruptInvariant, <1>1, PTL

-----------------------------------------------------------------------------
(* The VIC is one of the chips of CpuInterrupts *)

LEMMA EventsAreSources == ASSUME NEW raster PROVE Events(raster) \in SUBSET Sources
BY VicAssumption DEF Events, Collide

\* What the program does to the VIC's registers
LEMMA AccessIsNext == Access => [Next]_vars
<1>. SUFFICES ASSUME Access PROVE [Next]_vars
  OBVIOUS
<1>. USE DEF Next
<1>1. ASSUME NEW new, Compare(new) PROVE [Next]_vars
  <2>1. PICK events \in SUBSET Sources : VicEvent(events)
    BY <1>1, VicAssumption DEF Compare
  <2>. QED  BY <2>1
<1>2. ASSUME NEW mask \in Masks, WriteMask(mask) PROVE [Next]_vars
  <2>1. mask \in SUBSET Sources /\ MaskVic(mask)  BY <1>2, VicAssumption DEF WriteMask
  <2>. QED  BY <2>1 DEF Instruction
<1>3. CASE TriggerLightpen
  <2>1. {"lightpen"} \in SUBSET Sources /\ VicEvent({"lightpen"})
    BY <1>3, VicAssumption DEF TriggerLightpen
  <2>. QED  BY <2>1
<1>4. CASE UNCHANGED vars  BY <1>4
<1>. QED  BY <1>1, <1>2, <1>3, <1>4
          DEF Access, WriteControl, WriteRaster, WriteSprite, ReadCollisions

LEMMA VicNextIsNext == [VicNext]_vicVars => [Next]_vars
<1>. SUFFICES ASSUME [VicNext]_vicVars PROVE [Next]_vars
  OBVIOUS
<1>1. CASE NextLine \/ FirstLine
  <2>1. PICK raster : EmulateRaster(raster)  BY <1>1 DEF NextLine, FirstLine
  <2>2. VicEvent(Events(raster))  BY <2>1 DEF EmulateRaster
  <2>. QED  BY <2>2, EventsAreSources DEF Next
<1>2. CASE Others
  <2>1. CASE \E flags \in Masks : AckVic(flags)
    BY <2>1, VicAssumption DEF Next, Instruction
  <2>. QED  BY <1>2, <2>1 DEF Others, Next, Instruction
<1>3. CASE LineEnds  BY <1>3 DEF LineEnds, Next
<1>4. CASE Access  BY <1>4, AccessIsNext
<1>5. ASSUME NEW s \in Saved, LoadVic(s) PROVE [Next]_vars
  BY <1>5 DEF LoadVic, Next, Chips
<1>6. CASE VBlank  BY <1>6 DEF VBlank
<1>7. ASSUME NEW borders \in BOOLEAN, NEW skip \in Frequencies, NewPrefs(borders, skip)
      PROVE  [Next]_vars
  BY <1>7 DEF NewPrefs
<1>8. CASE UNCHANGED vicVars  BY <1>8 DEF vicVars
<1>. QED  BY <1>1, <1>2, <1>3, <1>4, <1>5, <1>6, <1>7, <1>8 DEF VicNext

\* Every behaviour of the VIC is one that CpuInterrupts allows its chips, so that what
\* is proved there holds with this VIC.
THEOREM VicImplementsInterrupts == VicSpec => Spec
<1>1. VicInit => Init  BY DEF VicInit
<1>. QED  BY <1>1, VicNextIsNext, PTL DEF VicSpec, Spec

-----------------------------------------------------------------------------
(* The raster interrupt *)

RasterInt == raster_y \in 0 .. RASTER_VALUES - 1

\* The line that comes next, and the one in which a snapshot resumes
LEMMA NextRaster ==
    ASSUME NEW y \in 0 .. RASTER_VALUES - 1
    PROVE  (y + 1) % RASTER_VALUES = IF y = RASTER_VALUES - 1 THEN 0 ELSE y + 1
<1>1. CASE y = RASTER_VALUES - 1
  <2>1. RASTER_VALUES % RASTER_VALUES = 0  BY VicAssumption
  <2>. QED  BY <1>1, <2>1, VicAssumption
<1>2. CASE y # RASTER_VALUES - 1  BY <1>2, VicAssumption
<1>. QED  BY <1>1, <1>2

LEMMA RestInRange ==
    ASSUME NEW y \in Nat
    PROVE  y % RASTER_VALUES \in 0 .. RASTER_VALUES - 1
BY VicAssumption

LEMMA ResumedRaster ==
    ASSUME NEW s \in Saved, LoadVic(s)
    PROVE  raster_y' \in 0 .. RASTER_VALUES - 1
<1>1. s.raster_y + (IF s.irq_raster >= HighLine /\ (s.raster_y \div HighLine) % 2 = 0
                    THEN HighLine ELSE 0) \in Nat
  BY VicAssumption, SavedVicAssumption
<1>. QED  BY <1>1, RestInRange DEF LoadVic

LEMMA RasterIntStep == RasterInt /\ [VicNext]_vicVars => RasterInt'
<1>. SUFFICES ASSUME RasterInt, [VicNext]_vicVars PROVE RasterInt'
  OBVIOUS
<1>. USE DEF RasterInt
<1>1. CASE NextLine  BY <1>1, NextRaster, VicAssumption DEF NextLine
<1>2. CASE VBlank  BY <1>2, VicAssumption DEF VBlank
<1>3. ASSUME NEW s \in Saved, LoadVic(s) PROVE RasterInt'
  BY <1>3, ResumedRaster
<1>4. CASE raster_y' = raster_y  BY <1>4
<1>. QED  BY <1>1, <1>2, <1>3, <1>4
          DEF VicNext, FirstLine, Others, LineEnds, Access, NewPrefs, vicVars, vicChip

ExactStep ==
    /\ ~Equal /\ Equal' => "raster" \in vicFlag'
    /\ "raster" \in vicFlag' \ vicFlag => ~Equal /\ Equal'

LEMMA EmulateRasterExact ==
    ASSUME RasterInt, EmulateRaster(raster_y'), turn' = "others",
           turn = "vblank" \/ raster_y' = raster_y + 1
    PROVE  ExactStep
<1>1. vicFlag' = vicFlag \cup Events(raster_y') /\ irq_raster' = irq_raster
  BY DEF EmulateRaster, VicEvent, regs
<1>2. "raster" \in Events(raster_y') <=> raster_y' = irq_raster
  BY DEF Events, Collide
<1>3. Equal' <=> raster_y' = irq_raster
  BY <1>1 DEF Equal
<1>4. Equal => raster_y' # irq_raster
  BY VicAssumption DEF Equal, RasterInt
<1>. QED  BY <1>1, <1>2, <1>3, <1>4 DEF ExactStep

LEMMA CompareExact ==
    ASSUME NEW new, Compare(new), raster_y' = raster_y, turn' = turn, turn # "vblank"
    PROVE  ExactStep
<1>1. irq_raster' = new /\ vicFlag' = vicFlag \cup (IF irq_raster # new /\ raster_y = new
                                                    THEN {"raster"} ELSE {})
  BY DEF Compare, VicEvent
<1>. QED  BY <1>1 DEF ExactStep, Equal

\* The raster interrupt comes in the lines in which it is asked for, and at once when it
\* is asked for in the present one, and never otherwise.
THEOREM RasterExact == VicSpec => RasterEdge
<1>1. VicInit => RasterInt
  BY VicAssumption DEF VicInit, RasterInt
<1>2. ASSUME RasterInt, [VicNext]_vicVars, turn = "vblank" => turn' # "vblank" /\ raster_y = 0,
             raster_y # RASTER_VALUES - 1
      PROVE  ExactStep
  <2>1. CASE NextLine
    <3>1. raster_y' = raster_y + 1 /\ turn' = "others" /\ EmulateRaster(raster_y + 1)
      BY <1>2, <2>1, NextRaster DEF NextLine, RasterInt
    <3>. QED  BY <1>2, <3>1, EmulateRasterExact
  <2>2. CASE FirstLine
    <3>1. raster_y' = 0 /\ turn = "vblank" /\ turn' = "others" /\ EmulateRaster(0)
      BY <1>2, <2>2 DEF FirstLine
    <3>. QED  BY <1>2, <3>1, EmulateRasterExact
  <2>3. CASE VBlank
    BY <2>3 DEF VBlank, vars, vic, ExactStep, Equal
  <2>4. CASE vicFlag' \subseteq vicFlag /\ raster_y' = raster_y /\ irq_raster' = irq_raster
             /\ (turn = "vblank" <=> turn' = "vblank")
    BY <2>4 DEF ExactStep, Equal
  <2>5. CASE Others
    BY <2>4, <2>5 DEF Others, EmulateLine, BeginLine, SetI, ClearI, AckVic, vic, vicChip, regs
  <2>6. CASE LineEnds
    BY <2>4, <2>6 DEF LineEnds, EndLine, vic, regs
  <2>7. CASE Access
    <3>1. raster_y' = raster_y /\ turn' = turn /\ turn # "vblank"
      BY <1>2, <2>7 DEF Access
    <3>2. ASSUME NEW new, Compare(new) PROVE ExactStep
      BY <3>1, <3>2, CompareExact
    <3>3. CASE TriggerLightpen
      BY <3>1, <3>3 DEF TriggerLightpen, VicEvent, regs, ExactStep, Equal
    <3>4. ASSUME NEW mask, WriteMask(mask) PROVE ExactStep
      BY <3>1, <3>4 DEF WriteMask, MaskVic, regs, ExactStep, Equal
    <3>5. ASSUME NEW which, ReadCollisions(which) PROVE ExactStep
      BY <3>1, <3>5 DEF ReadCollisions, vars, vic, regs, ExactStep, Equal
    <3>6. ASSUME NEW s, WriteSprite(s) PROVE ExactStep
      BY <3>1, <3>6 DEF WriteSprite, vars, vic, ExactStep, Equal
    <3>. QED  BY <2>7, <3>2, <3>3, <3>4, <3>5, <3>6 DEF Access, WriteControl, WriteRaster
  <2>8. ASSUME NEW s \in Saved, LoadVic(s) PROVE ExactStep
    BY <1>2, <2>8 DEF LoadVic
  <2>9. ASSUME NEW borders, NEW skip, NewPrefs(borders, skip) PROVE ExactStep
    BY <1>2, <2>9 DEF NewPrefs
  <2>10. CASE UNCHANGED vicVars
    BY <2>10 DEF vicVars, vars, vic, vicChip, regs, ExactStep, Equal
  <2>. QED  BY <1>2, <2>1, <2>2, <2>3, <2>5, <2>6, <2>7, <2>8, <2>9, <2>10 DEF VicNext
<1>. QED  BY <1>1, <1>2, RasterIntStep, PTL DEF VicSpec, RasterEdge, ExactStep

-----------------------------------------------------------------------------
(* The rows of the screen *)

Counters ==
    /\ raster_y \in Nat /\ vc_base \in Nat /\ rc \in 0 .. RowLines - 1
    /\ display_state \in BOOLEAN

\* A row may be left over from the frame before
LeftOver == vc_base = 0 \/ (vc_base = 1 /\ ~display_state)

\* How many lines of rows have been shown: at most one more in every line, and none in
\* lines beyond the screen
Progress == vc_base * RowLines + (IF display_state THEN rc ELSE 0)

Bounded ==
    IF turn = "vblank" THEN vc_base = 0
    ELSE IF raster_y < FIRST_DMA_LINE \/ raster_y >= TOTAL_RASTERS THEN LeftOver
    ELSE Progress <= RowLines + raster_y - FIRST_DMA_LINE + 1

RowInv == Counters /\ (resumed \/ Bounded)

LEMMA NextRow ==
    ASSUME NEW n \in Nat, NEW k \in Nat
    PROVE  (n + 1) * k = n * k + k /\ n * k \in Nat
OBVIOUS

\* What is smaller than k + 1 rows is not more than k rows
LEMMA WholeRows ==
    ASSUME NEW n \in Nat, NEW m \in Nat, NEW k \in Nat \ {0}, n * k < (m + 1) * k
    PROVE  n <= m
<1>. SUFFICES ASSUME n >= m + 1 PROVE FALSE
  OBVIOUS
<1>1. PICK d \in Nat : n = (m + 1) + d
  <2>. WITNESS n - (m + 1) \in Nat
  <2>. QED  OBVIOUS
<1>2. ((m + 1) + d) * k = (m + 1) * k + d * k /\ d * k \in Nat /\ (m + 1) * k \in Nat
  OBVIOUS
<1>. QED  BY <1>1, <1>2

LEMMA OneMore ==
    ASSUME NEW n \in Nat, NEW a \in Nat, NEW b \in Nat, NEW p \in Nat, a <= b + 1, p >= n + b
    PROVE  n + a <= p + 1
OBVIOUS

\* What a drawn line does to the counters
LEMMA DrawLineCounters ==
    ASSUME Counters, NEW raster \in Nat, DrawLine(raster)
    PROVE  /\ vc_base' \in Nat /\ rc' \in 0 .. RowLines - 1 /\ display_state' \in BOOLEAN
           /\ matrix_line' = IF BadLine(raster) THEN vc_base ELSE matrix_line
           /\ Progress' <= Progress + 1
           /\ ~BadLine(raster) /\ LeftOver => LeftOver'
<1>. DEFINE display == display_state \/ BadLine(raster)
            row == IF BadLine(raster) THEN 0 ELSE rc
            last == row = RowLines - 1
<1>1. /\ display_state' = (display /\ ~last)
      /\ vc_base' = IF last /\ display /\ ~Border(raster) THEN vc_base + 1 ELSE vc_base
      /\ rc' = IF Scrolled(raster + 1) /\ Enabled(raster) THEN 0
               ELSE IF last THEN row ELSE row + 1
      /\ matrix_line' = IF BadLine(raster) THEN vc_base ELSE matrix_line
  BY DEF DrawLine
<1>2. row \in 0 .. RowLines - 1 /\ row <= rc /\ display \in BOOLEAN
  BY VicAssumption DEF Counters
<1>3. BadLine(raster) => row = 0
  OBVIOUS
<1>4. /\ vc_base * RowLines \in Nat /\ vc_base \in Nat /\ RowLines \in Nat \ {0}
      /\ (vc_base + 1) * RowLines = vc_base * RowLines + RowLines
  BY VicAssumption, NextRow DEF Counters
<1>5. ~BadLine(raster) => (display <=> display_state) /\ row = rc
  BY DEF Counters
<1>6. (last \/ ~display => ~display_state') /\ (~last /\ display => display_state')
  BY <1>1
<1>7. /\ vc_base' \in {vc_base, vc_base + 1}
      /\ ~(last /\ display) => vc_base' = vc_base
      /\ rc' \in {0, IF last THEN row ELSE row + 1}
      /\ display_state' \in BOOLEAN
  BY <1>1
<1>. HIDE DEF display, row
<1>8. vc_base' \in Nat /\ rc' \in 0 .. RowLines - 1 /\ display_state' \in BOOLEAN
  BY <1>2, <1>4, <1>7
<1>. HIDE DEF last
<1>9. Progress' <= Progress + 1
  <2>1. Progress >= vc_base * RowLines /\ Progress \in Nat
    BY <1>4 DEF Progress, Counters
  <2>2. display => Progress >= vc_base * RowLines + row
    BY <1>2, <1>3, <1>4, <1>5, <2>1 DEF Progress, Counters
  <2>3. CASE last /\ display
    <3>1. ~display_state'
      BY <1>6, <2>3
    <3>2. Progress' = vc_base' * RowLines
      BY <3>1, <1>4, <1>8 DEF Progress
    <3>3. vc_base' * RowLines <= vc_base * RowLines + RowLines
      <4>1. CASE vc_base' = vc_base  BY <4>1, <1>4
      <4>2. CASE vc_base' = vc_base + 1  BY <4>2, <1>4
      <4>. QED  BY <1>7, <4>1, <4>2
    <3>4. row = RowLines - 1
      BY <2>3 DEF last
    <3>5. vc_base' * RowLines \in Nat
      BY <1>4, <1>8, NextRow
    <3>. QED  BY <3>2, <3>3, <3>4, <3>5, <2>1, <2>2, <2>3, <1>4
  <2>4. CASE ~last /\ display
    <3>1. display_state' /\ vc_base' = vc_base
      BY <1>6, <1>7, <2>4
    <3>2. rc' <= row + 1 /\ rc' \in Nat
      BY <1>2, <1>4, <1>7, <2>4
    <3>3. Progress' = vc_base * RowLines + rc'
      BY <3>1 DEF Progress
    <3>4. row \in Nat /\ Progress >= vc_base * RowLines + row
      BY <1>2, <2>2, <2>4
    <3>5. vc_base * RowLines \in Nat /\ Progress \in Nat
      BY <1>4, <2>1
    <3>. QED  BY <3>2, <3>3, <3>4, <3>5, OneMore
  <2>5. CASE ~display
    <3>1. ~display_state' /\ vc_base' = vc_base
      BY <1>6, <1>7, <2>5
    <3>2. Progress' = vc_base * RowLines
      BY <3>1, <1>4 DEF Progress
    <3>. QED  BY <3>2, <2>1, <1>4
  <2>. QED  BY <2>3, <2>4, <2>5
<1>10. ~BadLine(raster) /\ LeftOver => LeftOver'
  BY <1>4, <1>5, <1>6, <1>7 DEF LeftOver
<1>. QED  BY <1>1, <1>8, <1>9, <1>10

\* A line that is not drawn leaves the counters alone
LEMMA EmulateRasterCounters ==
    ASSUME Counters, NEW raster \in Nat, EmulateRaster(raster)
    PROVE  /\ vc_base' \in Nat /\ rc' \in 0 .. RowLines - 1 /\ display_state' \in BOOLEAN
           /\ matrix_line' \in {matrix_line, IF BadLine(raster) THEN vc_base ELSE matrix_line}
           /\ Progress' <= Progress + 1
           /\ ~BadLine(raster) /\ LeftOver => LeftOver'
<1>1. CASE DrawLine(raster)
  BY <1>1, DrawLineCounters
<1>2. CASE UNCHANGED <<display_state, border_on, rc, vc_base, matrix_line>>
  <2>1. vc_base * RowLines \in Nat
    BY VicAssumption, NextRow DEF Counters
  <2>2. Progress' = Progress /\ Progress \in Nat
    BY <1>2, <2>1 DEF Progress, Counters
  <2>. QED  BY <1>2, <2>2 DEF Counters, LeftOver
<1>. QED  BY <1>1, <1>2 DEF EmulateRaster

\* A row that is left over is one line of a row at most
LEMMA LeftOverProgress ==
    ASSUME Counters, LeftOver
    PROVE  Progress <= RowLines /\ Progress \in Nat
BY VicAssumption DEF Counters, LeftOver, Progress

LEMMA LeftOverNext == Counters' /\ LeftOver' => Progress' <= RowLines /\ Progress' \in Nat
<1>. SUFFICES ASSUME Counters', LeftOver' PROVE Progress' <= RowLines /\ Progress' \in Nat
  OBVIOUS
<1>1. rc' \in Nat /\ rc' <= RowLines /\ RowLines \in Nat
  BY VicAssumption DEF Counters
<1>2. CASE vc_base' = 0
  <2>1. vc_base' * RowLines = 0  BY <1>2, VicAssumption
  <2>2. Progress' = IF display_state' THEN rc' ELSE 0
    BY <2>1, <1>1 DEF Progress
  <2>. QED  BY <2>2, <1>1
<1>3. CASE vc_base' = 1 /\ ~display_state'
  <2>1. vc_base' * RowLines = RowLines  BY <1>3, VicAssumption
  <2>. QED  BY <1>3, <2>1, VicAssumption DEF Progress
<1>. QED  BY <1>2, <1>3 DEF LeftOver

LEMMA ProgressNat == ASSUME Counters PROVE vc_base * RowLines <= Progress /\ Progress \in Nat
<1>1. vc_base * RowLines \in Nat
  BY VicAssumption, NextRow DEF Counters
<1>. QED  BY <1>1, VicAssumption DEF Counters, Progress

LEMMA LastDma == LAST_DMA_LINE = FIRST_DMA_LINE + Rows * RowLines - 1 /\ Rows * RowLines \in Nat
BY VicAssumption DEF LAST_DMA_LINE

LEMMA BadLineRange ==
    ASSUME NEW raster \in Nat, BadLine(raster)
    PROVE  FIRST_DMA_LINE <= raster /\ raster <= LAST_DMA_LINE
BY VicAssumption, LastDma DEF BadLine, Scrolled

\* The row that a bad line fetches is one of those that are left at this line
LEMMA FetchFits ==
    ASSUME RowInv, ~resumed, turn = "vic", BadLine(raster_y + 1)
    PROVE  vc_base <= Rows
<1>1. FIRST_DMA_LINE <= raster_y + 1 /\ raster_y + 1 <= LAST_DMA_LINE /\ raster_y \in Nat
  BY BadLineRange DEF RowInv, Counters
<1>2. raster_y < TOTAL_RASTERS /\ TOTAL_RASTERS \in Nat /\ FIRST_DMA_LINE \in Nat
  BY <1>1, LastDma, VicAssumption
<1>3. Progress <= RowLines + raster_y - FIRST_DMA_LINE + 1 /\ Progress \in Nat
  <2>1. CASE raster_y < FIRST_DMA_LINE
    BY <1>1, <2>1, LeftOverProgress, VicAssumption DEF RowInv, Bounded
  <2>2. CASE ~(raster_y < FIRST_DMA_LINE)
    BY <1>1, <1>2, <2>2, ProgressNat DEF RowInv, Bounded
  <2>. QED  BY <2>1, <2>2
<1>4. vc_base * RowLines <= Progress
  BY ProgressNat DEF RowInv
<1>5. (Rows + 1) * RowLines = Rows * RowLines + RowLines
  BY NextRow, VicAssumption
<1>6. vc_base * RowLines < (Rows + 1) * RowLines
  <2>1. vc_base * RowLines \in Nat /\ Rows * RowLines \in Nat /\ RowLines \in Nat /\ FIRST_DMA_LINE \in Nat
    BY NextRow, VicAssumption DEF RowInv, Counters
  <2>. QED  BY <1>1, <1>3, <1>4, <1>5, <2>1, LastDma
<1>. QED  BY <1>6, WholeRows, VicAssumption DEF RowInv, Counters

LEMMA RowLine ==
    ASSUME RowInv, NextLine
    PROVE  RowInv'
<1>1. /\ turn = "vic" /\ turn' = "others" /\ raster_y' = (raster_y + 1) % RASTER_VALUES
      /\ raster_y # TOTAL_RASTERS - 1 /\ raster_y \in Nat /\ raster_y + 1 \in Nat
      /\ EmulateRaster(raster_y + 1)
  BY DEF NextLine, RowInv, Counters
<1>2. resumed' = resumed
  BY <1>1 DEF EmulateRaster
<1>3. /\ vc_base' \in Nat /\ rc' \in 0 .. RowLines - 1 /\ display_state' \in BOOLEAN
      /\ Progress' <= Progress + 1
      /\ ~BadLine(raster_y + 1) /\ LeftOver => LeftOver'
  BY <1>1, EmulateRasterCounters DEF RowInv
<1>4. raster_y' \in Nat
  BY <1>1, RestInRange
<1>5. Counters'
  BY <1>3, <1>4 DEF Counters
<1>6. Progress \in Nat /\ Progress' \in Nat
  <2>1. vc_base' * RowLines \in Nat /\ vc_base' * RowLines <= vc_base' * RowLines + rc'
    <3>1. vc_base' * RowLines \in Nat  BY <1>3, NextRow, VicAssumption
    <3>2. rc' \in Nat  BY <1>3, VicAssumption
    <3>. QED  BY <3>1, <3>2
  <2>. QED  BY <2>1, <1>3, ProgressNat DEF RowInv, Progress
<1>7. CASE ~resumed /\ raster_y + 1 >= FIRST_DMA_LINE /\ raster_y < TOTAL_RASTERS
  <2>1. raster_y' = raster_y + 1 /\ raster_y' < TOTAL_RASTERS
    BY <1>1, <1>7, NextRaster, VicAssumption
  <2>2. Progress <= RowLines + raster_y - FIRST_DMA_LINE + 1
    <3>1. CASE raster_y < FIRST_DMA_LINE
      BY <1>1, <1>7, <3>1, LeftOverProgress, VicAssumption DEF RowInv, Bounded
    <3>2. CASE ~(raster_y < FIRST_DMA_LINE)
      BY <1>1, <1>7, <3>2, VicAssumption DEF RowInv, Bounded
    <3>. QED  BY <3>1, <3>2
  <2>3. Progress' <= RowLines + raster_y' - FIRST_DMA_LINE + 1
    BY <1>1, <1>3, <1>6, <2>1, <2>2, VicAssumption
  <2>. QED  BY <1>1, <1>5, <1>7, <2>1, <2>3, VicAssumption DEF RowInv, Bounded
<1>8. CASE ~resumed /\ ~(raster_y + 1 >= FIRST_DMA_LINE /\ raster_y < TOTAL_RASTERS)
  <2>1. ~BadLine(raster_y + 1)
    <3>1. /\ LAST_DMA_LINE < TOTAL_RASTERS /\ LAST_DMA_LINE \in Int /\ TOTAL_RASTERS \in Nat
          /\ FIRST_DMA_LINE \in Nat
      BY LastDma, VicAssumption
    <3>. QED  BY <1>1, <1>8, <3>1, BadLineRange
  <2>2. LeftOver
    BY <1>1, <1>8, VicAssumption DEF RowInv, Bounded
  <2>3. LeftOver' /\ turn' # "vblank"
    BY <1>1, <1>3, <2>1, <2>2
  <2>4. Progress' <= RowLines
    BY <1>5, <2>3, LeftOverNext
  <2>5. CASE raster_y' < FIRST_DMA_LINE \/ raster_y' >= TOTAL_RASTERS
    BY <1>5, <2>3, <2>5 DEF RowInv, Bounded
  <2>6. CASE ~(raster_y' < FIRST_DMA_LINE \/ raster_y' >= TOTAL_RASTERS)
    <3>1. FIRST_DMA_LINE \in Nat /\ TOTAL_RASTERS \in Nat /\ RowLines \in Nat
      BY VicAssumption
    <3>2. raster_y' >= FIRST_DMA_LINE
      BY <1>4, <2>6, <3>1
    <3>3. \A p, q \in Nat : p <= RowLines /\ q >= FIRST_DMA_LINE
                            => p <= RowLines + q - FIRST_DMA_LINE + 1
      BY <3>1
    <3>4. Progress' <= RowLines + raster_y' - FIRST_DMA_LINE + 1
      BY <1>4, <1>6, <2>4, <3>2, <3>3
    <3>. QED  BY <1>5, <2>3, <2>6, <3>4 DEF RowInv, Bounded
  <2>. QED  BY <2>5, <2>6
<1>. QED  BY <1>2, <1>5, <1>7, <1>8, VicAssumption DEF RowInv

LEMMA RowStep == RowInv /\ [VicNext]_vicVars => RowInv'
<1>. SUFFICES ASSUME RowInv, [VicNext]_vicVars PROVE RowInv'
  OBVIOUS
<1>1. CASE NextLine
  BY <1>1, RowLine
<1>2. CASE FirstLine
  <2>1. /\ turn = "vblank" /\ turn' = "others" /\ raster_y' = raster_y
        /\ EmulateRaster(0) /\ 0 \in Nat /\ resumed' = resumed
    BY <1>2 DEF FirstLine, EmulateRaster
  <2>2. ~BadLine(0)
    BY BadLineRange, VicAssumption
  <2>3. /\ vc_base' \in Nat /\ rc' \in 0 .. RowLines - 1 /\ display_state' \in BOOLEAN
        /\ LeftOver => LeftOver'
    BY <2>1, <2>2, EmulateRasterCounters DEF RowInv
  <2>4. Counters'
    BY <2>1, <2>3 DEF RowInv, Counters
  <2>5. CASE ~resumed
    <3>1. LeftOver'
      BY <2>1, <2>3, <2>5 DEF RowInv, Bounded, LeftOver
    <3>2. Progress' <= RowLines /\ Progress' \in Nat
      BY <2>4, <3>1, LeftOverNext
    <3>3. Bounded'
      BY <2>1, <2>4, <3>1, <3>2, VicAssumption DEF Bounded, Counters
    <3>. QED  BY <2>4, <3>3 DEF RowInv
  <2>. QED  BY <2>1, <2>4, <2>5 DEF RowInv
<1>3. CASE VBlank
  <2>1. vc_base' = 0 /\ raster_y' = 0 /\ turn' = "vblank"
        /\ UNCHANGED <<rc, display_state>>
    BY <1>3 DEF VBlank
  <2>. QED  BY <2>1 DEF RowInv, Counters, Bounded
<1>4. ASSUME NEW s \in Saved, LoadVic(s) PROVE RowInv'
  <2>1. /\ vc_base' = s.vc_base /\ resumed' = (s.vc_base # 0) /\ turn' = "vblank"
        /\ rc' = s.rc /\ display_state' = s.display_state
    BY <1>4 DEF LoadVic
  <2>2. raster_y' \in Nat
    BY <1>4, ResumedRaster
  <2>. QED  BY <2>1, <2>2, SavedVicAssumption DEF RowInv, Counters, Bounded
<1>5. CASE UNCHANGED <<raster_y, rc, vc_base, display_state, resumed>>
           /\ (turn = "vblank" <=> turn' = "vblank")
  BY <1>5 DEF RowInv, Counters, Bounded, LeftOver, Progress
<1>6. CASE Others \/ LineEnds \/ Access
  BY <1>5, <1>6 DEF Others, LineEnds, Access, vicChip, video
<1>7. ASSUME NEW borders, NEW skip, NewPrefs(borders, skip) PROVE RowInv'
  BY <1>5, <1>7 DEF NewPrefs, video
<1>8. CASE UNCHANGED vicVars
  BY <1>5, <1>8 DEF vicVars, vicChip, video
<1>. QED  BY <1>1, <1>2, <1>3, <1>4, <1>6, <1>7, <1>8 DEF VicNext

LEMMA RowStart == VicInit => RowInv
<1>. SUFFICES ASSUME VicInit PROVE RowInv
  OBVIOUS
<1>1. /\ raster_y \in Nat /\ RowLines - 1 \in 0 .. RowLines - 1 /\ 0 \in 0 .. Rows
      /\ raster_y - FIRST_DMA_LINE >= 0 /\ raster_y < TOTAL_RASTERS /\ 0 * RowLines = 0
  BY VicAssumption, LastDma DEF VicInit
<1>2. turn = "vic" /\ vc_base = 0 /\ display_state = FALSE /\ rc = RowLines - 1
  BY DEF VicInit
<1>3. Progress = 0
  BY <1>1, <1>2 DEF Progress
<1>4. Counters
  BY <1>1, <1>2 DEF Counters
<1>. QED  BY <1>1, <1>2, <1>3, <1>4, VicAssumption DEF RowInv, Bounded

FetchStep == matrix_line' # matrix_line => resumed \/ matrix_line' <= Rows

\* Whatever the program writes and whatever is skipped, no bad line fetches more than one
\* row beyond the last one of the screen, for every size of rows and screen, but in a
\* frame in which the rows of a snapshot go on.
THEOREM RowsAlwaysFit == VicSpec => RowsFit
<1>1. ASSUME RowInv, [VicNext]_vicVars PROVE FetchStep
  <2>1. CASE NextLine
    <3>1. turn = "vic" /\ EmulateRaster(raster_y + 1) /\ raster_y + 1 \in Nat
      BY <1>1, <2>1 DEF NextLine, RowInv, Counters
    <3>2. matrix_line' \in {matrix_line, IF BadLine(raster_y + 1) THEN vc_base ELSE matrix_line}
      BY <1>1, <3>1, EmulateRasterCounters DEF RowInv
    <3>. QED  BY <1>1, <3>1, <3>2, FetchFits DEF FetchStep
  <2>2. CASE FirstLine
    <3>1. EmulateRaster(0) /\ 0 \in Nat /\ ~BadLine(0)
      BY <2>2, BadLineRange, VicAssumption DEF FirstLine
    <3>2. matrix_line' = matrix_line
      BY <1>1, <3>1, EmulateRasterCounters DEF RowInv
    <3>. QED  BY <3>2 DEF FetchStep
  <2>3. CASE matrix_line' = matrix_line
    BY <2>3 DEF FetchStep
  <2>. QED  BY <1>1, <2>1, <2>2, <2>3
            DEF VicNext, VBlank, Others, LineEnds, Access, NewPrefs, LoadVic, vicVars, vicChip, video
<1>. QED  BY <1>1, RowStart, RowStep, PTL DEF VicSpec, RowsFit, FetchStep

-----------------------------------------------------------------------------
(* The sprites *)

\* The lower eight bits of a line, and the line that comes next
Low(r) == IF r < HighLine THEN r ELSE r - HighLine
Following(r) == IF r = TOTAL_RASTERS - 1 THEN 0 ELSE r + 1

\* How many lines ago, at line r, the raster was last at a line with these lower bits
Ago(y, r) ==
    IF y + HighLine <= r THEN r - (y + HighLine)
    ELSE IF y <= r THEN r - y
    ELSE IF y + HighLine < TOTAL_RASTERS THEN r + TOTAL_RASTERS - (y + HighLine)
    ELSE r + TOTAL_RASTERS - y

LEMMA LowIsRest == ASSUME NEW r \in 0 .. TOTAL_RASTERS - 1 PROVE r % HighLine = Low(r)
<1>1. CASE r < HighLine
  BY <1>1, VicAssumption DEF Low
<1>2. CASE ~(r < HighLine)
  <2>1. r = HighLine + (r - HighLine) /\ r - HighLine \in 0 .. HighLine - 1
    BY <1>2, VicAssumption, SpriteAssumption
  <2>2. (HighLine + (r - HighLine)) % HighLine = r - HighLine
    BY <2>1, VicAssumption
  <2>. QED  BY <1>2, <2>1, <2>2 DEF Low
<1>. QED  BY <1>1, <1>2

LEMMA AgoStep ==
    ASSUME NEW y \in 0 .. HighLine - 1, NEW r \in 0 .. TOTAL_RASTERS - 1
    PROVE  /\ Ago(y, r) \in 0 .. TOTAL_RASTERS - 1 /\ Following(r) \in 0 .. TOTAL_RASTERS - 1
           /\ Ago(y, Following(r)) = IF Low(Following(r)) = y THEN 0 ELSE Ago(y, r) + 1
BY VicAssumption, SpriteAssumption DEF Ago, Following, Low

LEMMA Even == ASSUME NEW n \in Nat, n % 2 = 0 PROVE \E h \in Nat : n = 2 * h
<1>1. n \div 2 \in Nat /\ n = 2 * (n \div 2)
  OBVIOUS
<1>. QED  BY <1>1

\* An expanded sprite goes on in every second line from its first, in whichever half of
\* the frame this was
LEMMA AgoParity ==
    ASSUME NEW y \in 0 .. HighLine - 1, NEW r \in 0 .. TOTAL_RASTERS - 1
    PROVE  (Low(r) - y) % 2 = Ago(y, r) % 2
<1>1. PICK h \in Nat : HighLine = 2 * h
  BY Even, VicAssumption, SpriteAssumption
<1>2. PICK t \in Nat : TOTAL_RASTERS = 2 * t
  BY Even, VicAssumption, SpriteAssumption
<1>. QED  BY <1>1, <1>2, VicAssumption, SpriteAssumption DEF Low, Ago

LEMMA Halves ==
    ASSUME NEW d \in Nat
    PROVE  /\ d \div 2 \in Nat /\ (d + 1) \div 2 \in Nat
           /\ (d + 1) % 2 = 0 => (d + 1) \div 2 = d \div 2 + 1
           /\ (d + 1) % 2 # 0 => (d + 1) \div 2 = d \div 2
OBVIOUS

\* The line that has been emulated last
Last == IF turn = "vblank" THEN TOTAL_RASTERS - 1 ELSE raster_y

Capped(n) == IF n < SpriteLines THEN n ELSE SpriteLines
Passed(y, lines) == IF y % 2 = 0 THEN (lines + 1) \div 2 ELSE lines \div 2
LineOf(s, lines) == IF s \in mye THEN lines \div 2 ELSE lines

\* A sprite that is enabled is where its distance from its first line says, once it has
\* begun in a frame with these registers; one that is not, has come to its end after
\* that frame, since it goes on in every second line at least
Settled(s) ==
    /\ s \in me /\ (steady = 2 \/ (turn # "vblank" /\ raster_y >= my[s]))
       => mc[s] = Capped(LineOf(s, Ago(my[s], Last)))
    /\ s \notin me
       => IF steady = 2 THEN mc[s] = SpriteLines
          ELSE turn # "vblank" => mc[s] >= Capped(Passed(my[s], raster_y + 1))

SpriteShape ==
    /\ me \subseteq Sprites /\ my \in [Sprites -> 0 .. HighLine - 1]
    /\ mc \in [Sprites -> 0 .. SpriteLines]
    /\ sprite_on = {s \in Sprites : mc[s] # SpriteLines}
    /\ raster_y \in 0 .. RASTER_VALUES - 1
    /\ steady # 0 => raster_y \in 0 .. TOTAL_RASTERS - 1
    /\ steady \in 0 .. 2 /\ turn \in {"vic", "vblank", "others"}
    /\ turn = "vblank" /\ steady # 0 => raster_y = 0
    /\ turn # "others" => shown = Nothing

SpriteInv ==
    /\ SpriteShape
    /\ steady # 0 => \A s \in Sprites : Settled(s)
    /\ SpritesInOrder

\* The nearest line with the sprite's number, before the one that shows it
LEMMA SpriteLineIs ==
    ASSUME NEW s \in Sprites, SpriteShape, NEW r \in 0 .. TOTAL_RASTERS - 1
    PROVE  SpriteLine(s, Following(r)) = LineOf(s, Ago(my[s], r))
<1>. DEFINE y == my[s]
            begun == {l \in 0 .. TOTAL_RASTERS - 1 : l % HighLine = y}
            since == {(Following(r) + TOTAL_RASTERS - 1 - l) % TOTAL_RASTERS : l \in begun}
<1>1. y \in 0 .. HighLine - 1
  BY DEF SpriteShape
<1>2. begun = {l \in 0 .. TOTAL_RASTERS - 1 : Low(l) = y}
  BY LowIsRest
<1>3. ASSUME NEW l \in 0 .. TOTAL_RASTERS - 1
      PROVE  (Following(r) + TOTAL_RASTERS - 1 - l) % TOTAL_RASTERS =
             IF l <= r THEN r - l ELSE r + TOTAL_RASTERS - l
  <2>. DEFINE d == IF l <= r THEN r - l ELSE r + TOTAL_RASTERS - l
  <2>1. TOTAL_RASTERS \in Nat \ {0} /\ d \in 0 .. TOTAL_RASTERS - 1
    BY VicAssumption
  <2>2. Following(r) + TOTAL_RASTERS - 1 - l \in {d, d + TOTAL_RASTERS}
    BY VicAssumption DEF Following
  <2>. HIDE DEF d
  <2>3. d % TOTAL_RASTERS = d /\ (d + TOTAL_RASTERS) % TOTAL_RASTERS = d
    BY <2>1
  <2>4. (Following(r) + TOTAL_RASTERS - 1 - l) % TOTAL_RASTERS = d
    BY <2>2, <2>3
  <2>. QED  BY <2>4 DEF d
<1>4. Ago(y, r) \in since
  <2>1. PICK l \in 0 .. TOTAL_RASTERS - 1 :
          /\ Low(l) = y
          /\ Ago(y, r) = IF l <= r THEN r - l ELSE r + TOTAL_RASTERS - l
    <3>1. y \in 0 .. TOTAL_RASTERS - 1 /\ Low(y) = y
      BY <1>1, VicAssumption DEF Low
    <3>2. y + HighLine < TOTAL_RASTERS
          => y + HighLine \in 0 .. TOTAL_RASTERS - 1 /\ Low(y + HighLine) = y
      BY <1>1, VicAssumption DEF Low
    <3>3. CASE y + HighLine <= r \/ (~(y <= r) /\ y + HighLine < TOTAL_RASTERS)
      <4>. DEFINE l == y + HighLine
      <4>1. l \in 0 .. TOTAL_RASTERS - 1 /\ Low(l) = y
        BY <1>1, <3>2, <3>3, VicAssumption
      <4>2. Ago(y, r) = IF l <= r THEN r - l ELSE r + TOTAL_RASTERS - l
        BY <1>1, <3>3, VicAssumption DEF Ago
      <4>. HIDE DEF l
      <4>. QED  BY <4>1, <4>2
    <3>4. CASE ~(y + HighLine <= r \/ (~(y <= r) /\ y + HighLine < TOTAL_RASTERS))
      <4>1. Ago(y, r) = IF y <= r THEN r - y ELSE r + TOTAL_RASTERS - y
        BY <1>1, <3>4, VicAssumption DEF Ago
      <4>. HIDE DEF y
      <4>. QED  BY <3>1, <4>1
    <3>. QED  BY <3>3, <3>4
  <2>. QED  BY <1>2, <1>3, <2>1
<1>5. ASSUME NEW n \in since PROVE n \in Nat /\ Ago(y, r) <= n
  <2>1. PICK l \in 0 .. TOTAL_RASTERS - 1 :
          Low(l) = y /\ n = IF l <= r THEN r - l ELSE r + TOTAL_RASTERS - l
    BY <1>2, <1>3
  <2>2. l = y \/ l = y + HighLine
    BY <1>1, <2>1, VicAssumption DEF Low
  <2>. QED  BY <1>1, <2>1, <2>2, VicAssumption DEF Ago
<1>. DEFINE nearest == CHOOSE n \in since : \A m \in since : n <= m
<1>6. SpriteLine(s, Following(r)) = IF s \in mye THEN nearest \div 2 ELSE nearest
  BY Zenon DEF SpriteLine
<1>. HIDE DEF since
<1>7. (CHOOSE n \in since : \A m \in since : n <= m) = Ago(y, r)
  <2>1. \E n \in since : \A m \in since : n <= m
    BY <1>4, <1>5
  <2>2. ASSUME NEW n \in since, \A m \in since : n <= m PROVE n = Ago(y, r)
    <3>1. n \in Nat /\ Ago(y, r) \in Nat /\ Ago(y, r) <= n /\ n <= Ago(y, r)
      BY <1>4, <1>5, <2>2
    <3>. QED  BY <3>1
  <2>. QED  BY <2>1, <2>2
<1>. QED  BY <1>6, <1>7 DEF LineOf

\* What a line does to the counter of a sprite
Counted(s, r) ==
    IF s \in me /\ my[s] = Low(r) THEN 0
    ELSE IF mc[s] # SpriteLines /\ GoesOn(s, Low(r)) THEN mc[s] + 1
    ELSE mc[s]

LEMMA EmulateRasterSprites ==
    ASSUME SpriteShape, NEW r \in Nat, EmulateRaster(r)
    PROVE  /\ mc' \in [Sprites -> 0 .. SpriteLines]
           /\ sprite_on' = {s \in Sprites : mc'[s] # SpriteLines}
           /\ \A s \in Sprites :
                 mc'[s] = IF s \in me /\ my[s] = r % HighLine THEN 0
                          ELSE IF mc[s] # SpriteLines /\ GoesOn(s, r % HighLine) THEN mc[s] + 1
                          ELSE mc[s]
<1>. DEFINE low == r % HighLine
            next(s) == IF s \in me /\ my[s] = low THEN 0
                       ELSE IF mc[s] # SpriteLines /\ GoesOn(s, low) THEN mc[s] + 1
                       ELSE mc[s]
<1>1. SpriteLines \in Nat \ {0}
  BY VicAssumption
<1>2. CASE UpdateMc(r)
  <2>1. mc' = [s \in Sprites |-> next(s)]
    BY <1>2 DEF UpdateMc
  <2>2. \A s \in Sprites : next(s) \in 0 .. SpriteLines
    BY <1>1 DEF SpriteShape
  <2>3. \A s \in Sprites : mc'[s] = next(s)
    BY <2>1
  <2>4. sprite_on' = {s \in Sprites :
                        IF s \in me /\ my[s] = low THEN TRUE
                        ELSE s \in sprite_on /\ (mc'[s] = mc[s] \/ mc'[s] # SpriteLines)}
    BY <1>2 DEF UpdateMc
  <2>5. ASSUME NEW s \in Sprites
        PROVE  mc'[s] # SpriteLines <=>
                 IF s \in me /\ my[s] = low THEN TRUE
                 ELSE s \in sprite_on /\ (mc'[s] = mc[s] \/ mc'[s] # SpriteLines)
    BY <1>1, <2>3 DEF SpriteShape
  <2>. QED  BY <2>1, <2>2, <2>3, <2>4, <2>5
<1>3. CASE me \cup sprite_on = {} /\ UNCHANGED sprites
  <2>1. mc' = mc /\ sprite_on' = sprite_on
    BY <1>3 DEF sprites
  <2>2. \A s \in Sprites : s \notin me /\ mc[s] = SpriteLines
    BY <1>3 DEF SpriteShape
  <2>. QED  BY <2>1, <2>2 DEF SpriteShape
<1>. QED  BY <1>2, <1>3 DEF EmulateRaster

LEMMA EmulateRasterCounts ==
    ASSUME SpriteShape, NEW r \in 0 .. TOTAL_RASTERS - 1, EmulateRaster(r)
    PROVE  \A s \in Sprites : mc'[s] = Counted(s, r)
BY EmulateRasterSprites, LowIsRest DEF Counted

\* A line counts an enabled sprite on by its distance from its first line, ...
LEMMA CountedByDistance ==
    ASSUME SpriteShape, NEW s \in Sprites, NEW r \in 0 .. TOTAL_RASTERS - 1, s \in me,
           \/ mc[s] = Capped(LineOf(s, Ago(my[s], r)))
           \/ my[s] = Low(Following(r))
    PROVE  Counted(s, Following(r)) = Capped(LineOf(s, Ago(my[s], Following(r))))
<1>. DEFINE y == my[s]
            d == Ago(y, r)
            e == Ago(y, Following(r))
<1>1. /\ y \in 0 .. HighLine - 1 /\ d \in Nat /\ e \in Nat /\ SpriteLines \in Nat \ {0}
      /\ e = IF Low(Following(r)) = y THEN 0 ELSE d + 1
  BY AgoStep, VicAssumption DEF SpriteShape
<1>2. (Low(Following(r)) - y) % 2 = e % 2
  BY <1>1, AgoStep, AgoParity
<1>3. CASE Low(Following(r)) = y
  BY <1>1, <1>3 DEF Counted, Capped, LineOf
<1>4. CASE Low(Following(r)) # y /\ s \notin mye
  <2>1. e = d + 1 /\ mc[s] = Capped(d)
    BY <1>1, <1>4 DEF LineOf
  <2>2. Counted(s, Following(r)) = IF mc[s] # SpriteLines THEN mc[s] + 1 ELSE mc[s]
    BY <1>4 DEF Counted, GoesOn
  <2>3. Capped(LineOf(s, e)) = Capped(d + 1)
    BY <1>4, <2>1 DEF LineOf
  <2>4. Counted(s, Following(r)) = Capped(d + 1)
    <3>. HIDE DEF d
    <3>. QED  BY <1>1, <2>1, <2>2 DEF Capped
  <2>. QED  BY <2>3, <2>4
<1>5. CASE Low(Following(r)) # y /\ s \in mye
  <2>1. e = d + 1 /\ mc[s] = Capped(d \div 2)
    BY <1>1, <1>5 DEF LineOf
  <2>2. Counted(s, Following(r)) =
          IF mc[s] # SpriteLines /\ (d + 1) % 2 = 0 THEN mc[s] + 1 ELSE mc[s]
    BY <1>2, <1>5, <2>1 DEF Counted, GoesOn
  <2>3. Capped(LineOf(s, e)) = Capped((d + 1) \div 2)
    BY <1>5, <2>1 DEF LineOf
  <2>4. /\ d \div 2 \in Nat
        /\ (d + 1) \div 2 = IF (d + 1) % 2 = 0 THEN d \div 2 + 1 ELSE d \div 2
    BY <1>1, Halves
  <2>5. Counted(s, Following(r)) = Capped((d + 1) \div 2)
    <3>. DEFINE half == d \div 2
                next == (d + 1) \div 2
    <3>1. half \in Nat /\ next = IF (d + 1) % 2 = 0 THEN half + 1 ELSE half
      BY <2>4
    <3>. HIDE DEF half, next
    <3>2. Counted(s, Following(r)) = IF mc[s] # SpriteLines /\ next = half + 1 THEN mc[s] + 1 ELSE mc[s]
      BY <2>2, <3>1
    <3>3. mc[s] = Capped(half)
      BY <2>1 DEF half
    <3>4. Counted(s, Following(r)) = Capped(next)
      BY <1>1, <3>1, <3>2, <3>3 DEF Capped
    <3>. QED  BY <3>4 DEF next
  <2>. QED  BY <2>3, <2>5
<1>. QED  BY <1>3, <1>4, <1>5

\* ... and any sprite in every second line
LEMMA CountedByHalves ==
    ASSUME SpriteShape, NEW s \in Sprites, NEW r \in 0 .. TOTAL_RASTERS - 1, s \notin me,
           mc[s] >= Capped(Passed(my[s], r))
    PROVE  Counted(s, r) >= Capped(Passed(my[s], r + 1))
<1>. DEFINE y == my[s]
<1>1. /\ r \in Nat /\ SpriteLines \in Nat \ {0} /\ mc[s] \in 0 .. SpriteLines
      /\ y \in 0 .. HighLine - 1
  BY VicAssumption DEF SpriteShape
<1>2. Counted(s, r) = IF mc[s] # SpriteLines /\ GoesOn(s, Low(r)) THEN mc[s] + 1 ELSE mc[s]
  BY DEF Counted
<1>3. r % 2 = y % 2 => GoesOn(s, Low(r))
  <2>1. PICK h \in Nat : HighLine = 2 * h
    BY Even, VicAssumption, SpriteAssumption
  <2>. QED  BY <1>1, <2>1, VicAssumption DEF GoesOn, Low
<1>. HIDE DEF y
<1>4. /\ Passed(y, r) \in Nat
      /\ Passed(y, r + 1) = IF r % 2 = y % 2 THEN Passed(y, r) + 1 ELSE Passed(y, r)
  BY <1>1, VicAssumption DEF Passed
<1>5. Counted(s, r) >= Capped(Passed(y, r + 1))
  BY <1>1, <1>2, <1>3, <1>4 DEF Capped, y
<1>. QED  BY <1>5 DEF y

\* A line, counted for a sprite that is settled, leaves it settled
LEMMA SettledStep ==
    ASSUME SpriteShape, NEW s \in Sprites, Settled(s), steady # 0,
           turn = "vblank" \/ (turn = "vic" /\ raster_y # TOTAL_RASTERS - 1),
           raster_y' = Following(Last), turn' = "others",
           mc'[s] = Counted(s, Following(Last)), UNCHANGED <<me, mye, my, steady>>
    PROVE  Settled(s)'
<1>1. /\ Last \in 0 .. TOTAL_RASTERS - 1 /\ raster_y' \in 0 .. TOTAL_RASTERS - 1 /\ Last' = raster_y'
      /\ my[s] \in 0 .. HighLine - 1 /\ TOTAL_RASTERS \in Nat /\ SpriteLines \in Nat \ {0}
  BY VicAssumption DEF SpriteShape, Last, Following
<1>2. CASE s \in me
  <2>1. \/ mc[s] = Capped(LineOf(s, Ago(my[s], Last)))
        \/ my[s] = Low(Following(Last))
        \/ ~(steady = 2 \/ raster_y' >= my[s])
    <3>1. CASE steady = 2 \/ (turn # "vblank" /\ raster_y >= my[s])
      BY <1>2, <3>1 DEF Settled
    <3>2. CASE ~(steady = 2 \/ (turn # "vblank" /\ raster_y >= my[s]))
      <4>1. raster_y' < my[s] \/ raster_y' = my[s]
        BY <1>1, <3>2, VicAssumption DEF SpriteShape, Last, Following
      <4>2. raster_y' = my[s] => Low(raster_y') = my[s]
        BY <1>1, VicAssumption DEF Low
      <4>. QED  BY <1>1, <3>2, <4>1, <4>2
    <3>. QED  BY <3>1, <3>2
  <2>2. CASE ~(steady = 2 \/ raster_y' >= my[s])
    BY <1>2, <2>2 DEF Settled
  <2>3. CASE \/ mc[s] = Capped(LineOf(s, Ago(my[s], Last)))
             \/ my[s] = Low(Following(Last))
    <3>1. mc'[s] = Capped(LineOf(s, Ago(my[s], raster_y')))
      BY <1>1, <1>2, <2>3, CountedByDistance
    <3>2. Capped(LineOf(s, Ago(my[s], raster_y'))) = Capped(LineOf(s, Ago(my[s], Last)))'
      BY <1>1 DEF Capped, LineOf, Ago
    <3>. QED  BY <1>2, <3>1, <3>2 DEF Settled
  <2>. QED  BY <2>1, <2>2, <2>3
<1>3. CASE s \notin me /\ steady = 2
  <2>1. mc[s] = SpriteLines
    BY <1>3 DEF Settled
  <2>. QED  BY <1>3, <2>1 DEF Settled, Counted
<1>4. CASE s \notin me /\ steady # 2
  <2>1. mc[s] >= Capped(Passed(my[s], Following(Last)))
    <3>1. CASE turn = "vblank"
      <4>1. Following(Last) = 0
        BY <3>1 DEF Last, Following
      <4>2. Capped(Passed(my[s], 0)) = 0
        BY <1>1 DEF Capped, Passed
      <4>. QED  BY <4>1, <4>2 DEF SpriteShape
    <3>2. CASE turn = "vic" /\ raster_y # TOTAL_RASTERS - 1
      BY <1>4, <3>2 DEF Settled, Last, Following
    <3>. QED  BY <3>1, <3>2
  <2>2. mc'[s] >= Capped(Passed(my[s], raster_y' + 1))
    BY <1>1, <1>4, <2>1, CountedByHalves
  <2>3. Capped(Passed(my[s], raster_y' + 1)) = Capped(Passed(my[s], raster_y + 1))'
    BY DEF Capped, Passed
  <2>. QED  BY <1>4, <2>2, <2>3 DEF Settled
<1>. QED  BY <1>2, <1>3, <1>4

\* What a line shows, the counters of settled sprites
LEMMA ShownSprites ==
    ASSUME SpriteShape, NEW r \in 0 .. TOTAL_RASTERS - 1, EmulateRaster(r), raster_y' = r,
           steady = 2 => r = Following(Last) /\ \A s \in Sprites : Settled(s)
    PROVE  SpritesInOrder'
<1>. SUFFICES ASSUME shown'.what \in {"row", "idle"}, steady' = 2 PROVE
         /\ \A s \in DOMAIN shown'.sprites : s \in me' /\ shown'.sprites[s] = SpriteLine(s, raster_y)'
         /\ \A s \in me' : SpriteLine(s, raster_y)' < SpriteLines => s \in DOMAIN shown'.sprites
  BY DEF SpritesInOrder
<1>1. UNCHANGED <<me, mye, my, steady>>
  BY DEF EmulateRaster, regs
<1>2. shown'.sprites = [s \in sprite_on |-> mc[s]]
  <2>1. Drawn(r)
    BY DEF EmulateRaster, Nothing
  <2>2. DrawLine(r)
    BY <2>1 DEF EmulateRaster
  <2>3. ~Border(r)
    BY <2>2 DEF DrawLine
  <2>. QED  BY <2>2, <2>3 DEF DrawLine
<1>3. r = Following(Last) /\ Last \in 0 .. TOTAL_RASTERS - 1 /\ \A s \in Sprites : Settled(s)
  BY <1>1, VicAssumption DEF SpriteShape, Last
<1>4. ASSUME NEW s \in Sprites
      PROVE  SpriteLine(s, raster_y)' = LineOf(s, Ago(my[s], Last))
  <2>1. SpriteLine(s, raster_y)' = SpriteLine(s, r)
    BY <1>1 DEF SpriteLine
  <2>. QED  BY <1>3, <2>1, SpriteLineIs
<1>5. ASSUME NEW s \in Sprites, s \in me
      PROVE  mc[s] = Capped(LineOf(s, Ago(my[s], Last)))
  BY <1>1, <1>3, <1>5 DEF Settled
<1>6. ASSUME NEW s \in Sprites PROVE s \in sprite_on <=> mc[s] # SpriteLines
  BY DEF SpriteShape
<1>7. ASSUME NEW s \in sprite_on
      PROVE  s \in me /\ mc[s] = LineOf(s, Ago(my[s], Last))
  <2>1. s \in Sprites /\ mc[s] # SpriteLines
    BY DEF SpriteShape
  <2>2. s \in me
    BY <1>1, <1>3, <2>1 DEF Settled
  <2>. QED  BY <1>5, <2>1, <2>2 DEF Capped
<1>8. ASSUME NEW s \in me, LineOf(s, Ago(my[s], Last)) < SpriteLines
      PROVE  s \in sprite_on
  <2>1. s \in Sprites
    BY DEF SpriteShape
  <2>2. mc[s] = LineOf(s, Ago(my[s], Last))
    BY <1>5, <1>8, <2>1 DEF Capped
  <2>3. LineOf(s, Ago(my[s], Last)) \in Nat
    <3>1. Ago(my[s], Last) \in Nat
      BY <1>3, <2>1, AgoStep DEF SpriteShape
    <3>. QED  BY <3>1 DEF LineOf
  <2>. QED  BY <1>6, <1>8, <2>1, <2>2, <2>3, VicAssumption
<1>9. sprite_on \subseteq Sprites /\ me \subseteq Sprites
  BY DEF SpriteShape
<1>. QED  BY <1>1, <1>2, <1>4, <1>7, <1>8, <1>9

LEMMA LineStep ==
    ASSUME SpriteInv, NEW r, EmulateRaster(r), turn' = "others",
           \/ turn = "vic" /\ raster_y # TOTAL_RASTERS - 1 /\ r = raster_y + 1
              /\ raster_y' = r % RASTER_VALUES
           \/ turn = "vblank" /\ r = 0 /\ raster_y' = raster_y
    PROVE  SpriteInv'
<1>1. SpriteShape
  BY DEF SpriteInv
<1>2. UNCHANGED <<me, mye, my, steady>>
  BY DEF EmulateRaster, regs
<1>3. r \in Nat /\ raster_y' \in 0 .. RASTER_VALUES - 1
  BY <1>1, RestInRange, VicAssumption DEF SpriteShape
<1>4. /\ mc' \in [Sprites -> 0 .. SpriteLines]
      /\ sprite_on' = {s \in Sprites : mc'[s] # SpriteLines}
  BY <1>1, <1>3, EmulateRasterSprites
<1>5. steady # 0 => /\ r = Following(Last) /\ raster_y' = r
                    /\ r \in 0 .. TOTAL_RASTERS - 1
  BY <1>1, NextRaster, VicAssumption DEF SpriteInv, SpriteShape, Last, Following, Settled
<1>6. SpriteShape'
  BY <1>1, <1>2, <1>3, <1>4, <1>5 DEF SpriteShape
<1>7. steady' # 0 => \A s \in Sprites : Settled(s)'
  <2>. SUFFICES ASSUME steady # 0, NEW s \in Sprites PROVE Settled(s)'
    BY <1>2
  <2>1. mc'[s] = Counted(s, r)
    BY <1>1, <1>5, EmulateRasterCounts
  <2>. QED  BY <1>1, <1>2, <1>5, <2>1, SettledStep DEF SpriteInv
<1>8. SpritesInOrder'
  <2>1. CASE steady = 2
    BY <1>1, <1>5, <2>1, ShownSprites DEF SpriteInv
  <2>2. CASE steady # 2
    BY <1>2, <2>2 DEF SpritesInOrder
  <2>. QED  BY <2>1, <2>2
<1>. QED  BY <1>6, <1>7, <1>8 DEF SpriteInv

LEMMA SpriteStep == SpriteInv /\ [VicNext]_vicVars => SpriteInv'
<1>. SUFFICES ASSUME SpriteInv, [VicNext]_vicVars PROVE SpriteInv'
  OBVIOUS
<1>1. SpriteShape /\ (steady # 0 => \A s \in Sprites : Settled(s)) /\ SpritesInOrder
  BY DEF SpriteInv
<1>2. CASE NextLine
  BY <1>2, LineStep DEF NextLine
<1>3. CASE FirstLine
  BY <1>3, LineStep DEF FirstLine
<1>4. CASE VBlank
  <2>1. /\ turn = "vic" /\ turn' = "vblank" /\ raster_y = TOTAL_RASTERS - 1 /\ raster_y' = 0
        /\ UNCHANGED <<me, mye, my, mc, sprite_on, shown>>
        /\ steady' \in {steady, steady + 1} /\ (steady = 2 => steady' = 2)
    BY <1>4 DEF VBlank, regs, sprites, SpriteInv, SpriteShape
  <2>2. SpriteShape' /\ shown' = Nothing
    BY <1>1, <2>1, VicAssumption DEF SpriteShape
  <2>3. SpritesInOrder'
    BY <2>2 DEF SpritesInOrder, Nothing
  <2>4. ASSUME NEW s \in Sprites, steady' # 0 PROVE Settled(s)'
    <3>1. /\ my[s] \in 0 .. HighLine - 1 /\ raster_y >= my[s]
          /\ mc[s] \in 0 .. SpriteLines /\ SpriteLines \in Nat
      BY <1>1, <2>1, VicAssumption DEF SpriteShape
    <3>2. CASE steady = 0
      BY <2>1, <2>4, <3>2 DEF Settled
    <3>3. CASE steady # 0 /\ s \in me
      <4>1. mc[s] = Capped(LineOf(s, Ago(my[s], TOTAL_RASTERS - 1)))
        BY <1>1, <2>1, <3>1, <3>3 DEF Settled, Last
      <4>2. Capped(LineOf(s, Ago(my[s], Last)))' = Capped(LineOf(s, Ago(my[s], TOTAL_RASTERS - 1)))
        BY <2>1 DEF Capped, LineOf, Ago, Last
      <4>. QED  BY <2>1, <3>3, <4>1, <4>2 DEF Settled
    <3>4. CASE steady # 0 /\ s \notin me
      <4>1. mc[s] = SpriteLines \/ mc[s] >= Capped(Passed(my[s], TOTAL_RASTERS))
        BY <1>1, <2>1, <3>4, VicAssumption DEF Settled
      <4>2. Passed(my[s], TOTAL_RASTERS) \in Nat /\ Passed(my[s], TOTAL_RASTERS) >= SpriteLines
        BY <3>1, VicAssumption, SpriteAssumption DEF Passed
      <4>3. mc[s] = SpriteLines
        BY <3>1, <4>1, <4>2 DEF Capped
      <4>. QED  BY <2>1, <3>4, <4>3 DEF Settled
    <3>. QED  BY <3>2, <3>3, <3>4
  <2>. QED  BY <2>2, <2>3, <2>4 DEF SpriteInv
<1>5. CASE /\ UNCHANGED <<raster_y, me, mye, my, mc, sprite_on, steady>>
           /\ \/ UNCHANGED <<shown, turn>>
              \/ turn = "others" /\ turn' = "vic" /\ shown' = Nothing
  <2>1. SpriteShape'
    BY <1>1, <1>5 DEF SpriteShape
  <2>2. SpritesInOrder'
    <3>1. CASE UNCHANGED shown
      <4>1. \A s : SpriteLine(s, raster_y)' = SpriteLine(s, raster_y)
        BY <1>5 DEF SpriteLine
      <4>. QED  BY <1>1, <1>5, <3>1, <4>1 DEF SpritesInOrder
    <3>2. CASE shown' = Nothing
      BY <3>2 DEF SpritesInOrder, Nothing
    <3>. QED  BY <1>5, <3>1, <3>2
  <2>3. ASSUME NEW s \in Sprites, steady' # 0 PROVE Settled(s)'
    <3>1. Settled(s) /\ Last' = Last /\ (turn = "vblank" <=> turn' = "vblank")
      BY <1>1, <1>5, <2>3 DEF Last
    <3>2. /\ Capped(LineOf(s, Ago(my[s], Last)))' = Capped(LineOf(s, Ago(my[s], Last)))
          /\ Capped(Passed(my[s], raster_y + 1))' = Capped(Passed(my[s], raster_y + 1))
      BY <1>5, <3>1 DEF Capped, LineOf, Ago, Passed
    <3>. QED  BY <1>5, <3>1, <3>2 DEF Settled
  <2>. QED  BY <2>1, <2>2, <2>3 DEF SpriteInv
<1>6. CASE steady' = 0 /\ SpriteShape'
  BY <1>6 DEF SpriteInv, SpritesInOrder
<1>7. CASE Others \/ LineEnds
  BY <1>5, <1>7 DEF Others, LineEnds, vicChip, regs, sprites
<1>8. CASE Access
  <2>1. UNCHANGED <<raster_y, mc, sprite_on, shown, turn>>
    BY <1>8 DEF Access, sprites
  <2>2. CASE UNCHANGED <<me, mye, my, steady>>
    BY <1>5, <2>1, <2>2
  <2>3. CASE steady' = 0 /\ UNCHANGED <<me, my>>
    BY <1>1, <1>6, <2>1, <2>3 DEF SpriteShape
  <2>4. CASE \E s \in Sprites : WriteSprite(s)
    <3>1. me' \subseteq Sprites /\ my' \in [Sprites -> 0 .. HighLine - 1] /\ steady' = 0
      BY <1>1, <2>4, VicAssumption DEF SpriteShape, WriteSprite
    <3>. QED  BY <1>1, <1>6, <2>1, <3>1 DEF SpriteShape
  <2>. QED  BY <1>8, <2>2, <2>3, <2>4
            DEF Access, WriteControl, WriteRaster, WriteMask, ReadCollisions, TriggerLightpen, regs
<1>9. ASSUME NEW borders, NEW skip, NewPrefs(borders, skip) PROVE SpriteInv'
  <2>1. UNCHANGED <<raster_y, me, my, mc, sprite_on, shown, turn>> /\ steady' = 0
    BY <1>9 DEF NewPrefs, regs, sprites
  <2>. QED  BY <1>1, <1>6, <2>1 DEF SpriteShape
<1>10. ASSUME NEW s \in Saved, LoadVic(s) PROVE SpriteInv'
  <2>1. /\ me' = s.me /\ my' = s.my /\ mc' = s.mc /\ sprite_on' = s.sprite_on /\ steady' = 0
        /\ raster_y' \in 0 .. RASTER_VALUES - 1 /\ UNCHANGED <<shown, turn>>
    BY <1>10, ResumedRaster DEF LoadVic
  <2>2. SpriteShape'
    BY <1>1, <2>1, VicAssumption, SavedVicAssumption DEF SpriteShape
  <2>. QED  BY <1>6, <2>1, <2>2
<1>11. CASE UNCHANGED vicVars
  BY <1>5, <1>11 DEF vicVars, vicChip, regs, sprites
<1>. QED  BY <1>2, <1>3, <1>4, <1>7, <1>8, <1>9, <1>10, <1>11 DEF VicNext

LEMMA SpriteStart == VicInit => SpriteInv
<1>. SUFFICES ASSUME VicInit PROVE SpriteInv
  OBVIOUS
<1>1. SpriteShape /\ steady = 0 /\ shown = Nothing
  BY VicAssumption DEF VicInit, SpriteShape
<1>. QED  BY <1>1 DEF SpriteInv, SpritesInOrder

\* For every geometry of the screen, every number of sprites and lines of a sprite, and
\* whatever was done to them before, sprites that are left alone show their lines in order.
THEOREM SpritesStayInOrder == VicSpec => []SpritesInOrder
<1>1. SpriteInv => SpritesInOrder
  BY DEF SpriteInv
<1>. QED  BY <1>1, SpriteStart, SpriteStep, PTL DEF VicSpec

-----------------------------------------------------------------------------
(* Quotients and rests *)

\* A number, its quotient and its rest
LEMMA DivMod ==
    ASSUME NEW n \in Nat, NEW k \in Nat \ {0}
    PROVE  n = (n \div k) * k + (n % k) /\ n % k \in 0 .. k - 1 /\ n \div k \in Nat
OBVIOUS

\* Two rests and two quotients of a number are the same
LEMMA NoMultiple ==
    ASSUME NEW q \in Int, NEW p \in Int, NEW k \in Nat \ {0}, NEW a \in 0 .. k - 1, NEW b \in 0 .. k - 1,
           q * k + a = p * k + b
    PROVE  q = p /\ a = b
<1>1. CASE q < p
  <2>1. PICK d \in Nat : p = q + 1 + d
     <3>1. p - q - 1 \in Nat /\ p = q + 1 + (p - q - 1)
       BY <1>1
     <3>. QED  BY <3>1
  <2>2. p * k = q * k + k + d * k /\ d * k \in Nat
     BY <2>1
  <2>. QED  BY <2>2
<1>2. CASE p < q
  <2>1. PICK d \in Nat : q = p + 1 + d
     <3>1. q - p - 1 \in Nat /\ q = p + 1 + (q - p - 1)
       BY <1>2
     <3>. QED  BY <3>1
  <2>2. q * k = p * k + k + d * k /\ d * k \in Nat
     BY <2>1
  <2>. QED  BY <2>2
<1>3. CASE q = p
  BY <1>3
<1>. QED  BY <1>1, <1>2, <1>3

LEMMA DivModIs ==
    ASSUME NEW q \in Nat, NEW k \in Nat \ {0}, NEW m \in 0 .. k - 1, NEW n \in Nat, n = q * k + m
    PROVE  n \div k = q /\ n % k = m
BY DivMod, NoMultiple

\* The next number has the next rest, or the next quotient
LEMMA DivModNext ==
    ASSUME NEW n \in Nat, NEW k \in Nat \ {0}
    PROVE  /\ (n + 1) \div k = IF n % k = k - 1 THEN n \div k + 1 ELSE n \div k
           /\ (n + 1) % k = IF n % k = k - 1 THEN 0 ELSE (n % k) + 1
<1>. DEFINE q == n \div k
            m == n % k
<1>1. n = q * k + m /\ m \in 0 .. k - 1 /\ q \in Nat
  BY DivMod
<1>. HIDE DEF q, m
<1>2. CASE m = k - 1
  <2>1. n + 1 = (q + 1) * k + 0 /\ 0 \in 0 .. k - 1
    BY <1>1, <1>2
  <2>2. (n + 1) \div k = q + 1 /\ (n + 1) % k = 0
    BY <1>1, <2>1, DivModIs
  <2>. QED  BY <1>2, <2>2 DEF q, m
<1>3. CASE m # k - 1
  <2>1. n + 1 = q * k + (m + 1) /\ m + 1 \in 0 .. k - 1
    BY <1>1, <1>3
  <2>2. (n + 1) \div k = q /\ (n + 1) % k = m + 1
    BY <1>1, <2>1, DivModIs
  <2>. QED  BY <1>3, <2>2 DEF q, m
<1>. QED  BY <1>2, <1>3

LEMMA DivBelow ==
    ASSUME NEW n \in Nat, NEW k \in Nat \ {0}, NEW b \in Nat
    PROVE  n \div k < b <=> n < b * k
<1>. DEFINE q == n \div k
            m == n % k
<1>1. n = q * k + m /\ m \in 0 .. k - 1 /\ q \in Nat
  BY DivMod
<1>. HIDE DEF q, m
<1>2. q * k \in Nat /\ b * k \in Nat
  BY <1>1
<1>3. CASE q < b
  <2>1. PICK d \in Nat : b = q + 1 + d
     <3>1. b - q - 1 \in Nat /\ b = q + 1 + (b - q - 1)
       BY <1>1, <1>3
     <3>. QED  BY <3>1
  <2>2. b * k = q * k + k + d * k /\ d * k \in Nat
     BY <1>1, <2>1
  <2>. QED  BY <1>1, <1>2, <1>3, <2>2 DEF q
<1>4. CASE ~(q < b)
  <2>1. PICK d \in Nat : q = b + d
     <3>1. q - b \in Nat /\ q = b + (q - b)
       BY <1>1, <1>4
     <3>. QED  BY <3>1
  <2>2. q * k = b * k + d * k /\ d * k \in Nat
     BY <1>1, <2>1
  <2>. QED  BY <1>1, <1>2, <1>4, <2>2 DEF q
<1>. QED  BY <1>3, <1>4

\* Numbers with the same rest are multiples apart
LEMMA SameRest ==
    ASSUME NEW n \in Nat, NEW k \in Nat \ {0}, NEW f \in Nat
    PROVE  (f + n) % k = f % k <=> n % k = 0
<1>. DEFINE q == n \div k
            m == n % k
            p == f \div k
            y == f % k
<1>1. n = q * k + m /\ m \in 0 .. k - 1 /\ q \in Nat /\ f = p * k + y /\ y \in 0 .. k - 1 /\ p \in Nat
  BY DivMod
<1>. HIDE DEF q, m, p, y
<1>2. (q + p) * k = q * k + p * k /\ (q + p + 1) * k = q * k + p * k + k
  BY <1>1
<1>3. CASE m + y < k
  <2>1. f + n = (q + p) * k + (m + y) /\ m + y \in 0 .. k - 1
    BY <1>1, <1>2, <1>3
  <2>2. (f + n) % k = m + y
    BY <1>1, <2>1, DivModIs
  <2>. QED  BY <1>1, <2>2 DEF m, y
<1>4. CASE ~(m + y < k)
  <2>1. f + n = (q + p + 1) * k + (m + y - k) /\ m + y - k \in 0 .. k - 1
    BY <1>1, <1>2, <1>4
  <2>2. (f + n) % k = m + y - k
    BY <1>1, <2>1, DivModIs
  <2>. QED  BY <1>1, <1>4, <2>2 DEF m, y
<1>. QED  BY <1>3, <1>4

-----------------------------------------------------------------------------
(* The picture *)

InWindow(r) == dy_start <= r /\ r < dy_stop

\* The first drawn frame since the registers have changed
Drawing == steady = 1 /\ ~frame_skipped /\ turn # "vblank"

\* The line that was last drawn, or skipped for the borders; the end of the drawn frame
\* before if the whole frame is skipped
Pos == IF turn = "vblank" \/ frame_skipped THEN TOTAL_RASTERS - 1 ELSE raster_y

PictureShape ==
    /\ y_scroll \in 0 .. RowLines - 1 /\ den \in BOOLEAN /\ rows25 \in BOOLEAN
    /\ bad_lines_enabled \in BOOLEAN /\ border_on \in BOOLEAN
    /\ BordersOn \in BOOLEAN /\ frame_skipped \in BOOLEAN

EnabledInv ==
    steady = 2 \/ (steady = 1 /\ turn # "vblank" /\ raster_y >= FIRST_DMA_LINE)
    => (bad_lines_enabled <=> den)

\* The border is open in the window of a picture that is on, and closed elsewhere if
\* the line is drawn in which it closes
BorderInv ==
    /\ den /\ (steady = 2 \/ Drawing) /\ InWindow(Pos) => ~border_on
    /\ (BordersOn \/ ~rows25) /\ (steady = 2 \/ (Drawing /\ raster_y >= dy_stop))
       /\ ~(den /\ InWindow(Pos)) => border_on

\* Inside the rows the counters say which line of which row comes next; outside of them
\* nothing is displayed, and no row is left over in front of them.  In the first drawn
\* frame a row may have been.
RowsInv ==
    LET line == Pos - FirstBadLine
        inside == line \in 0 .. Rows * RowLines - 1
        last == line % RowLines = RowLines - 1
    IN
    /\ (steady = 2 \/ Drawing) /\ inside => /\ ~last => display_state /\ rc = (line % RowLines) + 1
                                            /\ last => ~display_state
    /\ (steady = 2 \/ Drawing) /\ line >= Rows * RowLines => ~display_state
    /\ steady = 2 /\ inside => /\ matrix_line = line \div RowLines
                               /\ ~last => vc_base = line \div RowLines
                               /\ last /\ line \div RowLines # Rows - 1
                                  => vc_base = line \div RowLines + 1
    /\ steady = 2 /\ (turn = "vblank" \/ line < 0) => vc_base = 0 /\ ~display_state

Usual == BordersOn \/ y_scroll = ROW25_YSTART % RowLines

PictureInv ==
    /\ PictureShape /\ EnabledInv /\ BorderInv
    /\ den /\ Usual => RowsInv
    /\ PictureInOrder

\* Where the window is
LEMMA Window ==
    ASSUME PictureShape
    PROVE  /\ dy_start \in Nat /\ dy_stop \in Nat /\ dy_start < dy_stop
           /\ FIRST_DMA_LINE <= dy_start /\ dy_start < FIRST_DMA_LINE + RowLines
           /\ ROW25_YSTART <= dy_start /\ FIRST_DISP_LINE <= dy_start
           /\ LAST_DMA_LINE <= dy_stop /\ dy_stop <= ROW25_YSTOP /\ dy_stop <= LAST_DISP_LINE
           /\ ~rows25 => dy_stop < ROW25_YSTOP
           /\ rows25 => dy_start = ROW25_YSTART /\ dy_stop = ROW25_YSTOP
BY VicAssumption, WindowAssumption, LastDma DEF dy_start, dy_stop, PictureShape

\* The first bad line is one of the first row's lines
LEMMA FirstBadLineIs ==
    ASSUME PictureShape
    PROVE  /\ FirstBadLine \in FIRST_DMA_LINE .. FIRST_DMA_LINE + RowLines - 1
           /\ FirstBadLine % RowLines = y_scroll
<1>. DEFINE k == RowLines
            f == FIRST_DMA_LINE
            q == f \div k
            m == f % k
            l == IF y_scroll >= m THEN f + (y_scroll - m) ELSE f + k + (y_scroll - m)
<1>1. k \in Nat \ {0} /\ f \in Nat /\ y_scroll \in 0 .. k - 1
  BY VicAssumption DEF PictureShape
<1>2. f = q * k + m /\ m \in 0 .. k - 1 /\ q \in Nat
  BY <1>1, DivMod
<1>. HIDE DEF q, m
<1>3. (q + 1) * k = q * k + k
  BY <1>1, <1>2
<1>4. l \in f .. f + k - 1 /\ l \in Nat
  BY <1>1, <1>2
<1>5. l % k = y_scroll
  <2>1. CASE y_scroll >= m
    <3>1. l = q * k + y_scroll
      BY <1>1, <1>2, <2>1
    <3>. HIDE DEF l
    <3>. QED  BY <1>1, <1>2, <1>4, <3>1, DivModIs
  <2>2. CASE ~(y_scroll >= m)
    <3>1. l = (q + 1) * k + y_scroll /\ q + 1 \in Nat
      BY <1>1, <1>2, <1>3, <2>2
    <3>. HIDE DEF l
    <3>. QED  BY <1>1, <1>4, <3>1, DivModIs
  <2>. QED  BY <2>1, <2>2
<1>. HIDE DEF l
<1>6. \E n \in f .. f + k - 1 : n % k = y_scroll
  BY <1>4, <1>5
<1>. QED  BY <1>6 DEF FirstBadLine

\* The rows of the screen end within the last row of the video matrix's lines
LEMMA LastRow ==
    /\ Rows * RowLines \in Nat /\ (Rows - 1) * RowLines = Rows * RowLines - RowLines
    /\ (Rows - 1) * RowLines \in Nat /\ Rows * RowLines >= RowLines
    /\ (Rows * RowLines - 1) % RowLines = RowLines - 1
<1>. DEFINE k == RowLines
            b == Rows - 1
<1>1. k \in Nat \ {0} /\ b \in Nat /\ Rows = b + 1
  BY VicAssumption
<1>. HIDE DEF b
<1>2. b * k \in Nat /\ (b + 1) * k = b * k + k
  BY <1>1, NextRow
<1>3. Rows * k = b * k + k /\ Rows * k - 1 = b * k + (k - 1) /\ Rows * k - 1 \in Nat /\ k - 1 \in 0 .. k - 1
  BY <1>1, <1>2
<1>4. (Rows * k - 1) % k = k - 1
  BY <1>1, <1>3, DivModIs
<1>. QED  BY <1>1, <1>2, <1>3, <1>4 DEF b

\* Bad lines are the first lines of the rows
LEMMA ScrolledLines ==
    ASSUME PictureShape, NEW r \in Nat
    PROVE  Scrolled(r) <=> /\ r - FirstBadLine \in 0 .. Rows * RowLines - 1
                           /\ (r - FirstBadLine) % RowLines = 0
<1>. DEFINE f == FirstBadLine
            k == RowLines
<1>1. /\ k \in Nat \ {0} /\ FIRST_DMA_LINE \in Nat /\ f \in FIRST_DMA_LINE .. FIRST_DMA_LINE + k - 1
      /\ f % k = y_scroll /\ f \in Nat
  BY VicAssumption, FirstBadLineIs
<1>2. LAST_DMA_LINE = FIRST_DMA_LINE + Rows * k - 1 /\ Rows * k \in Nat
  BY LastDma
<1>. HIDE DEF f
<1>3. CASE r < f
  <2>1. ~Scrolled(r)
    <3>. SUFFICES ASSUME r >= FIRST_DMA_LINE, r % k = y_scroll PROVE FALSE
      BY <1>1, <1>2 DEF Scrolled
    <3>1. f - r \in 1 .. k - 1 /\ f = r + (f - r) /\ f - r \in Nat
      BY <1>1, <1>3
    <3>2. (f - r) % k = f - r
      BY <1>1, <3>1
    <3>3. (r + (f - r)) % k = r % k <=> (f - r) % k = 0
      BY <1>1, <3>1, SameRest
    <3>. QED  BY <1>1, <3>1, <3>2, <3>3
  <2>. QED  BY <1>1, <1>2, <1>3, <2>1 DEF f
<1>4. CASE r >= f
  <2>. DEFINE n == r - f
  <2>1. n \in Nat /\ r = f + n
    BY <1>1, <1>4
  <2>. HIDE DEF n
  <2>2. r % k = y_scroll <=> n % k = 0
    BY <1>1, <2>1, SameRest
  <2>3. r <= LAST_DMA_LINE => n \in 0 .. Rows * k - 1
    BY <1>1, <1>2, <2>1
  <2>4. n \in 0 .. Rows * k - 1 /\ n % k = 0 => r <= LAST_DMA_LINE
    <3>. SUFFICES ASSUME n \in 0 .. Rows * k - 1, n % k = 0 PROVE r <= LAST_DMA_LINE
      OBVIOUS
    <3>1. n \div k < Rows /\ n \div k \in Nat /\ n = (n \div k) * k
      BY <1>1, <1>2, <2>1, DivBelow, DivMod, VicAssumption
    <3>2. n \div k <= Rows - 1 /\ Rows - 1 \in Nat
      BY <3>1, VicAssumption
    <3>3. n <= (Rows - 1) * k
      <4>. DEFINE a == n \div k
                  b == Rows - 1
      <4>1. a \in Nat /\ b \in Nat /\ a <= b /\ n = a * k
        BY <3>1, <3>2
      <4>. HIDE DEF a, b
      <4>2. a * k <= b * k
        <5>1. PICK d \in Nat : b = a + d
          <6>1. b - a \in Nat /\ b = a + (b - a)
            BY <4>1
          <6>. QED  BY <6>1
        <5>2. b * k = a * k + d * k /\ d * k \in Nat /\ a * k \in Nat
          BY <1>1, <4>1, <5>1
        <5>. QED  BY <5>2
      <4>. QED  BY <4>1, <4>2 DEF b
    <3>. QED  BY <1>1, <1>2, <2>1, <3>3, LastRow
  <2>5. r >= FIRST_DMA_LINE
    BY <1>1, <1>4
  <2>6. Scrolled(r) <=> r >= FIRST_DMA_LINE /\ r <= LAST_DMA_LINE /\ r % k = y_scroll
    BY <1>1, <1>2 DEF Scrolled
  <2>. QED  BY <2>2, <2>3, <2>4, <2>5, <2>6 DEF n, f
<1>. QED  BY <1>1, <1>3, <1>4

\* The first bad line is drawn, and so are the rows
LEMMA FirstRow ==
    ASSUME PictureShape
    PROVE  /\ FirstBadLine \in Nat /\ FirstBadLine > 0 /\ FIRST_DMA_LINE <= FirstBadLine
           /\ FirstBadLine < FIRST_DMA_LINE + RowLines /\ FIRST_DISP_LINE <= FirstBadLine
           /\ FirstBadLine + Rows * RowLines <= LAST_DISP_LINE
           /\ Usual /\ ~BordersOn => FirstBadLine = ROW25_YSTART
<1>. DEFINE f == FirstBadLine
            k == RowLines
<1>1. /\ k \in Nat \ {0} /\ FIRST_DMA_LINE \in Nat /\ f \in FIRST_DMA_LINE .. FIRST_DMA_LINE + k - 1
      /\ f % k = y_scroll /\ LAST_DMA_LINE = FIRST_DMA_LINE + Rows * k - 1 /\ Rows * k \in Nat
  BY VicAssumption, FirstBadLineIs, LastDma
<1>2. ASSUME Usual, ~BordersOn PROVE f = ROW25_YSTART
  <2>. DEFINE g == ROW25_YSTART
  <2>1. g \in FIRST_DMA_LINE .. FIRST_DMA_LINE + k - 1 /\ g \in Nat /\ g % k = f % k
    BY <1>1, <1>2, WindowAssumption DEF Usual
  <2>. HIDE DEF f, g
  <2>2. CASE f < g
    <3>1. g - f \in 1 .. k - 1 /\ g = f + (g - f) /\ g - f \in Nat /\ f \in Nat
      BY <1>1, <2>1, <2>2
    <3>2. (g - f) % k = g - f
      BY <1>1, <3>1
    <3>3. (f + (g - f)) % k = f % k <=> (g - f) % k = 0
      BY <1>1, <3>1, SameRest
    <3>. QED  BY <1>1, <2>1, <3>1, <3>2, <3>3
  <2>3. CASE g < f
    <3>1. f - g \in 1 .. k - 1 /\ f = g + (f - g) /\ f - g \in Nat
      BY <1>1, <2>1, <2>3
    <3>2. (f - g) % k = f - g
      BY <1>1, <3>1
    <3>3. (g + (f - g)) % k = g % k <=> (f - g) % k = 0
      BY <1>1, <2>1, <3>1, SameRest
    <3>. QED  BY <1>1, <2>1, <3>1, <3>2, <3>3
  <2>. QED  BY <1>1, <2>1, <2>2, <2>3 DEF g
<1>. HIDE DEF f
<1>3. f \in Nat /\ f > 0 /\ FIRST_DMA_LINE <= f /\ f < FIRST_DMA_LINE + k /\ FIRST_DISP_LINE <= f
      /\ f + Rows * k <= LAST_DISP_LINE
  BY <1>1, VicAssumption, WindowAssumption
<1>. QED  BY <1>2, <1>3 DEF f

\* Line r is emulated: by NextLine or, after the vertical blank, by FirstLine
LineIs(r) ==
    /\ EmulateRaster(r) /\ turn' = "others" /\ raster_y' = r /\ r \in 0 .. TOTAL_RASTERS - 1
    /\ (turn = "vic" /\ r = raster_y + 1) \/ (turn = "vblank" /\ r = 0)

LEMMA LineKeeps ==
    ASSUME NEW r, LineIs(r)
    PROVE  UNCHANGED <<y_scroll, den, rows25, BordersOn, frame_skipped, steady, me, my, mye>>
BY DEF LineIs, EmulateRaster, regs, ctrl1, prefs, frames

LEMMA EnabledStep ==
    ASSUME PictureShape, SpriteShape, EnabledInv, NEW r, LineIs(r)
    PROVE  EnabledInv' /\ bad_lines_enabled' = Enabled(r) /\ bad_lines_enabled' \in BOOLEAN
<1>1. bad_lines_enabled' = Enabled(r)
  BY DEF LineIs, EmulateRaster
<1>2. CASE r = FIRST_DMA_LINE
  <2>1. bad_lines_enabled' = den /\ den' = den
    BY <1>1, <1>2, LineKeeps DEF Enabled
  <2>. QED  BY <1>1, <2>1 DEF EnabledInv, PictureShape
<1>3. CASE r # FIRST_DMA_LINE
  <2>1. bad_lines_enabled' = bad_lines_enabled /\ UNCHANGED <<den, steady>>
    BY <1>1, <1>3, LineKeeps DEF Enabled
  <2>2. raster_y' >= FIRST_DMA_LINE => turn # "vblank" /\ raster_y >= FIRST_DMA_LINE
    BY <1>3, VicAssumption DEF LineIs, SpriteShape
  <2>. QED  BY <1>1, <2>1, <2>2 DEF EnabledInv, PictureShape
<1>. QED  BY <1>2, <1>3

\* The border after a line
LEMMA BorderLine ==
    ASSUME PictureShape, NEW r, LineIs(r)
    PROVE  /\ Drawn(r) => border_on' = Border(r)
           /\ ~Drawn(r) => border_on' = border_on
           /\ border_on' \in BOOLEAN
BY DEF LineIs, EmulateRaster, DrawLine, Border, PictureShape

LEMMA BorderStep ==
    ASSUME PictureShape, SpriteShape, BorderInv, steady # 0, NEW r, LineIs(r)
    PROVE  BorderInv'
<1>1. /\ UNCHANGED <<y_scroll, den, rows25, BordersOn, frame_skipped, steady>>
      /\ turn' = "others" /\ raster_y' = r /\ r \in 0 .. TOTAL_RASTERS - 1
      /\ (turn = "vic" /\ r = raster_y + 1) \/ (turn = "vblank" /\ r = 0)
  BY LineKeeps DEF LineIs
<1>2. UNCHANGED <<dy_start, dy_stop>> /\ \A l : InWindow(l)' <=> InWindow(l)
  BY <1>1 DEF dy_start, dy_stop, InWindow
<1>3. /\ TOTAL_RASTERS \in Nat /\ LAST_DISP_LINE < TOTAL_RASTERS
      /\ TOTAL_RASTERS - 1 \in Nat /\ r \in Nat
  BY <1>1, VicAssumption
<1>4. ~InWindow(TOTAL_RASTERS - 1)
  BY <1>3, Window, VicAssumption DEF InWindow
<1>5. CASE frame_skipped
  <2>1. ~Drawn(r)
    BY <1>5 DEF Drawn, Skipped
  <2>2. border_on' = border_on /\ Pos' = TOTAL_RASTERS - 1 /\ Pos = TOTAL_RASTERS - 1 /\ ~Drawing'
    BY <1>1, <1>5, <2>1, BorderLine DEF Pos, Drawing
  <2>. QED  BY <1>1, <1>2, <1>4, <2>2 DEF BorderInv, PictureShape
<1>6. CASE ~frame_skipped
  <2>1. Pos' = r /\ (Drawing' <=> steady = 1)
    BY <1>1, <1>6 DEF Pos, Drawing
  <2>2. /\ turn = "vic" => Pos = r - 1 /\ (Drawing <=> steady = 1) /\ raster_y = r - 1
        /\ turn = "vblank" => Pos = TOTAL_RASTERS - 1 /\ r = 0
    BY <1>1, <1>6 DEF Pos, Drawing, SpriteShape
  <2>3. ASSUME den, steady = 2 \/ steady = 1, InWindow(r) PROVE ~border_on'
    <3>1. Drawn(r)
      BY <1>3, <1>6, <2>3, Window, VicAssumption, WindowAssumption DEF Drawn, Skipped, InWindow
    <3>2. CASE r = dy_start
      <4>1. dy_start # dy_stop
        BY Window
      <4>2. Border(r) = FALSE
        BY <2>3, <3>2, <4>1 DEF Border
      <4>. QED  BY <3>1, <4>2, BorderLine
    <3>3. CASE r # dy_start
      <4>1. InWindow(r - 1) /\ r > 0 /\ r # dy_stop
        BY <1>3, <2>3, <3>3, Window DEF InWindow
      <4>2. turn = "vic"
        BY <1>1, <4>1
      <4>3. ~border_on
        BY <2>2, <2>3, <4>1, <4>2 DEF BorderInv, PictureShape
      <4>4. border_on' = border_on
        BY <3>1, <3>3, <4>1, BorderLine DEF Border
      <4>. QED  BY <4>3, <4>4
    <3>. QED  BY <3>2, <3>3
  <2>4. ASSUME BordersOn \/ ~rows25, steady = 2 \/ (steady = 1 /\ r >= dy_stop), ~(den /\ InWindow(r))
        PROVE  border_on'
    <3>1. CASE r = dy_stop
      <4>1. Drawn(r) /\ r # dy_start
        BY <1>3, <1>6, <2>4, <3>1, Window, VicAssumption, WindowAssumption DEF Drawn, Skipped
      <4>2. border_on' = TRUE
        BY <3>1, <4>1, BorderLine DEF Border
      <4>. QED  BY <4>2
    <3>2. CASE r # dy_stop
      <4>1. ~(den /\ r = dy_start)
        BY <1>3, <2>4, Window DEF InWindow
      <4>2. border_on' = border_on
        BY <3>2, <4>1, BorderLine DEF Border
      <4>3. CASE turn = "vic"
        <5>1. ~(den /\ InWindow(r - 1)) /\ (steady = 2 \/ (steady = 1 /\ r - 1 >= dy_stop))
          BY <1>3, <2>4, <3>2, Window DEF InWindow
        <5>2. border_on
          BY <2>2, <2>4, <4>3, <5>1 DEF BorderInv
        <5>. QED  BY <4>2, <5>2
      <4>4. CASE turn = "vblank"
        <5>1. steady = 2
          BY <2>2, <2>4, <4>4, Window, VicAssumption
        <5>2. border_on
          BY <1>4, <2>2, <2>4, <4>4, <5>1 DEF BorderInv
        <5>. QED  BY <4>2, <5>2
      <4>. QED  BY <1>1, <4>3, <4>4
    <3>. QED  BY <3>1, <3>2
  <2>5. border_on' \in BOOLEAN
    BY BorderLine
  <2>. QED  BY <1>1, <1>2, <2>1, <2>3, <2>4, <2>5 DEF BorderInv
<1>. QED  BY <1>5, <1>6 DEF PictureShape

\* Line r of a frame that is drawn with these registers, and whose rows are where they
\* should be before it
DrawnNext(r) ==
    /\ PictureShape /\ SpriteShape /\ Counters /\ EnabledInv /\ RowsInv
    /\ den /\ Usual /\ steady # 0 /\ ~frame_skipped /\ LineIs(r)

LEMMA Before ==
    ASSUME NEW r, DrawnNext(r)
    PROVE  /\ r \in Nat /\ Pos' = r /\ turn' = "others" /\ raster_y' = r
           /\ steady \in {1, 2} /\ (Drawing' <=> steady = 1)
           /\ turn = "vic" \/ (turn = "vblank" /\ r = 0)
           /\ turn = "vic" => r > 0 /\ Pos = r - 1 /\ (steady = 2 \/ Drawing)
<1>1. /\ turn' = "others" /\ raster_y' = r /\ r \in 0 .. TOTAL_RASTERS - 1
      /\ (turn = "vic" /\ r = raster_y + 1) \/ (turn = "vblank" /\ r = 0)
      /\ frame_skipped' = frame_skipped /\ steady' = steady
  BY LineKeeps DEF DrawnNext, LineIs
<1>2. r \in Nat /\ raster_y \in Nat /\ steady \in {1, 2}
  BY <1>1, VicAssumption DEF DrawnNext, SpriteShape
<1>. QED  BY <1>1, <1>2 DEF DrawnNext, Pos, Drawing

\* Within the rows a line is drawn, a bad line is the first line of its row, and the
\* counters show which line of which row it is
LEMMA Inside ==
    ASSUME NEW r, DrawnNext(r), NEW n, n = r - FirstBadLine, n \in 0 .. Rows * RowLines - 1
    PROVE  /\ Drawn(r) /\ (BadLine(r) <=> n % RowLines = 0)
           /\ display_state \/ BadLine(r)
           /\ (IF BadLine(r) THEN 0 ELSE rc) = n % RowLines
           /\ steady = 2 => vc_base = n \div RowLines
           /\ steady = 2 => (IF BadLine(r) THEN vc_base ELSE matrix_line) = n \div RowLines
<1>. DEFINE k == RowLines
            f == FirstBadLine
<1>1. /\ k \in Nat \ {0} /\ f \in Nat /\ f > 0 /\ n \in Nat /\ r = f + n /\ r > 0 /\ Rows * k \in Nat
      /\ FIRST_DMA_LINE <= f /\ FIRST_DISP_LINE <= f /\ f + Rows * k <= LAST_DISP_LINE
      /\ PictureShape
  BY FirstRow, Before, LastRow, VicAssumption DEF DrawnNext
<1>2. turn = "vic" /\ Pos = r - 1 /\ (steady = 2 \/ Drawing)
  BY <1>1, Before
<1>3. Drawn(r)
  <2>1. r \in FIRST_DISP_LINE .. LAST_DISP_LINE
    BY <1>1, VicAssumption
  <2>2. ~BordersOn => r \in ROW25_YSTART .. ROW25_YSTOP - 1
    BY <1>1, FirstRow, WindowAssumption DEF DrawnNext
  <2>. QED  BY <2>1, <2>2 DEF Drawn, Skipped, DrawnNext
<1>4. BadLine(r) <=> n % k = 0
  <2>1. Scrolled(r) <=> n % k = 0
    BY <1>1, ScrolledLines
  <2>2. Enabled(r)
    <3>1. EnabledInv' /\ bad_lines_enabled' = Enabled(r) /\ steady' = steady /\ den' = den
      BY EnabledStep, LineKeeps DEF DrawnNext
    <3>2. raster_y' >= FIRST_DMA_LINE /\ turn' # "vblank"
      BY <1>1, Before, VicAssumption
    <3>. QED  BY <3>1, <3>2, Before DEF EnabledInv, DrawnNext
  <2>. QED  BY <2>1, <2>2 DEF BadLine
<1>5. CASE n = 0
  <2>1. n % k = 0 /\ n \div k = 0
    <3>1. n = 0 * k + 0 /\ 0 \in 0 .. k - 1
      BY <1>1, <1>5
    <3>. QED  BY <1>1, <3>1, DivModIs
  <2>2. steady = 2 => vc_base = 0
    <3>1. Pos - f < 0
      BY <1>1, <1>2, <1>5
    <3>. HIDE DEF f
    <3>. QED  BY <3>1 DEF RowsInv, DrawnNext, f
  <2>. QED  BY <1>3, <1>4, <2>1, <2>2
<1>6. CASE n # 0
  <2>. DEFINE p == n - 1
              j == p % k
              q == p \div k
  <2>1. p \in Nat /\ n = p + 1 /\ p \in 0 .. Rows * k - 1 /\ Pos - f = p
    BY <1>1, <1>2, <1>6
  <2>2. /\ n \div k = IF j = k - 1 THEN q + 1 ELSE q
        /\ n % k = IF j = k - 1 THEN 0 ELSE j + 1
        /\ j \in 0 .. k - 1 /\ q \in Nat
    <3>. HIDE DEF p
    <3>1. /\ (p + 1) \div k = IF p % k = k - 1 THEN p \div k + 1 ELSE p \div k
          /\ (p + 1) % k = IF p % k = k - 1 THEN 0 ELSE (p % k) + 1
      BY <1>1, <2>1, DivModNext
    <3>2. p % k \in 0 .. k - 1 /\ p \div k \in Nat
      BY <1>1, <2>1, DivMod
    <3>. QED  BY <2>1, <3>1, <3>2
  <2>3. n \div k < Rows /\ Rows \in Nat
    BY <1>1, DivBelow, VicAssumption
  <2>4. /\ j # k - 1 => display_state /\ rc = j + 1
        /\ steady = 2 => /\ matrix_line = q
                         /\ j # k - 1 => vc_base = q
                         /\ j = k - 1 /\ q # Rows - 1 => vc_base = q + 1
    <3>. HIDE DEF p, f
    <3>. QED  BY <1>2, <2>1 DEF RowsInv, DrawnNext, f
  <2>. HIDE DEF p, j, q, k
  <2>5. CASE j = k - 1
    <3>1. n % k = 0 /\ n \div k = q + 1 /\ q # Rows - 1
      BY <2>2, <2>3, <2>5
    <3>2. steady = 2 => vc_base = q + 1
      BY <2>4, <2>5, <3>1
    <3>3. BadLine(r)
      BY <1>4, <3>1
    <3>. QED  BY <1>3, <1>4, <3>1, <3>2, <3>3 DEF k
  <2>6. CASE j # k - 1
    <3>1. n % k = j + 1 /\ j + 1 # 0 /\ n \div k = q
      BY <2>2, <2>6
    <3>2. ~BadLine(r)
      BY <1>4, <3>1
    <3>. QED  BY <1>3, <1>4, <2>4, <2>6, <3>1, <3>2 DEF k
  <2>. QED  BY <2>5, <2>6
<1>. QED  BY <1>5, <1>6

\* Outside of the rows nothing is displayed, and in front of them no row is counted
LEMMA Outside ==
    ASSUME NEW r, DrawnNext(r), NEW n, n = r - FirstBadLine, n \notin 0 .. Rows * RowLines - 1,
           steady = 2 \/ n >= Rows * RowLines
    PROVE  ~BadLine(r) /\ ~display_state /\ (n < 0 => vc_base = 0)
<1>. DEFINE k == RowLines
            f == FirstBadLine
<1>1. /\ k \in Nat \ {0} /\ f \in Nat /\ f > 0 /\ n \in Int /\ r \in Nat /\ r = f + n
      /\ Rows * k \in Nat /\ Rows * k >= k /\ PictureShape
  BY FirstRow, Before, LastRow, VicAssumption DEF DrawnNext
<1>2. ~BadLine(r)
  BY <1>1, ScrolledLines DEF BadLine
<1>3. CASE n < 0
  <2>1. steady = 2 /\ (turn = "vblank" \/ Pos - f < 0)
    BY <1>1, <1>3, Before
  <2>. HIDE DEF f
  <2>2. vc_base = 0 /\ ~display_state
    BY <2>1 DEF RowsInv, DrawnNext, f
  <2>. QED  BY <1>2, <2>2
<1>4. CASE ~(n < 0)
  <2>1. n >= Rows * k /\ r > 0
    BY <1>1, <1>4
  <2>2. turn = "vic" /\ (steady = 2 \/ Drawing) /\ Pos - f = n - 1
    BY <1>1, <2>1, Before
  <2>3. CASE n - 1 >= Rows * k
    <3>. HIDE DEF f
    <3>. QED  BY <1>2, <1>4, <2>2, <2>3 DEF RowsInv, DrawnNext, f
  <2>4. CASE n - 1 = Rows * k - 1
    <3>1. (n - 1) % k = k - 1 /\ n - 1 \in 0 .. Rows * k - 1
      BY <1>1, <2>4, LastRow
    <3>. HIDE DEF f
    <3>. QED  BY <1>2, <1>4, <2>2, <3>1 DEF RowsInv, DrawnNext, f
  <2>. QED  BY <1>1, <2>1, <2>3, <2>4
<1>. QED  BY <1>3, <1>4

\* What a line leaves behind, drawn or not
LEMMA LineLeaves ==
    ASSUME NEW r, LineIs(r)
    PROVE  /\ Drawn(r) => DrawLine(r)
           /\ ~Drawn(r) => /\ UNCHANGED <<display_state, border_on, rc, vc_base, matrix_line>>
                           /\ shown' = Nothing
BY DEF LineIs, EmulateRaster

LEMMA RowsStep ==
    ASSUME NEW r, DrawnNext(r), BorderInv'
    PROVE  RowsInv'
<1>. DEFINE k == RowLines
            f == FirstBadLine
            n == r - f
<1>1. /\ k \in Nat \ {0} /\ f \in Nat /\ r \in Nat /\ n \in Int /\ r = f + n
      /\ Rows \in Nat /\ Rows * k \in Nat /\ PictureShape /\ LineIs(r)
      /\ FIRST_DMA_LINE <= f /\ f < FIRST_DMA_LINE + k
  BY FirstRow, Before, LastRow, VicAssumption DEF DrawnNext
<1>2. f' = f /\ Pos' - f' = n /\ (Drawing' <=> steady = 1) /\ steady' = steady /\ turn' = "others"
      /\ steady \in {1, 2}
  BY Before, LineKeeps DEF FirstBadLine, DrawnNext
<1>. HIDE DEF f, n
<1>3. RowsInv' <=> LET inside == n \in 0 .. Rows * k - 1
                       last == n % k = k - 1
                   IN /\ inside => /\ ~last => display_state' /\ rc' = (n % k) + 1
                                   /\ last => ~display_state'
                      /\ n >= Rows * k => ~display_state'
                      /\ steady = 2 /\ inside => /\ matrix_line' = n \div k
                                                 /\ ~last => vc_base' = n \div k
                                                 /\ last /\ n \div k # Rows - 1
                                                    => vc_base' = n \div k + 1
                      /\ steady = 2 /\ n < 0 => vc_base' = 0 /\ ~display_state'
  BY <1>1, <1>2 DEF RowsInv, f
<1>4. CASE n \in 0 .. Rows * k - 1
  <2>. DEFINE j == n % k
              q == n \div k
              bad == BadLine(r)
              display == display_state \/ bad
              row == IF bad THEN 0 ELSE rc
              fetched == IF bad THEN vc_base ELSE matrix_line
              last == row = k - 1
  <2>1. /\ Drawn(r) /\ (bad <=> j = 0) /\ display /\ row = j
        /\ steady = 2 => vc_base = q /\ fetched = q
    BY <1>4, Inside DEF f, n
  <2>2. /\ border_on' = Border(r) /\ matrix_line' = fetched
        /\ display_state' = (display /\ ~last)
        /\ vc_base' = IF last /\ display /\ ~Border(r) THEN vc_base + 1 ELSE vc_base
        /\ rc' = IF Scrolled(r + 1) /\ Enabled(r) THEN 0 ELSE IF last THEN row ELSE row + 1
    BY <1>1, <2>1, LineLeaves DEF DrawLine
  <2>3. j \in 0 .. k - 1 /\ q \in Nat /\ n \in Nat /\ n = q * k + j
    <3>1. n \in Nat
      BY <1>1, <1>4
    <3>2. n = (n \div k) * k + (n % k) /\ n % k \in 0 .. k - 1 /\ n \div k \in Nat
      BY <1>1, <3>1, DivMod
    <3>. QED  BY <3>1, <3>2
  <2>4. j # k - 1 => ~Scrolled(r + 1)
    <3>. SUFFICES ASSUME j # k - 1, Scrolled(r + 1) PROVE FALSE
      OBVIOUS
    <3>1. (n + 1) % k = j + 1
      BY <1>1, <2>3, DivModNext
    <3>2. r + 1 - f = n + 1 /\ r + 1 \in Nat
      BY <1>1
    <3>3. (r + 1 - f) % k = 0
      BY <1>1, <3>2, ScrolledLines DEF f
    <3>. QED  BY <2>3, <3>1, <3>2, <3>3
  <2>5. j = k - 1 /\ q # Rows - 1 => ~Border(r)
    <3>. SUFFICES ASSUME j = k - 1, q # Rows - 1 PROVE ~Border(r)
      OBVIOUS
    <3>1. q < Rows
      <4>1. n < Rows * k
        BY <1>1, <1>4
      <4>2. n \div k < Rows
        BY <1>1, <2>3, <4>1, DivBelow
      <4>. QED  BY <4>2
    <3>2. n >= k - 1 /\ n < (Rows - 1) * k
      <4>1. Rows - 1 \in Nat /\ q < Rows - 1
        BY <1>1, <2>3, <3>1
      <4>2. n < (Rows - 1) * k
        BY <1>1, <2>3, <4>1, DivBelow
      <4>3. q * k \in Nat
        BY <1>1, <2>3
      <4>. QED  BY <2>3, <4>2, <4>3
    <3>3. r < dy_stop /\ dy_start <= r
      <4>. HIDE DEF j, q
      <4>. QED  BY <1>1, <3>2, LastRow, LastDma, Window, VicAssumption
    <3>4. InWindow(r) /\ Pos' = r /\ UNCHANGED <<dy_start, dy_stop, den, steady>>
      BY <1>1, <3>3, Before, LineKeeps DEF InWindow, dy_start, dy_stop
    <3>5. ~border_on'
      BY <1>2, <3>4 DEF BorderInv, InWindow, DrawnNext
    <3>. QED  BY <2>2, <3>5
  <2>6. last <=> j = k - 1
    BY <2>1
  <2>. HIDE DEF j, q, bad, display, row, fetched, last
  <2>7. /\ j # k - 1 => display_state' /\ rc' = j + 1
        /\ j = k - 1 => ~display_state'
    BY <2>1, <2>2, <2>4, <2>6
  <2>8. steady = 2 => /\ matrix_line' = q
                      /\ j # k - 1 => vc_base' = q
                      /\ j = k - 1 /\ q # Rows - 1 => vc_base' = q + 1
    BY <2>1, <2>2, <2>5, <2>6
  <2>9. ~(n >= Rows * k) /\ ~(n < 0)
    BY <1>1, <1>4
  <2>. QED  BY <1>3, <2>7, <2>8, <2>9 DEF j, q
<1>5. CASE n \notin 0 .. Rows * k - 1
  <2>. SUFFICES ASSUME steady = 2 \/ n >= Rows * k
                PROVE  ~display_state' /\ (steady = 2 /\ n < 0 => vc_base' = 0)
    BY <1>1, <1>3, <1>5
  <2>1. ~BadLine(r) /\ ~display_state /\ (n < 0 => vc_base = 0)
    BY <1>5, Outside DEF n, f
  <2>2. display_state' = FALSE /\ vc_base' = vc_base
    <3>1. CASE Drawn(r)
      BY <1>1, <2>1, <3>1, LineLeaves DEF DrawLine
    <3>2. CASE ~Drawn(r)
      BY <1>1, <2>1, <3>2, LineLeaves DEF DrawnNext, Counters
    <3>. QED  BY <3>1, <3>2
  <2>. QED  BY <2>1, <2>2
<1>. QED  BY <1>4, <1>5

\* Registers that have not changed for a frame show the picture that they say
LEMMA ShownPicture ==
    ASSUME PictureShape, SpriteShape, Counters, EnabledInv, den /\ Usual => RowsInv, steady = 2,
           NEW r, LineIs(r), BorderInv'
    PROVE  PictureInOrder'
<1>. DEFINE f == FirstBadLine
            n == r - f
            N == Rows * RowLines
<1>1. /\ UNCHANGED <<y_scroll, den, rows25, BordersOn, frame_skipped, steady>>
      /\ turn' = "others" /\ raster_y' = r /\ r \in Nat
      /\ UNCHANGED <<dy_start, dy_stop, FirstBadLine>>
  BY LineKeeps, VicAssumption DEF LineIs, dy_start, dy_stop, FirstBadLine
<1>. SUFFICES ASSUME shown' # Nothing, BordersOn \/ (den /\ y_scroll = ROW25_YSTART % RowLines)
              PROVE  \A part \in DOMAIN Picture(r) : shown'[part] = Picture(r)[part]
  <2>1. Picture(raster_y)' = Picture(r)
    BY <1>1 DEF Picture
  <2>. QED  BY <1>1, <2>1 DEF PictureInOrder
<1>2. Drawn(r) /\ ~frame_skipped /\ Usual
  BY LineLeaves DEF Drawn, Skipped, Usual
<1>3. DrawLine(r) /\ border_on' = Border(r)
  BY <1>2, LineLeaves DEF DrawLine
<1>4. Pos' = r
  BY <1>1, <1>2 DEF Pos
<1>5. dy_start \in Nat /\ dy_stop \in Nat /\ (r \in dy_start .. dy_stop - 1 <=> InWindow(r))
      /\ (InWindow(r)' <=> InWindow(r))
  BY <1>1, Window DEF InWindow
<1>6. CASE ~den \/ ~InWindow(r)
  <2>1. Picture(r) = [what |-> "border"]
    BY <1>5, <1>6 DEF Picture
  <2>2. BordersOn \/ ~rows25
    <3>. SUFFICES ASSUME ~BordersOn, rows25, InWindow(r) \/ den PROVE InWindow(r) /\ den
      BY <1>6
    <3>1. r \in ROW25_YSTART .. ROW25_YSTOP - 1
      BY <1>2 DEF Drawn, Skipped
    <3>. QED  BY <1>5, <3>1, Window
  <2>3. border_on'
    BY <1>1, <1>4, <1>5, <1>6, <2>2 DEF BorderInv, InWindow
  <2>4. shown' = [what |-> "border"]
    BY <1>3, <2>3 DEF DrawLine
  <2>. QED  BY <2>1, <2>4
<1>7. CASE den /\ InWindow(r)
  <2>1. DrawnNext(r)
    BY <1>2, <1>7 DEF DrawnNext
  <2>2. ~Border(r)
    BY <1>1, <1>3, <1>4, <1>5, <1>7 DEF BorderInv, InWindow
  <2>3. shown' = [what |-> IF display_state \/ BadLine(r) THEN "row" ELSE "idle",
                  row |-> vc_base, text |-> IF BadLine(r) THEN vc_base ELSE matrix_line,
                  line |-> IF BadLine(r) THEN 0 ELSE rc,
                  sprites |-> [s \in sprite_on |-> mc[s]]]
    BY <1>3, <2>2 DEF DrawLine
  <2>4. CASE n \in 0 .. N - 1
    <3>1. /\ display_state \/ BadLine(r)
          /\ (IF BadLine(r) THEN 0 ELSE rc) = n % RowLines
          /\ vc_base = n \div RowLines
          /\ (IF BadLine(r) THEN vc_base ELSE matrix_line) = n \div RowLines
      BY <2>1, <2>4, Inside
    <3>2. Picture(r) = [what |-> "row", row |-> n \div RowLines, text |-> n \div RowLines,
                        line |-> n % RowLines]
      <4>. HIDE DEF f
      <4>. QED  BY <1>5, <1>7, <2>4 DEF Picture, f
    <3>3. /\ shown'.what = "row" /\ shown'.row = n \div RowLines
          /\ shown'.text = n \div RowLines /\ shown'.line = n % RowLines
      BY <2>3, <3>1
    <3>. HIDE DEF n
    <3>. QED  BY <3>2, <3>3
  <2>5. CASE n \notin 0 .. N - 1
    <3>1. ~BadLine(r) /\ ~display_state
      BY <2>1, <2>5, Outside
    <3>2. Picture(r) = [what |-> "idle"]
      <4>. HIDE DEF f
      <4>. QED  BY <1>5, <1>7, <2>5 DEF Picture, f
    <3>3. shown'.what = "idle"
      BY <2>3, <3>1
    <3>. QED  BY <3>2, <3>3
  <2>. QED  BY <2>4, <2>5
<1>. QED  BY <1>6, <1>7 DEF PictureShape

LEMMA PictureLine ==
    ASSUME PictureInv, SpriteShape, Counters, NEW r, EmulateRaster(r), turn' = "others",
           steady # 0 => LineIs(r)
    PROVE  PictureInv'
<1>1. PictureShape /\ EnabledInv /\ BorderInv /\ (den /\ Usual => RowsInv)
  BY DEF PictureInv
<1>2. UNCHANGED <<y_scroll, den, rows25, BordersOn, frame_skipped, steady>>
  BY DEF EmulateRaster, regs, ctrl1, prefs, frames
<1>3. PictureShape'
  BY <1>1, <1>2 DEF EmulateRaster, DrawLine, Border, Enabled, PictureShape
<1>4. CASE steady = 0
  BY <1>2, <1>3, <1>4
     DEF PictureInv, EnabledInv, BorderInv, RowsInv, Drawing, PictureInOrder
<1>5. CASE steady # 0
  <2>1. LineIs(r) /\ EnabledInv' /\ BorderInv'
    BY <1>1, <1>5, EnabledStep, BorderStep
  <2>2. ASSUME den, Usual PROVE RowsInv'
    <3>1. CASE ~frame_skipped
      BY <1>1, <1>5, <2>1, <2>2, <3>1, RowsStep DEF DrawnNext
    <3>2. CASE frame_skipped
      <4>1. ~Drawn(r)
        BY <3>2 DEF Drawn, Skipped
      <4>2. UNCHANGED <<display_state, rc, vc_base, matrix_line, Pos, FirstBadLine>> /\ ~Drawing' /\ ~Drawing
        BY <1>2, <2>1, <3>2, <4>1, LineLeaves DEF Pos, FirstBadLine, Drawing
      <4>3. turn' # "vblank" /\ RowsInv /\ UNCHANGED steady
        BY <1>1, <1>2, <2>2
      <4>. QED  BY <4>2, <4>3 DEF RowsInv
    <3>. QED  BY <3>1, <3>2
  <2>3. (den /\ Usual => RowsInv)'
    BY <1>2, <2>2 DEF Usual
  <2>4. PictureInOrder'
    <3>1. CASE steady = 2
      BY <1>1, <2>1, <3>1, ShownPicture
    <3>2. CASE steady # 2
      BY <1>2, <3>2 DEF PictureInOrder
    <3>. QED  BY <3>1, <3>2
  <2>. QED  BY <1>3, <2>1, <2>3, <2>4 DEF PictureInv
<1>. QED  BY <1>4, <1>5

\* The end of the frame, from which on it is a frame with these registers
LEMMA PictureFrame ==
    ASSUME PictureInv, SpriteShape, Counters, VBlank
    PROVE  PictureInv'
<1>1. PictureShape /\ EnabledInv /\ BorderInv /\ (den /\ Usual => RowsInv)
  BY DEF PictureInv
<1>2. /\ turn = "vic" /\ turn' = "vblank" /\ raster_y = TOTAL_RASTERS - 1 /\ raster_y' = 0 /\ vc_base' = 0
      /\ frame_skipped' \in BOOLEAN
      /\ UNCHANGED <<y_scroll, den, rows25, BordersOn, bad_lines_enabled, display_state, border_on,
                     rc, matrix_line, shown>>
      /\ steady' = IF steady = 0 \/ (~frame_skipped /\ steady = 1) THEN steady + 1 ELSE steady
      /\ steady \in 0 .. 2 /\ shown = Nothing
  BY DEF VBlank, regs, ctrl1, prefs, SpriteShape
<1>3. PictureShape' /\ PictureInOrder'
  BY <1>1, <1>2 DEF PictureShape, PictureInOrder
<1>4. CASE steady' # 2
  BY <1>2, <1>3, <1>4 DEF PictureInv, EnabledInv, BorderInv, RowsInv, Drawing
<1>5. CASE steady' = 2
  <2>1. /\ steady = 2 \/ Drawing
        /\ Pos = TOTAL_RASTERS - 1 /\ Pos' = TOTAL_RASTERS - 1 /\ ~Drawing'
    BY <1>2, <1>5 DEF Drawing, Pos
  <2>2. UNCHANGED <<dy_start, dy_stop, FirstBadLine, Usual>> /\ (InWindow(Pos)' <=> InWindow(Pos))
    BY <1>2, <2>1 DEF dy_start, dy_stop, FirstBadLine, Usual, InWindow
  <2>3. /\ FIRST_DMA_LINE <= TOTAL_RASTERS - 1 /\ dy_stop <= TOTAL_RASTERS - 1
        /\ FirstBadLine + Rows * RowLines <= TOTAL_RASTERS - 1 /\ FirstBadLine \in Nat
        /\ Rows * RowLines \in Nat /\ TOTAL_RASTERS \in Nat
    BY <1>1, VicAssumption, Window, FirstRow, LastRow, LastDma
  <2>4. EnabledInv'
    BY <1>2, <2>1, <2>3, <1>1 DEF EnabledInv, Drawing
  <2>5. BorderInv'
    BY <1>1, <1>2, <1>5, <2>1, <2>2, <2>3 DEF BorderInv
  <2>6. (den /\ Usual => RowsInv)'
    <3>. SUFFICES ASSUME den, Usual PROVE RowsInv'
      BY <1>2, <2>2
    <3>1. Pos - FirstBadLine >= Rows * RowLines /\ Pos' - FirstBadLine' >= Rows * RowLines
      BY <2>1, <2>2, <2>3
    <3>2. ~display_state
      BY <1>1, <2>1, <3>1 DEF RowsInv
    <3>3. Pos' - FirstBadLine' \notin 0 .. Rows * RowLines - 1
      BY <2>1, <2>2, <2>3
    <3>. QED  BY <1>2, <3>2, <3>3 DEF RowsInv
  <2>. QED  BY <1>3, <2>4, <2>5, <2>6 DEF PictureInv
<1>. QED  BY <1>4, <1>5

LEMMA PictureStep == PictureInv /\ SpriteInv /\ RowInv /\ [VicNext]_vicVars => PictureInv'
<1>. SUFFICES ASSUME PictureInv, SpriteInv, RowInv, [VicNext]_vicVars PROVE PictureInv'
  OBVIOUS
<1>1. PictureShape /\ SpriteShape /\ Counters
  BY DEF PictureInv, SpriteInv, RowInv
<1>2. CASE NextLine
  <2>1. EmulateRaster(raster_y + 1) /\ turn' = "others" /\ (steady # 0 => LineIs(raster_y + 1))
    BY <1>1, <1>2, NextRaster, VicAssumption DEF NextLine, LineIs, SpriteShape
  <2>. QED  BY <1>1, <2>1, PictureLine
<1>3. CASE FirstLine
  <2>1. EmulateRaster(0) /\ turn' = "others" /\ (steady # 0 => LineIs(0))
    BY <1>1, <1>3, VicAssumption DEF FirstLine, LineIs, SpriteShape
  <2>. QED  BY <1>1, <2>1, PictureLine
<1>4. CASE VBlank
  BY <1>1, <1>4, PictureFrame
<1>5. CASE /\ UNCHANGED <<raster_y, y_scroll, den, rows25, BordersOn, frame_skipped, steady>>
           /\ UNCHANGED <<bad_lines_enabled, display_state, border_on, rc, vc_base, matrix_line>>
           /\ \/ UNCHANGED <<shown, turn>>
              \/ turn = "others" /\ turn' = "vic" /\ shown' = Nothing
  <2>1. /\ UNCHANGED <<dy_start, dy_stop, FirstBadLine, Usual, Pos, Drawing>>
        /\ (turn = "vblank" <=> turn' = "vblank") /\ (InWindow(Pos)' <=> InWindow(Pos))
    BY <1>5 DEF dy_start, dy_stop, FirstBadLine, Usual, Pos, Drawing, InWindow
  <2>2. PictureShape' /\ EnabledInv'
    BY <1>5, <2>1 DEF PictureInv, PictureShape, EnabledInv
  <2>3. BorderInv'
    BY <1>5, <2>1 DEF PictureInv, BorderInv
  <2>4. (den /\ Usual => RowsInv)'
    BY <1>5, <2>1 DEF PictureInv, RowsInv
  <2>5. PictureInOrder'
    <3>1. CASE UNCHANGED shown
      <4>1. Picture(raster_y)' = Picture(raster_y)
        BY <1>5, <2>1 DEF Picture
      <4>. QED  BY <1>5, <3>1, <4>1 DEF PictureInv, PictureInOrder
    <3>2. CASE shown' = Nothing
      BY <3>2 DEF PictureInOrder
    <3>. QED  BY <1>5, <3>1, <3>2
  <2>. QED  BY <2>2, <2>3, <2>4, <2>5 DEF PictureInv
<1>6. CASE steady' = 0 /\ PictureShape'
  BY <1>6 DEF PictureInv, EnabledInv, BorderInv, RowsInv, Drawing, PictureInOrder
<1>7. CASE Others \/ LineEnds
  BY <1>5, <1>7 DEF Others, LineEnds, vicChip, video, regs, ctrl1, frames, prefs
<1>8. CASE Access
  <2>1. UNCHANGED <<raster_y, bad_lines_enabled, display_state, border_on, rc, vc_base, matrix_line,
                    frame_skipped, BordersOn, shown, turn>>
    BY <1>8 DEF Access, video, prefs
  <2>2. CASE UNCHANGED <<y_scroll, den, rows25, steady>>
    BY <1>5, <2>1, <2>2
  <2>3. CASE steady' = 0 /\ UNCHANGED <<y_scroll, den, rows25>>
    BY <1>1, <1>6, <2>1, <2>3 DEF PictureShape
  <2>4. ASSUME NEW c \in Controls, WriteControl(c) PROVE PictureInv'
    <3>1. c.y_scroll \in 0 .. RowLines - 1 /\ c.den \in BOOLEAN /\ c.rows25 \in BOOLEAN
      BY VicAssumption
    <3>2. y_scroll' = c.y_scroll /\ den' = c.den /\ rows25' = c.rows25 /\ steady' = 0
      BY <2>4 DEF WriteControl
    <3>. QED  BY <1>1, <1>6, <2>1, <3>1, <3>2 DEF PictureShape
  <2>. QED  BY <1>8, <2>2, <2>3, <2>4
            DEF Access, WriteRaster, WriteSprite, WriteMask, ReadCollisions, TriggerLightpen, regs, ctrl1
<1>9. ASSUME NEW borders \in BOOLEAN, NEW skip, NewPrefs(borders, skip) PROVE PictureInv'
  <2>1. UNCHANGED <<y_scroll, den, rows25, bad_lines_enabled, border_on, frame_skipped>>
        /\ BordersOn' = borders /\ steady' = 0
    BY <1>9 DEF NewPrefs, regs, ctrl1, video, frames
  <2>. QED  BY <1>1, <1>6, <2>1 DEF PictureShape
<1>10. ASSUME NEW s \in Saved, LoadVic(s) PROVE PictureInv'
  <2>1. /\ y_scroll' = s.y_scroll /\ den' = s.den /\ rows25' = s.rows25
        /\ bad_lines_enabled' = s.bad_lines_enabled /\ border_on' = s.border_on
        /\ frame_skipped' = s.frame_skipped /\ BordersOn' = BordersOn /\ steady' = 0
    BY <1>10 DEF LoadVic, prefs
  <2>2. PictureShape'
    BY <1>1, <2>1, SavedVicAssumption DEF PictureShape
  <2>. QED  BY <1>6, <2>1, <2>2
<1>11. CASE UNCHANGED vicVars
  BY <1>5, <1>11 DEF vicVars, vicChip, video, regs, ctrl1, frames, prefs
<1>. QED  BY <1>2, <1>3, <1>4, <1>7, <1>8, <1>9, <1>10, <1>11 DEF VicNext

\* For every geometry of the screen, and whatever was done to the registers, and whatever
\* was skipped, before: registers that are left alone show the picture that they say.
THEOREM PictureStaysInOrder == VicSpec => []PictureInOrder
<1>1. VicInit => RowInv /\ SpriteInv /\ PictureInv
  <2>. SUFFICES ASSUME VicInit PROVE PictureInv
    BY RowStart, SpriteStart
  <2>1. 0 \in 0 .. RowLines - 1
    BY VicAssumption
  <2>2. PictureShape /\ steady = 0 /\ shown = Nothing
    BY <2>1 DEF VicInit, PictureShape
  <2>. QED  BY <2>2 DEF PictureInv, EnabledInv, BorderInv, RowsInv, Drawing, PictureInOrder
<1>2. PictureInv => PictureInOrder
  BY DEF PictureInv
<1>. QED  BY <1>1, <1>2, RowStep, SpriteStep, PictureStep, PTL DEF VicSpec
=============================================================================
