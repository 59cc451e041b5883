---------------------------- MODULE DecoderProofs ----------------------------
(***************************************************************************)
(* Theorems about process_frame: every frame is a step of both sides of    *)
(* the decoder, and the state the sides carry from frame to frame belongs  *)
(* to the frames it should belong to, whatever frames were read.           *)
(***************************************************************************)
EXTENDS Decoder, SequenceTheorems, FiniteSetTheorems, TLAPS

-----------------------------------------------------------------------------
(* Each frame is one step of each side. *)

\* What process_frame does to the two sides.
SuperFrameStep(f) ==
    \/ SF!TopFrame(f.slot) /\ Top(f)
    \/ SF!MidFrame(f.slot) /\ Decodes(f) /\ ~Top(f)
    \/ SF!MidFrameUncounted /\ Decodes(f) /\ ~Top(f)
    \/ SF!RichError /\ IsPsc(f) /\ ~Decodes(f)
    \/ SF!ResetIdle /\ ~IsPsc(f)

PairingStep(f) ==
    \/ PP!PscFrame(f.rich, f.tch) /\ Decodes(f)
    \/ PP!PscRichError /\ IsPsc(f) /\ ~Decodes(f)
    \/ PP!PscReset /\ ~IsPsc(f)
    \/ PP!PscSs1 /\ ~IsPsc(f)

\* Whatever branch a frame takes, it is one step of the super-frame side and one of the
\* traffic side.
LEMMA OneStepEach ==
    ASSUME NEW f \in Inputs, ProcessFrame(f)
    PROVE  /\ f \in Frames
           /\ SuperFrameStep(f) /\ PairingStep(f)
           /\ read' = Append(read, f)
<1>1. f \in Frames
  BY DecoderAssumption
<1>2. CASE NoSignal(f)
  <2>1. ~IsPsc(f) /\ SF!ResetIdle /\ PP!PscReset
    BY <1>2 DEF NoSignal, IsPsc
  <2> QED BY <1>1, <2>1 DEF ProcessFrame, SuperFrameStep, PairingStep
<1>3. CASE PscBranch(f)
  <2>1. /\ Decodes(f) /\ PP!PscFrame(f.rich, f.tch)
        /\ \/ Top(f) /\ SF!TopFrame(f.slot)
           \/ ~Top(f) /\ (SF!MidFrame(f.slot) \/ SF!MidFrameUncounted)
    BY <1>3 DEF PscBranch, IsPsc, Decodes, Top
  <2> QED BY <1>1, <2>1 DEF ProcessFrame, SuperFrameStep, PairingStep
<1>4. CASE PscBranchError(f)
  <2>1. IsPsc(f) /\ ~Decodes(f) /\ SF!RichError /\ PP!PscRichError
    BY <1>4 DEF PscBranchError, IsPsc, Decodes
  <2> QED BY <1>1, <2>1 DEF ProcessFrame, SuperFrameStep, PairingStep
<1>5. CASE Ss1Branch(f)
  <2>1. ~IsPsc(f) /\ SF!ResetIdle /\ PP!PscSs1
    BY <1>5 DEF Ss1Branch, IsPsc
  <2> QED BY <1>1, <2>1 DEF ProcessFrame, SuperFrameStep, PairingStep
<1>6. CASE UnknownSync(f)
  <2>1. ~IsPsc(f) /\ SF!ResetIdle /\ PP!PscReset
    BY <1>6 DEF UnknownSync, IsPsc
  <2> QED BY <1>1, <2>1 DEF ProcessFrame, SuperFrameStep, PairingStep
<1> QED BY <1>1, <1>2, <1>3, <1>4, <1>5, <1>6 DEF ProcessFrame

\* A step is a frame, or changes nothing.
LEMMA FrameOrNothing ==
    ASSUME [Next]_vars
    PROVE  UNCHANGED vars \/ \E f \in Inputs : ProcessFrame(f)
  BY DEF Next, Ended

LEMMA StepsOfSides ==
    [Next]_vars => [SF!SFNext]_(SF!sfvars) /\ [PP!PPNext]_(PP!ppvars)
<1> SUFFICES ASSUME [Next]_vars
             PROVE  [SF!SFNext]_(SF!sfvars) /\ [PP!PPNext]_(PP!ppvars)
  OBVIOUS
<1>1. CASE UNCHANGED vars
  BY <1>1 DEF vars, SF!sfvars, PP!ppvars
<1>2. ASSUME NEW f \in Inputs, ProcessFrame(f)
      PROVE  SF!SFNext /\ PP!PPNext
  <2>1. f \in Frames /\ SuperFrameStep(f) /\ PairingStep(f)
    BY <1>2, OneStepEach
  <2>2. f.slot \in SF!Slots /\ f.tch \in PP!Tchs /\ f.rich \in PP!MFields \cup {"error"}
    BY <2>1 DEF Frames
  <2>3. SF!SFNext
    BY <2>1, <2>2 DEF SuperFrameStep, SF!SFNext
  <2>4. Decodes(f) => f.rich \in PP!MFields
    BY <2>2 DEF Decodes
  <2>5. PP!PPNext
    BY <2>1, <2>2, <2>4 DEF PairingStep, PP!PPNext
  <2> QED BY <2>3, <2>5
<1> QED BY <1>1, <1>2, FrameOrNothing

\* The decoder implements both of its sides, for cells of 6 and 12 bytes: what is proved
\* of SuperFrame and of PscPairing holds of it.
THEOREM DecoderRunsBothSides == Spec => SF!SFSpec /\ PP!PPSpec
<1>1. Init => SF!SFInit /\ PP!PPInit
  BY DEF Init
<1> QED BY <1>1, StepsOfSides, PTL DEF Spec, SF!SFSpec, PP!PPSpec

-----------------------------------------------------------------------------
(* The frames read. *)

ReadOK == read \in Seq(Inputs)

\* The frame just read is the last, and the one before it the last until now.
LEMMA ReadAppend ==
    ASSUME ReadOK, NEW f \in Inputs, read' = Append(read, f)
    PROVE  /\ ReadOK'
           /\ Now \in Nat /\ Now' = Now + 1 /\ read'[Now + 1] = f
           /\ \A k \in 1 .. Now : read'[k] = read[k]
           /\ read'[Now'] = f
           /\ Now > 0 => read'[Now' - 1] = read[Now]
<1>1. /\ read' \in Seq(Inputs) /\ Len(read') = Len(read) + 1 /\ Len(read) \in Nat
      /\ read'[Len(read) + 1] = f
      /\ \A k \in 1 .. Len(read) : read'[k] = read[k]
  BY AppendProperties DEF ReadOK
<1>2. Now' = Now + 1 /\ Now' - 1 = Now /\ Now \in Nat
  BY <1>1 DEF Now
<1>3. ASSUME Now > 0 PROVE read'[Now' - 1] = read[Now]
  <2>1. Now \in 1 .. Len(read) /\ Now' - 1 = Now
    BY <1>2, <1>3 DEF Now
  <2> QED BY <1>1, <2>1
<1> QED BY <1>1, <1>2, <1>3 DEF ReadOK, Now

-----------------------------------------------------------------------------
(* The traffic side pairs neighbours. *)

\* What the decoder remembers of the frame before is what that frame said.
LastHalf ==
    psc_m # "IDLE" =>
        /\ Now > 0 /\ Decodes(read[Now])
        /\ psc_m = read[Now].rich
        /\ psc_tch = read[Now].tch

PairInv == ReadOK /\ LastHalf /\ PairsAreNeighbours

LEMMA PairInit == Init => PairInv
<1>1. Init => PP!PPInit /\ read = <<>>
  BY DEF Init
<1>2. PP!PPInit => psc_m = "IDLE" /\ tch_record.unit = <<>> /\ tch_record.voice = <<>>
  BY DEF PP!PPInit, PP!NoTchRecord
<1>3. <<>> \in Seq(Inputs)
  OBVIOUS
<1> QED BY <1>1, <1>2, <1>3 DEF PairInv, ReadOK, LastHalf, PairsAreNeighbours

\* A frame that is decoded with the one before it.
LEMMA PairFrame ==
    ASSUME PairInv, NEW f \in Inputs, read' = Append(read, f),
           Decodes(f), PP!PscFrame(f.rich, f.tch)
    PROVE  PairInv'
<1> DEFINE l2 == IF psc_m \in PP!Layer2 THEN PP!ProcLayer2(l2block, psc_tch, f.tch, psc_m)
                                        ELSE PP!Undisturbed(l2block)
           m_eff == PP!Effective(f.rich)
           paired == m_eff = "VOICE" /\ psc_m = "VOICE"
           begins == m_eff \in PP!Layer2 \cup {"VOICE"}
<1>0. /\ ReadOK' /\ Now \in Nat /\ Now' = Now + 1
      /\ read'[Now'] = f
      /\ Now > 0 => read'[Now' - 1] = read[Now]
  BY ReadAppend DEF PairInv
<1>1. /\ tch_record'.unit = l2.unit
      /\ ~paired => tch_record'.voice = <<>>
      /\ psc_m' = IF begins THEN m_eff ELSE "IDLE"
      /\ psc_tch' = IF begins THEN f.tch ELSE psc_tch
  BY DEF PP!PscFrame
<1>2. m_eff = f.rich \/ m_eff = "IDLE"
  BY DEF PP!Effective
<1>3. LastHalf'
  BY <1>0, <1>1, <1>2 DEF LastHalf, PP!Layer2, Now, Decodes, IsPsc
<1>4. PairsAreNeighbours'
  <2>1. ASSUME tch_record'.unit # <<>>
        PROVE  /\ psc_m \in PP!Layer2
               /\ tch_record'.unit # <<Failed>> => tch_record'.unit = <<psc_tch.begins>>
    <3>1. psc_m \in PP!Layer2
      BY <1>1, <2>1 DEF PP!Undisturbed
    <3>2. l2.unit \in {<<>>, <<Failed>>, <<psc_tch.begins>>}
      BY <3>1 DEF PP!ProcLayer2, PP!Layer2Failed, PP!Layer2Single, PP!Layer2Fragment
    <3> QED BY <1>1, <2>1, <3>1, <3>2
  <2>2. ASSUME tch_record'.voice # <<>>
        PROVE  f.rich = "VOICE" /\ psc_m = "VOICE"
    BY <1>1, <1>2, <2>2
  <2>3. psc_m \in PP!Layer2 \cup {"VOICE"} =>
          /\ Now' > 1 /\ Decodes(read[Now]) /\ read'[Now' - 1] = read[Now]
          /\ psc_m = read[Now].rich /\ psc_tch = read[Now].tch
    <3> SUFFICES ASSUME psc_m # "IDLE"
                 PROVE  /\ Now' > 1 /\ Decodes(read[Now]) /\ read'[Now' - 1] = read[Now]
                        /\ psc_m = read[Now].rich /\ psc_tch = read[Now].tch
      BY DEF PP!Layer2
    <3>1. Now > 0 /\ Decodes(read[Now]) /\ psc_m = read[Now].rich /\ psc_tch = read[Now].tch
      BY DEF PairInv, LastHalf
    <3>2. Now' > 1
      BY <1>0, <3>1
    <3> QED BY <1>0, <3>1, <3>2
  <2>4. psc_m = "VOICE" => psc_m \notin PP!Layer2
    BY DEF PP!Layer2
  <2>5. Decodes(read'[Now'])
    BY <1>0
  <2>6. ASSUME tch_record'.unit # <<>>
        PROVE  /\ Now' > 1 /\ Decodes(read'[Now']) /\ Decodes(read'[Now' - 1])
               /\ read'[Now' - 1].rich \in PP!Layer2
               /\ tch_record'.unit # <<Failed>> =>
                     <<read'[Now' - 1].tch.begins>> = tch_record'.unit
    <3> USE <2>6
    <3>1. Decodes(read'[Now' - 1]) /\ read'[Now' - 1].rich = psc_m /\ read'[Now' - 1].tch = psc_tch
      BY <2>1, <2>3
    <3> QED BY <2>1, <2>3, <2>5, <3>1
  <2>7. ASSUME tch_record'.voice # <<>>
        PROVE  /\ Now' > 1 /\ Decodes(read'[Now']) /\ Decodes(read'[Now' - 1])
               /\ read'[Now'].rich = "VOICE" /\ read'[Now' - 1].rich = "VOICE"
    BY <1>0, <2>2, <2>3, <2>5, <2>7
  <2> QED BY <2>6, <2>7 DEF PairsAreNeighbours, Decodes, IsPsc, Now
<1> QED BY <1>0, <1>3, <1>4 DEF PairInv

LEMMA PairStep == PairInv /\ [Next]_vars => PairInv'
<1> SUFFICES ASSUME PairInv, [Next]_vars PROVE PairInv'
  OBVIOUS
<1>1. CASE UNCHANGED vars
  BY <1>1 DEF vars, PairInv, ReadOK, LastHalf, PairsAreNeighbours, Now
<1>2. ASSUME NEW f \in Inputs, ProcessFrame(f) PROVE PairInv'
  <2>1. PairingStep(f) /\ read' = Append(read, f) /\ ReadOK'
    BY <1>2, OneStepEach, ReadAppend DEF PairInv
  <2>2. CASE PP!PscFrame(f.rich, f.tch) /\ Decodes(f)
    BY <2>1, <2>2, PairFrame
  <2>3. CASE psc_m' = "IDLE" /\ tch_record' = PP!NoTchRecord
    BY <2>1, <2>3 DEF PairInv, LastHalf, PairsAreNeighbours, PP!NoTchRecord
  <2> QED BY <2>1, <2>2, <2>3 DEF PairingStep, PP!PscRichError, PP!PscReset, PP!PscSs1
<1> QED BY <1>1, <1>2, FrameOrNothing

\* A Layer-2 unit or a voice frame is only ever put together from two frames in a row that
\* both decode and both say so, whatever came before them: no reset, lost header or frame
\* of another kind lies between.
THEOREM PairsNeighbours == Spec => []PairsAreNeighbours
<1>1. PairInv => PairsAreNeighbours
  BY DEF PairInv
<1> QED BY <1>1, PairInit, PairStep, PTL DEF Spec

-----------------------------------------------------------------------------
(* The count belongs to one super-frame. *)

\* What the super-frame side needs of its own state: the count is a place in the buffer.
CountOK == sacch_count \in SF!Positions /\ sacch_buf \in [SF!Positions -> SF!Slots]

CountInv == ReadOK /\ CountOK /\ CountsSinceTop

\* Storing a slot at the count c, with the count it leaves.
LEMMA GatherCounts ==
    ASSUME NEW c \in SF!Positions, NEW slot \in SF!Slots, CountOK, SF!Gather(c, slot)
    PROVE  /\ c \in Nat
           /\ sacch_count' = IF c + 1 = Sacch1End THEN 0 ELSE c + 1
           /\ sacch_buf' = [sacch_buf EXCEPT ![c] = slot]
           /\ CountOK'
<1>1. c \in Nat /\ c < Sacch1End /\ Sacch1End \in Nat
  BY DecoderAssumption DEF SF!Positions
<1>2. /\ sacch_buf' = [sacch_buf EXCEPT ![c] = slot]
      /\ sacch_count' = IF c + 1 = Sacch1End THEN 0 ELSE c + 1
  BY DEF SF!Gather, SF!Finalize
<1>3. sacch_count' \in SF!Positions
  BY <1>1, <1>2 DEF SF!Positions
<1> QED BY <1>1, <1>2, <1>3 DEF CountOK

\* The frames with a slot, before and after another frame.
LEMMA SinceGrows ==
    ASSUME ReadOK, NEW f \in Inputs, read' = Append(read, f), NEW n \in 1 .. (Now + 1)
    PROVE  /\ Since(n)' = Since(n) \cup (IF Decodes(f) THEN {Now + 1} ELSE {})
           /\ \A k \in Since(n) : k \in 1 .. Now
           /\ IsFiniteSet(Since(n)) /\ Cardinality(Since(n)) \in Nat
           /\ \A k \in 1 .. Now : Since(n)' \cap 1 .. k = Since(n) \cap 1 .. k
<1>1. /\ Now \in Nat /\ Now' = Now + 1 /\ read'[Now + 1] = f
      /\ \A k \in 1 .. Now : read'[k] = read[k]
  BY ReadAppend
<1>2. Since(n)' = {k \in n .. (Now + 1) : Decodes(read'[k])}
  BY <1>1 DEF Since, Decodes, IsPsc
<1>3. \A k : k \in n .. (Now + 1) <=> (k \in n .. Now \/ k = Now + 1)
  BY <1>1
<1>4. \A k \in n .. Now : k \in 1 .. Now /\ k # Now + 1 /\ read'[k] = read[k]
  <2>1. ASSUME NEW k \in n .. Now PROVE k \in 1 .. Now /\ k # Now + 1
    BY <1>1
  <2> QED BY <1>1, <2>1
<1>5. Since(n)' = Since(n) \cup (IF Decodes(f) THEN {Now + 1} ELSE {})
  BY <1>1, <1>2, <1>3, <1>4 DEF Since
<1>6. \A k \in Since(n) : k \in 1 .. Now
  BY <1>4 DEF Since
<1>7. IsFiniteSet(1 .. Now)
  BY <1>1, FS_Interval
<1>8. IsFiniteSet(Since(n)) /\ Cardinality(Since(n)) \in Nat
  BY <1>6, <1>7, FS_Subset, FS_CardinalityType
<1>9. ASSUME NEW k \in 1 .. Now
      PROVE  Since(n)' \cap 1 .. k = Since(n) \cap 1 .. k
  <2>1. Now + 1 \notin 1 .. k
    BY <1>1
  <2> QED BY <1>5, <2>1
<1> QED BY <1>5, <1>6, <1>8, <1>9

\* An S2 frame is the first of its super-frame.
LEMMA TopCounts ==
    ASSUME CountInv, NEW f \in Inputs, read' = Append(read, f), Top(f),
           SF!TopFrame(f.slot)
    PROVE  CountInv'
<1>1. /\ ReadOK' /\ Now \in Nat /\ Now' = Now + 1 /\ read'[Now + 1] = f
  BY ReadAppend DEF CountInv
<1>2. f.slot \in SF!Slots /\ 0 \in SF!Positions /\ Sacch1End # 1
  BY DecoderAssumption DEF Frames, SF!Positions
<1>3. /\ sacch_count' = 1 /\ sacch_buf' = [sacch_buf EXCEPT ![0] = f.slot]
      /\ CountOK'
  BY <1>2, GatherCounts DEF SF!TopFrame, CountInv
<1>4. PICK top \in 1 .. (Now + 1) : top = Now + 1
  BY <1>1
<1>5. Since(top)' = {top}
  <2>1. Since(top) = {}
    BY <1>1, <1>4 DEF Since
  <2> QED BY <1>4, <2>1, SinceGrows DEF CountInv, Top
<1>6. Cardinality(Since(top)') = 1
  BY <1>5, FS_Singleton
<1>7. ASSUME NEW k \in Since(top)'
      PROVE  sacch_buf'[Cardinality(Since(top)' \cap 1 .. k) - 1] = read'[k].slot
  <2>1. k = top /\ Since(top)' \cap 1 .. k = {top}
    BY <1>1, <1>4, <1>5, <1>7
  <2>2. Cardinality(Since(top)' \cap 1 .. k) - 1 = 0
    <3> DEFINE seen == Since(top)' \cap 1 .. k
    <3>1. Cardinality(seen) = 1
      BY <2>1, FS_Singleton
    <3> HIDE DEF seen
    <3>2. Cardinality(seen) - 1 = 0
      BY <3>1
    <3> QED BY <3>2 DEF seen
  <2>3. sacch_buf'[0] = f.slot
    BY <1>2, <1>3 DEF CountInv, CountOK
  <2>4. read'[k] = f
    BY <1>1, <1>4, <2>1
  <2> QED BY <2>2, <2>3, <2>4
<1>8. CountsSinceTop'
  <2>1. top \in 1 .. Now' /\ Top(read'[top])
    BY <1>1, <1>4
  <2>2. \A k \in (top + 1) .. Now' : IsPsc(read'[k]) /\ ~Top(read'[k])
    BY <1>1, <1>4
  <2> QED BY <1>3, <1>6, <1>7, <2>1, <2>2 DEF CountsSinceTop, Top, Decodes, IsPsc
<1> QED BY <1>1, <1>3, <1>8 DEF CountInv

\* A frame with a sync word that begins no super-frame leaves the count to the one that is
\* counted, as long as the count and the buffer take the frame's slot, if it has one.
LEMMA SuperFrameGoesOn ==
    ASSUME CountInv, NEW f \in Inputs, read' = Append(read, f), IsPsc(f), ~Top(f),
           CountOK', sacch_count # 0,
           \/ /\ Decodes(f)
              /\ sacch_count' \in {0, sacch_count + 1}
              /\ sacch_buf' = [sacch_buf EXCEPT ![sacch_count] = f.slot]
           \/ /\ ~Decodes(f)
              /\ UNCHANGED <<sacch_count, sacch_buf>>
    PROVE  CountInv'
<1>1. /\ ReadOK /\ ReadOK' /\ Now \in Nat /\ Now' = Now + 1 /\ read'[Now + 1] = f
      /\ \A k \in 1 .. Now : read'[k] = read[k]
  BY ReadAppend DEF CountInv
<1>2. /\ sacch_count \in Nat \ {0} /\ sacch_count \in SF!Positions
      /\ sacch_buf \in [SF!Positions -> SF!Slots]
  BY DecoderAssumption DEF CountInv, CountOK, SF!Positions
<1>3. PICK top \in 1 .. Now :
        /\ Top(read[top])
        /\ \A k \in (top + 1) .. Now : IsPsc(read[k]) /\ ~Top(read[k])
        /\ sacch_count = Cardinality(Since(top))
        /\ \A k \in Since(top) : sacch_buf[Cardinality(Since(top) \cap 1 .. k) - 1] = read[k].slot
  <2>1. sacch_count > 0
    BY <1>2
  <2> QED BY <2>1 DEF CountInv, CountsSinceTop
<1> DEFINE old == Since(top)
           new == Since(top)'
<1>4. /\ new = old \cup (IF Decodes(f) THEN {Now + 1} ELSE {})
      /\ \A k \in old : k \in 1 .. Now
      /\ IsFiniteSet(old) /\ Cardinality(old) \in Nat
      /\ \A k \in 1 .. Now : new \cap 1 .. k = old \cap 1 .. k
  <2>1. top \in 1 .. (Now + 1)
    BY <1>1
  <2> QED BY <1>1, <2>1, SinceGrows
<1> HIDE DEF old, new
<1>5. SUFFICES ASSUME sacch_count' > 0 PROVE CountsSinceTop'
  <2>1. CountsSinceTop' => CountInv'
    BY <1>1 DEF CountInv
  <2>2. ~(sacch_count' > 0) => CountsSinceTop'
    BY DEF CountsSinceTop
  <2> QED BY <2>1, <2>2
<1>6. sacch_count' = Cardinality(new)
  <2>1. CASE Decodes(f)
    <3>1. Now + 1 \notin old /\ sacch_count' = sacch_count + 1
      BY <1>1, <1>4, <1>5, <2>1
    <3> QED BY <1>3, <1>4, <2>1, <3>1, FS_AddElement DEF old
  <2>2. CASE ~Decodes(f)
    BY <1>3, <1>4, <2>2 DEF old
  <2> QED BY <2>1, <2>2
<1>7. ASSUME NEW k \in new
      PROVE  sacch_buf'[Cardinality(new \cap 1 .. k) - 1] = read'[k].slot
  <2>1. CASE k \in old
    <3>1. k \in 1 .. Now /\ new \cap 1 .. k = old \cap 1 .. k /\ read'[k] = read[k]
      BY <1>1, <1>4, <2>1
    <3>2. /\ IsFiniteSet(old \cap 1 .. k)
          /\ Cardinality(old \cap 1 .. k) \in Nat
          /\ Cardinality(old \cap 1 .. k) <= Cardinality(old)
      BY <1>4, FS_Intersection, FS_CardinalityType
    <3>3. Cardinality(old \cap 1 .. k) # 0
      <4>1. k \in old \cap 1 .. k
        BY <2>1, <3>1
      <4> QED BY <3>2, <4>1, FS_EmptySet
    <3> DEFINE i == Cardinality(old \cap 1 .. k) - 1
    <3>4. i \in SF!Positions /\ i # sacch_count
      <4>1. Cardinality(old) = sacch_count
        BY <1>3 DEF old
      <4> QED BY <1>2, <3>2, <3>3, <4>1, DecoderAssumption DEF SF!Positions
    <3>5. sacch_buf'[i] = sacch_buf[i]
      <4> HIDE DEF i
      <4> QED BY <1>2, <3>4
    <3>6. sacch_buf[i] = read[k].slot
      BY <1>3, <2>1 DEF old
    <3> QED BY <3>1, <3>5, <3>6
  <2>2. CASE k \notin old
    <3>1. k = Now + 1 /\ Decodes(f)
      BY <1>4, <1>7, <2>2
    <3>2. new \cap 1 .. k = new
      <4>1. \A j \in new : j \in 1 .. k
        BY <1>1, <1>4, <3>1
      <4> QED BY <4>1
    <3>3. Cardinality(new) - 1 = sacch_count
      BY <1>2, <1>5, <1>6, <3>1
    <3>4. sacch_buf'[sacch_count] = f.slot
      BY <1>2, <3>1
    <3> QED BY <1>1, <3>1, <3>2, <3>3, <3>4
  <2> QED BY <2>1, <2>2
<1>8. top \in 1 .. Now' /\ Top(read'[top])
  <2>1. top \in 1 .. Now'
    BY <1>1
  <2>2. read'[top] = read[top]
    BY <1>1
  <2> QED BY <1>3, <2>1, <2>2
<1>9. \A k \in (top + 1) .. Now' : IsPsc(read'[k]) /\ ~Top(read'[k])
  <2> SUFFICES ASSUME NEW k \in (top + 1) .. Now' PROVE IsPsc(read'[k]) /\ ~Top(read'[k])
    OBVIOUS
  <2>1. CASE k = Now + 1
    BY <1>1, <2>1
  <2>2. CASE k # Now + 1
    <3>1. k \in (top + 1) .. Now /\ k \in 1 .. Now
      BY <1>1, <2>2
    <3> QED BY <1>1, <1>3, <3>1
  <2> QED BY <2>1, <2>2
<1> QED BY <1>6, <1>7, <1>8, <1>9 DEF CountsSinceTop, Top, Decodes, IsPsc, new, old

LEMMA CountInit == Init => CountInv
<1>1. Init => SF!SFInit /\ read = <<>>
  BY DEF Init
<1>2. /\ SF!SFInit => sacch_count = 0 /\ sacch_buf = [i \in SF!Positions |-> Garbled]
      /\ Garbled \in SF!Slots /\ 0 \in SF!Positions
  BY DecoderAssumption DEF SF!SFInit, SF!Slots, SF!Positions
<1>3. <<>> \in Seq(Inputs)
  OBVIOUS
<1> QED BY <1>1, <1>2, <1>3 DEF CountInv, ReadOK, CountOK, CountsSinceTop

LEMMA CountStep == CountInv /\ [Next]_vars => CountInv'
<1> SUFFICES ASSUME CountInv, [Next]_vars PROVE CountInv'
  OBVIOUS
<1>1. CASE UNCHANGED vars
  <2>1. UNCHANGED <<sacch_count, sacch_buf, read>>
    BY <1>1 DEF vars
  <2>2. CountsSinceTop' = CountsSinceTop
    <3>1. Now' = Now
      BY <2>1 DEF Now
    <3>2. \A n : Since(n)' = Since(n)
      BY <2>1, <3>1 DEF Since, Decodes, IsPsc
    <3> QED BY <2>1, <3>1, <3>2 DEF CountsSinceTop, Top, Decodes, IsPsc
  <2> QED BY <2>1, <2>2 DEF CountInv, ReadOK, CountOK
<1>2. ASSUME NEW f \in Inputs, ProcessFrame(f) PROVE CountInv'
  <2>1. SuperFrameStep(f) /\ read' = Append(read, f) /\ ReadOK' /\ f.slot \in SF!Slots
    BY <1>2, OneStepEach, ReadAppend DEF CountInv, Frames
  <2>2. 0 \in SF!Positions /\ sacch_count \in SF!Positions /\ Sacch1End # 0
    BY DecoderAssumption DEF CountInv, CountOK, SF!Positions
  <2>3. CASE SF!TopFrame(f.slot) /\ Top(f)
    BY <2>1, <2>3, TopCounts
  <2>4. CASE SF!MidFrame(f.slot) /\ Decodes(f) /\ ~Top(f)
    <3>1. sacch_count # 0 /\ SF!Gather(sacch_count, f.slot)
      BY <2>4 DEF SF!MidFrame
    <3>2. /\ CountOK' /\ sacch_count' \in {0, sacch_count + 1}
          /\ sacch_buf' = [sacch_buf EXCEPT ![sacch_count] = f.slot]
      BY <2>1, <2>2, <3>1, GatherCounts DEF CountInv
    <3> QED BY <2>1, <2>4, <3>1, <3>2, SuperFrameGoesOn DEF Decodes
  <2>5. CASE SF!RichError /\ IsPsc(f) /\ ~Decodes(f)
    <3>1. sacch_count # Sacch1End
      BY DecoderAssumption DEF CountInv, CountOK, SF!Positions
    <3>2. UNCHANGED <<sacch_count, sacch_buf>>
      BY <2>5, <3>1 DEF SF!RichError, SF!Finalize
    <3>3. CASE sacch_count # 0
      BY <2>1, <2>5, <3>2, <3>3, SuperFrameGoesOn DEF Top, CountInv, CountOK
    <3>4. CASE sacch_count = 0
      BY <2>1, <3>2, <3>4 DEF CountInv, CountOK, CountsSinceTop
    <3> QED BY <3>3, <3>4
  <2>6. CASE SF!MidFrameUncounted \/ SF!ResetIdle
    <3>1. sacch_count' = 0 /\ sacch_buf' = sacch_buf
      BY <2>2, <2>6 DEF SF!MidFrameUncounted, SF!Finalize, SF!ResetIdle
    <3> QED BY <2>1, <2>2, <3>1 DEF CountInv, CountOK, CountsSinceTop
  <2> QED BY <2>1, <2>3, <2>4, <2>5, <2>6 DEF SuperFrameStep
<1> QED BY <1>1, <1>2, FrameOrNothing

\* The count is the number of slots that arrived since the S2 frame which began the
\* super-frame, and each gathered slot is the one of its frame: lost headers in between
\* are left out, a reset ends the count and an S2 frame begins a new one.
THEOREM CountIsSinceTop == Spec => []CountsSinceTop
<1>1. CountInv => CountsSinceTop
  BY DEF CountInv
<1> QED BY <1>1, CountInit, CountStep, PTL DEF Spec

-----------------------------------------------------------------------------
(* The two messages under way. *)

\* A block of 6-byte cells and one of 12-byte cells: what begins, ends and goes on with a
\* message leaves a block.
LEMMA SacchBlocks ==
    /\ SF!NewBlock \in SF!Blocks
    /\ \A b \in SF!Blocks : SF!InitBlock(b) \in SF!Blocks
    /\ \A b \in SF!Blocks, u \in SF!Fragments :
          SF!AllocSacch(b, u.len + 1) \in SF!Blocks /\ SF!Assemble(b, u) \in SF!Blocks
<1>1. /\ MaxCells \in Nat \ {0} /\ SF!NoCells \in [1 .. MaxCells -> Pieces \cup {Zeroes}]
      /\ 0 \in 0 .. MaxCells /\ 0 \in 0 .. 6
  BY DecoderAssumption DEF SF!NoCells
<1>2. ASSUME NEW u \in SF!Fragments
      PROVE  u.len + 1 \in 0 .. MaxCells /\ u.piece \in Pieces /\ SF!BodyLen(u) \in 0 .. 6
  BY <1>1 DEF SF!Fragments, SF!BodyLen
<1>3. ASSUME NEW b \in SF!Blocks, NEW u \in SF!Fragments
      PROVE  SF!AllocSacch(b, u.len + 1) \in SF!Blocks /\ SF!Assemble(b, u) \in SF!Blocks
  BY <1>2 DEF SF!Blocks, SF!AllocSacch, SF!Assemble
<1> QED BY <1>1, <1>3 DEF SF!Blocks, SF!NewBlock, SF!InitBlock

LEMMA Layer2Blocks ==
    /\ PP!NewBlock \in PP!Blocks
    /\ \A b \in PP!Blocks : PP!InitBlock(b) \in PP!Blocks
    /\ \A b \in PP!Blocks, u \in PP!Fragments :
          PP!AllocL2(b, u.len + 1) \in PP!Blocks /\ PP!Assemble(b, u) \in PP!Blocks
<1>1. /\ MaxCells \in Nat \ {0} /\ PP!NoCells \in [1 .. MaxCells -> Pieces \cup {Zeroes}]
      /\ 0 \in 0 .. MaxCells /\ 0 \in 0 .. 12
  BY DecoderAssumption DEF PP!NoCells
<1>2. ASSUME NEW u \in PP!Fragments
      PROVE  u.len + 1 \in 0 .. MaxCells /\ u.piece \in Pieces /\ PP!BodyLen(u) \in 0 .. 12
  BY <1>1 DEF PP!Fragments, PP!BodyLen
<1>3. ASSUME NEW b \in PP!Blocks, NEW u \in PP!Fragments
      PROVE  PP!AllocL2(b, u.len + 1) \in PP!Blocks /\ PP!Assemble(b, u) \in PP!Blocks
  BY <1>1, <1>2 DEF PP!Blocks, PP!AllocL2, PP!Assemble
<1> QED BY <1>1, <1>3 DEF PP!Blocks, PP!NewBlock, PP!InitBlock

-----------------------------------------------------------------------------
(* Types, on the super-frame side. *)

LEMMA SacchTypes ==
    ASSUME NEW s, sacch_block \in SF!Blocks, sacch_panic \in BOOLEAN, SF!ProcSacch(s)
    PROVE  sacch_block' \in SF!Blocks /\ sacch_panic' \in BOOLEAN
<1>1. CASE SF!SacchIdle(s)
  BY <1>1 DEF SF!SacchIdle
<1>2. CASE SF!SacchFailed(s)
  BY <1>2, SacchBlocks DEF SF!SacchFailed
<1>3. ASSUME NEW u \in SF!Fragments, SF!SacchSingle(u)
      PROVE  sacch_block' \in SF!Blocks /\ sacch_panic' \in BOOLEAN
  BY <1>3, SacchBlocks DEF SF!SacchSingle
<1>4. ASSUME NEW u \in SF!Fragments, SF!SacchFragment(u)
      PROVE  sacch_block' \in SF!Blocks /\ sacch_panic' \in BOOLEAN
  <2> DEFINE b == IF u.first THEN SF!AllocSacch(sacch_block, u.len + 1) ELSE sacch_block
  <2>1. b \in SF!Blocks
    BY SacchBlocks
  <2>2. sacch_block' = SF!Assemble(b, u) /\ sacch_panic' = sacch_panic
    BY <1>4 DEF SF!SacchFragment
  <2> HIDE DEF b
  <2> QED BY <2>1, <2>2, SacchBlocks
<1>5. ASSUME NEW u \in SF!Fragments, SF!SacchMisplaced(u)
      PROVE  sacch_block' \in SF!Blocks /\ sacch_panic' \in BOOLEAN
  BY <1>5 DEF SF!SacchMisplaced
<1> QED BY <1>1, <1>2, <1>3, <1>4, <1>5 DEF SF!ProcSacch

LEMMA FinalizeTypes ==
    ASSUME NEW c \in 0 .. Sacch1End, NEW r, NEW s,
           sacch_block \in SF!Blocks, sacch_panic \in BOOLEAN, SF!Finalize(c, r, s)
    PROVE  /\ sacch_count' \in SF!Positions
           /\ sacch_block' \in SF!Blocks /\ sacch_panic' \in BOOLEAN
<1>1. sacch_count' \in SF!Positions
  BY DecoderAssumption DEF SF!Finalize, SF!Positions
<1>2. CASE SF!ProcSacch(s[0]) \/ SF!ProcSacch(s[1])
  BY <1>1, <1>2, SacchTypes
<1>3. CASE SF!RchDue(c, r) \/ SF!NothingDue(c)
  BY <1>1, <1>3 DEF SF!RchDue, SF!NothingDue
<1> QED BY <1>2, <1>3 DEF SF!Finalize

\* What is repacked is slots of the buffer.
LEMMA GatheredSlots ==
    ASSUME NEW buf \in [SF!Positions -> SF!Slots], NEW n \in Nat, NEW m \in Nat,
           n <= m, m <= Sacch1End
    PROVE  SF!Gathered(buf, n, m) \in [1 .. (m - n) -> SF!Slots]
<1>1. ASSUME NEW k \in 1 .. (m - n) PROVE n + k - 1 \in SF!Positions
  BY DecoderAssumption DEF SF!Positions
<1> QED BY <1>1 DEF SF!Gathered

LEMMA RepackedTypes ==
    ASSUME NEW buf \in [SF!Positions -> SF!Slots]
    PROVE  /\ SF!Gathered(buf, 0, RchEnd) \in [1 .. RchEnd -> SF!Slots]
           /\ SF!Gathered(buf, RchEnd, Sacch0End) \in [1 .. SF!UnitSlots -> SF!Slots]
           /\ SF!Gathered(buf, Sacch0End, Sacch1End) \in [1 .. SF!UnitSlots -> SF!Slots]
<1>1. /\ RchEnd \in Nat /\ Sacch0End \in Nat /\ Sacch1End \in Nat /\ 0 \in Nat
      /\ 0 <= RchEnd /\ RchEnd <= Sacch0End /\ Sacch0End <= Sacch1End /\ RchEnd <= Sacch1End
      /\ Sacch1End <= Sacch1End
      /\ RchEnd - 0 = RchEnd
      /\ Sacch0End - RchEnd = SF!UnitSlots /\ Sacch1End - Sacch0End = SF!UnitSlots
  BY DecoderAssumption DEF SF!UnitSlots
<1>2. SF!Gathered(buf, 0, RchEnd) \in [1 .. (RchEnd - 0) -> SF!Slots]
  BY <1>1, GatheredSlots
<1>3. SF!Gathered(buf, RchEnd, Sacch0End) \in [1 .. (Sacch0End - RchEnd) -> SF!Slots]
  BY <1>1, GatheredSlots
<1>4. SF!Gathered(buf, Sacch0End, Sacch1End) \in [1 .. (Sacch1End - Sacch0End) -> SF!Slots]
  BY <1>1, GatheredSlots
<1> QED BY <1>1, <1>2, <1>3, <1>4

LEMMA GatherTypes ==
    ASSUME SF!SFTypeOK, NEW c \in SF!Positions, NEW slot \in SF!Slots, SF!Gather(c, slot)
    PROVE  SF!SFTypeOK'
<1>1. /\ c + 1 \in 0 .. Sacch1End
      /\ sacch_buf' \in [SF!Positions -> SF!Slots]
      /\ SF!Finalize(c + 1, rch', sacch')
      /\ sacch_block \in SF!Blocks /\ sacch_panic \in BOOLEAN
  BY DecoderAssumption DEF SF!Gather, SF!Positions, SF!SFTypeOK
<1>2. rch' \in [1 .. RchEnd -> SF!Slots] /\ sacch' \in [0 .. 1 -> [1 .. SF!UnitSlots -> SF!Slots]]
  BY <1>1, RepackedTypes DEF SF!Gather, SF!SFTypeOK
<1>3. sacch_count' \in SF!Positions /\ sacch_block' \in SF!Blocks /\ sacch_panic' \in BOOLEAN
  BY <1>1, FinalizeTypes
<1> QED BY <1>1, <1>2, <1>3 DEF SF!SFTypeOK

LEMMA SuperFrameInitTypes == SF!SFInit => SF!SFTypeOK
<1> SUFFICES ASSUME SF!SFInit PROVE SF!SFTypeOK
  OBVIOUS
<1>1. sacch_buf \in [SF!Positions -> SF!Slots] /\ sacch_count \in SF!Positions
  BY DecoderAssumption DEF SF!SFInit, SF!Slots, SF!Positions
<1>2. rch \in [1 .. RchEnd -> SF!Slots] /\ sacch \in [0 .. 1 -> [1 .. SF!UnitSlots -> SF!Slots]]
  BY <1>1, RepackedTypes DEF SF!SFInit
<1> QED BY <1>1, <1>2, SacchBlocks DEF SF!SFInit, SF!SFTypeOK

LEMMA SuperFrameStepTypes == SF!SFTypeOK /\ [SF!SFNext]_(SF!sfvars) => SF!SFTypeOK'
<1> SUFFICES ASSUME SF!SFTypeOK, [SF!SFNext]_(SF!sfvars) PROVE SF!SFTypeOK'
  OBVIOUS
<1>1. /\ 0 \in SF!Positions /\ sacch_count \in SF!Positions
      /\ \A c \in SF!Positions : c \in 0 .. Sacch1End
      /\ sacch_block \in SF!Blocks /\ sacch_panic \in BOOLEAN
  BY DecoderAssumption DEF SF!SFTypeOK, SF!Positions
<1>2. ASSUME NEW slot \in SF!Slots, SF!TopFrame(slot) \/ SF!MidFrame(slot) PROVE SF!SFTypeOK'
  BY <1>1, <1>2, GatherTypes DEF SF!TopFrame, SF!MidFrame
<1>3. CASE SF!MidFrameUncounted \/ SF!RichError
  <2>1. PICK c \in SF!Positions : SF!Finalize(c, rch, sacch)
    BY <1>1, <1>3 DEF SF!MidFrameUncounted, SF!RichError
  <2>2. sacch_count' \in SF!Positions /\ sacch_block' \in SF!Blocks /\ sacch_panic' \in BOOLEAN
    BY <1>1, <2>1, FinalizeTypes
  <2> QED BY <1>3, <2>2 DEF SF!MidFrameUncounted, SF!RichError, SF!SFTypeOK
<1>4. CASE SF!ResetIdle
  BY <1>1, <1>4, SacchBlocks DEF SF!ResetIdle, SF!SFTypeOK
<1>5. CASE UNCHANGED SF!sfvars
  BY <1>5 DEF SF!sfvars, SF!SFTypeOK
<1> QED BY <1>2, <1>3, <1>4, <1>5 DEF SF!SFNext

-----------------------------------------------------------------------------
(* Types, on the traffic side, with what it may say of voice. *)

VoiceOK == tch_record.voice = <<>> \/ \E v : tch_record.voice = <<v>>

LEMMA Layer2Types ==
    ASSUME NEW b \in PP!Blocks, NEW prev \in PP!Tchs, NEW cur \in PP!Tchs, NEW ty
    PROVE  /\ PP!ProcLayer2(b, prev, cur, ty).block \in PP!Blocks
           /\ PP!ProcLayer2(b, prev, cur, ty).panic \in BOOLEAN
<1>1. CASE PP!Paired(prev, cur) = {}
  BY <1>1, Layer2Blocks DEF PP!ProcLayer2, PP!Layer2Failed
<1>2. CASE PP!Paired(prev, cur) # {}
  <2>1. PICK u \in PP!Fragments : prev.begins = u
    BY <1>2 DEF PP!Paired
  <2>2. CASE u.first /\ u.last
    BY <1>2, <2>1, <2>2 DEF PP!ProcLayer2, PP!Layer2Single
  <2>3. CASE ~(u.first /\ u.last)
    <3> DEFINE a == IF u.first THEN PP!AllocL2(b, u.len + 1) ELSE b
               c == PP!Assemble(a, u)
    <3>1. a \in PP!Blocks
      BY Layer2Blocks
    <3>2. c \in PP!Blocks
      BY <3>1, Layer2Blocks
    <3>3. PP!ProcLayer2(b, prev, cur, ty) = PP!Layer2Fragment(b, u, ty)
      BY <1>2, <2>1, <2>3 DEF PP!ProcLayer2
    <3> QED BY <3>2, <3>3 DEF PP!Layer2Fragment
  <2> QED BY <2>2, <2>3
<1> QED BY <1>1, <1>2

LEMMA PairingInitTypes == PP!PPInit => PP!PPTypeOK /\ VoiceOK
<1>1. PP!BlankTch \in PP!Tchs /\ PP!NewBlock \in PP!Blocks
  BY Layer2Blocks DEF PP!BlankTch, PP!Tchs, PP!Halves
<1>2. PP!NoTchRecord.voice = <<>>
  BY DEF PP!NoTchRecord
<1> QED BY <1>1, <1>2 DEF PP!PPInit, PP!PPTypeOK, VoiceOK

LEMMA PairingStepTypes ==
    ASSUME PP!PPTypeOK, VoiceOK, [PP!PPNext]_(PP!ppvars)
    PROVE  PP!PPTypeOK' /\ VoiceOK'
<1>1. /\ psc_tch \in PP!Tchs /\ l2block \in PP!Blocks /\ PP!BlankTch \in PP!Tchs
      /\ PP!InitBlock(l2block) \in PP!Blocks /\ PP!NoTchRecord.voice = <<>>
  BY Layer2Blocks DEF PP!PPTypeOK, PP!BlankTch, PP!Tchs, PP!Halves, PP!NoTchRecord
<1>2. ASSUME NEW m \in PP!MFields, NEW tch \in PP!Tchs, PP!PscFrame(m, tch)
      PROVE  PP!PPTypeOK' /\ VoiceOK'
  <2> DEFINE l2 == IF psc_m \in PP!Layer2 THEN PP!ProcLayer2(l2block, psc_tch, tch, psc_m)
                                          ELSE PP!Undisturbed(l2block)
             paired == PP!Effective(m) = "VOICE" /\ psc_m = "VOICE"
  <2>1. l2.block \in PP!Blocks /\ l2.panic \in BOOLEAN
    <3>1. CASE psc_m \in PP!Layer2
      BY <1>1, <3>1, Layer2Types
    <3>2. CASE psc_m \notin PP!Layer2
      BY <1>1, <3>2 DEF PP!Undisturbed
    <3> QED BY <3>1, <3>2
  <2>2. PICK v \in IF paired THEN PP!ProcVoice(psc_tch, tch) ELSE {<<>>} :
          tch_record' = [unit |-> l2.unit, message |-> l2.message, voice |-> v]
    BY <1>2 DEF PP!PscFrame
  <2>3. v = <<>> \/ \E w : v = <<w>>
    BY <2>2 DEF PP!ProcVoice
  <2>4. /\ l2_panic' = l2.panic
        /\ \/ psc_m' = "IDLE" /\ psc_tch' = psc_tch
           \/ psc_m' \in PP!Layer2 \cup {"VOICE"} /\ psc_tch' = tch
        /\ l2block' = l2.block \/ l2block' = PP!InitBlock(l2.block)
    BY <1>2 DEF PP!PscFrame
  <2>5. VoiceOK'
    <3>1. tch_record'.voice = v
      BY <2>2
    <3> QED BY <2>3, <3>1 DEF VoiceOK
  <2> HIDE DEF l2
  <2> QED BY <1>1, <2>1, <2>4, <2>5, Layer2Blocks DEF PP!PPTypeOK
<1>3. CASE PP!PscRichError
  BY <1>1, <1>3 DEF PP!PscRichError, PP!PPTypeOK, VoiceOK
<1>4. CASE PP!PscReset
  BY <1>1, <1>4 DEF PP!PscReset, PP!PPTypeOK, VoiceOK
<1>5. CASE PP!PscSs1
  BY <1>1, <1>5 DEF PP!PscSs1, PP!PPTypeOK, VoiceOK
<1>6. CASE UNCHANGED PP!ppvars
  BY <1>6 DEF PP!ppvars, PP!PPTypeOK, VoiceOK
<1> QED BY <1>2, <1>3, <1>4, <1>5, <1>6 DEF PP!PPNext

-----------------------------------------------------------------------------
(* The lines written: one for a frame, at most. *)

OutOK == (\E S : out \in Seq(S)) /\ Len(out) <= Len(read)

TypeInv == TypeOK /\ VoiceOK /\ OutOK

LEMMA TypeInit == Init => TypeInv
<1> SUFFICES ASSUME Init PROVE TypeInv
  OBVIOUS
<1>1. SF!SFTypeOK /\ PP!PPTypeOK /\ VoiceOK
  BY SuperFrameInitTypes, PairingInitTypes DEF Init
<1>2. read = <<>> /\ out = <<>> /\ mode \in Modes
  BY DEF Init
<1>3. <<>> \in Seq(Inputs) /\ Len(<<>>) = 0 /\ <<>> \in Seq({})
  OBVIOUS
<1> QED BY <1>1, <1>2, <1>3 DEF TypeInv, TypeOK, OutOK

\* A line more, or none.
LEMMA OneLine ==
    ASSUME NEW S, NEW s \in Seq(S), NEW t, t = <<>> \/ \E e : t = <<e>>
    PROVE  (\E T : s \o t \in Seq(T)) /\ Len(s \o t) <= Len(s) + 1
<1>1. Len(s) \in Nat
  BY LenProperties
<1>2. CASE t = <<>>
  <2>1. t \in Seq(S) /\ Len(t) = 0
    BY <1>2
  <2>2. s \o t \in Seq(S) /\ Len(s \o t) = Len(s) + Len(t)
    BY <2>1, ConcatProperties
  <2> QED BY <1>1, <2>1, <2>2
<1>3. ASSUME NEW e, t = <<e>> PROVE (\E T : s \o t \in Seq(T)) /\ Len(s \o t) <= Len(s) + 1
  <2> DEFINE T == S \cup {e}
  <2>1. s \in Seq(T)
    BY SeqDef
  <2>2. <<e>> \in Seq(T) /\ Len(<<e>>) = 1
    OBVIOUS
  <2> HIDE DEF T
  <2>3. s \o t \in Seq(T) /\ Len(s \o t) = Len(s) + 1
    BY <1>3, <2>1, <2>2, ConcatProperties
  <2> QED BY <1>1, <2>3
<1> QED BY <1>2, <1>3

LEMMA TypeStep == TypeInv /\ [Next]_vars => TypeInv'
<1> SUFFICES ASSUME TypeInv, [Next]_vars PROVE TypeInv'
  OBVIOUS
<1>1. SF!SFTypeOK' /\ PP!PPTypeOK' /\ VoiceOK'
  BY StepsOfSides, SuperFrameStepTypes, PairingStepTypes DEF TypeInv, TypeOK
<1>2. CASE UNCHANGED vars
  <2>1. UNCHANGED <<mode, read, out>>
    BY <1>2 DEF vars
  <2> QED BY <1>1, <2>1 DEF TypeInv, TypeOK, OutOK
<1>3. ASSUME NEW f \in Inputs, ProcessFrame(f) PROVE TypeInv'
  <2>1. /\ read \in Seq(Inputs) /\ read' = Append(read, f) /\ Write
        /\ Len(out) <= Len(read)
    BY <1>3 DEF ProcessFrame, TypeInv, TypeOK
  <2>2. read' \in Seq(Inputs) /\ Len(read') = Len(read) + 1 /\ Len(read) \in Nat
    BY <2>1, AppendProperties
  <2>3. PICK S : out \in Seq(S)
    BY DEF TypeInv, OutOK
  <2>4. Len(out) \in Nat
    BY <2>3, LenProperties
  <2>5. CASE out' = out
    <3>1. mode' \in Modes
      BY <2>1 DEF Write, TypeInv, TypeOK
    <3>2. OutOK' /\ Len(out') <= Len(read')
      BY <2>1, <2>2, <2>3, <2>4, <2>5 DEF OutOK
    <3> QED BY <1>1, <2>2, <3>1, <3>2 DEF TypeInv, TypeOK
  <2>6. CASE out' # out
    <3>1. PICK t : out' = out \o t /\ (t = Json(Len(read)) \/ t = CelpLine)
      BY <2>1, <2>6 DEF Write
    <3>2. t = <<>> \/ \E e : t = <<e>>
      <4>1. CASE t = Json(Len(read))
        BY <4>1 DEF Json
      <4>2. CASE t = CelpLine
        BY <1>1, <4>2 DEF CelpLine, VoiceOK
      <4> QED BY <3>1, <4>1, <4>2
    <3>3. (\E T : out' \in Seq(T)) /\ Len(out') <= Len(out) + 1
      BY <2>3, <3>1, <3>2, OneLine
    <3>4. PICK T : out' \in Seq(T)
      BY <3>3
    <3>5. Len(out') \in Nat /\ Len(out') <= Len(read')
      BY <2>1, <2>2, <2>4, <3>3, <3>4, LenProperties
    <3> QED BY <1>1, <2>1, <2>2, <3>4, <3>5 DEF TypeInv, TypeOK, OutOK, Write
  <2> QED BY <2>5, <2>6
<1> QED BY <1>2, <1>3, FrameOrNothing

\* Whatever frames are read, the two sides' buffers, counts and blocks stay in range together,
\* and no frame gives more than one line, in either output mode.
THEOREM DecoderTypeCorrect == Spec => []TypeOK
<1>1. TypeInv => TypeOK
  BY DEF TypeInv
<1> QED BY <1>1, TypeInit, TypeStep, PTL DEF Spec
=============================================================================
