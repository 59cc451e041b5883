---------------------------- MODULE PairingProofs ----------------------------
(***************************************************************************)
(* The traffic side's theorems.  First, whatever frames come in whatever   *)
(* order: the block stays inside its cells, and what is read out of it to  *)
(* be reported stays inside the buffer the cells are in.  Then, at the end *)
(* of a channel that loses and damages frames of any transmission: nothing *)
(* is reported that was not sent, nothing twice, and what is sent behind   *)
(* the damage is reported.                                                 *)
(***************************************************************************)
EXTENDS PairingAir, SequenceTheorems, TLAPS

-----------------------------------------------------------------------------
(* The block. *)

\* A block with no message under way, and one for the units a length field announces.
LEMMA BlocksMade ==
    /\ NewBlock \in Blocks
    /\ \A b \in Blocks : InitBlock(b) \in Blocks
    /\ \A b \in Blocks, u \in Fragments :
          AllocL2(b, u.len + 1) \in Blocks /\ AllocSacch(b, u.len + 1) \in Blocks
<1>1. /\ CellLen \in Nat \ {0} /\ MaxCells \in Nat \ {0}
      /\ NoCells \in [1 .. MaxCells -> Pieces \cup {Zeroes}]
      /\ 0 \in 0 .. MaxCells /\ 0 \in 0 .. CellLen
  BY BlockAssumption DEF NoCells
<1>2. \A u \in Fragments : u.len + 1 \in 0 .. MaxCells
  BY <1>1 DEF Fragments
<1> QED BY <1>1, <1>2 DEF NewBlock, InitBlock, AllocL2, AllocSacch, Blocks

\* A unit that is not misplaced goes into a cell of the message under way, and changes no
\* other: what assemble_l2block and assemble_sacch_block write.
THEOREM UnitGoesIntoItsCell ==
    ASSUME NEW b \in Blocks, NEW u \in Fragments, b.count # 0, ~Misplaced(b, u)
    PROVE  /\ b.count - FPos(u) \in 1 .. b.count
           /\ Assemble(b, u).cells[b.count - FPos(u)] = u.piece
           /\ \A i \in 1 .. MaxCells :
                i # b.count - FPos(u) => Assemble(b, u).cells[i] = b.cells[i]
<1>1. b.count \in 0 .. MaxCells /\ MaxCells \in Nat
  BY BlockAssumption DEF Blocks
<1>2. FPos(u) \in Nat /\ FPos(u) < b.count
  BY <1>1 DEF FPos, Fragments, Misplaced
<1>3. b.count - FPos(u) \in 1 .. b.count /\ b.count - FPos(u) \in 1 .. MaxCells
  BY <1>1, <1>2
<1> QED BY <1>3 DEF Assemble, Blocks

\* A unit put where it belongs leaves a block.
LEMMA AssembleType ==
    ASSUME NEW b \in Blocks, NEW u \in Fragments
    PROVE  Assemble(b, u) \in Blocks
<1>1. u.piece \in Pieces /\ BodyLen(u) \in 0 .. CellLen
  BY BlockAssumption DEF Fragments, BodyLen
<1> QED BY <1>1 DEF Assemble, Blocks

\* The total length never exceeds the cells there are: the slice of the buffer that is
\* read for a message is inside it.
LEMMA TotalLenFits ==
    ASSUME NEW b \in Blocks
    PROVE  TotalLen(b) \in 0 .. MaxCells * CellLen
<1>1. /\ CellLen \in Nat /\ MaxCells \in Nat /\ b.count \in 0 .. MaxCells
      /\ b.last_len \in 0 .. CellLen
  BY BlockAssumption DEF Blocks
<1>2. CASE b.count = 0
  <2>1. MaxCells * CellLen \in Nat
    BY <1>1
  <2> QED BY <1>2, <2>1 DEF TotalLen
<1>3. CASE b.count # 0
  <2>1. /\ b.count - 1 \in Nat /\ (b.count - 1) * CellLen \in Nat
        /\ (b.count - 1) * CellLen + CellLen = b.count * CellLen
    BY <1>1, <1>3
  <2>2. b.count * CellLen <= MaxCells * CellLen
    BY <1>1
  <2>3. MaxCells * CellLen \in Nat /\ b.count * CellLen \in Nat
    BY <1>1
  <2> QED BY <1>1, <1>3, <2>1, <2>2, <2>3 DEF TotalLen
<1> QED BY <1>2, <1>3

-----------------------------------------------------------------------------
(* Two frames' Layer-2 halves. *)

\* What is reported is in the buffer.
Fits(message) ==
    \A k \in DOMAIN message : message[k].len \in 0 .. MaxCells * CellLen

LEMMA ProcLayer2Type ==
    ASSUME NEW b \in Blocks, NEW prev \in Tchs, NEW cur \in Tchs, NEW ty
    PROVE  /\ ProcLayer2(b, prev, cur, ty).block \in Blocks
           /\ ProcLayer2(b, prev, cur, ty).panic \in BOOLEAN
           /\ Fits(ProcLayer2(b, prev, cur, ty).message)
<1>1. CASE Paired(prev, cur) = {}
  BY <1>1, BlocksMade DEF ProcLayer2, Layer2Failed, Fits
<1>2. CASE Paired(prev, cur) # {}
  <2>1. PICK u \in Fragments : prev.begins = u
    BY <1>2 DEF Paired
  <2>2. CASE u.first /\ u.last
    <3>1. u.len \in 0 .. MaxCells * CellLen
      <4>1. /\ u.len \in Nat /\ u.len <= CellLen /\ CellLen \in Nat
            /\ MaxCells \in Nat /\ MaxCells >= 1
        BY <2>2, BlockAssumption DEF Fragments
      <4>2. CellLen <= MaxCells * CellLen /\ MaxCells * CellLen \in Nat
        BY <4>1
      <4> QED BY <4>1, <4>2
    <3>2. ProcLayer2(b, prev, cur, ty) = Layer2Single(b, u)
      BY <1>2, <2>1, <2>2 DEF ProcLayer2
    <3> QED BY <3>1, <3>2 DEF Layer2Single, Reported, Fits
  <2>3. CASE ~(u.first /\ u.last)
    <3> DEFINE a == IF u.first THEN AllocL2(b, u.len + 1) ELSE b
               c == Assemble(a, u)
    <3>1. a \in Blocks
      BY BlocksMade
    <3>2. c \in Blocks /\ TotalLen(c) \in 0 .. MaxCells * CellLen
      BY <3>1, AssembleType, TotalLenFits
    <3>3. ProcLayer2(b, prev, cur, ty) = Layer2Fragment(b, u, ty)
      BY <1>2, <2>1, <2>3 DEF ProcLayer2
    <3>4. CASE Misplaced(a, u)
      BY <3>3, <3>4 DEF Layer2Fragment, Fits
    <3>5. CASE ~Misplaced(a, u)
      BY <3>2, <3>3, <3>5 DEF Layer2Fragment, Reported, Fits
    <3> QED BY <3>4, <3>5
  <2> QED BY <2>2, <2>3
<1> QED BY <1>1, <1>2

-----------------------------------------------------------------------------
(* The frames. *)

\* What is reported of a frame is in the buffer.
ReportFits == Fits(tch_record.message)

PPInv == PPTypeOK /\ ReportFits

LEMMA PPInitInv == PPInit => PPInv
<1>1. NewBlock \in Blocks /\ BlankTch \in Tchs
  BY BlocksMade DEF BlankTch, Tchs, Halves
<1>2. Fits(NoTchRecord.message)
  BY DEF Fits, NoTchRecord
<1>3. PPInit => ReportFits
  BY <1>2 DEF PPInit, ReportFits
<1> QED BY <1>1, <1>3 DEF PPInit, PPInv, PPTypeOK

LEMMA StepPPInv ==
    ASSUME PPInv, [PPNext]_ppvars
    PROVE  PPInv'
<1>1. /\ psc_tch \in Tchs /\ l2block \in Blocks /\ BlankTch \in Tchs
      /\ InitBlock(l2block) \in Blocks /\ Fits(NoTchRecord.message)
  BY BlocksMade DEF PPInv, PPTypeOK, BlankTch, Tchs, Halves, Fits, NoTchRecord
<1>2. ASSUME NEW m \in MFields, NEW tch \in Tchs, PscFrame(m, tch)
      PROVE  PPInv'
  <2> DEFINE l2 == IF psc_m \in Layer2 THEN ProcLayer2(l2block, psc_tch, tch, psc_m)
                                       ELSE Undisturbed(l2block)
  <2>1. l2.block \in Blocks /\ l2.panic \in BOOLEAN /\ Fits(l2.message)
    <3>1. CASE psc_m \in Layer2
      BY <1>1, <3>1, ProcLayer2Type
    <3>2. CASE psc_m \notin Layer2
      BY <1>1, <3>2 DEF Undisturbed, Fits
    <3> QED BY <3>1, <3>2
  <2>2. /\ l2_panic' = l2.panic
        /\ tch_record'.message = l2.message
        /\ \/ psc_m' = "IDLE" /\ psc_tch' = psc_tch
           \/ psc_m' \in Layer2 \cup {"VOICE"} /\ psc_tch' = tch
        /\ l2block' = l2.block \/ l2block' = InitBlock(l2.block)
    BY <1>2 DEF PscFrame
  <2> QED BY <1>1, <2>1, <2>2, BlocksMade DEF PPInv, PPTypeOK, ReportFits
<1>3. CASE PscRichError
  BY <1>1, <1>3 DEF PscRichError, PPInv, PPTypeOK, ReportFits
<1>4. CASE PscReset
  BY <1>1, <1>4 DEF PscReset, PPInv, PPTypeOK, ReportFits
<1>5. CASE PscSs1
  BY <1>1, <1>5 DEF PscSs1, PPInv, PPTypeOK, ReportFits
<1>6. CASE UNCHANGED ppvars
  BY <1>6 DEF ppvars, PPInv, PPTypeOK, ReportFits, Fits
<1> QED BY <1>2, <1>3, <1>4, <1>5, <1>6 DEF PPNext

\* Whatever frames come, in whatever order and with whatever lost, the last half is a
\* half, the M-field one that begins something or IDLE, and the message under way has no
\* more cells than there are and a last length no longer than a cell.
THEOREM PairingTypeCorrect == PPSpec => []PPTypeOK
<1>1. PPInv => PPTypeOK
  BY DEF PPInv
<1>2. PPInv /\ [PPNext]_ppvars => PPInv'
  BY StepPPInv
<1> QED BY <1>1, <1>2, PPInitInv, PTL DEF PPSpec

\* The length a message is reported with, by which its bytes are sliced out of the
\* buffer, is never more than the buffer holds, as long as no last unit claims more than it
\* carries (Fragments): no sequence of units makes the slice l2blocks[..total] go out of range.
THEOREM ReportsFit == PPSpec => []ReportFits
<1>1. PPInv => ReportFits
  BY DEF PPInv
<1>2. PPInv /\ [PPNext]_ppvars => PPInv'
  BY StepPPInv
<1> QED BY <1>1, <1>2, PPInitInv, PTL DEF PPSpec

-----------------------------------------------------------------------------
(***************************************************************************)
(* The transmission.                                                       *)
(***************************************************************************)

LEMMA PlanFacts ==
    ASSUME NEW p \in Plans
    PROVE  /\ Len(p) \in Nat /\ DOMAIN p = 1 .. Len(p)
           /\ \A i \in 1 .. Len(p) : p[i].m \in MFields \cup {"SS1"} /\ p[i].n \in Nat \ {0}
<1> DEFINE Runs == [m : MFields \cup {"SS1"}, n : Nat \ {0}]
<1>1. p \in Seq(Runs)
  BY PlansAssumption
<1> HIDE DEF Runs
<1>2. Len(p) \in Nat /\ DOMAIN p = 1 .. Len(p) /\ \A i \in 1 .. Len(p) : p[i] \in Runs
  BY <1>1, ElementOfSeq, LenProperties
<1> QED BY <1>2 DEF Runs

\* The sender is at a frame of its plan, or past the end.
AirOK ==
    /\ plan \in Plans /\ run \in Nat \ {0} /\ frame \in Nat \ {0}
    /\ run <= Len(plan) + 1
    /\ Sending => frame <= plan[run].n
    /\ ~Sending => frame = 1

\* The frame before, without the tuple it comes in.
RunBefore == FrameBefore(plan, run, frame)[1]
PlaceBefore == FrameBefore(plan, run, frame)[2]

LEMMA BeforeFacts ==
    ASSUME AirOK
    PROVE  /\ FrameBefore(plan, run, frame) = <<RunBefore, PlaceBefore>>
           /\ RunBefore \in Nat /\ PlaceBefore \in Nat \ {0}
           /\ RunBefore = 0 <=> (run = 1 /\ frame = 1)
           /\ RunBefore # 0 => RunBefore \in 1 .. Len(plan) /\ PlaceBefore <= plan[RunBefore].n
           /\ RunBefore < run \/ (RunBefore = run /\ PlaceBefore < frame)
           /\ frame > 1 => RunBefore = run /\ PlaceBefore = frame - 1
           /\ frame = 1 /\ run > 1 => RunBefore = run - 1 /\ PlaceBefore = plan[run - 1].n
<1>1. /\ Len(plan) \in Nat
      /\ \A i \in 1 .. Len(plan) : plan[i].n \in Nat \ {0}
      /\ run \in Nat \ {0} /\ frame \in Nat \ {0} /\ run <= Len(plan) + 1
  BY PlanFacts DEF AirOK
<1>2. CASE frame > 1
  <2>1. FrameBefore(plan, run, frame) = <<run, frame - 1>>
    BY <1>2 DEF FrameBefore
  <2>2. run <= Len(plan) /\ frame <= plan[run].n
    BY <1>1, <1>2 DEF AirOK, Sending
  <2> QED BY <1>1, <1>2, <2>1, <2>2 DEF RunBefore, PlaceBefore
<1>3. CASE frame = 1 /\ run > 1
  <2>1. FrameBefore(plan, run, frame) = <<run - 1, plan[run - 1].n>>
    BY <1>3 DEF FrameBefore
  <2>2. run - 1 \in 1 .. Len(plan)
    BY <1>1, <1>3
  <2> QED BY <1>1, <1>3, <2>1, <2>2 DEF RunBefore, PlaceBefore
<1>4. CASE frame = 1 /\ run = 1
  <2>1. FrameBefore(plan, run, frame) = <<0, 1>>
    BY <1>4 DEF FrameBefore
  <2> QED BY <1>1, <1>4, <2>1 DEF RunBefore, PlaceBefore
<1> QED BY <1>1, <1>2, <1>3, <1>4

\* The frame on air becomes the frame before, and what is on air before the next frame is
\* that frame and what was before it.
LEMMA OnAirMoves ==
    ASSUME AirOK, OnAir
    PROVE  /\ AirOK' /\ plan' = plan
           /\ RunBefore' = run /\ PlaceBefore' = frame
           /\ run \in 1 .. Len(plan) /\ frame \in 1 .. plan[run].n
           /\ \A i, k \in Nat : k >= 1 /\ (i = run => k <= plan[run].n) =>
                (Earlier(<<i, k>>, <<run', frame'>>)
                   <=> Earlier(<<i, k>>, <<run, frame>>) \/ (i = run /\ k = frame))
<1>1. /\ Len(plan) \in Nat
      /\ \A i \in 1 .. Len(plan) : plan[i].n \in Nat \ {0}
      /\ run \in 1 .. Len(plan) /\ frame \in 1 .. plan[run].n
      /\ plan' = plan
  BY PlanFacts DEF AirOK, OnAir, Sending
<1>2. CASE frame < plan[run].n
  <2>1. frame' = frame + 1 /\ run' = run
    BY <1>2 DEF OnAir
  <2>2. AirOK'
    BY <1>1, <1>2, <2>1 DEF AirOK, Sending
  <2>3. FrameBefore(plan', run', frame') = <<run, frame>>
    BY <1>1, <2>1 DEF FrameBefore
  <2>4. \A i, k \in Nat : Earlier(<<i, k>>, <<run', frame'>>)
                 <=> Earlier(<<i, k>>, <<run, frame>>) \/ (i = run /\ k = frame)
    BY <1>1, <2>1 DEF Earlier
  <2> QED BY <1>1, <2>2, <2>3, <2>4 DEF RunBefore, PlaceBefore
<1>3. CASE ~(frame < plan[run].n)
  <2>1. frame' = 1 /\ run' = run + 1 /\ frame = plan[run].n
    BY <1>1, <1>3 DEF OnAir
  <2>2. AirOK'
    BY <1>1, <2>1 DEF AirOK, Sending
  <2>3. FrameBefore(plan', run', frame') = <<run, frame>>
    BY <1>1, <2>1 DEF FrameBefore
  <2>4. ASSUME NEW i \in Nat, NEW k \in Nat, k >= 1, i = run => k <= plan[run].n
        PROVE  Earlier(<<i, k>>, <<run', frame'>>)
                 <=> Earlier(<<i, k>>, <<run, frame>>) \/ (i = run /\ k = frame)
    BY <1>1, <2>1, <2>4 DEF Earlier
  <2> QED BY <1>1, <2>2, <2>3, <2>4 DEF RunBefore, PlaceBefore
<1> QED BY <1>2, <1>3

\* What a frame of a plan begins.
LEMMA BegunFacts ==
    ASSUME NEW p \in Plans, NEW i \in 1 .. Len(p), NEW k \in 1 .. p[i].n
    PROVE  /\ Begun(p, i, k) \in Halves
           /\ p[i].m \in Layer2 => /\ p[i].n \in 1 .. MaxCells
                                  /\ Begun(p, i, k) = UnitOf(i, p[i].n, k)
                                  /\ UnitOf(i, p[i].n, k) \in Fragments
           /\ p[i].m = "VOICE" => /\ Begun(p, i, k) = [run |-> i, frame |-> k]
                                 /\ [run |-> i, frame |-> k] \in Voices
           /\ p[i].m \notin Layer2 \cup {"VOICE"} => Begun(p, i, k) = Nothing
<1>1. /\ i \in DOMAIN p /\ p[i].n \in Nat \ {0} /\ k \in Nat
      /\ CellLen \in Nat /\ MaxCells \in Nat /\ LastLen \in 0 .. CellLen /\ LastLen < MaxCells
  BY PlanFacts, BlockAssumption, PlansAssumption
<1>2. CASE p[i].m \in Layer2
  <2>1. p[i].n <= MaxCells /\ <<i, k>> \in Pieces
    BY <1>1, <1>2, PlansAssumption
  <2>2. UnitOf(i, p[i].n, k) \in Fragments
    <3> DEFINE len == IF k = p[i].n THEN LastLen ELSE p[i].n - k
    <3>1. len \in 0 .. (MaxCells - 1) /\ (k = p[i].n => len <= CellLen)
      BY <1>1, <2>1
    <3>2. PICK f \in BOOLEAN, l \in BOOLEAN : f = (k = 1) /\ l = (k = p[i].n)
      OBVIOUS
    <3>3. UnitOf(i, p[i].n, k) = [first |-> f, last |-> l, len |-> len, piece |-> <<i, k>>]
      BY <3>2 DEF UnitOf
    <3>4. l => len <= CellLen
      BY <3>1, <3>2
    <3> HIDE DEF len
    <3> DEFINE u == [first |-> f, last |-> l, len |-> len, piece |-> <<i, k>>]
    <3>5. u \in [first : BOOLEAN, last : BOOLEAN, len : 0 .. (MaxCells - 1), piece : Pieces]
      BY <2>1, <3>1, <3>2
    <3>6. u.last => u.len <= CellLen
      BY <3>4
    <3> HIDE DEF u
    <3>7. u \in Fragments
      BY <3>5, <3>6 DEF Fragments
    <3> QED BY <3>3, <3>7 DEF u
  <2>3. Begun(p, i, k) = UnitOf(i, p[i].n, k) /\ p[i].m # "VOICE"
    BY <1>2 DEF Begun, Layer2
  <2> QED BY <1>1, <1>2, <2>1, <2>2, <2>3 DEF Halves
<1>3. CASE p[i].m = "VOICE"
  <2>1. p[i].m \notin Layer2 /\ Begun(p, i, k) = [run |-> i, frame |-> k]
    BY <1>3 DEF Begun, Layer2
  <2>2. [run |-> i, frame |-> k] \in Voices
    BY <1>1, <1>3, PlansAssumption
  <2> QED BY <1>3, <2>1, <2>2 DEF Halves
<1>4. CASE p[i].m \notin Layer2 \cup {"VOICE"}
  BY <1>4 DEF Begun, Halves
<1> QED BY <1>2, <1>3, <1>4

\* What the frame on air carries.
LEMMA TchFacts ==
    ASSUME AirOK, Sending
    PROVE  LET tch == TchAt(plan, run, frame)
           IN /\ tch \in Tchs
              /\ plan[run].m \in Layer2 => tch.begins = UnitOf(run, plan[run].n, frame)
              /\ tch.begins \in {Nothing, Begun(plan, run, frame)}
              /\ frame > 1 => tch.begins = Begun(plan, run, frame)
              /\ tch.ends # Nothing => /\ RunBefore # 0
                                      /\ tch.ends = Begun(plan, RunBefore, PlaceBefore)
              /\ (RunBefore # 0 /\ (frame > 1 \/ plan[RunBefore].m # "VOICE"))
                 => tch.ends = Begun(plan, RunBefore, PlaceBefore)
<1> DEFINE tch == TchAt(plan, run, frame)
<1>1. /\ plan \in Plans /\ run \in 1 .. Len(plan) /\ frame \in 1 .. plan[run].n /\ Len(plan) \in Nat
      /\ plan[run].n \in Nat
  BY PlanFacts DEF AirOK, Sending
<1>2. Begun(plan, run, frame) \in Halves /\ Nothing \in Halves
  BY <1>1, BegunFacts DEF Halves
<1>3. RunBefore # 0 => Begun(plan, RunBefore, PlaceBefore) \in Halves
  <2> SUFFICES ASSUME RunBefore # 0 PROVE Begun(plan, RunBefore, PlaceBefore) \in Halves
    OBVIOUS
  <2>1. RunBefore \in 1 .. Len(plan) /\ PlaceBefore \in Nat \ {0} /\ PlaceBefore <= plan[RunBefore].n
    BY BeforeFacts
  <2>2. PlaceBefore \in 1 .. plan[RunBefore].n
    BY <1>1, <2>1, PlanFacts
  <2> QED BY <1>1, <2>1, <2>2, BegunFacts
<1>4. BegunBefore(plan, run, frame) = IF RunBefore = 0 THEN Nothing
                                      ELSE Begun(plan, RunBefore, PlaceBefore)
  BY DEF BegunBefore, RunBefore, PlaceBefore
<1>5. tch.ends \in {Nothing, BegunBefore(plan, run, frame)}
  BY DEF TchAt
<1>6. tch \in Tchs
  BY <1>2, <1>3, <1>4 DEF TchAt, Tchs
<1>7. plan[run].m \in Layer2 => tch.begins = UnitOf(run, plan[run].n, frame)
  BY <1>1, BegunFacts DEF TchAt, Layer2
<1>8. tch.begins \in {Nothing, Begun(plan, run, frame)}
  BY DEF TchAt
<1>9. frame > 1 => tch.begins = Begun(plan, run, frame)
  BY <1>1 DEF TchAt, Follows
<1>10. ASSUME RunBefore # 0, frame > 1 \/ plan[RunBefore].m # "VOICE"
       PROVE  tch.ends = Begun(plan, RunBefore, PlaceBefore)
  <2>1. ~Follows(plan, run, frame, {"VOICE"})
    BY <1>1, <1>10, BeforeFacts DEF Follows
  <2> QED BY <1>4, <1>10, <2>1 DEF TchAt
<1> QED BY <1>4, <1>5, <1>6, <1>7, <1>8, <1>9, <1>10
-----------------------------------------------------------------------------
(***************************************************************************)
(* A message goes through the block.                                       *)
(***************************************************************************)

\* The first l units of message i are in their cells.
InProgress(b, p, i, l) == b.count = p[i].n /\ \A k \in 1 .. l : b.cells[k] = <<i, k>>

LEMMA UnitFields ==
    ASSUME NEW i, NEW n, NEW k
    PROVE  /\ UnitOf(i, n, k).first <=> k = 1
           /\ UnitOf(i, n, k).last <=> k = n
           /\ k = n => UnitOf(i, n, k).len = LastLen
           /\ k # n => UnitOf(i, n, k).len = n - k
           /\ UnitOf(i, n, k).piece = <<i, k>>
  BY DEF UnitOf

\* What a message of count pieces is read out as.
LEMMA MessagePieces ==
    ASSUME NEW b \in Blocks
    PROVE  /\ Message(b).pieces \in Seq(Pieces \cup {Zeroes})
           /\ Len(Message(b).pieces) = b.count
           /\ \A k \in 1 .. b.count : Message(b).pieces[k] = b.cells[k]
<1>1. /\ b.count \in Nat /\ b.count <= MaxCells /\ MaxCells \in Nat
      /\ \A k \in 1 .. b.count : b.cells[k] \in Pieces \cup {Zeroes}
  BY BlockAssumption DEF Blocks
<1>2. /\ SubSeq(b.cells, 1, b.count) \in Seq(Pieces \cup {Zeroes})
      /\ Len(SubSeq(b.cells, 1, b.count)) = IF 1 <= b.count THEN b.count - 1 + 1 ELSE 0
      /\ \A k \in 1 .. (b.count - 1 + 1) : SubSeq(b.cells, 1, b.count)[k] = b.cells[1 + k - 1]
  BY <1>1, SubSeqProperties
<1> QED BY <1>1, <1>2 DEF Message

\* The whole message, once it is in its cells.
LEMMA MessageIsSent ==
    ASSUME NEW p \in Plans, NEW i \in 1 .. Len(p), NEW b \in Blocks,
           p[i].m \in Layer2, InProgress(b, p, i, p[i].n)
    PROVE  Message(b).pieces = Sent(p, i).pieces
<1>1. p[i].n \in Nat /\ \A k \in 1 .. p[i].n : <<i, k>> \in Pieces \cup {Zeroes}
  BY PlanFacts, PlansAssumption
<1> DEFINE sent == [k \in 1 .. p[i].n |-> <<i, k>>]
<1>2. sent \in Seq(Pieces \cup {Zeroes}) /\ Len(sent) = p[i].n
  BY <1>1
<1>3. /\ Message(b).pieces \in Seq(Pieces \cup {Zeroes})
      /\ Len(Message(b).pieces) = p[i].n
      /\ \A k \in 1 .. p[i].n : Message(b).pieces[k] = <<i, k>>
  BY MessagePieces DEF InProgress
<1>4. Message(b).pieces = sent
  BY <1>2, <1>3, SeqEqual
<1> QED BY <1>4 DEF Sent

\* Unit k of a longer message, when it is the first or those before it are in place, goes
\* into its cell, and the last one brings the message out.
LEMMA UnitGoesOn ==
    ASSUME NEW p \in Plans, NEW i \in 1 .. Len(p), NEW k \in 1 .. p[i].n, NEW b \in Blocks,
           p[i].m \in Layer2, p[i].n # 1, k = 1 \/ InProgress(b, p, i, k - 1)
    PROVE  LET r == Layer2Fragment(b, UnitOf(i, p[i].n, k), p[i].m)
           IN /\ r.panic = FALSE
              /\ InProgress(r.block, p, i, k)
              /\ r.message = IF k = p[i].n THEN <<Sent(p, i)>> ELSE <<>>
<1> DEFINE n == p[i].n
           u == UnitOf(i, n, k)
           a == IF u.first THEN AllocL2(b, u.len + 1) ELSE b
           c == Assemble(a, u)
           r == Layer2Fragment(b, u, p[i].m)
<1>1. n \in Nat /\ n >= 2 /\ n <= MaxCells /\ k \in 1 .. n /\ u \in Fragments /\ MaxCells \in Nat
  <2>1. n \in Nat \ {0} /\ MaxCells \in Nat
    BY PlanFacts, BlockAssumption
  <2>2. n \in 1 .. MaxCells /\ u \in Fragments
    BY BegunFacts
  <2> QED BY <2>1, <2>2
<1>2. FPos(u) = n - k
  BY <1>1, UnitFields DEF FPos
<1>3. a \in Blocks /\ a.count = n /\ \A l \in 1 .. (k - 1) : a.cells[l] = <<i, l>>
  <2>1. CASE k = 1
    <3>1. u.first /\ u.len = n - 1
      BY <1>1, <2>1, UnitFields
    <3>2. u.len + 1 = n
      BY <1>1, <3>1
    <3>3. AllocL2(b, u.len + 1) \in Blocks
      BY <1>1, BlocksMade
    <3>4. a = AllocL2(b, n)
      BY <3>1, <3>2
    <3>5. AllocL2(b, n).count = n
      BY DEF AllocL2, Blocks
    <3>6. 1 .. (k - 1) = {}
      BY <2>1
    <3> QED BY <3>2, <3>3, <3>4, <3>5, <3>6
  <2>2. CASE k # 1
    BY <2>2, UnitFields DEF InProgress
  <2> QED BY <2>1, <2>2
<1> HIDE DEF a, u
<1>4. ~Misplaced(a, u) /\ a.count # 0
  BY <1>1, <1>2, <1>3 DEF Misplaced
<1>5. c \in Blocks /\ c.count = n
  BY <1>1, <1>3, <1>4, AssembleType DEF Assemble, Blocks
<1>6. InProgress(c, p, i, k)
  <2>1. a.count - FPos(u) = k
    BY <1>1, <1>2, <1>3
  <2>2. c.cells[k] = u.piece /\ \A l \in 1 .. MaxCells : l # k => c.cells[l] = a.cells[l]
    BY <1>1, <1>3, <1>4, <2>1, UnitGoesIntoItsCell
  <2>3. u.piece = <<i, k>>
    BY UnitFields DEF u
  <2>4. \A l \in 1 .. k : l = k \/ (l \in 1 .. (k - 1) /\ l \in 1 .. MaxCells /\ l # k)
    BY <1>1
  <2> QED BY <1>3, <1>5, <2>2, <2>3, <2>4 DEF InProgress
<1>7. /\ r.panic = FALSE /\ r.block = c
      /\ r.message = IF u.last /\ c.count # 0
                     THEN <<Reported(p[i].m, Message(c).pieces, TotalLen(c))>> ELSE <<>>
  BY <1>4 DEF Layer2Fragment, a, u
<1>8. u.last <=> k = n
  BY UnitFields DEF u
<1>9. CASE k = n
  <2>1. Message(c).pieces = Sent(p, i).pieces
    BY <1>5, <1>6, <1>9, MessageIsSent
  <2>2. c.last_len = BodyLen(u) /\ BodyLen(u) = LastLen
    BY <1>3, <1>4, <1>8, <1>9, UnitFields DEF Assemble, BodyLen, Blocks, u
  <2>3. TotalLen(c) = (n - 1) * CellLen + LastLen
    BY <1>1, <1>5, <2>2 DEF TotalLen
  <2>4. r.message = <<Reported(p[i].m, Message(c).pieces, TotalLen(c))>>
    BY <1>1, <1>5, <1>7, <1>8, <1>9
  <2>5. Reported(p[i].m, Message(c).pieces, TotalLen(c)) = Sent(p, i)
    BY <2>1, <2>3 DEF Reported, Sent
  <2> QED BY <1>6, <1>7, <1>9, <2>4, <2>5 DEF u
<1>10. CASE k # n
  BY <1>6, <1>7, <1>8, <1>10 DEF u
<1> QED BY <1>9, <1>10

\* A message of one unit.
LEMMA SingleIsSent ==
    ASSUME NEW p \in Plans, NEW i \in 1 .. Len(p), NEW b, p[i].n = 1
    PROVE  Layer2Single(b, UnitOf(i, 1, 1)).message = <<Sent(p, i)>>
<1>1. <<UnitOf(i, 1, 1).piece>> = [k \in 1 .. 1 |-> <<i, k>>]
  <2> DEFINE x == <<i, 1>>
             s == <<x>>
             t == [k \in 1 .. 1 |-> <<i, k>>]
  <2>1. \A k \in 1 .. 1 : k = 1
    OBVIOUS
  <2>2. s \in Seq({x}) /\ t \in Seq({x}) /\ Len(s) = 1 /\ Len(t) = 1 /\ s[1] = t[1]
    BY <2>1
  <2>3. s = t
    BY <2>1, <2>2, SeqEqual
  <2> QED BY <2>3, UnitFields
<1>2. (1 - 1) * CellLen + LastLen = LastLen
  BY BlockAssumption, PlansAssumption
<1> QED BY <1>1, <1>2, UnitFields DEF Layer2Single, Reported, Sent
-----------------------------------------------------------------------------
(***************************************************************************)
(* The inductive invariant of the channel.                                 *)
(***************************************************************************)

\* What is reported of messages and of voice.
Reports == [ty : MFields \cup {"ACCH"}, pieces : Seq(Pieces \cup {Zeroes}), len : Nat]
VoiceReports == [celp : Voices, hash_ok : {TRUE}]

HeardOK == heard \in Seq(Reports) /\ voice_heard \in Seq(VoiceReports)

HurtOK ==
    /\ hurt[1] \in Nat /\ hurt[2] \in Nat
    /\ Earlier(hurt, <<run, frame>>)

\* The frame that began what was reported last; the last piece tells of a message.
LastPiece(r) == r.pieces[Len(r.pieces)]
VoicePlace(v) == <<v.celp.run, v.celp.frame>>

\* Whatever was reported was begun by frames before the last one, and in that order.
ReportsInOrder ==
    /\ \A k \in DOMAIN heard :
         /\ LastPiece(heard[k]) \in Nat \X Nat
         /\ Earlier(LastPiece(heard[k]), <<RunBefore, PlaceBefore>>)
    /\ \A j, k \in DOMAIN heard : j < k => Earlier(LastPiece(heard[j]), LastPiece(heard[k]))
    /\ \A k \in DOMAIN voice_heard :
         /\ VoicePlace(voice_heard[k]) \in Nat \X Nat
         /\ Earlier(VoicePlace(voice_heard[k]), <<RunBefore, PlaceBefore>>)
    /\ \A j, k \in DOMAIN voice_heard : j < k =>
          Earlier(VoicePlace(voice_heard[j]), VoicePlace(voice_heard[k]))

\* The half kept of a Layer-2 unit has the kind of the message it is of.
KeptHalf ==
    psc_m \in Layer2 =>
        \/ psc_tch.begins = Nothing
        \/ \E j \in 1 .. Len(plan) : \E l \in 1 .. plan[j].n :
              /\ plan[j].m = psc_m
              /\ psc_tch.begins = UnitOf(j, plan[j].n, l)

\* Without a lost header, the units before the half that is kept are in their cells, or
\* there is no message under way at all.
KeptMessage ==
    psc_m \in Layer2 /\ l2block.count # 0 =>
        \A j \in 1 .. Len(plan) : \A l \in 1 .. plan[j].n :
           /\ l # 1 /\ plan[j].m \in Layer2
           /\ psc_tch.begins = UnitOf(j, plan[j].n, l)
           => InProgress(l2block, plan, j, l - 1)

HeardGenuine ==
    \A k \in DOMAIN heard : \E i \in 1 .. Len(plan) :
        plan[i].m \in Layer2 /\ heard[k] = Sent(plan, i)

HeadersKept ==
    "header" \notin damage =>
        /\ ~l2_panic
        /\ psc_m \notin Layer2 => l2block.count = 0
        /\ KeptMessage
        /\ HeardGenuine

\* Inside a message that came whole so far, the decoder is where the sender is.
MessageFollowed ==
    RunBefore # 0 /\ plan[RunBefore].m \in Layer2 /\ hurt[1] < RunBefore =>
        /\ psc_m = plan[RunBefore].m
        /\ psc_tch.begins = UnitOf(RunBefore, plan[RunBefore].n, PlaceBefore)
        /\ PlaceBefore # 1 => InProgress(l2block, plan, RunBefore, PlaceBefore - 1)

\* Behind an undamaged frame that is not Layer 2, so is not the decoder.
LayerLeft ==
    /\ Earlier(hurt, <<RunBefore, PlaceBefore>>)
    /\ RunBefore # 0 => plan[RunBefore].m \notin Layer2
    => psc_m \notin Layer2

\* Behind two undamaged frames the second of which began voice, the decoder has its half.
VoiceFollowed ==
    /\ RunBefore # 0 /\ plan[RunBefore].m = "VOICE"
    /\ Earlier(hurt, FrameBefore(plan, RunBefore, PlaceBefore))
    /\ TchAt(plan, RunBefore, PlaceBefore).begins # Nothing
    => psc_m = "VOICE" /\ psc_tch.begins = Begun(plan, RunBefore, PlaceBefore)

Followed ==
    ~l2_panic =>
        /\ MessageFollowed
        /\ LayerLeft
        /\ VoiceFollowed
        /\ MessagesResynchronised
        /\ VoiceResynchronised

AirInv ==
    /\ AirOK
    /\ PPInv
    /\ HeardOK
    /\ HurtOK
    /\ ReportsInOrder
    /\ KeptHalf
    /\ HeadersKept
    /\ Followed

-----------------------------------------------------------------------------
(* What one frame can report. *)

LEMMA UnitReports ==
    ASSUME NEW b \in Blocks, NEW u \in Fragments, NEW ty \in MFields,
           NEW r, r = IF u.first /\ u.last THEN Layer2Single(b, u) ELSE Layer2Fragment(b, u, ty)
    PROVE  r.message = <<>> \/ \E rep \in Reports : r.message = <<rep>> /\ LastPiece(rep) = u.piece
<1>1. u.piece \in Pieces /\ u.len \in Nat
  BY BlockAssumption DEF Fragments
<1>2. CASE u.first /\ u.last
  <2> DEFINE rep == Reported("ACCH", <<u.piece>>, u.len)
  <2>1. <<u.piece>> \in Seq(Pieces \cup {Zeroes}) /\ Len(<<u.piece>>) = 1
    BY <1>1
  <2>2. rep \in Reports /\ LastPiece(rep) = u.piece
    BY <1>1, <2>1 DEF Reported, Reports, LastPiece
  <2>3. r.message = <<rep>>
    BY <1>2 DEF Layer2Single
  <2> QED BY <2>2, <2>3
<1>3. CASE ~(u.first /\ u.last)
  <2> DEFINE a == IF u.first THEN AllocL2(b, u.len + 1) ELSE b
             c == Assemble(a, u)
             rep == Reported(ty, Message(c).pieces, TotalLen(c))
  <2>1. r = Layer2Fragment(b, u, ty)
    BY <1>3
  <2>2. a \in Blocks
    BY BlocksMade
  <2>3. c \in Blocks
    BY <2>2, AssembleType
  <2> HIDE DEF a
  <2>4. CASE Misplaced(a, u)
    BY <2>1, <2>4 DEF Layer2Fragment, a
  <2>5. CASE ~Misplaced(a, u) /\ ~(u.last /\ c.count # 0)
    BY <2>1, <2>5 DEF Layer2Fragment, a
  <2>6. CASE ~Misplaced(a, u) /\ u.last /\ c.count # 0
    <3>1. r.message = <<rep>>
      BY <2>1, <2>6 DEF Layer2Fragment, a
    <3>2. /\ Message(c).pieces \in Seq(Pieces \cup {Zeroes})
          /\ Len(Message(c).pieces) = c.count
          /\ \A k \in 1 .. c.count : Message(c).pieces[k] = c.cells[k]
      BY <2>3, MessagePieces
    <3>3. TotalLen(c) \in Nat
      <4>1. MaxCells * CellLen \in Nat
        BY BlockAssumption
      <4> QED BY <2>3, <4>1, TotalLenFits
    <3>4. a.count # 0 /\ c.count = a.count
      <4>1. a.count # 0
        BY <2>6 DEF Assemble
      <4> QED BY <2>2, <4>1 DEF Assemble, Blocks
    <3>5. FPos(u) = 0 /\ c.count \in 1 .. MaxCells /\ a.count - FPos(u) = c.count
      BY <2>2, <2>6, <3>4, BlockAssumption DEF FPos, Blocks
    <3>6. c.cells[c.count] = u.piece
      BY <2>2, <2>6, <3>4, <3>5, UnitGoesIntoItsCell
    <3> HIDE DEF c
    <3>7. Message(c).pieces[c.count] = u.piece
      BY <3>2, <3>5, <3>6
    <3>8. rep \in Reports
      BY <3>2, <3>3 DEF Reported, Reports
    <3>9. LastPiece(rep) = u.piece
      BY <3>2, <3>7 DEF Reported, LastPiece
    <3> QED BY <3>1, <3>8, <3>9
  <2> QED BY <2>4, <2>5, <2>6
<1> QED BY <1>2, <1>3

\* Two halves that meet are those of the unit the frame before began.
LEMMA HalvesMeet ==
    ASSUME AirOK, Sending, NEW prev, NEW tch,
           tch \in {TchAt(plan, run, frame), BlankTch}, Paired(prev, tch) # {}
    PROVE  /\ RunBefore \in 1 .. Len(plan) /\ PlaceBefore \in 1 .. plan[RunBefore].n
           /\ plan[RunBefore].m \in Layer2
           /\ prev.begins = UnitOf(RunBefore, plan[RunBefore].n, PlaceBefore)
           /\ prev.begins \in Fragments
           /\ tch = TchAt(plan, run, frame)
<1>1. PICK u \in Fragments : prev.begins = u /\ tch.ends = u
  BY DEF Paired
<1>2. u # Nothing /\ u \notin Voices
  BY ThingsAssumption
<1>3. tch = TchAt(plan, run, frame)
  BY <1>1, <1>2 DEF BlankTch
<1>4. RunBefore # 0 /\ u = Begun(plan, RunBefore, PlaceBefore)
  BY <1>1, <1>2, <1>3, TchFacts
<1>5. plan \in Plans /\ RunBefore \in 1 .. Len(plan) /\ PlaceBefore \in 1 .. plan[RunBefore].n
  <2>1. plan \in Plans /\ RunBefore \in 1 .. Len(plan)
        /\ PlaceBefore \in Nat \ {0} /\ PlaceBefore <= plan[RunBefore].n
    BY <1>4, BeforeFacts DEF AirOK
  <2> QED BY <2>1, PlanFacts
<1>6. plan[RunBefore].m \in Layer2
  BY <1>2, <1>4, <1>5, BegunFacts
<1> QED BY <1>1, <1>3, <1>4, <1>5, <1>6, BegunFacts

LEMMA MessageReported ==
    ASSUME AirOK, Sending, l2block \in Blocks, NEW tch, NEW ty \in MFields,
           tch \in {TchAt(plan, run, frame), BlankTch}
    PROVE  LET r == ProcLayer2(l2block, psc_tch, tch, ty)
           IN \/ r.message = <<>>
              \/ /\ RunBefore # 0
                 /\ \E rep \in Reports : /\ r.message = <<rep>>
                                         /\ LastPiece(rep) = <<RunBefore, PlaceBefore>>
<1> DEFINE r == ProcLayer2(l2block, psc_tch, tch, ty)
<1>1. CASE Paired(psc_tch, tch) = {}
  BY <1>1 DEF ProcLayer2, Layer2Failed
<1>2. CASE Paired(psc_tch, tch) # {}
  <2>1. PICK u \in Fragments : u = psc_tch.begins
    BY <1>2, HalvesMeet
  <2>2. RunBefore # 0 /\ u.piece = <<RunBefore, PlaceBefore>>
    BY <1>2, <2>1, HalvesMeet, UnitFields
  <2>3. r = IF u.first /\ u.last THEN Layer2Single(l2block, u)
            ELSE Layer2Fragment(l2block, u, ty)
    BY <1>2, <2>1 DEF ProcLayer2
  <2> HIDE DEF r
  <2>4. r.message = <<>> \/ \E rep \in Reports : r.message = <<rep>> /\ LastPiece(rep) = u.piece
    BY <2>3, UnitReports
  <2> QED BY <2>2, <2>4 DEF r
<1> QED BY <1>1, <1>2

LEMMA VoiceReported ==
    ASSUME AirOK, Sending, NEW prev, NEW tch,
           tch \in {TchAt(plan, run, frame), BlankTch}, NEW v \in ProcVoice(prev, tch)
    PROVE  \/ Confirmed(v) = <<>>
           \/ /\ RunBefore # 0
              /\ [run |-> RunBefore, frame |-> PlaceBefore] \in Voices
              /\ Confirmed(v) = <<[celp |-> [run |-> RunBefore, frame |-> PlaceBefore],
                                   hash_ok |-> TRUE]>>
<1>1. CASE ~(prev.begins = tch.ends /\ prev.begins \in Voices)
  <2> DEFINE wrong == [celp |-> Nothing, hash_ok |-> FALSE]
  <2>1. v = <<Failed>> \/ v = <<wrong>>
    BY <1>1 DEF ProcVoice
  <2> HIDE DEF wrong
  <2>2. v[1] = Failed \/ v[1] = wrong
    BY <2>1
  <2> QED BY <2>2 DEF Confirmed, wrong
<1>2. CASE prev.begins = tch.ends /\ prev.begins \in Voices
  <2>1. tch.ends # Nothing /\ tch.ends \notin Fragments
    BY <1>2, ThingsAssumption
  <2>2. tch = TchAt(plan, run, frame)
    BY <2>1 DEF BlankTch
  <2>3. RunBefore # 0 /\ tch.ends = Begun(plan, RunBefore, PlaceBefore)
    BY <2>1, <2>2, TchFacts
  <2>4. plan \in Plans /\ RunBefore \in 1 .. Len(plan) /\ PlaceBefore \in 1 .. plan[RunBefore].n
    <3>1. plan \in Plans /\ RunBefore \in 1 .. Len(plan)
          /\ PlaceBefore \in Nat \ {0} /\ PlaceBefore <= plan[RunBefore].n
      BY <2>3, BeforeFacts DEF AirOK
    <3> QED BY <3>1, PlanFacts
  <2>5. tch.ends = [run |-> RunBefore, frame |-> PlaceBefore]
    <3>1. plan[RunBefore].m \notin Layer2
      <4>1. plan[RunBefore].m \in Layer2 => Begun(plan, RunBefore, PlaceBefore) \in Fragments
        BY <2>4, BegunFacts
      <4> QED BY <2>1, <2>3, <4>1
    <3>2. plan[RunBefore].m \in Layer2 \cup {"VOICE"}
      BY <2>1, <2>3, <2>4, BegunFacts
    <3>3. plan[RunBefore].m = "VOICE"
      BY <3>1, <3>2
    <3> QED BY <2>3, <2>4, <3>3, BegunFacts
  <2>6. v = <<[celp |-> tch.ends, hash_ok |-> TRUE]>>
    BY <1>2 DEF ProcVoice
  <2>7. Confirmed(v) = v \/ Confirmed(v) = <<>>
    BY DEF Confirmed
  <2> QED BY <1>2, <2>3, <2>5, <2>6, <2>7
<1> QED BY <1>1, <1>2

\* Two halves of voice that are of one frame bring it out.
LEMMA VoiceOut ==
    ASSUME NEW prev, NEW tch, NEW w \in Voices, prev.begins = w, tch.ends = w,
           NEW v \in ProcVoice(prev, tch)
    PROVE  Confirmed(v) = <<[celp |-> w, hash_ok |-> TRUE]>>
<1> DEFINE x == [celp |-> w, hash_ok |-> TRUE]
<1>1. v = <<x>>
  BY DEF ProcVoice
<1>2. x # Failed
  <2>1. x \in [celp : Voices \cup {Nothing}, hash_ok : BOOLEAN]
    OBVIOUS
  <2> QED BY <2>1, ThingsAssumption
<1>3. x # [celp |-> Nothing, hash_ok |-> FALSE]
  BY ThingsAssumption
<1> HIDE DEF x
<1>4. v # <<>> /\ v[1] = x
  BY <1>1
<1> QED BY <1>1, <1>2, <1>3, <1>4 DEF Confirmed, x

-----------------------------------------------------------------------------
(***************************************************************************)
(* The steps of the channel.                                               *)
(***************************************************************************)

Report == heard' = heard /\ voice_heard' = voice_heard

\* What an undamaged frame does.
WholeStep ==
    /\ hurt' = hurt /\ damage' = damage
    /\ \/ plan[run].m = "SS1" /\ PscSs1 /\ Report
       \/ plan[run].m \in MFields /\ PscFrame(plan[run].m, TchAt(plan, run, frame)) /\ Decoded

\* What a damaged one does.
HurtStep ==
    /\ hurt' = <<run, frame>> /\ damage \subseteq damage'
    /\ \/ UNCHANGED ppvars /\ Report
       \/ (PscReset \/ PscSs1) /\ Report
       \/ PscRichError /\ "header" \in damage' /\ Report
       \/ plan[run].m \in MFields /\ PscFrame(plan[run].m, BlankTch) /\ Decoded

LEMMA NothingDecoded ==
    ASSUME HeardOK, tch_record' = NoTchRecord, Decoded
    PROVE  Report
<1>1. heard' = heard \o <<>> /\ voice_heard' = voice_heard \o Confirmed(<<>>)
  BY DEF Decoded, NoTchRecord
<1>2. Confirmed(<<>>) = <<>>
  BY DEF Confirmed
<1>3. heard \o <<>> = heard /\ voice_heard \o <<>> = voice_heard
  BY ConcatEmptySeq DEF HeardOK
<1> QED BY <1>1, <1>2, <1>3 DEF Report

LEMMA Steps ==
    ASSUME AirOK, HeardOK, Next
    PROVE  UNCHANGED <<ppvars, airvars>> \/ (OnAir /\ (WholeStep \/ HurtStep))
<1>1. ASSUME OnAir PROVE plan[run].m \in MFields \cup {"SS1"}
  <2>1. plan \in Plans /\ run \in 1 .. Len(plan)
    BY <1>1, OnAirMoves DEF AirOK
  <2> QED BY <2>1, PlanFacts
<1>2. ASSUME PscReset \/ PscSs1 \/ PscRichError PROVE tch_record' = NoTchRecord
  BY <1>2 DEF PscReset, PscSs1, PscRichError
<1>3. CASE Undamaged
  <2>1. OnAir /\ Decoded /\ hurt' = hurt /\ damage' = damage
        /\ Receive(TchAt(plan, run, frame))
    BY <1>3 DEF Undamaged
  <2>2. CASE plan[run].m = "SS1"
    BY <1>2, <2>1, <2>2, NothingDecoded DEF Receive, WholeStep
  <2>3. CASE plan[run].m # "SS1"
    BY <1>1, <2>1, <2>3 DEF Receive, WholeStep
  <2> QED BY <2>2, <2>3
<1>4. ASSUME NEW kind, Damaged(kind)
      PROVE  OnAir /\ hurt' = <<run, frame>> /\ damage \subseteq damage' /\ kind \in damage'
  BY <1>4 DEF Damaged
<1>5. CASE Gone
  BY <1>4, <1>5 DEF Gone, HurtStep, Report
<1>6. CASE Placeholder
  BY <1>2, <1>4, <1>6, NothingDecoded DEF Placeholder, HurtStep
<1>7. CASE Header
  BY <1>2, <1>4, <1>7, NothingDecoded DEF Header, HurtStep
<1>8. CASE GarbledTch
  <2>1. /\ OnAir /\ Decoded /\ hurt' = <<run, frame>> /\ damage \subseteq damage'
        /\ Receive(BlankTch)
    BY <1>4, <1>8 DEF GarbledTch
  <2>2. CASE plan[run].m = "SS1"
    BY <1>2, <2>1, <2>2, NothingDecoded DEF Receive, HurtStep
  <2>3. CASE plan[run].m # "SS1"
    BY <1>1, <2>1, <2>3 DEF Receive, HurtStep
  <2> QED BY <2>2, <2>3
<1>9. CASE Over
  BY <1>9 DEF Over
<1> QED BY <1>3, <1>5, <1>6, <1>7, <1>8, <1>9 DEF Next

\* The decoder takes a step of its own.
LEMMA StepIsDecoders ==
    ASSUME AirOK, OnAir, WholeStep \/ HurtStep
    PROVE  [PPNext]_ppvars
<1>1. TchAt(plan, run, frame) \in Tchs /\ BlankTch \in Tchs
  BY TchFacts DEF OnAir, BlankTch, Tchs, Halves
<1> QED BY <1>1 DEF WholeStep, HurtStep, PPNext

\* What a frame does when it comes in.
LEMMA FrameStep ==
    ASSUME NEW m \in MFields, NEW tch, PscFrame(m, tch)
    PROVE  /\ ~l2_panic
           /\ psc_m \in Layer2 =>
                LET l2 == ProcLayer2(l2block, psc_tch, tch, psc_m)
                IN /\ tch_record'.message = l2.message
                   /\ l2_panic' = l2.panic
                   /\ m \in Layer2 => psc_m' = m /\ psc_tch' = tch /\ l2block' = l2.block
                   /\ m \notin Layer2 =>
                        /\ psc_m' = "IDLE"
                        /\ ~l2.panic => l2block' = InitBlock(l2.block)
           /\ psc_m \notin Layer2 =>
                /\ tch_record'.message = <<>>
                /\ l2_panic' = FALSE
                /\ m \in Layer2 \cup {"VOICE"} => psc_m' = m /\ psc_tch' = tch /\ l2block' = l2block
                /\ m \notin Layer2 \cup {"VOICE"} => psc_m' = "IDLE" /\ l2block' = InitBlock(l2block)
           /\ IF m = "VOICE" /\ psc_m = "VOICE" THEN tch_record'.voice \in ProcVoice(psc_tch, tch)
              ELSE tch_record'.voice = <<>>
<1>1. "VOICE" \notin Layer2 /\ "IDLE" \notin Layer2 \cup {"VOICE"}
  BY DEF Layer2
<1>2. ~l2_panic
  BY DEF PscFrame
<1>3. CASE psc_m \in Layer2
  <2> DEFINE l2 == ProcLayer2(l2block, psc_tch, tch, psc_m)
  <2> HIDE DEF l2
  <2>1. CASE m \in Layer2
    BY <1>1, <1>2, <1>3, <2>1 DEF PscFrame, Effective, l2
  <2>2. CASE m \notin Layer2
    BY <1>1, <1>2, <1>3, <2>2 DEF PscFrame, Effective, l2
  <2> QED BY <2>1, <2>2 DEF l2
<1>4. CASE psc_m \notin Layer2
  <2> DEFINE l2 == Undisturbed(l2block)
             begins == m \in Layer2 \cup {"VOICE"}
  <2>1. l2.block = l2block /\ l2.message = <<>> /\ l2.panic = FALSE
    BY DEF Undisturbed
  <2>2. Effective(m) = m
    BY <1>4 DEF Effective
  <2> HIDE DEF l2, begins
  <2>3. /\ l2_panic' = l2.panic
        /\ \E v \in IF m = "VOICE" /\ psc_m = "VOICE" THEN ProcVoice(psc_tch, tch) ELSE {<<>>} :
             tch_record' = [unit |-> l2.unit, message |-> l2.message, voice |-> v]
        /\ psc_m' = IF begins THEN m ELSE "IDLE"
        /\ psc_tch' = IF begins THEN tch ELSE psc_tch
        /\ l2block' = IF begins \/ l2.panic THEN l2.block ELSE InitBlock(l2.block)
    BY <1>4, <2>2 DEF PscFrame, l2, begins
  <2>4. /\ tch_record'.message = <<>>
        /\ IF m = "VOICE" /\ psc_m = "VOICE" THEN tch_record'.voice \in ProcVoice(psc_tch, tch)
           ELSE tch_record'.voice = <<>>
    <3>1. PICK v \in IF m = "VOICE" /\ psc_m = "VOICE" THEN ProcVoice(psc_tch, tch) ELSE {<<>>} :
             tch_record' = [unit |-> l2.unit, message |-> l2.message, voice |-> v]
      BY <2>3
    <3> QED BY <2>1, <3>1
  <2>5. CASE begins
    BY <1>2, <1>4, <2>1, <2>3, <2>4, <2>5 DEF begins
  <2>6. CASE ~begins
    BY <1>2, <1>4, <2>1, <2>3, <2>4, <2>6 DEF begins
  <2> QED BY <2>5, <2>6
<1> QED BY <1>3, <1>4

\* What is reported in a step, if anything, is what the frame before began.
LEMMA ReportsGrow ==
    ASSUME AirOK, PPInv, HeardOK, OnAir, WholeStep \/ HurtStep
    PROVE  /\ \/ heard' = heard
              \/ /\ RunBefore # 0
                 /\ \E rep \in Reports : /\ heard' = heard \o <<rep>>
                                         /\ LastPiece(rep) = <<RunBefore, PlaceBefore>>
           /\ \/ voice_heard' = voice_heard
              \/ /\ RunBefore # 0
                 /\ \E rep \in VoiceReports :
                      /\ voice_heard' = voice_heard \o <<rep>>
                      /\ VoicePlace(rep) = <<RunBefore, PlaceBefore>>
<1>1. CASE Report
  BY <1>1 DEF Report
<1>2. ASSUME NEW tch \in {TchAt(plan, run, frame), BlankTch}, plan[run].m \in MFields,
             PscFrame(plan[run].m, tch), Decoded
      PROVE  /\ \/ heard' = heard
                \/ /\ RunBefore # 0
                   /\ \E rep \in Reports : /\ heard' = heard \o <<rep>>
                                           /\ LastPiece(rep) = <<RunBefore, PlaceBefore>>
             /\ \/ voice_heard' = voice_heard
                \/ /\ RunBefore # 0
                   /\ \E rep \in VoiceReports :
                        /\ voice_heard' = voice_heard \o <<rep>>
                        /\ VoicePlace(rep) = <<RunBefore, PlaceBefore>>
  <2>1. /\ Sending /\ l2block \in Blocks
        /\ psc_m \in Layer2 => psc_m \in MFields
        /\ heard' = heard \o tch_record'.message
        /\ voice_heard' = voice_heard \o Confirmed(tch_record'.voice)
        /\ heard \o <<>> = heard /\ voice_heard \o <<>> = voice_heard
    BY <1>2, ConcatEmptySeq
    DEF OnAir, PPInv, PPTypeOK, Layer2, MFields, Decoded, HeardOK
  <2>2. \/ tch_record'.message = <<>>
        \/ /\ RunBefore # 0
           /\ \E rep \in Reports : /\ tch_record'.message = <<rep>>
                                   /\ LastPiece(rep) = <<RunBefore, PlaceBefore>>
    <3>1. CASE psc_m \in Layer2
      <4>1. tch_record'.message = ProcLayer2(l2block, psc_tch, tch, psc_m).message
        BY <1>2, <3>1, FrameStep
      <4> QED BY <2>1, <3>1, <4>1, MessageReported
    <3>2. CASE psc_m \notin Layer2
      BY <1>2, <3>2, FrameStep
    <3> QED BY <3>1, <3>2
  <2>3. \/ Confirmed(tch_record'.voice) = <<>>
        \/ /\ RunBefore # 0
           /\ [run |-> RunBefore, frame |-> PlaceBefore] \in Voices
           /\ Confirmed(tch_record'.voice)
                = <<[celp |-> [run |-> RunBefore, frame |-> PlaceBefore], hash_ok |-> TRUE]>>
    <3>1. CASE tch_record'.voice \in ProcVoice(psc_tch, tch)
      BY <2>1, <3>1, VoiceReported
    <3>2. CASE tch_record'.voice = <<>>
      BY <3>2 DEF Confirmed
    <3> QED BY <1>2, <3>1, <3>2, FrameStep
  <2>4. ASSUME [run |-> RunBefore, frame |-> PlaceBefore] \in Voices
        PROVE  LET rep == [celp |-> [run |-> RunBefore, frame |-> PlaceBefore], hash_ok |-> TRUE]
               IN rep \in VoiceReports /\ VoicePlace(rep) = <<RunBefore, PlaceBefore>>
    BY <2>4 DEF VoiceReports, VoicePlace
  <2> QED BY <2>1, <2>2, <2>3, <2>4
<1> QED BY <1>1, <1>2 DEF WholeStep, HurtStep, Report

\* A report more.
LEMMA OneMore ==
    ASSUME NEW S, NEW s \in Seq(S), NEW x \in S
    PROVE  /\ s \o <<x>> \in Seq(S)
           /\ Len(s \o <<x>>) = Len(s) + 1
           /\ \A k \in 1 .. Len(s) : (s \o <<x>>)[k] = s[k]
           /\ (s \o <<x>>)[Len(s) + 1] = x
<1>1. <<x>> \in Seq(S) /\ Len(<<x>>) = 1 /\ <<x>>[1] = x /\ Len(s) \in Nat
  OBVIOUS
<1> QED BY <1>1, ConcatProperties

-----------------------------------------------------------------------------
(* What is reported keeps the order it was sent in. *)

LEMMA HurtStays ==
    ASSUME AirOK, HurtOK, OnAir, WholeStep \/ HurtStep
    PROVE  HurtOK'
<1>1. /\ run \in Nat /\ frame \in Nat \ {0}
      /\ \A i, k \in Nat : k >= 1 /\ (i = run => k <= plan[run].n) =>
                (Earlier(<<i, k>>, <<run', frame'>>)
                   <=> Earlier(<<i, k>>, <<run, frame>>) \/ (i = run /\ k = frame))
  BY OnAirMoves DEF AirOK
<1>2. run' \in Nat /\ frame' \in Nat
  BY OnAirMoves DEF AirOK
<1>3. Earlier(<<run, frame>>, <<run', frame'>>)
  BY <1>1, OnAirMoves
<1>4. CASE hurt' = hurt
  BY <1>1, <1>2, <1>3, <1>4 DEF HurtOK, Earlier
<1>5. CASE hurt' = <<run, frame>>
  BY <1>1, <1>3, <1>5 DEF HurtOK, Earlier
<1> QED BY <1>4, <1>5 DEF WholeStep, HurtStep

LEMMA ReportsStayInOrder ==
    ASSUME AirOK, PPInv, HeardOK, ReportsInOrder, OnAir, WholeStep \/ HurtStep
    PROVE  HeardOK' /\ ReportsInOrder'
<1> DEFINE b == <<RunBefore, PlaceBefore>>
           c == <<run, frame>>
<1>1. /\ RunBefore' = run /\ PlaceBefore' = frame
      /\ b[1] = RunBefore /\ b[2] = PlaceBefore /\ c[1] = run /\ c[2] = frame
      /\ b \in Nat \X Nat /\ c \in Nat \X Nat
      /\ Earlier(b, c)
  BY OnAirMoves, BeforeFacts DEF AirOK, Earlier
<1>2. \A a \in Nat \X Nat : Earlier(a, b) => Earlier(a, c)
  BY <1>1 DEF Earlier
<1>3. b = <<RunBefore, PlaceBefore>> /\ c = <<RunBefore', PlaceBefore'>>
  BY <1>1
<1> HIDE DEF b, c
<1>4. /\ heard' \in Seq(Reports)
      /\ \A k \in DOMAIN heard' : LastPiece(heard'[k]) \in Nat \X Nat /\ Earlier(LastPiece(heard'[k]), c)
      /\ \A j, k \in DOMAIN heard' : j < k => Earlier(LastPiece(heard'[j]), LastPiece(heard'[k]))
  <2>0. /\ heard \in Seq(Reports)
        /\ \A k \in DOMAIN heard : LastPiece(heard[k]) \in Nat \X Nat /\ Earlier(LastPiece(heard[k]), b)
        /\ \A j, k \in DOMAIN heard : j < k => Earlier(LastPiece(heard[j]), LastPiece(heard[k]))
    BY <1>3 DEF HeardOK, ReportsInOrder
  <2>1. CASE heard' = heard
    BY <1>2, <2>0, <2>1
  <2>2. CASE heard' # heard
    <3>1. PICK rep \in Reports : heard' = heard \o <<rep>> /\ LastPiece(rep) = b
      BY <1>3, <2>2, ReportsGrow
    <3>2. /\ heard' \in Seq(Reports) /\ Len(heard) \in Nat
          /\ DOMAIN heard = 1 .. Len(heard) /\ DOMAIN heard' = 1 .. (Len(heard) + 1)
          /\ \A k \in 1 .. Len(heard) : heard'[k] = heard[k]
          /\ heard'[Len(heard) + 1] = rep
      BY <2>0, <3>1, OneMore
    <3>3. \A k \in 1 .. (Len(heard) + 1) : k \in 1 .. Len(heard) \/ k = Len(heard) + 1
      BY <3>2
    <3>4. \A k \in DOMAIN heard' : LastPiece(heard'[k]) \in Nat \X Nat /\ Earlier(LastPiece(heard'[k]), c)
      BY <1>1, <1>2, <2>0, <3>1, <3>2, <3>3
    <3>5. ASSUME NEW j \in DOMAIN heard', NEW k \in DOMAIN heard', j < k
          PROVE  Earlier(LastPiece(heard'[j]), LastPiece(heard'[k]))
      <4>1. j \in 1 .. Len(heard) /\ heard'[j] = heard[j]
        BY <3>2, <3>5
      <4>2. CASE k = Len(heard) + 1
        BY <2>0, <3>1, <3>2, <4>1, <4>2
      <4>3. CASE k \in 1 .. Len(heard)
        BY <2>0, <3>2, <3>5, <4>1, <4>3
      <4> QED BY <3>2, <3>3, <4>2, <4>3
    <3> QED BY <3>2, <3>4, <3>5
  <2> QED BY <2>1, <2>2
<1>5. /\ voice_heard' \in Seq(VoiceReports)
      /\ \A k \in DOMAIN voice_heard' : /\ VoicePlace(voice_heard'[k]) \in Nat \X Nat
                                       /\ Earlier(VoicePlace(voice_heard'[k]), c)
      /\ \A j, k \in DOMAIN voice_heard' : j < k =>
            Earlier(VoicePlace(voice_heard'[j]), VoicePlace(voice_heard'[k]))
  <2>0. /\ voice_heard \in Seq(VoiceReports)
        /\ \A k \in DOMAIN voice_heard : /\ VoicePlace(voice_heard[k]) \in Nat \X Nat
                                        /\ Earlier(VoicePlace(voice_heard[k]), b)
        /\ \A j, k \in DOMAIN voice_heard : j < k =>
              Earlier(VoicePlace(voice_heard[j]), VoicePlace(voice_heard[k]))
    BY <1>3 DEF HeardOK, ReportsInOrder
  <2>1. CASE voice_heard' = voice_heard
    BY <1>2, <2>0, <2>1
  <2>2. CASE voice_heard' # voice_heard
    <3>1. PICK rep \in VoiceReports : voice_heard' = voice_heard \o <<rep>> /\ VoicePlace(rep) = b
      BY <1>3, <2>2, ReportsGrow
    <3>2. /\ voice_heard' \in Seq(VoiceReports) /\ Len(voice_heard) \in Nat
          /\ DOMAIN voice_heard = 1 .. Len(voice_heard)
          /\ DOMAIN voice_heard' = 1 .. (Len(voice_heard) + 1)
          /\ \A k \in 1 .. Len(voice_heard) : voice_heard'[k] = voice_heard[k]
          /\ voice_heard'[Len(voice_heard) + 1] = rep
      BY <2>0, <3>1, OneMore
    <3>3. \A k \in 1 .. (Len(voice_heard) + 1) :
             k \in 1 .. Len(voice_heard) \/ k = Len(voice_heard) + 1
      BY <3>2
    <3>4. \A k \in DOMAIN voice_heard' : /\ VoicePlace(voice_heard'[k]) \in Nat \X Nat
                                        /\ Earlier(VoicePlace(voice_heard'[k]), c)
      BY <1>1, <1>2, <2>0, <3>1, <3>2, <3>3
    <3>5. ASSUME NEW j \in DOMAIN voice_heard', NEW k \in DOMAIN voice_heard', j < k
          PROVE  Earlier(VoicePlace(voice_heard'[j]), VoicePlace(voice_heard'[k]))
      <4>1. j \in 1 .. Len(voice_heard) /\ voice_heard'[j] = voice_heard[j]
        BY <3>2, <3>5
      <4>2. CASE k = Len(voice_heard) + 1
        BY <2>0, <3>1, <3>2, <4>1, <4>2
      <4>3. CASE k \in 1 .. Len(voice_heard)
        BY <2>0, <3>2, <3>5, <4>1, <4>3
      <4> QED BY <3>2, <3>3, <4>2, <4>3
    <3> QED BY <3>2, <3>4, <3>5
  <2> QED BY <2>1, <2>2
<1> QED BY <1>3, <1>4, <1>5 DEF HeardOK, ReportsInOrder

-----------------------------------------------------------------------------
(* What is kept of the frame before. *)

LEMMA KeptHalfStays ==
    ASSUME AirOK, KeptHalf, OnAir, WholeStep \/ HurtStep
    PROVE  KeptHalf'
<1>1. plan' = plan /\ run \in 1 .. Len(plan) /\ frame \in 1 .. plan[run].n /\ Sending
  BY OnAirMoves DEF OnAir
<1>2. CASE UNCHANGED ppvars
  BY <1>1, <1>2 DEF KeptHalf, ppvars
<1>3. CASE psc_m' = "IDLE"
  BY <1>3 DEF KeptHalf, Layer2
<1>4. ASSUME NEW tch \in {TchAt(plan, run, frame), BlankTch}, plan[run].m \in MFields,
             PscFrame(plan[run].m, tch)
      PROVE  KeptHalf'
  <2>1. CASE plan[run].m \in Layer2
    <3>1. psc_m' = plan[run].m /\ psc_tch' = tch
      BY <1>4, <2>1, FrameStep
    <3>2. tch.begins = Nothing \/ tch.begins = UnitOf(run, plan[run].n, frame)
      BY <1>1, <2>1, TchFacts DEF BlankTch
    <3> QED BY <1>1, <3>1, <3>2 DEF KeptHalf
  <2>2. CASE plan[run].m \notin Layer2
    <3>1. psc_m' = "IDLE" \/ psc_m' = plan[run].m
      BY <1>4, <2>2, FrameStep
    <3> QED BY <2>2, <3>1 DEF KeptHalf, Layer2
  <2> QED BY <2>1, <2>2
<1>5. PscReset \/ PscSs1 \/ PscRichError => psc_m' = "IDLE"
  BY DEF PscReset, PscSs1, PscRichError
<1> QED BY <1>2, <1>3, <1>4, <1>5 DEF WholeStep, HurtStep

\* Two Layer-2 halves are a unit of the kind it is reported as.
LEMMA KindKept ==
    ASSUME AirOK, KeptHalf, Sending, psc_m \in Layer2, NEW tch,
           tch \in {TchAt(plan, run, frame), BlankTch}, Paired(psc_tch, tch) # {}
    PROVE  psc_m = plan[RunBefore].m
<1>1. psc_tch.begins = UnitOf(RunBefore, plan[RunBefore].n, PlaceBefore) /\ psc_tch.begins # Nothing
  BY HalvesMeet, ThingsAssumption
<1>2. PICK j \in 1 .. Len(plan) : \E l \in 1 .. plan[j].n :
         plan[j].m = psc_m /\ psc_tch.begins = UnitOf(j, plan[j].n, l)
  BY <1>1 DEF KeptHalf
<1>3. PICK l \in 1 .. plan[j].n : plan[j].m = psc_m /\ psc_tch.begins = UnitOf(j, plan[j].n, l)
  BY <1>2
<1>4. /\ UnitOf(j, plan[j].n, l).piece = <<j, l>>
      /\ UnitOf(RunBefore, plan[RunBefore].n, PlaceBefore).piece = <<RunBefore, PlaceBefore>>
  BY UnitFields
<1>5. <<j, l>> = <<RunBefore, PlaceBefore>>
  BY <1>1, <1>3, <1>4
<1> QED BY <1>3, <1>5

\* As long as no header is lost, two Layer-2 halves never stop the program; they leave no
\* message under way, or the one whose first units are in place; they report what was sent.
LEMMA HalvesTaken ==
    ASSUME AirOK, PPTypeOK, KeptHalf, KeptMessage, Sending, psc_m \in Layer2, NEW tch,
           tch \in {TchAt(plan, run, frame), BlankTch}, NEW r,
           r = ProcLayer2(l2block, psc_tch, tch, psc_m)
    PROVE  /\ r.panic = FALSE
           /\ \/ r.message = <<>>
              \/ /\ RunBefore \in 1 .. Len(plan) /\ plan[RunBefore].m \in Layer2
                 /\ r.message = <<Sent(plan, RunBefore)>>
           /\ frame # 1 /\ r.block.count # 0 => InProgress(r.block, plan, run, frame - 1)
<1>1. plan \in Plans /\ l2block \in Blocks /\ plan[run].n \in Nat /\ frame \in 1 .. plan[run].n
  BY PlanFacts DEF AirOK, PPTypeOK, Sending
<1>2. CASE Paired(psc_tch, tch) = {}
  <2>1. r.panic = FALSE /\ r.message = <<>> /\ r.block = InitBlock(l2block)
    BY <1>2 DEF ProcLayer2, Layer2Failed
  <2>2. InitBlock(l2block).count = 0
    BY <1>1 DEF InitBlock, Blocks
  <2> QED BY <2>1, <2>2
<1>3. CASE Paired(psc_tch, tch) # {}
  <2> DEFINE n == plan[RunBefore].n
             u == UnitOf(RunBefore, n, PlaceBefore)
  <2>1. /\ RunBefore \in 1 .. Len(plan) /\ PlaceBefore \in 1 .. n
        /\ plan[RunBefore].m \in Layer2 /\ psc_tch.begins = u
        /\ psc_m = plan[RunBefore].m
    BY <1>3, HalvesMeet, KindKept
  <2>2. n \in Nat \ {0} /\ frame \in Nat
    BY <1>1, <2>1, PlanFacts
  <2>3. frame # 1 => RunBefore = run /\ PlaceBefore = frame - 1 /\ frame <= n
    BY <1>1, <2>2, BeforeFacts
  <2>4. r = IF u.first /\ u.last THEN Layer2Single(l2block, u)
            ELSE Layer2Fragment(l2block, u, psc_m)
    BY <1>3, <2>1 DEF ProcLayer2
  <2>5. CASE n = 1
    <3>1. PlaceBefore = 1 /\ u.first /\ u.last
      BY <2>1, <2>5, UnitFields
    <3>2. r = Layer2Single(l2block, UnitOf(RunBefore, 1, 1))
      BY <2>4, <2>5, <3>1
    <3>3. r.message = <<Sent(plan, RunBefore)>>
      BY <1>1, <2>1, <2>5, <3>2, SingleIsSent
    <3>4. frame = 1
      BY <1>1, <2>2, <2>3, <2>5
    <3> QED BY <2>1, <3>2, <3>3, <3>4 DEF Layer2Single
  <2>6. CASE n # 1
    <3>1. ~(u.first /\ u.last)
      BY <2>6, UnitFields
    <3>2. r = Layer2Fragment(l2block, u, plan[RunBefore].m)
      BY <2>1, <2>4, <3>1
    <3>3. CASE PlaceBefore # 1 /\ l2block.count = 0
      <4>1. PICK w \in Fragments : w = u
        BY <1>3, <2>1, HalvesMeet
      <4>2. ~w.first
        BY <3>3, <4>1, UnitFields
      <4>3. r = Layer2Fragment(l2block, w, plan[RunBefore].m)
        BY <3>2, <4>1
      <4> HIDE DEF u
      <4>4. r.panic = FALSE /\ r.block = l2block /\ r.message = <<>>
        BY <3>3, <4>2, <4>3 DEF Layer2Fragment, Misplaced, Assemble
      <4> QED BY <3>3, <4>4
    <3>4. CASE PlaceBefore = 1 \/ l2block.count # 0
      <4>1. PlaceBefore = 1 \/ InProgress(l2block, plan, RunBefore, PlaceBefore - 1)
        BY <2>1, <3>4 DEF KeptMessage
      <4> DEFINE f == Layer2Fragment(l2block, u, plan[RunBefore].m)
      <4>2. /\ f.panic = FALSE
            /\ InProgress(f.block, plan, RunBefore, PlaceBefore)
            /\ f.message = IF PlaceBefore = n THEN <<Sent(plan, RunBefore)>> ELSE <<>>
        BY <1>1, <2>1, <2>6, <4>1, UnitGoesOn
      <4>3. f.message = <<>> \/ f.message = <<Sent(plan, RunBefore)>>
        BY <4>2
      <4>4. r = f
        BY <3>2
      <4> HIDE DEF f
      <4> QED BY <2>1, <2>3, <4>2, <4>3, <4>4
    <3> QED BY <3>3, <3>4
  <2> QED BY <2>5, <2>6
<1> QED BY <1>2, <1>3

LEMMA SentType ==
    ASSUME NEW p \in Plans, NEW i \in 1 .. Len(p), p[i].m \in Layer2
    PROVE  /\ Sent(p, i) \in Reports
           /\ LastPiece(Sent(p, i)) = <<i, p[i].n>>
           /\ Sent(p, i).pieces[1] = <<i, 1>>
<1> DEFINE n == p[i].n
           sent == [k \in 1 .. n |-> <<i, k>>]
           len == (n - 1) * CellLen + LastLen
<1>1. /\ n \in Nat \ {0} /\ CellLen \in Nat /\ LastLen \in Nat
      /\ \A k \in 1 .. n : <<i, k>> \in Pieces \cup {Zeroes}
  BY PlanFacts, PlansAssumption, BlockAssumption
<1> HIDE DEF n
<1>2. sent \in Seq(Pieces \cup {Zeroes}) /\ Len(sent) = n /\ sent[n] = <<i, n>> /\ sent[1] = <<i, 1>>
  <2>1. sent \in Seq(Pieces \cup {Zeroes}) /\ Len(sent) = n
    BY <1>1
  <2>2. n \in 1 .. n /\ 1 \in 1 .. n
    BY <1>1
  <2>3. sent[n] = <<i, n>> /\ sent[1] = <<i, 1>>
    BY <2>2
  <2> QED BY <2>1, <2>3
<1>3. len \in Nat
  <2>1. n - 1 \in Nat /\ (n - 1) * CellLen \in Nat
    BY <1>1
  <2> QED BY <1>1, <2>1
<1>4. Sent(p, i) = [ty |-> IF n = 1 THEN "ACCH" ELSE p[i].m, pieces |-> sent, len |-> len]
  BY DEF Sent, n
<1>5. p[i].m \in MFields
  BY DEF Layer2, MFields
<1> HIDE DEF sent, len
<1>6. Sent(p, i).pieces = sent
  BY <1>4
<1>7. Sent(p, i) \in Reports
  <2>1. (IF n = 1 THEN "ACCH" ELSE p[i].m) \in MFields \cup {"ACCH"}
    BY <1>5
  <2> QED BY <1>2, <1>3, <1>4, <2>1 DEF Reports
<1> QED BY <1>2, <1>6, <1>7 DEF LastPiece, n

-----------------------------------------------------------------------------
(* As long as no header is lost. *)

LEMMA HeadersKeptStays ==
    ASSUME AirOK, PPTypeOK, HeardOK, KeptHalf, HeadersKept, OnAir, WholeStep \/ HurtStep
    PROVE  HeadersKept'
<1> SUFFICES ASSUME "header" \notin damage'
             PROVE  /\ ~l2_panic' /\ (psc_m' \notin Layer2 => l2block'.count = 0)
                    /\ KeptMessage' /\ HeardGenuine'
  BY DEF HeadersKept
<1>1. /\ ~l2_panic /\ (psc_m \notin Layer2 => l2block.count = 0)
      /\ KeptMessage /\ HeardGenuine
  BY DEF HeadersKept, WholeStep, HurtStep
<1>2. /\ plan' = plan /\ plan \in Plans /\ run \in 1 .. Len(plan) /\ frame \in 1 .. plan[run].n
      /\ Sending /\ l2block \in Blocks /\ "IDLE" \notin Layer2 /\ "VOICE" \notin Layer2
  BY OnAirMoves DEF AirOK, OnAir, PPTypeOK, Layer2
<1>3. Report => HeardGenuine'
  BY <1>1, <1>2 DEF Report, HeardGenuine
<1>4. \A b \in Blocks : InitBlock(b).count = 0
  BY DEF InitBlock, Blocks
<1>5. CASE UNCHANGED ppvars /\ Report
  BY <1>1, <1>2, <1>3, <1>5 DEF ppvars, KeptMessage
<1>6. CASE (PscReset \/ PscSs1) /\ Report
  <2>1. l2_panic' = l2_panic /\ psc_m' = "IDLE" /\ l2block' = InitBlock(l2block)
    BY <1>6 DEF PscReset, PscSs1
  <2> QED BY <1>1, <1>2, <1>3, <1>4, <1>6, <2>1 DEF KeptMessage
<1>7. ASSUME NEW tch \in {TchAt(plan, run, frame), BlankTch}, plan[run].m \in MFields,
             PscFrame(plan[run].m, tch), Decoded
      PROVE  /\ ~l2_panic' /\ (psc_m' \notin Layer2 => l2block'.count = 0)
             /\ KeptMessage' /\ HeardGenuine'
  <2> DEFINE m == plan[run].m
             l2 == ProcLayer2(l2block, psc_tch, tch, psc_m)
  <2>1. heard \in Seq(Reports) /\ heard' = heard \o tch_record'.message /\ heard \o <<>> = heard
    BY <1>7, ConcatEmptySeq DEF HeardOK, Decoded
  <2>2. heard' = heard => HeardGenuine'
    BY <1>1, <1>2 DEF HeardGenuine
  <2>3. CASE psc_m \notin Layer2
    <3>1. /\ heard' = heard /\ ~l2_panic'
          /\ psc_m' \in Layer2 => l2block' = l2block
          /\ psc_m' \notin Layer2 => l2block' = l2block \/ l2block' = InitBlock(l2block)
      BY <1>2, <1>7, <2>1, <2>3, FrameStep
    <3>2. l2block'.count = 0
      BY <1>1, <1>2, <1>4, <2>3, <3>1
    <3> QED BY <2>2, <3>1, <3>2 DEF KeptMessage
  <2>4. CASE psc_m \in Layer2
    <3>1. /\ l2.panic = FALSE
          /\ \/ l2.message = <<>>
             \/ /\ RunBefore \in 1 .. Len(plan) /\ plan[RunBefore].m \in Layer2
                /\ l2.message = <<Sent(plan, RunBefore)>>
          /\ frame # 1 /\ l2.block.count # 0 => InProgress(l2.block, plan, run, frame - 1)
      BY <1>1, <1>2, <2>4, HalvesTaken
    <3>2. l2.block \in Blocks
      <4>1. psc_tch \in Tchs /\ tch \in Tchs
        BY <1>2, TchFacts DEF PPTypeOK, BlankTch, Tchs, Halves
      <4> QED BY <1>2, <4>1, ProcLayer2Type
    <3> HIDE DEF l2
    <3>3. /\ tch_record'.message = l2.message /\ l2_panic' = l2.panic
          /\ m \in Layer2 => psc_m' = m /\ psc_tch' = tch /\ l2block' = l2.block
          /\ m \notin Layer2 => psc_m' = "IDLE" /\ (~l2.panic => l2block' = InitBlock(l2.block))
      BY <1>7, <2>4, FrameStep DEF l2
    <3>4. HeardGenuine'
      <4>1. CASE l2.message = <<>>
        BY <2>1, <2>2, <3>3, <4>1
      <4>2. CASE l2.message # <<>>
        <5> DEFINE s == Sent(plan, RunBefore)
        <5>1. RunBefore \in 1 .. Len(plan) /\ plan[RunBefore].m \in Layer2 /\ heard' = heard \o <<s>>
          BY <2>1, <3>1, <3>3, <4>2
        <5>2. s \in Reports
          BY <1>2, <5>1, SentType
        <5> HIDE DEF s
        <5>3. /\ DOMAIN heard = 1 .. Len(heard) /\ DOMAIN heard' = 1 .. (Len(heard) + 1)
              /\ Len(heard) \in Nat
              /\ \A k \in 1 .. Len(heard) : heard'[k] = heard[k]
              /\ heard'[Len(heard) + 1] = s
          BY <2>1, <5>1, <5>2, OneMore
        <5>4. \A k \in DOMAIN heard' : k \in DOMAIN heard \/ k = Len(heard) + 1
          BY <5>3
        <5>5. \A k \in DOMAIN heard' : \E i \in 1 .. Len(plan) :
                 plan[i].m \in Layer2 /\ heard'[k] = Sent(plan, i)
          <6>1. ASSUME NEW k \in DOMAIN heard' PROVE \E i \in 1 .. Len(plan) :
                 plan[i].m \in Layer2 /\ heard'[k] = Sent(plan, i)
            <7>1. CASE k \in DOMAIN heard
              BY <1>1, <5>3, <7>1 DEF HeardGenuine
            <7>2. CASE k = Len(heard) + 1
              BY <5>1, <5>3, <7>2 DEF s
            <7> QED BY <5>4, <7>1, <7>2
          <6> QED BY <6>1
        <5> QED BY <1>2, <5>5 DEF HeardGenuine
      <4> QED BY <4>1, <4>2
    <3>5. CASE m \notin Layer2
      BY <1>2, <1>4, <3>1, <3>2, <3>3, <3>4, <3>5 DEF KeptMessage
    <3>6. CASE m \in Layer2
      <4>1. KeptMessage'
        <5> SUFFICES ASSUME l2block'.count # 0, NEW j \in 1 .. Len(plan), NEW l \in 1 .. plan[j].n,
                            l # 1, plan[j].m \in Layer2,
                            psc_tch'.begins = UnitOf(j, plan[j].n, l)
                     PROVE  InProgress(l2block', plan, j, l - 1)
          BY <1>2 DEF KeptMessage
        <5>1. psc_tch' = tch /\ l2block' = l2.block
          BY <3>3, <3>6
        <5>2. tch.begins # Nothing
          <6>1. UnitOf(j, plan[j].n, l) \in Fragments
            BY <1>2, BegunFacts
          <6> QED BY <5>1, <6>1, ThingsAssumption
        <5>3. tch.begins = UnitOf(run, plan[run].n, frame)
          BY <1>2, <3>6, <5>2, TchFacts DEF BlankTch
        <5>4. /\ UnitOf(run, plan[run].n, frame).piece = <<run, frame>>
              /\ UnitOf(j, plan[j].n, l).piece = <<j, l>>
          BY UnitFields
        <5>5. j = run /\ l = frame
          BY <5>1, <5>3, <5>4
        <5> QED BY <3>1, <5>1, <5>5
      <4> QED BY <3>1, <3>3, <3>4, <3>6, <4>1
    <3> QED BY <3>5, <3>6
  <2> QED BY <2>3, <2>4
<1> QED BY <1>5, <1>6, <1>7 DEF WholeStep, HurtStep

-----------------------------------------------------------------------------
(* Behind the damage. *)

LEMMA ReportsKept ==
    ASSUME AirOK, PPInv, HeardOK, OnAir, WholeStep \/ HurtStep
    PROVE  /\ \A k \in DOMAIN heard : k \in DOMAIN heard' /\ heard'[k] = heard[k]
           /\ \A k \in DOMAIN voice_heard :
                 k \in DOMAIN voice_heard' /\ voice_heard'[k] = voice_heard[k]
<1>1. \A k \in DOMAIN heard : k \in DOMAIN heard' /\ heard'[k] = heard[k]
  <2>1. CASE heard' # heard
    <3>1. PICK rep \in Reports : heard' = heard \o <<rep>>
      BY <2>1, ReportsGrow
    <3>2. /\ heard \in Seq(Reports) /\ Len(heard) \in Nat
          /\ Len(heard') = Len(heard) + 1 /\ heard' \in Seq(Reports)
          /\ \A k \in 1 .. Len(heard) : heard'[k] = heard[k]
      BY <3>1, OneMore DEF HeardOK
    <3> QED BY <3>2
  <2> QED BY <2>1
<1>2. \A k \in DOMAIN voice_heard : k \in DOMAIN voice_heard' /\ voice_heard'[k] = voice_heard[k]
  <2>1. CASE voice_heard' # voice_heard
    <3>1. PICK rep \in VoiceReports : voice_heard' = voice_heard \o <<rep>>
      BY <2>1, ReportsGrow
    <3>2. /\ voice_heard \in Seq(VoiceReports) /\ Len(voice_heard) \in Nat
          /\ Len(voice_heard') = Len(voice_heard) + 1 /\ voice_heard' \in Seq(VoiceReports)
          /\ \A k \in 1 .. Len(voice_heard) : voice_heard'[k] = voice_heard[k]
      BY <3>1, OneMore DEF HeardOK
    <3> QED BY <3>2
  <2> QED BY <2>1
<1> QED BY <1>1, <1>2

\* The frame before an earlier frame is earlier too.
LEMMA BeforeIsEarlier ==
    ASSUME NEW p \in Plans, NEW i \in 1 .. Len(p), NEW k \in Nat \ {0}
    PROVE  FrameBefore(p, i, k)[1] < i \/ (FrameBefore(p, i, k)[1] = i /\ FrameBefore(p, i, k)[2] < k)
<1>1. Len(p) \in Nat
  BY PlanFacts
<1> QED BY <1>1 DEF FrameBefore

\* A damaged frame leaves nothing behind it to be followed yet.
LEMMA HurtFollowed ==
    ASSUME AirOK, PPInv, HeardOK, OnAir, HurtStep
    PROVE  Followed'
<1>1. /\ hurt' = <<run, frame>> /\ hurt'[1] = run /\ hurt'[2] = frame
      /\ RunBefore' = run /\ PlaceBefore' = frame
      /\ plan' = plan /\ plan \in Plans /\ DOMAIN plan = 1 .. Len(plan) /\ Len(plan) \in Nat
      /\ run \in 1 .. Len(plan) /\ frame \in Nat \ {0} /\ plan[run].n \in Nat
      /\ \A i, k \in Nat : k >= 1 /\ (i = run => k <= plan[run].n) =>
                (Earlier(<<i, k>>, <<run', frame'>>)
                   <=> Earlier(<<i, k>>, <<run, frame>>) \/ (i = run /\ k = frame))
  BY OnAirMoves, PlanFacts DEF HurtStep, AirOK
<1>2. MessageFollowed'
  BY <1>1 DEF MessageFollowed
<1>3. LayerLeft'
  BY <1>1 DEF LayerLeft, Earlier
<1>4. VoiceFollowed'
  <2>1. ~Earlier(hurt', FrameBefore(plan, run, frame))
    BY <1>1, BeforeIsEarlier, BeforeFacts DEF Earlier, RunBefore, PlaceBefore
  <2> QED BY <1>1, <2>1 DEF VoiceFollowed
<1>5. MessagesResynchronised'
  <2>1. ASSUME NEW i \in 1 .. Len(plan), run < i, Earlier(<<i + 1, 1>>, <<run', frame'>>)
        PROVE  FALSE
    <3>1. Earlier(<<i + 1, 1>>, <<run, frame>>) \/ (i + 1 = run /\ 1 = frame)
      BY <1>1, <2>1
    <3> QED BY <1>1, <2>1, <3>1 DEF Earlier
  <2> QED BY <1>1, <2>1 DEF MessagesResynchronised
<1>6. VoiceResynchronised'
  <2>1. ASSUME NEW i \in 1 .. Len(plan), NEW k \in 1 .. (plan[i].n - 1),
               Earlier(hurt', FrameBefore(plan, i, k)), Earlier(<<i, k + 1>>, <<run', frame'>>)
        PROVE  FALSE
    <3>0. plan[i].n \in Nat
      BY <1>1, PlanFacts
    <3>1. Earlier(<<i, k + 1>>, <<run, frame>>) \/ (i = run /\ k + 1 = frame)
      <4>1. PICK l \in Nat : l = k + 1
        BY <3>0
      <4>2. /\ i \in Nat /\ l >= 1 /\ (i = run => l <= plan[run].n)
            /\ Earlier(<<i, l>>, <<run', frame'>>)
        BY <2>1, <3>0, <4>1
      <4>3. Earlier(<<i, l>>, <<run, frame>>) \/ (i = run /\ l = frame)
        BY <1>1, <4>2
      <4> QED BY <4>1, <4>3
    <3>2. /\ FrameBefore(plan, i, k)[1] \in Nat /\ FrameBefore(plan, i, k)[2] \in Nat
      BY <1>1, <3>0, PlanFacts DEF FrameBefore
    <3>3. FrameBefore(plan, i, k)[1] < i
          \/ (FrameBefore(plan, i, k)[1] = i /\ FrameBefore(plan, i, k)[2] < k)
      BY <1>1, <3>0, BeforeIsEarlier
    <3> QED BY <1>1, <2>1, <3>0, <3>1, <3>2, <3>3 DEF Earlier
  <2> QED BY <1>1, <2>1 DEF VoiceResynchronised
<1> QED BY <1>2, <1>3, <1>4, <1>5, <1>6 DEF Followed

\* A frame that comes whole behind the units of a message followed so far takes it on.
LEMMA MessageTaken ==
    ASSUME AirOK, PPTypeOK, MessageFollowed, Sending,
           RunBefore # 0, plan[RunBefore].m \in Layer2, hurt[1] < RunBefore, NEW r,
           r = ProcLayer2(l2block, psc_tch, TchAt(plan, run, frame), psc_m)
    PROVE  /\ psc_m = plan[RunBefore].m
           /\ plan[RunBefore].n # 1 => InProgress(r.block, plan, RunBefore, PlaceBefore)
           /\ PlaceBefore = plan[RunBefore].n => r.message = <<Sent(plan, RunBefore)>>
<1> DEFINE n == plan[RunBefore].n
           u == UnitOf(RunBefore, n, PlaceBefore)
           tch == TchAt(plan, run, frame)
<1>1. /\ plan \in Plans /\ l2block \in Blocks
      /\ RunBefore \in 1 .. Len(plan) /\ PlaceBefore \in 1 .. n
      /\ psc_m = plan[RunBefore].m /\ psc_tch.begins = u
      /\ PlaceBefore # 1 => InProgress(l2block, plan, RunBefore, PlaceBefore - 1)
  <2>1. RunBefore \in 1 .. Len(plan) /\ PlaceBefore \in Nat \ {0} /\ PlaceBefore <= n
    BY BeforeFacts
  <2> QED BY <2>1, PlanFacts DEF AirOK, PPTypeOK, MessageFollowed
<1>2. u \in Fragments /\ Begun(plan, RunBefore, PlaceBefore) = u
  BY <1>1, BegunFacts
<1>3. tch.ends = u
  BY <1>2, TchFacts DEF Layer2
<1>4. u \in Paired(psc_tch, tch)
  BY <1>1, <1>2, <1>3 DEF Paired
<1>5. r = IF u.first /\ u.last THEN Layer2Single(l2block, u)
          ELSE Layer2Fragment(l2block, u, plan[RunBefore].m)
  BY <1>1, <1>4 DEF ProcLayer2
<1>6. CASE n = 1
  <2>1. PlaceBefore = 1 /\ u.first /\ u.last
    BY <1>1, <1>6, UnitFields
  <2>2. r = Layer2Single(l2block, UnitOf(RunBefore, 1, 1))
    BY <1>5, <1>6, <2>1
  <2> QED BY <1>1, <1>6, <2>2, SingleIsSent
<1>7. CASE n # 1
  <2>1. ~(u.first /\ u.last)
    BY <1>7, UnitFields
  <2> DEFINE f == Layer2Fragment(l2block, u, plan[RunBefore].m)
  <2>2. /\ InProgress(f.block, plan, RunBefore, PlaceBefore)
        /\ f.message = IF PlaceBefore = n THEN <<Sent(plan, RunBefore)>> ELSE <<>>
    BY <1>1, <1>7, UnitGoesOn
  <2>3. r = f
    BY <1>5, <2>1
  <2>4. PlaceBefore = n => f.message = <<Sent(plan, RunBefore)>>
    BY <2>2
  <2> HIDE DEF f
  <2> QED BY <1>1, <2>2, <2>3, <2>4
<1> QED BY <1>6, <1>7

LEMMA WholeFollowed ==
    ASSUME AirOK, PPInv, HeardOK, HurtOK, Followed, OnAir, WholeStep
    PROVE  Followed'
<1> DEFINE m == plan[run].m
           tch == TchAt(plan, run, frame)
           l2 == ProcLayer2(l2block, psc_tch, tch, psc_m)
<1> HIDE DEF l2
<1>1. /\ hurt' = hurt /\ RunBefore' = run /\ PlaceBefore' = frame
      /\ plan' = plan /\ plan \in Plans /\ DOMAIN plan = 1 .. Len(plan) /\ Len(plan) \in Nat
      /\ run \in 1 .. Len(plan) /\ frame \in 1 .. plan[run].n /\ plan[run].n \in Nat
      /\ Sending
      /\ \A i, k \in Nat : k >= 1 /\ (i = run => k <= plan[run].n) =>
                (Earlier(<<i, k>>, <<run', frame'>>)
                   <=> Earlier(<<i, k>>, <<run, frame>>) \/ (i = run /\ k = frame))
  BY OnAirMoves, PlanFacts DEF WholeStep, AirOK, OnAir
<1>2. /\ MessageFollowed /\ LayerLeft /\ VoiceFollowed
      /\ MessagesResynchronised /\ VoiceResynchronised /\ PPTypeOK
  BY DEF Followed, OnAir, PPInv
<1>3. m # "SS1" => m \in MFields /\ PscFrame(m, tch) /\ Decoded
  BY DEF WholeStep
<1>4. "SS1" \notin Layer2 /\ "VOICE" \notin Layer2 /\ "IDLE" \notin Layer2
  BY DEF Layer2
<1>5. m \in Layer2 => psc_m' = m /\ psc_tch' = tch
  <2>1. CASE psc_m \in Layer2
    BY <1>3, <1>4, <2>1, FrameStep
  <2>2. CASE psc_m \notin Layer2
    BY <1>3, <1>4, <2>2, FrameStep
  <2> QED BY <2>1, <2>2
<1>6. MessageFollowed'
  <2> SUFFICES ASSUME m \in Layer2, hurt[1] < run
               PROVE  /\ psc_m' = m
                      /\ psc_tch'.begins = UnitOf(run, plan[run].n, frame)
                      /\ frame # 1 => InProgress(l2block', plan, run, frame - 1)
    BY <1>1 DEF MessageFollowed
  <2>1. tch.begins = UnitOf(run, plan[run].n, frame)
    BY <1>1, TchFacts
  <2>2. ASSUME frame # 1 PROVE InProgress(l2block', plan, run, frame - 1)
    <3>1. RunBefore = run /\ PlaceBefore = frame - 1 /\ run # 0 /\ plan[run].n # 1
      BY <1>1, <2>2, BeforeFacts
    <3>2. psc_m = m /\ InProgress(l2.block, plan, run, frame - 1)
      BY <1>1, <1>2, <3>1, MessageTaken DEF l2
    <3>3. l2block' = l2.block
      BY <1>3, <1>4, <3>2, FrameStep DEF l2
    <3> QED BY <3>2, <3>3
  <2> QED BY <1>5, <2>1, <2>2
<1>7. LayerLeft'
  <2> SUFFICES ASSUME m \notin Layer2 PROVE psc_m' \notin Layer2
    BY <1>1 DEF LayerLeft
  <2>1. CASE PscSs1
    BY <1>4, <2>1 DEF PscSs1
  <2>2. CASE m # "SS1"
    <3>1. psc_m' = "IDLE" \/ psc_m' = m
      BY <1>3, <2>2, FrameStep
    <3> QED BY <1>4, <3>1
  <2> QED BY <2>1, <2>2 DEF WholeStep, MFields
<1>8. VoiceFollowed'
  <2> SUFFICES ASSUME m = "VOICE", Earlier(hurt, FrameBefore(plan, run, frame)),
                      tch.begins # Nothing
               PROVE  psc_m' = "VOICE" /\ psc_tch'.begins = Begun(plan, run, frame)
    BY <1>1 DEF VoiceFollowed
  <2>1. ASSUME RunBefore # 0 PROVE plan[RunBefore].m \notin Layer2
    <3>1. CASE frame > 1
      BY <1>4, <3>1, BeforeFacts
    <3>2. CASE frame = 1
      <4>1. run > 1 /\ RunBefore = run - 1
        BY <1>1, <2>1, <3>2, BeforeFacts
      <4>2. ~Follows(plan, run, frame, Layer2)
        BY DEF TchAt
      <4> QED BY <3>2, <4>1, <4>2 DEF Follows
    <3> QED BY <1>1, <3>1, <3>2
  <2>2. psc_m \notin Layer2
    BY <1>2, <2>1, BeforeFacts DEF LayerLeft
  <2>3. psc_m' = "VOICE" /\ psc_tch' = tch
    BY <1>3, <2>2, FrameStep
  <2>4. tch.begins = Begun(plan, run, frame)
    BY <1>1, TchFacts
  <2> QED BY <2>3, <2>4
<1>9. MessagesResynchronised'
  <2> SUFFICES ASSUME NEW i \in 1 .. Len(plan), plan[i].m \in Layer2, hurt[1] < i,
                      Earlier(<<i + 1, 1>>, <<run', frame'>>)
               PROVE  \E k \in DOMAIN heard' : heard'[k] = Sent(plan, i)
    BY <1>1 DEF MessagesResynchronised
  <2>1. CASE Earlier(<<i + 1, 1>>, <<run, frame>>)
    <3>1. PICK k \in DOMAIN heard : heard[k] = Sent(plan, i)
      BY <1>1, <1>2, <2>1 DEF MessagesResynchronised
    <3> QED BY <3>1, ReportsKept
  <2>2. CASE i + 1 = run /\ frame = 1
    <3>1. RunBefore = i /\ PlaceBefore = plan[i].n /\ i # 0
      BY <1>1, <2>2, BeforeFacts
    <3>2. psc_m = plan[i].m /\ l2.message = <<Sent(plan, i)>>
      BY <1>1, <1>2, <3>1, MessageTaken DEF l2
    <3>3. m # "SS1"
      <4>1. i < Len(plan) => plan[i + 1].m # "SS1"
        BY <1>1, PlansAssumption
      <4> QED BY <1>1, <2>2, <4>1
    <3>4. tch_record'.message = l2.message
      BY <1>3, <3>2, <3>3, FrameStep DEF l2
    <3>5. heard' = heard \o <<Sent(plan, i)>> /\ heard \in Seq(Reports)
      BY <1>3, <3>2, <3>3, <3>4 DEF Decoded, HeardOK
    <3>6. Sent(plan, i) \in Reports
      BY <1>1, SentType
    <3> DEFINE s == Sent(plan, i)
    <3> HIDE DEF s
    <3>7. heard' = heard \o <<s>> /\ s \in Reports
      BY <3>5, <3>6 DEF s
    <3>8. heard'[Len(heard) + 1] = s /\ Len(heard) + 1 \in DOMAIN heard'
      BY <3>5, <3>7, OneMore
    <3> QED BY <3>8 DEF s
  <2>3. Earlier(<<i + 1, 1>>, <<run, frame>>) \/ (i + 1 = run /\ frame = 1)
    <3>1. PICK l \in Nat : l = i + 1
      BY <1>1
    <3>2. Earlier(<<l, 1>>, <<run, frame>>) \/ (l = run /\ 1 = frame)
      BY <1>1, <3>1
    <3> QED BY <3>1, <3>2
  <2> QED BY <2>1, <2>2, <2>3
<1>10. VoiceResynchronised'
  <2> SUFFICES ASSUME NEW i \in 1 .. Len(plan), plan[i].m = "VOICE",
                      NEW k \in 1 .. (plan[i].n - 1),
                      Earlier(hurt, FrameBefore(plan, i, k)),
                      Earlier(<<i, k + 1>>, <<run', frame'>>),
                      TchAt(plan, i, k).begins # Nothing
               PROVE  \E j \in DOMAIN voice_heard' :
                         voice_heard'[j] = [celp |-> Begun(plan, i, k), hash_ok |-> TRUE]
    BY <1>1 DEF VoiceResynchronised
  <2>0. plan[i].n \in Nat /\ k \in 1 .. plan[i].n
    BY <1>1, PlanFacts
  <2>1. CASE Earlier(<<i, k + 1>>, <<run, frame>>)
    <3>1. PICK j \in DOMAIN voice_heard :
             voice_heard[j] = [celp |-> Begun(plan, i, k), hash_ok |-> TRUE]
      BY <1>1, <1>2, <2>1 DEF VoiceResynchronised
    <3> QED BY <3>1, ReportsKept
  <2>2. CASE i = run /\ k + 1 = frame
    <3>1. RunBefore = run /\ PlaceBefore = k /\ frame > 1
      BY <1>1, <2>0, <2>2, BeforeFacts
    <3> DEFINE w == Begun(plan, i, k)
    <3>2. psc_m = "VOICE" /\ psc_tch.begins = w
      BY <1>1, <1>2, <2>2, <3>1 DEF VoiceFollowed
    <3>3. w \in Voices
      BY <1>1, <2>0, BegunFacts
    <3>4. tch.ends = w
      BY <1>1, <2>2, <3>1, TchFacts
    <3>5. tch_record'.voice \in ProcVoice(psc_tch, tch) /\ Decoded
      BY <1>3, <2>2, <3>2, FrameStep
    <3> HIDE DEF w
    <3> DEFINE s == [celp |-> w, hash_ok |-> TRUE]
    <3>6. Confirmed(tch_record'.voice) = <<s>>
      BY <3>2, <3>3, <3>4, <3>5, VoiceOut
    <3>7. s \in VoiceReports
      BY <3>3 DEF VoiceReports
    <3> HIDE DEF s
    <3>8. voice_heard' = voice_heard \o <<s>> /\ voice_heard \in Seq(VoiceReports)
      BY <3>5, <3>6 DEF Decoded, HeardOK
    <3>9. voice_heard'[Len(voice_heard) + 1] = s /\ Len(voice_heard) + 1 \in DOMAIN voice_heard'
      BY <3>7, <3>8, OneMore
    <3> QED BY <3>9 DEF s, w
  <2>3. Earlier(<<i, k + 1>>, <<run, frame>>) \/ (i = run /\ k + 1 = frame)
    <3>1. PICK l \in Nat : l = k + 1
      BY <2>0
    <3>2. /\ i \in Nat /\ l >= 1 /\ (i = run => l <= plan[run].n)
          /\ Earlier(<<i, l>>, <<run', frame'>>)
      BY <2>0, <3>1
    <3>3. Earlier(<<i, l>>, <<run, frame>>) \/ (i = run /\ l = frame)
      BY <1>1, <3>2
    <3> QED BY <3>1, <3>3
  <2> QED BY <2>1, <2>2, <2>3
<1> QED BY <1>6, <1>7, <1>8, <1>9, <1>10 DEF Followed

-----------------------------------------------------------------------------
(***************************************************************************)
(* The theorems of the channel.                                            *)
(***************************************************************************)

LEMMA AirInit == Init => AirInv
<1> SUFFICES ASSUME Init PROVE AirInv
  OBVIOUS
<1>1. /\ plan \in Plans /\ run = 1 /\ frame = 1 /\ damage = {} /\ hurt = <<0, 0>>
      /\ heard = <<>> /\ voice_heard = <<>> /\ PPInit
  BY DEF Init
<1>2. /\ Len(plan) \in Nat /\ DOMAIN plan = 1 .. Len(plan)
      /\ \A i \in 1 .. Len(plan) : plan[i].n \in Nat \ {0}
  BY <1>1, PlanFacts
<1>3. AirOK
  BY <1>1, <1>2 DEF AirOK, Sending
<1>4. RunBefore = 0 /\ PlaceBefore = 1
  BY <1>1 DEF RunBefore, PlaceBefore, FrameBefore
<1>5. /\ psc_m \notin Layer2 /\ l2_panic = FALSE /\ l2block.count = 0
  BY <1>1 DEF PPInit, Layer2, NewBlock
<1>6. PPInv
  BY <1>1, PPInitInv
<1>7. HeardOK /\ HurtOK
  BY <1>1 DEF HeardOK, HurtOK, Earlier
<1>8. ReportsInOrder
  BY <1>1 DEF ReportsInOrder
<1>9. KeptHalf /\ HeadersKept
  BY <1>1, <1>5 DEF KeptHalf, HeadersKept, KeptMessage, HeardGenuine
<1>10. Followed
  <2>1. MessageFollowed /\ LayerLeft /\ VoiceFollowed
    BY <1>4, <1>5 DEF MessageFollowed, LayerLeft, VoiceFollowed
  <2>3. MessagesResynchronised
    <3>1. \A i \in 1 .. Len(plan) : ~Earlier(<<i + 1, 1>>, <<run, frame>>)
      BY <1>1, <1>2 DEF Earlier
    <3> QED BY <1>2, <3>1 DEF MessagesResynchronised
  <2>4. VoiceResynchronised
    <3>1. \A i \in 1 .. Len(plan) : \A k \in 1 .. (plan[i].n - 1) :
             ~Earlier(<<i, k + 1>>, <<run, frame>>)
      BY <1>1, <1>2 DEF Earlier
    <3> QED BY <1>2, <3>1 DEF VoiceResynchronised
  <2> QED BY <2>1, <2>3, <2>4 DEF Followed
<1> QED BY <1>3, <1>6, <1>7, <1>8, <1>9, <1>10 DEF AirInv

LEMMA AirStutters == AirInv /\ UNCHANGED <<ppvars, airvars>> => AirInv'
<1> SUFFICES ASSUME AirInv, UNCHANGED <<ppvars, airvars>> PROVE AirInv'
  OBVIOUS
<1>1. /\ psc_m' = psc_m /\ psc_tch' = psc_tch /\ l2block' = l2block
      /\ tch_record' = tch_record /\ l2_panic' = l2_panic
      /\ plan' = plan /\ run' = run /\ frame' = frame /\ damage' = damage /\ hurt' = hurt
      /\ heard' = heard /\ voice_heard' = voice_heard
  BY DEF ppvars, airvars
<1>2. AirOK'
  BY <1>1 DEF AirInv, AirOK, Sending
<1>3. PPInv'
  BY <1>1 DEF AirInv, PPInv, PPTypeOK, ReportFits
<1>4. HeardOK' /\ HurtOK'
  BY <1>1 DEF AirInv, HeardOK, HurtOK
<1>5. RunBefore' = RunBefore /\ PlaceBefore' = PlaceBefore
  BY <1>1 DEF RunBefore, PlaceBefore
<1>6. ReportsInOrder'
  BY <1>1, <1>5 DEF AirInv, ReportsInOrder
<1>7. KeptHalf'
  BY <1>1 DEF AirInv, KeptHalf
<1>8. HeadersKept'
  BY <1>1 DEF AirInv, HeadersKept, KeptMessage, HeardGenuine
<1>9. Followed'
  BY <1>1, <1>5 DEF AirInv, Followed, MessageFollowed, LayerLeft, VoiceFollowed,
                    MessagesResynchronised, VoiceResynchronised
<1> QED BY <1>2, <1>3, <1>4, <1>6, <1>7, <1>8, <1>9 DEF AirInv

LEMMA AirSteps == AirInv /\ [Next]_<<ppvars, airvars>> => AirInv'
<1> SUFFICES ASSUME AirInv, OnAir, WholeStep \/ HurtStep PROVE AirInv'
  BY AirStutters, Steps DEF AirInv
<1> USE DEF AirInv
<1>1. AirOK'
  BY OnAirMoves
<1>2. PPInv'
  BY StepIsDecoders, StepPPInv
<1>3. HurtOK'
  BY HurtStays
<1>4. HeardOK' /\ ReportsInOrder'
  BY ReportsStayInOrder
<1>5. KeptHalf'
  BY KeptHalfStays
<1>6. HeadersKept'
  BY HeadersKeptStays DEF PPInv
<1>7. Followed'
  BY HurtFollowed, WholeFollowed
<1> QED BY <1>1, <1>2, <1>3, <1>4, <1>5, <1>6, <1>7

\* The invariant of the traffic side and its sender, from which the theorems below follow:
\* whatever frames are lost or damaged, decoder and transmission stay related as it says.
THEOREM AirCorrect == Spec => []AirInv
  BY AirInit, AirSteps, PTL DEF Spec

\* Behind every transmission and whatever is lost of it, the decoder's side keeps its types.
THEOREM AirTypeCorrect == Spec => []PPTypeOK
<1>1. AirInv => PPTypeOK
  BY DEF AirInv, PPInv
<1> QED BY <1>1, AirCorrect, PTL

\* As long as no header is lost, whatever else is, only messages that were sent are
\* reported, under their kind, once and in order, and the program goes on: for every
\* transmission whose messages fit into the block.
THEOREM OnlyGenuineMessages == Spec => []GenuineMessages
<1>1. AirInv => GenuineMessages
  <2> SUFFICES ASSUME AirInv, "header" \notin damage
               PROVE  /\ ~l2_panic
                      /\ \A k \in DOMAIN heard : \E i \in DOMAIN plan :
                            plan[i].m \in Layer2 /\ heard[k] = Sent(plan, i)
                      /\ \A j, k \in DOMAIN heard :
                            j < k => heard[j].pieces[1][1] < heard[k].pieces[1][1]
    BY DEF GenuineMessages
  <2>1. /\ ~l2_panic /\ plan \in Plans /\ DOMAIN plan = 1 .. Len(plan)
        /\ \A k \in DOMAIN heard : \E i \in 1 .. Len(plan) :
              plan[i].m \in Layer2 /\ heard[k] = Sent(plan, i)
    BY PlanFacts DEF AirInv, HeadersKept, HeardGenuine, AirOK
  <2>2. ASSUME NEW j \in DOMAIN heard, NEW k \in DOMAIN heard, j < k
        PROVE  heard[j].pieces[1][1] < heard[k].pieces[1][1]
    <3>1. PICK a \in 1 .. Len(plan) : plan[a].m \in Layer2 /\ heard[j] = Sent(plan, a)
      BY <2>1
    <3>2. PICK b \in 1 .. Len(plan) : plan[b].m \in Layer2 /\ heard[k] = Sent(plan, b)
      BY <2>1
    <3>3. Earlier(<<a, plan[a].n>>, <<b, plan[b].n>>)
      <4>1. Earlier(LastPiece(heard[j]), LastPiece(heard[k]))
        BY <2>2 DEF AirInv, ReportsInOrder
      <4> QED BY <2>1, <3>1, <3>2, <4>1, SentType
    <3>4. /\ plan[a].n \in Nat /\ plan[b].n \in Nat
          /\ heard[j].pieces[1] = <<a, 1>> /\ heard[k].pieces[1] = <<b, 1>>
      BY <2>1, <3>1, <3>2, SentType, PlanFacts
    <3>5. a < b
      BY <3>3, <3>4 DEF Earlier
    <3> QED BY <3>4, <3>5
  <2> QED BY <2>1, <2>2
<1> QED BY <1>1, AirCorrect, PTL

\* Nor is a message left under way outside the frames of a Layer-2 message.
THEOREM NoBlockLeft == Spec => []NoBlockOutsideLayer2
<1>1. AirInv => NoBlockOutsideLayer2
  BY DEF AirInv, HeadersKept, NoBlockOutsideLayer2
<1> QED BY <1>1, AirCorrect, PTL

\* Whatever was lost, headers too: unless that stopped the program, a message that starts
\* behind the damage is reported when the frame behind its last unit is in, and so is a
\* voice frame one frame behind it.
THEOREM DecoderResynchronises == Spec => []Resynchronised
<1>1. AirInv => Resynchronised
  BY DEF AirInv, Followed, Resynchronised
<1> QED BY <1>1, AirCorrect, PTL

\* And nothing is ever reported twice, nor voice out of order.
THEOREM NothingReportedTwice == Spec => []NothingTwice
<1>1. AirInv => NothingTwice
  <2> SUFFICES ASSUME AirInv PROVE NothingTwice
    OBVIOUS
  <2>1. ASSUME NEW j \in DOMAIN voice_heard, NEW k \in DOMAIN voice_heard, j < k
        PROVE  \/ voice_heard[j].celp.run < voice_heard[k].celp.run
               \/ /\ voice_heard[j].celp.run = voice_heard[k].celp.run
                  /\ voice_heard[j].celp.frame < voice_heard[k].celp.frame
    <3>1. Earlier(VoicePlace(voice_heard[j]), VoicePlace(voice_heard[k]))
      BY <2>1 DEF AirInv, ReportsInOrder
    <3> QED BY <3>1 DEF Earlier, VoicePlace
  <2>2. ASSUME NEW j \in DOMAIN heard, NEW k \in DOMAIN heard, j # k
        PROVE  LastPiece(heard[j]) # LastPiece(heard[k])
    <3>1. j \in Nat /\ k \in Nat
      BY ElementOfSeq DEF AirInv, HeardOK
    <3>2. \/ Earlier(LastPiece(heard[j]), LastPiece(heard[k]))
          \/ Earlier(LastPiece(heard[k]), LastPiece(heard[j]))
      BY <2>2, <3>1 DEF AirInv, ReportsInOrder
    <3>3. LastPiece(heard[j]) \in Nat \X Nat /\ LastPiece(heard[k]) \in Nat \X Nat
      BY DEF AirInv, ReportsInOrder
    <3> QED BY <3>2, <3>3 DEF Earlier
  <2> QED BY <2>1, <2>2 DEF NothingTwice, LastPiece
<1> QED BY <1>1, AirCorrect, PTL
=============================================================================
