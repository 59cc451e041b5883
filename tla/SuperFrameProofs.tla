-------------------------- MODULE SuperFrameProofs --------------------------
(***************************************************************************)
(* Theorems about the super-frame side of the decoder, for super-frames,   *)
(* blocks and cells of every size.  First, frames in any order: the        *)
(* handlers keep their types, and what is repacked is of the super-frame   *)
(* that is counted.  Then, at the end of a channel that loses and damages  *)
(* frames of any transmission: only what was sent is reported after damage *)
(* the decoder can see, what is sent behind the damage is reported, and    *)
(* RCHs come in order.                                                     *)
(***************************************************************************)
EXTENDS SuperFrameAir, SequenceTheorems, TLAPS

-----------------------------------------------------------------------------
(* Blocks. *)

\* An initialised block is a block.
LEMMA InitBlockType ==
    ASSUME NEW b \in Blocks
    PROVE  InitBlock(b) \in Blocks
<1>1. 0 \in 0 .. MaxCells /\ 0 \in 0 .. CellLen
  BY BlockAssumption
<1> QED BY <1>1 DEF Blocks, InitBlock

\* So is one with room for the message a first unit announces: a length field of 6 bits
\* never asks for more than the 64 cells there are.
LEMMA AllocType ==
    ASSUME NEW b \in Blocks, NEW u \in Fragments
    PROVE  AllocSacch(b, u.len + 1) \in Blocks
  BY BlockAssumption DEF Blocks, Fragments, AllocSacch

\* Putting a unit that is in place into a block never leaves its cells.
LEMMA AssembleType ==
    ASSUME NEW b \in Blocks, NEW u \in Fragments, ~Misplaced(b, u)
    PROVE  Assemble(b, u) \in Blocks
<1>1. CASE b.count = 0
  BY <1>1 DEF Assemble
<1>2. CASE b.count # 0
  <2>1. /\ u.piece \in Pieces /\ FPos(u) \in Nat /\ b.count \in 1 .. MaxCells
        /\ FPos(u) < b.count
    BY <1>2, BlockAssumption DEF Blocks, Fragments, FPos, Misplaced
  <2>2. BodyLen(u) \in 0 .. CellLen
    BY BlockAssumption DEF Fragments, BodyLen
  <2>3. b.count - FPos(u) \in 1 .. MaxCells
    BY <2>1, BlockAssumption
  <2>4. Assemble(b, u) = [b EXCEPT !.cells[b.count - FPos(u)] = u.piece, !.last_len = BodyLen(u)]
    BY <1>2 DEF Assemble
  <2>5. [b.cells EXCEPT ![b.count - FPos(u)] = u.piece]
          \in [1 .. MaxCells -> Pieces \cup {Zeroes}]
    BY <2>1, <2>3 DEF Blocks
  <2> QED BY <2>2, <2>4, <2>5 DEF Blocks
<1> QED BY <1>1, <1>2

-----------------------------------------------------------------------------
(* Slots. *)

\* The counts, without their names.
LEMMA Counts ==
    /\ RchEnd \in Nat /\ Sacch0End \in Nat /\ Sacch1End \in Nat
    /\ 0 < RchEnd /\ RchEnd < Sacch0End /\ Sacch0End < Sacch1End
    /\ RchEnd - 0 = RchEnd
    /\ Sacch0End - RchEnd = UnitSlots /\ Sacch1End - Sacch0End = UnitSlots
  BY CountsAssumption DEF UnitSlots

\* Gathering slots within the buffer gives slots.
LEMMA GatheredType ==
    ASSUME NEW buf \in [Positions -> Slots], NEW n \in Nat, NEW m \in Nat,
           n <= m, m <= Sacch1End
    PROVE  Gathered(buf, n, m) \in [1 .. (m - n) -> Slots]
<1>1. ASSUME NEW k \in 1 .. (m - n) PROVE n + k - 1 \in Positions
  BY Counts DEF Positions
<1> QED BY <1>1 DEF Gathered

-----------------------------------------------------------------------------
(* The end of every frame. *)

\* Whatever proc_sacch does leaves a block.
LEMMA ProcSacchType ==
    ASSUME NEW s, sacch_block \in Blocks, sacch_panic \in BOOLEAN, ProcSacch(s)
    PROVE  sacch_block' \in Blocks /\ sacch_panic' \in BOOLEAN
<1>1. CASE SacchIdle(s)
  BY <1>1 DEF SacchIdle
<1>2. CASE SacchFailed(s)
  BY <1>2, InitBlockType DEF SacchFailed
<1>3. ASSUME NEW u \in Fragments, SacchSingle(u)
      PROVE  sacch_block' \in Blocks /\ sacch_panic' \in BOOLEAN
  BY <1>3, InitBlockType DEF SacchSingle
<1>4. ASSUME NEW u \in Fragments, SacchFragment(u)
      PROVE  sacch_block' \in Blocks /\ sacch_panic' \in BOOLEAN
  <2> DEFINE b == IF u.first THEN AllocSacch(sacch_block, u.len + 1) ELSE sacch_block
  <2>1. b \in Blocks
    BY AllocType
  <2>2. ~Misplaced(b, u) /\ sacch_block' = Assemble(b, u) /\ sacch_panic' = sacch_panic
    BY <1>4 DEF SacchFragment
  <2> HIDE DEF b
  <2> QED BY <2>1, <2>2, AssembleType
<1>5. ASSUME NEW u \in Fragments, SacchMisplaced(u)
      PROVE  sacch_block' \in Blocks /\ sacch_panic' \in BOOLEAN
  BY <1>5 DEF SacchMisplaced
<1> QED BY <1>1, <1>2, <1>3, <1>4, <1>5 DEF ProcSacch

\* finalize_super_frame keeps the count below a super-frame, and resets it only there.
LEMMA FinalizeType ==
    ASSUME NEW c \in 0 .. Sacch1End, NEW r, NEW s,
           sacch_block \in Blocks, sacch_panic \in BOOLEAN, Finalize(c, r, s)
    PROVE  /\ sacch_count' \in Positions
           /\ sacch_count' = c \/ (sacch_count' = 0 /\ c = Sacch1End)
           /\ sacch_block' \in Blocks /\ sacch_panic' \in BOOLEAN
<1>1. sacch_count' = IF c = Sacch1End THEN 0 ELSE c
  BY DEF Finalize
<1>2. /\ sacch_count' \in Positions
      /\ sacch_count' = c \/ (sacch_count' = 0 /\ c = Sacch1End)
  BY <1>1, Counts DEF Positions
<1>3. CASE ProcSacch(s[0]) \/ ProcSacch(s[1])
  BY <1>2, <1>3, ProcSacchType
<1>4. CASE RchDue(c, r)
  BY <1>2, <1>4 DEF RchDue
<1>5. CASE NothingDue(c)
  BY <1>2, <1>5 DEF NothingDue
<1> QED BY <1>3, <1>4, <1>5 DEF Finalize

-----------------------------------------------------------------------------
(* The invariant.  RepackedFromCurrent is inductive together with the types. *)

Inv == SFTypeOK /\ RepackedFromCurrent

\* Storing a slot at the count c, with the slots before it repacked.
LEMMA GatherInv ==
    ASSUME SFTypeOK, NEW c \in Positions, NEW slot \in Slots, Gather(c, slot),
           c >= RchEnd => rch = Gathered(sacch_buf, 0, RchEnd),
           c >= Sacch0End => sacch[0] = Gathered(sacch_buf, RchEnd, Sacch0End)
    PROVE  Inv'
<1>0. /\ c \in Nat /\ c < Sacch1End /\ c + 1 \in 0 .. Sacch1End
      /\ sacch_buf \in [Positions -> Slots]
      /\ sacch_buf' = [sacch_buf EXCEPT ![c] = slot]
      /\ Finalize(c + 1, rch', sacch')
  BY Counts DEF Gather, Positions, SFTypeOK
<1>1. sacch_buf' \in [Positions -> Slots]
  BY <1>0
<1>2. /\ sacch_count' \in Positions
      /\ sacch_count' = c + 1 \/ (sacch_count' = 0 /\ c + 1 = Sacch1End)
      /\ sacch_block' \in Blocks /\ sacch_panic' \in BOOLEAN
  <2>1. sacch_block \in Blocks /\ sacch_panic \in BOOLEAN
    BY DEF SFTypeOK
  <2> QED BY <1>0, <2>1, FinalizeType
<1>3. /\ Gathered(sacch_buf', 0, RchEnd) \in [1 .. RchEnd -> Slots]
      /\ Gathered(sacch_buf', RchEnd, Sacch0End) \in [1 .. UnitSlots -> Slots]
      /\ Gathered(sacch_buf', Sacch0End, Sacch1End) \in [1 .. UnitSlots -> Slots]
  <2>1. 0 \in Nat /\ 0 <= RchEnd /\ RchEnd <= Sacch1End /\ RchEnd <= Sacch0End
        /\ Sacch0End <= Sacch1End /\ Sacch1End <= Sacch1End
    BY Counts
  <2>2. Gathered(sacch_buf', 0, RchEnd) \in [1 .. (RchEnd - 0) -> Slots]
    BY <1>1, <2>1, Counts, GatheredType
  <2>3. Gathered(sacch_buf', RchEnd, Sacch0End) \in [1 .. (Sacch0End - RchEnd) -> Slots]
    BY <1>1, <2>1, Counts, GatheredType
  <2>4. Gathered(sacch_buf', Sacch0End, Sacch1End) \in [1 .. (Sacch1End - Sacch0End) -> Slots]
    BY <1>1, <2>1, Counts, GatheredType
  <2> QED BY <2>2, <2>3, <2>4, Counts
<1>4. rch' \in [1 .. RchEnd -> Slots]
  BY <1>3 DEF Gather, SFTypeOK
<1>5. sacch' \in [0 .. 1 -> [1 .. UnitSlots -> Slots]]
  BY <1>3 DEF Gather, SFTypeOK
<1>6. SFTypeOK'
  BY <1>1, <1>2, <1>4, <1>5 DEF SFTypeOK
<1>7. ASSUME sacch_count' >= RchEnd
      PROVE  rch' = Gathered(sacch_buf', 0, RchEnd)
  <2>1. sacch_count' = c + 1
    BY <1>2, <1>7, Counts
  <2>2. CASE c + 1 = RchEnd
    BY <2>2 DEF Gather
  <2>3. CASE c + 1 # RchEnd
    <3>1. c >= RchEnd
      BY <1>0, <1>7, <2>1, <2>3, Counts
    <3>2. rch' = Gathered(sacch_buf, 0, RchEnd)
      BY <2>3, <3>1 DEF Gather
    <3>3. ASSUME NEW k \in 1 .. (RchEnd - 0) PROVE sacch_buf'[0 + k - 1] = sacch_buf[0 + k - 1]
      BY <1>0, <3>1, Counts DEF Positions
    <3> QED BY <3>2, <3>3 DEF Gathered
  <2> QED BY <2>2, <2>3
<1>8. ASSUME sacch_count' >= Sacch0End
      PROVE  sacch'[0] = Gathered(sacch_buf', RchEnd, Sacch0End)
  <2>1. sacch_count' = c + 1
    BY <1>2, <1>8, Counts
  <2>2. CASE c + 1 = Sacch0End
    BY <2>2 DEF Gather
  <2>3. CASE c + 1 # Sacch0End
    <3>1. c >= Sacch0End
      BY <1>0, <1>8, <2>1, <2>3, Counts
    <3>2. sacch'[0] = Gathered(sacch_buf, RchEnd, Sacch0End)
      BY <2>3, <3>1 DEF Gather
    <3>3. ASSUME NEW k \in 1 .. (Sacch0End - RchEnd)
          PROVE  sacch_buf'[RchEnd + k - 1] = sacch_buf[RchEnd + k - 1]
      BY <1>0, <3>1, Counts DEF Positions
    <3> QED BY <3>2, <3>3 DEF Gathered
  <2> QED BY <2>2, <2>3
<1> QED BY <1>6, <1>7, <1>8 DEF Inv, RepackedFromCurrent

\* A frame that stores nothing, with the count c it goes on with.
LEMMA KeepInv ==
    ASSUME Inv, NEW c \in Positions, c = sacch_count,
           sacch_buf' = sacch_buf, rch' = rch, sacch' = sacch,
           Finalize(c, rch, sacch)
    PROVE  Inv'
<1>1. c \in 0 .. Sacch1End /\ c # Sacch1End
  BY Counts DEF Positions
<1>2. sacch_count' = sacch_count /\ sacch_block' \in Blocks /\ sacch_panic' \in BOOLEAN
  BY <1>1, FinalizeType DEF Inv, SFTypeOK
<1> QED BY <1>2 DEF Inv, SFTypeOK, RepackedFromCurrent

\* DecoderState::default establishes the invariant.
LEMMA StartInv == SFInit => Inv
<1> SUFFICES ASSUME SFInit PROVE Inv
  OBVIOUS
<1>1. sacch_buf \in [Positions -> Slots]
  BY DEF SFInit, Slots
<1>2. /\ Gathered(sacch_buf, 0, RchEnd) \in [1 .. (RchEnd - 0) -> Slots]
      /\ Gathered(sacch_buf, RchEnd, Sacch0End) \in [1 .. (Sacch0End - RchEnd) -> Slots]
  <2>1. 0 \in Nat /\ 0 <= RchEnd /\ RchEnd <= Sacch1End /\ RchEnd <= Sacch0End
        /\ Sacch0End <= Sacch1End
    BY Counts
  <2> QED BY <1>1, <2>1, Counts, GatheredType
<1>3. NewBlock \in Blocks
  BY BlockAssumption DEF NewBlock, Blocks, NoCells
<1>4. SFTypeOK
  <2>1. rch \in [1 .. RchEnd -> Slots] /\ sacch \in [0 .. 1 -> [1 .. UnitSlots -> Slots]]
    BY <1>2, Counts DEF SFInit
  <2>2. sacch_count \in Positions
    BY Counts DEF SFInit, Positions
  <2> QED BY <1>1, <1>3, <2>1, <2>2 DEF SFInit, SFTypeOK
<1>5. RepackedFromCurrent
  BY Counts DEF SFInit, RepackedFromCurrent
<1> QED BY <1>4, <1>5 DEF Inv

\* Every handler of the super-frame state keeps the invariant.
LEMMA StepInv == Inv /\ [SFNext]_sfvars => Inv'
<1> SUFFICES ASSUME Inv, [SFNext]_sfvars PROVE Inv'
  OBVIOUS
<1>0. SFTypeOK /\ RepackedFromCurrent /\ 0 \in Positions /\ sacch_count \in Positions
  BY Counts DEF Inv, SFTypeOK, Positions
<1>1. ASSUME NEW slot \in Slots, TopFrame(slot) PROVE Inv'
  <2>1. ~(0 >= RchEnd) /\ ~(0 >= Sacch0End)
    BY Counts
  <2> QED BY <1>0, <1>1, <2>1, GatherInv DEF TopFrame
<1>2. ASSUME NEW slot \in Slots, MidFrame(slot) PROVE Inv'
  BY <1>0, <1>2, GatherInv DEF MidFrame, RepackedFromCurrent
<1>3. CASE MidFrameUncounted
  BY <1>0, <1>3, KeepInv DEF MidFrameUncounted
<1>4. CASE RichError
  BY <1>0, <1>4, KeepInv DEF RichError
<1>5. CASE ResetIdle
  BY <1>0, <1>5, InitBlockType, Counts DEF ResetIdle, Inv, SFTypeOK, RepackedFromCurrent
<1>6. CASE UNCHANGED sfvars
  BY <1>6 DEF sfvars, Inv, SFTypeOK, RepackedFromCurrent
<1> QED BY <1>1, <1>2, <1>3, <1>4, <1>5, <1>6 DEF SFNext

\* Hence the invariant holds after any sequence of frames.
LEMMA Invariance == SFSpec => []Inv
  BY StartInv, StepInv, PTL DEF SFSpec

\* The count never reaches a full super-frame between two frames, so a slot is always
\* stored within the buffer; and a unit that is put into a block is put into one of its
\* cells, whatever frames arrive, so long as the program runs.
THEOREM SuperFrameTypeCorrect == SFSpec => []SFTypeOK
  BY Invariance, PTL DEF Inv

\* A count of two or more vouches for the RCH that is held, one of ten or more for the
\* first SACCH unit: both are made of the slots of this super-frame.
THEOREM RepackedIsCurrent == SFSpec => []RepackedFromCurrent
  BY Invariance, PTL DEF Inv

-----------------------------------------------------------------------------
(***************************************************************************)
(* The transmission.                                                       *)
(***************************************************************************)

LEMMA PlanFacts ==
    ASSUME NEW p \in Plans
    PROVE  /\ Len(p) \in Nat /\ DOMAIN p = 1 .. Len(p)
           /\ \A x \in 1 .. Len(p) :
                /\ p[x].message \in Nat /\ p[x].unit \in Nat \ {0}
                /\ p[x].units \in 1 .. MaxCells /\ p[x].unit <= p[x].units
                /\ p[x].units \in Nat
                /\ <<p[x].message, p[x].unit>> \in Pieces
<1> DEFINE Units == [message : Nat, unit : Nat \ {0}, units : 1 .. MaxCells]
<1>1. p \in Seq(Units)
  BY PlansAssumption
<1>2. \A x \in 1 .. Len(p) : p[x].unit <= p[x].units /\ <<p[x].message, p[x].unit>> \in Pieces
  BY PlansAssumption
<1> HIDE DEF Units
<1>3. Len(p) \in Nat /\ DOMAIN p = 1 .. Len(p) /\ \A x \in 1 .. Len(p) : p[x] \in Units
  BY <1>1, ElementOfSeq, LenProperties
<1>4. \A x \in 1 .. Len(p) : /\ p[x].message \in Nat /\ p[x].unit \in Nat \ {0}
                             /\ p[x].units \in 1 .. MaxCells
  BY <1>3 DEF Units
<1>5. \A n \in 1 .. MaxCells : n \in Nat
  BY BlockAssumption
<1> QED BY <1>2, <1>3, <1>4, <1>5

\* Unit after unit, message after message.
LEMMA PlanGoesOn ==
    ASSUME NEW p \in Plans, NEW x \in 1 .. Len(p)
    PROVE  /\ x = 1 => p[x].unit = 1
           /\ x < Len(p) /\ p[x].unit < p[x].units =>
                /\ p[x + 1].message = p[x].message /\ p[x + 1].units = p[x].units
                /\ p[x + 1].unit = p[x].unit + 1
           /\ x < Len(p) /\ p[x].unit = p[x].units =>
                p[x + 1].message > p[x].message /\ p[x + 1].unit = 1
<1>1. p[x].unit \in Nat /\ p[x].units \in Nat
  BY PlanFacts
<1>2. /\ x = 1 => p[x].unit = 1
      /\ x < Len(p) =>
            IF p[x].unit < p[x].units
            THEN /\ p[x + 1].message = p[x].message /\ p[x + 1].units = p[x].units
                 /\ p[x + 1].unit = p[x].unit + 1
            ELSE p[x + 1].message > p[x].message /\ p[x + 1].unit = 1
  BY PlansAssumption
<1>3. p[x].unit = p[x].units => ~(p[x].unit < p[x].units)
  BY <1>1
<1> QED BY <1>2, <1>3

LEMMA UnitFields ==
    ASSUME NEW m
    PROVE  /\ UnitOf(m).first <=> m.unit = 1
           /\ UnitOf(m).last <=> m.unit = m.units
           /\ m.unit = m.units => UnitOf(m).len = LastLen
           /\ m.unit # m.units => UnitOf(m).len = m.units - m.unit
           /\ UnitOf(m).piece = <<m.message, m.unit>>
  BY DEF UnitOf

\* A unit on air is one the channel decoder accepts.
LEMMA UnitType ==
    ASSUME NEW p \in Plans, NEW x \in 1 .. Len(p)
    PROVE  UnitOf(p[x]) \in Fragments
<1> DEFINE m == p[x]
<1>1. /\ m.unit \in Nat \ {0} /\ m.units \in 1 .. MaxCells /\ m.unit <= m.units
      /\ <<m.message, m.unit>> \in Pieces /\ m.units \in Nat
  BY PlanFacts
<1>2. MaxCells \in Nat /\ CellLen \in Nat
      /\ LastLen \in Nat /\ LastLen <= CellLen /\ LastLen < MaxCells
  BY BlockAssumption, PlansAssumption
<1> HIDE DEF m
<1>3. ASSUME m.unit = m.units PROVE UnitOf(m) \in Fragments
  <2>1. LastLen \in 0 .. (MaxCells - 1)
    BY <1>2
  <2>2. UnitOf(m) = [first |-> m.unit = 1, last |-> TRUE, len |-> LastLen,
                     piece |-> <<m.message, m.unit>>]
    BY <1>3 DEF UnitOf
  <2>3. PICK f \in BOOLEAN : f = (m.unit = 1)
    OBVIOUS
  <2> QED BY <1>1, <1>2, <2>1, <2>2, <2>3 DEF Fragments
<1>4. ASSUME m.unit # m.units PROVE UnitOf(m) \in Fragments
  <2>0. \A j, k, l \in Nat : 1 <= j /\ j <= k /\ k <= l => k - j \in 0 .. (l - 1)
    OBVIOUS
  <2>1. m.units - m.unit \in 0 .. (MaxCells - 1)
    <3>1. /\ m.unit \in Nat /\ m.units \in Nat /\ MaxCells \in Nat
          /\ 1 <= m.unit /\ m.unit <= m.units /\ m.units <= MaxCells
      BY <1>1, <1>2
    <3> QED BY <2>0, <3>1
  <2>2. UnitOf(m) = [first |-> m.unit = 1, last |-> FALSE, len |-> m.units - m.unit,
                     piece |-> <<m.message, m.unit>>]
    BY <1>4 DEF UnitOf
  <2>3. PICK f \in BOOLEAN : f = (m.unit = 1)
    OBVIOUS
  <2> QED BY <1>1, <2>1, <2>2, <2>3 DEF Fragments
<1> QED BY <1>3, <1>4 DEF m

-----------------------------------------------------------------------------
(***************************************************************************)
(* The inductive invariant of the channel.                                 *)
(***************************************************************************)

\* The sender is at a frame of its plan, or past the end.
AirOK ==
    /\ plan \in Plans /\ super \in Nat \ {0} /\ pos \in Positions
    /\ hurt \in Nat /\ hurt <= super

\* The units whose slots are all on air behind the next frame, and the last one sent.
Behind == 2 * (super - 1) + (IF pos >= Sacch0End THEN 1 ELSE 0)
LastBehind == IF Behind <= Len(plan) THEN Behind ELSE Len(plan)

\* The slots of the super-frame on air, as far as frame n: garbled ones among them, or none.
Received(buf, n) ==
    \A c \in Positions : c < n => buf[c] \in {SlotAt(plan, super, c), Garbled}
Whole(buf, n) == \A c \in Positions : c < n => buf[c] = SlotAt(plan, super, c)

Messages == [pieces : Seq(Pieces \cup {Zeroes}), len : Nat]
HeardOK == heard \in Seq(Messages) /\ rch_heard \in Seq(RchIds)

\* RCHs come in the order of their super-frames.
RchsInOrder ==
    "header" \notin damage =>
        /\ \A k \in DOMAIN rch_heard :
              /\ rch_heard[k] \in Nat
              /\ rch_heard[k] < super \/ (rch_heard[k] = super /\ pos >= RchEnd)
        /\ \A j, k \in DOMAIN rch_heard : j < k => rch_heard[j] < rch_heard[k]

\* The units up to m of its message are in their cells.
InProgress(b, m) ==
    b.count = m.units /\ \A k \in 1 .. m.unit : b.cells[k] = <<m.message, k>>

\* The count is the sender's place or none, and what is counted is what was sent, or
\* garbled; with none there is no message under way either.
CountedOrNot ==
    /\ ~sacch_panic
    /\ sacch_count \in {0, pos}
    /\ sacch_count = pos => Received(sacch_buf, pos)
    /\ sacch_count # pos => sacch_block.count = 0

\* A message is under way up to the unit sent last, or none is.
BlockSent ==
    sacch_block.count # 0 => LastBehind # 0 /\ InProgress(sacch_block, plan[LastBehind])

\* Every message reported is one sent whole, before the unit that is next.
HeardSent ==
    /\ \A k \in DOMAIN heard : \E x \in 1 .. Len(plan) :
          plan[x].unit = plan[x].units /\ heard[k] = Sent(plan[x])
    /\ Behind < Len(plan) =>
          \A k \in DOMAIN heard : heard[k].pieces[1][1] < plan[Behind + 1].message
    /\ \A j, k \in DOMAIN heard :
          j < k => heard[j].pieces[1][1] < heard[k].pieces[1][1]

Recognised == Noticed => CountedOrNot /\ BlockSent /\ HeardSent

\* In a super-frame not damaged so far the decoder has gathered what was sent, ...
Gathering ==
    super > hurt /\ pos # 0 => sacch_count = pos /\ Whole(sacch_buf, pos)

\* ... and of a message that began behind the damage it has every unit so far.
Following ==
    Behind \in 1 .. Len(plan) =>
        LET m == plan[Behind]
        IN m.units # 1 /\ Behind - m.unit >= 2 * hurt => InProgress(sacch_block, m)

MessagesReported ==
    \A x \in 1 .. Len(plan) :
        /\ plan[x].unit = plan[x].units
        /\ x - plan[x].units >= 2 * hurt /\ x <= Behind
        => \E k \in DOMAIN heard : heard[k] = Sent(plan[x])

Followed == ~sacch_panic => Gathering /\ Following /\ MessagesReported

AirInv ==
    /\ AirOK
    /\ Inv
    /\ HeardOK
    /\ RchsInOrder
    /\ Recognised
    /\ Followed
-----------------------------------------------------------------------------
(* What is on air. *)

LEMMA SlotTypes ==
    ASSUME AirOK, Sending
    PROVE  /\ super \in RchIds /\ 2 * super - 1 \in 1 .. Len(plan)
           /\ \A c \in Positions : SlotAt(plan, super, c) \in RchSlots \cup SacchSlots
           /\ \A c \in Positions : SlotAt(plan, super, c) \in Slots
           /\ Garbled \in Slots
<1>1. /\ plan \in Plans /\ Len(plan) \in Nat /\ super \in Nat /\ super >= 1
      /\ 2 * super - 1 <= Len(plan)
  BY PlanFacts DEF AirOK, Sending
<1>2. super \in 1 .. Len(plan) /\ 2 * super - 1 \in 1 .. Len(plan)
  BY <1>1
<1>3. super \in RchIds
  BY <1>1, <1>2, PlansAssumption
<1>4. ASSUME NEW x \in Nat, x >= 1 PROVE UnitAt(plan, x) \in Fragments \cup {IdleUnit}
  BY <1>1, <1>4, UnitType DEF UnitAt
<1>5. ASSUME NEW c \in Positions PROVE SlotAt(plan, super, c) \in RchSlots \cup SacchSlots
  <2>1. c \in Nat /\ c < Sacch1End
    BY Counts DEF Positions
  <2>2. CASE c < RchEnd
    <3>1. c + 1 \in 1 .. RchEnd
      BY <2>1, <2>2, Counts
    <3> QED BY <1>3, <2>2, <3>1 DEF SlotAt, RchSlots
  <2>3. CASE ~(c < RchEnd) /\ c < Sacch0End
    <3>1. c - RchEnd + 1 \in 1 .. UnitSlots
      BY <2>1, <2>3, Counts
    <3>2. UnitAt(plan, 2 * super - 1) \in Fragments \cup {IdleUnit}
      BY <1>1, <1>4
    <3> QED BY <2>3, <3>1, <3>2 DEF SlotAt, SacchSlots
  <2>4. CASE ~(c < RchEnd) /\ ~(c < Sacch0End)
    <3>1. c - Sacch0End + 1 \in 1 .. UnitSlots
      BY <2>1, <2>4, Counts
    <3>2. UnitAt(plan, 2 * super) \in Fragments \cup {IdleUnit}
      BY <1>1, <1>4
    <3> QED BY <2>4, <3>1, <3>2 DEF SlotAt, SacchSlots
  <2> QED BY <2>2, <2>3, <2>4
<1> QED BY <1>2, <1>3, <1>5 DEF Slots

\* A frame more is on air; with the last slot of a unit, a unit more.
LEMMA OnAirMoves ==
    ASSUME AirOK, OnAir
    PROVE  /\ ~sacch_panic /\ Sending /\ plan' = plan
           /\ super' \in Nat \ {0} /\ pos' \in Positions /\ pos + 1 \in 1 .. Sacch1End
           /\ pos + 1 # Sacch1End => pos' = pos + 1 /\ super' = super
           /\ pos + 1 = Sacch1End => pos' = 0 /\ super' = super + 1
           /\ Behind \in Nat /\ Behind <= Len(plan) /\ Behind <= 2 * super /\ LastBehind = Behind
           /\ Behind' \in Nat /\ Behind' <= 2 * super
           /\ pos + 1 \in {Sacch0End, Sacch1End} => Behind' = Behind + 1
           /\ pos + 1 \notin {Sacch0End, Sacch1End} => Behind' = Behind
           /\ pos + 1 = Sacch0End => Behind + 1 = 2 * super - 1
           /\ pos + 1 = Sacch1End => Behind + 1 = 2 * super
<1>1. /\ super \in Nat /\ super >= 1 /\ pos \in Nat /\ pos + 1 <= Sacch1End
      /\ plan \in Plans /\ Len(plan) \in Nat
  BY PlanFacts, Counts DEF AirOK, Positions
<1>2. /\ ~sacch_panic /\ Sending /\ plan' = plan /\ 2 * super - 1 <= Len(plan)
      /\ IF pos + 1 < Sacch1End THEN pos' = pos + 1 /\ super' = super
                                ELSE pos' = 0 /\ super' = super + 1
  BY DEF OnAir, Sending
<1>3. /\ pos + 1 # Sacch1End => pos' = pos + 1 /\ super' = super
      /\ pos + 1 = Sacch1End => pos' = 0 /\ super' = super + 1
  BY <1>1, <1>2, Counts
<1>4. super' \in Nat \ {0} /\ pos' \in Positions /\ pos + 1 \in 1 .. Sacch1End
  BY <1>1, <1>3, Counts DEF Positions
<1>5. /\ Behind = 2 * (super - 1) + (IF pos >= Sacch0End THEN 1 ELSE 0)
      /\ Behind' = 2 * (super' - 1) + (IF pos' >= Sacch0End THEN 1 ELSE 0)
  BY DEF Behind
<1>6. /\ Behind \in Nat /\ Behind <= Len(plan) /\ Behind <= 2 * super
  <2>1. Behind = 2 * super - 1 \/ Behind = 2 * super - 2
    BY <1>1, <1>5
  <2> HIDE DEF Behind
  <2> QED BY <1>1, <1>2, <2>1
<1>7. CASE pos + 1 = Sacch1End
  BY <1>1, <1>2, <1>3, <1>4, <1>5, <1>6, <1>7, Counts DEF LastBehind
<1>8. CASE pos + 1 # Sacch1End
  BY <1>1, <1>2, <1>3, <1>4, <1>5, <1>6, <1>8, Counts DEF LastBehind
<1> QED BY <1>7, <1>8

-----------------------------------------------------------------------------
(***************************************************************************)
(* The steps of the channel.                                               *)
(***************************************************************************)

Report == heard' = heard /\ rch_heard' = rch_heard

\* What an undamaged frame does.
WholeStep ==
    /\ hurt' = hurt /\ damage' = damage
    /\ PscFrame(SlotAt(plan, super, pos)) /\ Decoded

\* What a damaged one does.
HurtStep ==
    /\ hurt' = super /\ damage \subseteq damage'
    /\ \/ UNCHANGED sfvars /\ "gone" \in damage' /\ Report
       \/ ResetIdle /\ Report
       \/ RichError /\ "header" \in damage' /\ Decoded
       \/ PscFrame(Garbled) /\ Decoded

LEMMA NothingDecoded ==
    ASSUME HeardOK, sacch_record'.message = <<>>, sacch_record'.rch = <<>>, Decoded
    PROVE  Report
<1>1. heard' = heard \o <<>> /\ rch_heard' = rch_heard \o <<>>
  BY DEF Decoded
<1>2. heard \o <<>> = heard /\ rch_heard \o <<>> = rch_heard
  BY ConcatEmptySeq DEF HeardOK
<1> QED BY <1>1, <1>2 DEF Report

LEMMA Steps ==
    ASSUME AirOK, HeardOK, Next
    PROVE  UNCHANGED <<sfvars, airvars>> \/ (OnAir /\ (WholeStep \/ HurtStep))
<1>1. CASE Undamaged
  BY <1>1 DEF Undamaged, WholeStep
<1>2. ASSUME NEW kind, Damaged(kind)
      PROVE  OnAir /\ hurt' = super /\ damage \subseteq damage' /\ kind \in damage'
  BY <1>2 DEF Damaged
<1>3. CASE Gone
  BY <1>2, <1>3 DEF Gone, HurtStep, Report
<1>4. CASE Placeholder
  <2>1. sacch_record'.message = <<>> /\ sacch_record'.rch = <<>>
    BY <1>4 DEF Placeholder, ResetIdle, NoRecord
  <2> QED BY <1>2, <1>4, <2>1, NothingDecoded DEF Placeholder, HurtStep
<1>5. CASE Header
  BY <1>2, <1>5 DEF Header, HurtStep
<1>6. CASE GarbledSlot
  BY <1>2, <1>6 DEF GarbledSlot, HurtStep
<1>7. CASE Over
  BY <1>7 DEF Over
<1> QED BY <1>1, <1>3, <1>4, <1>5, <1>6, <1>7 DEF Next

\* The decoder takes a step of its own.
LEMMA StepIsDecoders ==
    ASSUME AirOK, OnAir, WholeStep \/ HurtStep
    PROVE  [SFNext]_sfvars
<1>1. SlotAt(plan, super, pos) \in Slots /\ Garbled \in Slots
  BY SlotTypes DEF OnAir, AirOK
<1> QED BY <1>1 DEF WholeStep, HurtStep, PscFrame, SFNext

\* A slot that comes in is counted, or falls outside every super-frame.
LEMMA FrameStep ==
    ASSUME Inv, NEW slot, PscFrame(slot)
    PROVE  /\ ~sacch_panic
           /\ \/ \E c \in Positions :
                   /\ c = 0 => pos = 0
                   /\ c # 0 => pos # 0 /\ c = sacch_count
                   /\ Gather(c, slot)
              \/ /\ pos # 0 /\ sacch_count = 0 /\ sacch_count' = 0
                 /\ sacch_record' = NoRecord
                 /\ UNCHANGED <<sacch_buf, rch, sacch, sacch_block, sacch_panic>>
<1>1. 0 \in Positions /\ sacch_count \in Positions
  BY Counts DEF Inv, SFTypeOK, Positions
<1>2. CASE TopFrame(slot) /\ pos = 0
  BY <1>1, <1>2 DEF TopFrame
<1>3. CASE MidFrame(slot) /\ pos # 0
  BY <1>1, <1>3 DEF MidFrame
<1>4. CASE MidFrameUncounted /\ pos # 0
  BY <1>4, Counts DEF MidFrameUncounted, Finalize, NothingDue, RchDue
<1> QED BY <1>2, <1>3, <1>4 DEF PscFrame

-----------------------------------------------------------------------------
(* What one frame reports. *)

\* What a message is read out as.
LEMMA MessagePieces ==
    ASSUME NEW b \in Blocks
    PROVE  /\ Message(b).pieces \in Seq(Pieces \cup {Zeroes})
           /\ Len(Message(b).pieces) = b.count
           /\ \A k \in 1 .. b.count : Message(b).pieces[k] = b.cells[k]
           /\ Message(b).len = TotalLen(b)
<1>1. /\ b.count \in Nat /\ b.count <= MaxCells /\ MaxCells \in Nat
      /\ \A k \in 1 .. b.count : b.cells[k] \in Pieces \cup {Zeroes}
  BY BlockAssumption DEF Blocks
<1>2. /\ SubSeq(b.cells, 1, b.count) \in Seq(Pieces \cup {Zeroes})
      /\ Len(SubSeq(b.cells, 1, b.count)) = IF 1 <= b.count THEN b.count - 1 + 1 ELSE 0
      /\ \A k \in 1 .. (b.count - 1 + 1) : SubSeq(b.cells, 1, b.count)[k] = b.cells[1 + k - 1]
  BY <1>1, SubSeqProperties
<1> QED BY <1>1, <1>2 DEF Message

LEMMA MessageType ==
    ASSUME NEW b \in Blocks
    PROVE  Message(b) \in Messages
<1>1. TotalLen(b) \in Nat
  <2>1. b.count \in Nat /\ b.last_len \in Nat /\ CellLen \in Nat
    BY BlockAssumption DEF Blocks
  <2>2. b.count # 0 => (b.count - 1) * CellLen \in Nat
    <3>1. \A i, j \in Nat : i * j \in Nat
      OBVIOUS
    <3> QED BY <2>1, <3>1
  <2> QED BY <2>1, <2>2 DEF TotalLen
<1>2. Message(b) = [pieces |-> Message(b).pieces, len |-> TotalLen(b)]
  BY DEF Message
<1> QED BY <1>1, <1>2, MessagePieces DEF Messages

\* proc_sacch reports at most one message.
LEMMA ProcSacchReports ==
    ASSUME NEW s, sacch_block \in Blocks, ProcSacch(s)
    PROVE  sacch_record'.message \in Seq(Messages) /\ sacch_record'.rch = <<>>
<1>0. /\ <<>> \in Seq(Messages)
      /\ \A x : /\ [NoRecord EXCEPT !.unit = x].message = <<>>
                /\ [NoRecord EXCEPT !.unit = x].rch = <<>>
      /\ \A x, y : /\ [NoRecord EXCEPT !.unit = x, !.message = y].message = y
                   /\ [NoRecord EXCEPT !.unit = x, !.message = y].rch = <<>>
      /\ NoRecord.message = <<>> /\ NoRecord.rch = <<>>
  BY DEF NoRecord
<1> HIDE DEF NoRecord
<1>1. CASE SacchIdle(s)
  BY <1>0, <1>1 DEF SacchIdle
<1>2. CASE SacchFailed(s)
  BY <1>0, <1>2 DEF SacchFailed
<1>3. ASSUME NEW u \in Fragments, SacchSingle(u)
      PROVE  sacch_record'.message \in Seq(Messages) /\ sacch_record'.rch = <<>>
  <2> DEFINE m == [pieces |-> <<u.piece>>, len |-> u.len]
  <2>1. m \in Messages
    BY BlockAssumption DEF Messages, Fragments
  <2>2. sacch_record'.message = <<m>> /\ sacch_record'.rch = <<>>
    BY <1>0, <1>3 DEF SacchSingle
  <2> HIDE DEF m
  <2> QED BY <2>1, <2>2
<1>4. ASSUME NEW u \in Fragments, SacchFragment(u)
      PROVE  sacch_record'.message \in Seq(Messages) /\ sacch_record'.rch = <<>>
  <2> DEFINE b == IF u.first THEN AllocSacch(sacch_block, u.len + 1) ELSE sacch_block
             a == Assemble(b, u)
             out == IF u.last /\ TotalLen(a) > 0 THEN <<Message(a)>> ELSE <<>>
  <2>1. b \in Blocks
    BY AllocType
  <2>2. ~Misplaced(b, u) /\ sacch_record' = [NoRecord EXCEPT !.unit = <<u>>, !.message = out]
    BY <1>4 DEF SacchFragment
  <2>3. sacch_record'.message = out /\ sacch_record'.rch = <<>>
    BY <1>0, <2>2
  <2>4. a \in Blocks
    BY <2>1, <2>2, AssembleType
  <2>5. Message(a) \in Messages
    BY <2>4, MessageType
  <2> HIDE DEF a
  <2>6. out \in Seq(Messages)
    BY <1>0, <2>5
  <2> QED BY <2>3, <2>6
<1>5. ASSUME NEW u \in Fragments, SacchMisplaced(u)
      PROVE  sacch_record'.message \in Seq(Messages) /\ sacch_record'.rch = <<>>
  BY <1>0, <1>5 DEF SacchMisplaced
<1> QED BY <1>1, <1>2, <1>3, <1>4, <1>5 DEF ProcSacch

\* What finalize_super_frame does at each count.
LEMMA FinalizeDoes ==
    ASSUME NEW c, NEW r, NEW s, sacch_block \in Blocks, Finalize(c, r, s)
    PROVE  /\ sacch_record'.message \in Seq(Messages)
           /\ sacch_record'.rch \in Seq(RchIds)
           /\ IF c = RchEnd THEN sacch_record'.rch = ProcRch(r) ELSE sacch_record'.rch = <<>>
           /\ c \notin {Sacch0End, Sacch1End} =>
                /\ sacch_record'.message = <<>>
                /\ sacch_block' = sacch_block /\ sacch_panic' = sacch_panic
           /\ c = Sacch0End => ProcSacch(s[0])
           /\ c = Sacch1End => ProcSacch(s[1])
<1>1. RchEnd # Sacch0End /\ RchEnd # Sacch1End /\ Sacch0End # Sacch1End
  BY Counts
<1>2. ProcRch(r) \in Seq(RchIds)
  <2>1. ASSUME NEW id \in RchIds, IsRch(r, id) PROVE r[1].rch = id
    <3>1. 1 \in 1 .. RchEnd
      BY Counts
    <3> QED BY <2>1, <3>1 DEF IsRch
  <2> QED BY <2>1 DEF ProcRch
<1>3. /\ NoRecord.message = <<>> /\ NoRecord.rch = <<>>
      /\ \A x : /\ [NoRecord EXCEPT !.rch = x].message = <<>>
                /\ [NoRecord EXCEPT !.rch = x].rch = x
  BY DEF NoRecord
<1>4. <<>> \in Seq(Messages) /\ <<>> \in Seq(RchIds)
  OBVIOUS
<1> HIDE DEF NoRecord
<1>5. CASE RchDue(c, r)
  BY <1>1, <1>2, <1>3, <1>4, <1>5 DEF RchDue
<1>6. CASE c = Sacch0End /\ ProcSacch(s[0])
  BY <1>1, <1>4, <1>6, ProcSacchReports
<1>7. CASE c = Sacch1End /\ ProcSacch(s[1])
  BY <1>1, <1>4, <1>7, ProcSacchReports
<1>8. CASE NothingDue(c)
  BY <1>1, <1>3, <1>4, <1>8 DEF NothingDue
<1> QED BY <1>5, <1>6, <1>7, <1>8 DEF Finalize

-----------------------------------------------------------------------------
(* Units and the block. *)

\* A unit in place changes its cell and no other.
LEMMA UnitGoesIntoItsCell ==
    ASSUME NEW b \in Blocks, NEW u \in Fragments, b.count # 0, ~Misplaced(b, u)
    PROVE  /\ b.count - FPos(u) \in 1 .. b.count
           /\ Assemble(b, u).count = b.count
           /\ Assemble(b, u).last_len = BodyLen(u)
           /\ Assemble(b, u).cells[b.count - FPos(u)] = u.piece
           /\ \A i \in 1 .. MaxCells :
                i # b.count - FPos(u) => Assemble(b, u).cells[i] = b.cells[i]
<1>1. b.count \in 0 .. MaxCells /\ MaxCells \in Nat
  BY BlockAssumption DEF Blocks
<1>2. FPos(u) \in Nat /\ FPos(u) < b.count
  BY <1>1 DEF FPos, Fragments, Misplaced
<1>3. b.count - FPos(u) \in 1 .. b.count /\ b.count - FPos(u) \in 1 .. MaxCells
  BY <1>1, <1>2
<1> QED BY <1>3 DEF Assemble, Blocks

\* The whole message, once it is in its cells.
LEMMA MessageIsSent ==
    ASSUME NEW p \in Plans, NEW x \in 1 .. Len(p), NEW b \in Blocks,
           InProgress(b, p[x]), p[x].unit = p[x].units, b.last_len = LastLen
    PROVE  Message(b) = Sent(p[x])
<1> DEFINE m == p[x]
           sent == [k \in 1 .. m.units |-> <<m.message, k>>]
<1>1. m.units \in Nat /\ m.units # 0 /\ b.count = m.units
  BY PlanFacts DEF InProgress
<1>2. \A k \in 1 .. m.units : b.cells[k] = <<m.message, k>>
  BY DEF InProgress
<1>3. /\ Message(b).pieces \in Seq(Pieces \cup {Zeroes})
      /\ Len(Message(b).pieces) = m.units
      /\ \A k \in 1 .. m.units : Message(b).pieces[k] = <<m.message, k>>
  BY <1>1, <1>2, MessagePieces
<1>4. \A k \in 1 .. m.units : <<m.message, k>> \in Pieces \cup {Zeroes}
  <2>1. \A k \in 1 .. m.units : b.cells[k] \in Pieces \cup {Zeroes}
    BY <1>1, BlockAssumption DEF Blocks
  <2> QED BY <1>2, <2>1
<1> HIDE DEF m
<1>5. sent \in Seq(Pieces \cup {Zeroes}) /\ Len(sent) = m.units
  <2>1. \A n \in Nat : \A S : \A f \in [1 .. n -> S] : f \in Seq(S) /\ Len(f) = n
    OBVIOUS
  <2>2. sent \in [1 .. m.units -> Pieces \cup {Zeroes}] /\ m.units \in Nat
    BY <1>1, <1>4
  <2> HIDE DEF sent
  <2> QED BY <2>1, <2>2
<1>6. Message(b).pieces = sent
  BY <1>3, <1>5, SeqEqual
<1>7. TotalLen(b) = (m.units - 1) * CellLen + LastLen
  BY <1>1 DEF TotalLen
<1>8. Message(b) = [pieces |-> Message(b).pieces, len |-> TotalLen(b)]
  BY DEF Message
<1> QED BY <1>6, <1>7, <1>8 DEF Sent, m

\* A message of one unit.
LEMMA SingleIsSent ==
    ASSUME NEW m, m.unit = 1, m.units = 1
    PROVE  [pieces |-> <<UnitOf(m).piece>>, len |-> UnitOf(m).len] = Sent(m)
<1>1. <<UnitOf(m).piece>> = [k \in 1 .. 1 |-> <<m.message, k>>]
  <2> DEFINE x == <<m.message, 1>>
             s == <<x>>
             t == [k \in 1 .. 1 |-> <<m.message, k>>]
  <2>1. \A k \in 1 .. 1 : k = 1
    OBVIOUS
  <2>2. s \in Seq({x}) /\ t \in Seq({x}) /\ Len(s) = 1 /\ Len(t) = 1 /\ s[1] = t[1]
    BY <2>1
  <2>3. s = t
    BY <2>1, <2>2, SeqEqual
  <2> QED BY <2>3, UnitFields
<1>2. (1 - 1) * CellLen + LastLen = LastLen
  BY BlockAssumption, PlansAssumption
<1> QED BY <1>1, <1>2, UnitFields DEF Sent

\* A unit of a longer message, when it is the first or those before it are in place, goes
\* into its cell, and the last one brings the message out.
LEMMA UnitGoesOn ==
    ASSUME NEW p \in Plans, NEW x \in 1 .. Len(p), NEW b \in Blocks, p[x].units # 1,
           p[x].unit = 1 \/ (x > 1 /\ InProgress(b, p[x - 1]))
    PROVE  LET u == UnitOf(p[x])
               a == IF u.first THEN AllocSacch(b, u.len + 1) ELSE b
               c == Assemble(a, u)
           IN /\ ~Misplaced(a, u)
              /\ InProgress(c, p[x])
              /\ p[x].unit = p[x].units => TotalLen(c) > 0 /\ Message(c) = Sent(p[x])
<1> DEFINE m == p[x]
           u == UnitOf(m)
           a == IF u.first THEN AllocSacch(b, u.len + 1) ELSE b
           c == Assemble(a, u)
<1>0. u \in Fragments
  BY UnitType
<1>1. /\ m.unit \in Nat /\ m.unit >= 1 /\ m.units \in Nat /\ m.unit <= m.units
      /\ m.units >= 2 /\ m.units <= MaxCells /\ MaxCells \in Nat
  <2>1. /\ m.unit \in Nat \ {0} /\ m.units \in 1 .. MaxCells /\ m.unit <= m.units
        /\ m.units \in Nat /\ MaxCells \in Nat
    BY PlanFacts, BlockAssumption
  <2>2. m.units # 1
    OBVIOUS
  <2> HIDE DEF m
  <2> QED BY <2>1, <2>2
<1>2. m.unit = 1 \/ (x > 1 /\ InProgress(b, p[x - 1]))
  OBVIOUS
<1>3. ASSUME m.unit # 1
      PROVE  b.count = m.units /\ \A l \in 1 .. (m.unit - 1) : b.cells[l] = <<m.message, l>>
  <2>1. x - 1 \in 1 .. Len(p) /\ x - 1 < Len(p) /\ (x - 1) + 1 = x
    BY <1>2, <1>3, PlanFacts
  <2>2. PICK w \in 1 .. Len(p) : w = x - 1
    BY <2>1
  <2>3. /\ p[w].unit < p[w].units =>
             m.message = p[w].message /\ m.units = p[w].units /\ m.unit = p[w].unit + 1
        /\ p[w].unit = p[w].units => m.unit = 1
    BY <2>1, <2>2, PlanGoesOn
  <2>4. p[w].unit \in Nat /\ p[w].units \in Nat /\ p[w].unit <= p[w].units
    BY PlanFacts
  <2>5. m.message = p[w].message /\ m.units = p[w].units /\ p[w].unit = m.unit - 1
    <3>1. \A i, j, k \in Nat : i <= j /\ i # j => i < j /\ (k = i + 1 => i = k - 1)
      OBVIOUS
    <3>2. m.unit \in Nat
      BY <1>1
    <3> HIDE DEF m
    <3> QED BY <1>3, <2>3, <2>4, <3>1, <3>2
  <2>6. InProgress(b, p[w])
    BY <1>2, <1>3, <2>2
  <2> QED BY <2>5, <2>6 DEF InProgress
<1> HIDE DEF m
<1>4. FPos(u) = m.units - m.unit
  BY <1>1, UnitFields DEF FPos
<1>5. a \in Blocks /\ a.count = m.units /\ \A l \in 1 .. (m.unit - 1) : a.cells[l] = <<m.message, l>>
  <2>1. CASE m.unit = 1
    <3>1. u.first /\ u.len = m.units - 1
      BY <1>1, <2>1, UnitFields
    <3>2. u.len + 1 = m.units
      BY <1>1, <3>1
    <3>3. AllocSacch(b, u.len + 1) \in Blocks
      BY <1>0, AllocType
    <3>4. a = AllocSacch(b, m.units)
      BY <3>1, <3>2
    <3>5. AllocSacch(b, m.units).count = m.units
      BY DEF AllocSacch, Blocks
    <3>6. 1 .. (m.unit - 1) = {}
      BY <2>1
    <3> QED BY <3>2, <3>3, <3>4, <3>5, <3>6
  <2>2. CASE m.unit # 1
    BY <1>3, <2>2, UnitFields
  <2> QED BY <2>1, <2>2
<1> HIDE DEF a, u
<1>6. ~Misplaced(a, u) /\ a.count # 0
  BY <1>1, <1>4, <1>5 DEF Misplaced
<1>7. /\ c \in Blocks /\ c.count = m.units /\ c.last_len = BodyLen(u)
      /\ c.cells[a.count - FPos(u)] = u.piece
      /\ \A i \in 1 .. MaxCells : i # a.count - FPos(u) => c.cells[i] = a.cells[i]
  BY <1>0, <1>5, <1>6, AssembleType, UnitGoesIntoItsCell
<1> HIDE DEF c
<1>8. InProgress(c, m)
  <2>1. a.count - FPos(u) = m.unit
    BY <1>1, <1>4, <1>5
  <2>2. u.piece = <<m.message, m.unit>>
    BY UnitFields DEF u
  <2>3. \A l \in 1 .. m.unit :
           l = m.unit \/ (l \in 1 .. (m.unit - 1) /\ l \in 1 .. MaxCells /\ l # m.unit)
    <3>1. \A i, n, j \in Nat : i <= n /\ n <= j =>
             \A l \in 1 .. i : l = i \/ (l \in 1 .. (i - 1) /\ l \in 1 .. j /\ l # i)
      OBVIOUS
    <3> QED BY <1>1, <3>1
  <2> QED BY <1>5, <1>7, <2>1, <2>2, <2>3 DEF InProgress
<1>9. ASSUME m.unit = m.units PROVE TotalLen(c) > 0 /\ Message(c) = Sent(m)
  <2>1. u.last /\ u.len = LastLen
    BY <1>9, UnitFields DEF u
  <2>2. c.last_len = LastLen
    BY <1>7, <2>1 DEF BodyLen
  <2>3. Message(c) = Sent(m)
    BY <1>7, <1>8, <1>9, <2>2, MessageIsSent DEF m
  <2>4. TotalLen(c) = (m.units - 1) * CellLen + LastLen
    BY <1>1, <1>7, <2>2 DEF TotalLen
  <2>5. \A i, j \in Nat \ {0} : \A k \in Nat : i * j + k > 0
    <3>1. \A i, j \in Nat \ {0} : i * j >= 1 /\ i * j \in Nat
      OBVIOUS
    <3> QED BY <3>1
  <2>6. m.units - 1 \in Nat \ {0} /\ CellLen \in Nat \ {0} /\ LastLen \in Nat
    <3>1. \A n \in Nat : n >= 2 => n - 1 \in Nat \ {0}
      OBVIOUS
    <3>2. m.units - 1 \in Nat \ {0}
      BY <1>1, <3>1
    <3>3. CellLen \in Nat /\ CellLen \in Nat \ {0} /\ LastLen \in 0 .. CellLen
      BY BlockAssumption, PlansAssumption
    <3> QED BY <3>2, <3>3
  <2> QED BY <2>3, <2>4, <2>5, <2>6
<1> QED BY <1>6, <1>8, <1>9 DEF a, c, u, m

\* What a unit that decodes does to the message under way, when that is the one the unit
\* before it is of, or none: it never stops the program, and reports at most the message
\* that is complete with it.
LEMMA UnitTaken ==
    ASSUME NEW p \in Plans, NEW x \in 1 .. Len(p), sacch_block \in Blocks,
           SacchSingle(UnitOf(p[x])) \/ SacchFragment(UnitOf(p[x])) \/ SacchMisplaced(UnitOf(p[x])),
           \/ p[x].unit = 1 \/ sacch_block.count = 0
           \/ x > 1 /\ InProgress(sacch_block, p[x - 1])
    PROVE  /\ sacch_panic' = sacch_panic
           /\ sacch_block'.count # 0 => InProgress(sacch_block', p[x])
           /\ \/ sacch_record'.message = <<>>
              \/ p[x].unit = p[x].units /\ sacch_record'.message = <<Sent(p[x])>>
           /\ p[x].unit = 1 \/ (x > 1 /\ InProgress(sacch_block, p[x - 1])) =>
                /\ p[x].units # 1 => InProgress(sacch_block', p[x])
                /\ p[x].unit = p[x].units => sacch_record'.message = <<Sent(p[x])>>
<1> DEFINE m == p[x]
           u == UnitOf(m)
           a == IF u.first THEN AllocSacch(sacch_block, u.len + 1) ELSE sacch_block
           c == Assemble(a, u)
           going == m.unit = 1 \/ (x > 1 /\ InProgress(sacch_block, p[x - 1]))
<1>1. /\ m.unit \in Nat /\ m.unit >= 1 /\ m.units \in Nat /\ m.unit <= m.units
      /\ u \in Fragments
  <2>1. /\ m.unit \in Nat \ {0} /\ m.unit <= m.units /\ m.units \in Nat /\ u \in Fragments
    BY PlanFacts, UnitType
  <2> HIDE DEF m
  <2> QED BY <2>1
<1>2. going \/ (sacch_block.count = 0 /\ ~going)
  OBVIOUS
<1>3. SacchSingle(u) \/ SacchFragment(u) \/ SacchMisplaced(u)
  OBVIOUS
<1>4. going /\ m.units # 1 =>
        /\ ~Misplaced(a, u) /\ InProgress(c, m)
        /\ m.unit = m.units => TotalLen(c) > 0 /\ Message(c) = Sent(m)
  BY UnitGoesOn
<1>5. /\ u.first <=> m.unit = 1
      /\ u.last <=> m.unit = m.units
  BY UnitFields
<1>6. \A f, g : [NoRecord EXCEPT !.unit = f, !.message = g].message = g
  BY DEF NoRecord
<1>7. \A b : InProgress(b, m) => b.count = m.units
  BY DEF InProgress
<1> DEFINE Goal ==
      /\ sacch_panic' = sacch_panic
      /\ sacch_block'.count # 0 => InProgress(sacch_block', m)
      /\ \/ sacch_record'.message = <<>>
         \/ m.unit = m.units /\ sacch_record'.message = <<Sent(m)>>
      /\ going => /\ m.units # 1 => InProgress(sacch_block', m)
                  /\ m.unit = m.units => sacch_record'.message = <<Sent(m)>>
<1> SUFFICES Goal
  OBVIOUS
<1>8. CASE m.units = 1
  <2>1. m.unit = 1 /\ u.first /\ u.last
    BY <1>1, <1>5, <1>8
  <2>2. SacchSingle(u)
    BY <1>3, <2>1 DEF SacchFragment, SacchMisplaced
  <2>3. /\ sacch_record'.message = <<[pieces |-> <<u.piece>>, len |-> u.len]>>
        /\ sacch_block' = InitBlock(sacch_block) /\ sacch_panic' = sacch_panic
    BY <1>6, <2>2 DEF SacchSingle
  <2>4. [pieces |-> <<u.piece>>, len |-> u.len] = Sent(m)
    BY <1>8, <2>1, SingleIsSent
  <2>5. sacch_block'.count = 0
    BY <2>3 DEF InitBlock, Blocks
  <2> HIDE DEF going, m, u
  <2> QED BY <1>8, <2>1, <2>3, <2>4, <2>5
<1>9. CASE m.units # 1 /\ going
  <2>1. ~(u.first /\ u.last) /\ ~Misplaced(a, u)
    BY <1>1, <1>4, <1>5, <1>9
  <2>2. SacchFragment(u)
    <3>1. ~u.first => a = sacch_block
      OBVIOUS
    <3> HIDE DEF a, u
    <3> QED BY <1>3, <2>1, <3>1 DEF SacchSingle, SacchMisplaced
  <2>3. /\ sacch_block' = c /\ sacch_panic' = sacch_panic
        /\ sacch_record'.message = IF u.last /\ TotalLen(c) > 0 THEN <<Message(c)>> ELSE <<>>
    BY <1>6, <2>2 DEF SacchFragment
  <2> HIDE DEF going, m, u, a, c
  <2> QED BY <1>4, <1>5, <1>9, <2>3
<1>10. CASE m.units # 1 /\ ~going
  <2>1. m.unit # 1 /\ ~u.first /\ a = sacch_block /\ sacch_block.count = 0
    BY <1>2, <1>5, <1>10
  <2>2. ~Misplaced(sacch_block, u) /\ c = sacch_block /\ TotalLen(c) = 0
    <3>1. ~Misplaced(sacch_block, u) /\ Assemble(sacch_block, u) = sacch_block
          /\ TotalLen(sacch_block) = 0
      BY <2>1 DEF Misplaced, Assemble, TotalLen
    <3> QED BY <2>1, <3>1
  <2>3. SacchFragment(u)
    BY <1>3, <2>1, <2>2 DEF SacchSingle, SacchMisplaced
  <2>4. /\ sacch_block' = c /\ sacch_panic' = sacch_panic
        /\ sacch_record'.message = IF u.last /\ TotalLen(c) > 0 THEN <<Message(c)>> ELSE <<>>
    BY <1>6, <2>3 DEF SacchFragment
  <2> HIDE DEF going, m, u, a, c
  <2>5. sacch_record'.message = <<>>
    BY <2>2, <2>4
  <2> QED BY <1>10, <2>1, <2>2, <2>4, <2>5
<1> QED BY <1>8, <1>9, <1>10

-----------------------------------------------------------------------------
(* Slots gathered in step with the sender. *)

LEMMA SlotStored ==
    ASSUME AirOK, Inv, NEW slot \in {SlotAt(plan, super, pos), Garbled}, Gather(pos, slot),
           Received(sacch_buf, pos)
    PROVE  /\ Received(sacch_buf', pos + 1)
           /\ Whole(sacch_buf, pos) /\ slot = SlotAt(plan, super, pos)
                => Whole(sacch_buf', pos + 1)
<1>1. /\ pos \in Nat /\ pos \in Positions /\ sacch_buf \in [Positions -> Slots]
      /\ sacch_buf' = [sacch_buf EXCEPT ![pos] = slot]
  BY Counts DEF AirOK, Positions, Inv, SFTypeOK, Gather
<1>2. ASSUME NEW c \in Positions, c < pos + 1 PROVE c = pos \/ c < pos
  BY <1>1, <1>2 DEF Positions
<1>3. /\ sacch_buf'[pos] = slot
      /\ \A c \in Positions : c # pos => sacch_buf'[c] = sacch_buf[c]
  BY <1>1
<1>4. Received(sacch_buf', pos + 1)
  BY <1>2, <1>3 DEF Received
<1>5. Whole(sacch_buf, pos) /\ slot = SlotAt(plan, super, pos) => Whole(sacch_buf', pos + 1)
  BY <1>2, <1>3 DEF Whole
<1> QED BY <1>4, <1>5

LEMMA InStep ==
    ASSUME AirOK, Inv, OnAir, NEW slot \in {SlotAt(plan, super, pos), Garbled},
           Gather(pos, slot), Received(sacch_buf, pos)
    PROVE  /\ sacch_count' = pos'
           /\ Received(sacch_buf, pos)'
           /\ Whole(sacch_buf, pos) /\ slot = SlotAt(plan, super, pos) => Whole(sacch_buf, pos)'
<1>1. /\ pos \in Nat /\ plan' = plan
      /\ pos + 1 # Sacch1End => pos' = pos + 1 /\ super' = super
      /\ pos + 1 = Sacch1End => pos' = 0 /\ super' = super + 1
  BY OnAirMoves DEF AirOK, Positions
<1>2. sacch_count' = IF pos + 1 = Sacch1End THEN 0 ELSE pos + 1
  BY DEF Gather, Finalize
<1>3. CASE pos + 1 = Sacch1End
  <2>1. \A c \in Positions : ~(c < 0)
    BY DEF Positions
  <2> QED BY <1>1, <1>2, <1>3, <2>1 DEF Received, Whole
<1>4. CASE pos + 1 # Sacch1End
  BY <1>1, <1>2, <1>4, SlotStored DEF Received, Whole
<1> QED BY <1>3, <1>4

\* Slots of a unit, or garbled, from slot n on are recognised as no other one, ...
LEMMA SlotsOfNoOther ==
    ASSUME NEW buf, NEW n, NEW m, m - n = UnitSlots, NEW v, NEW u \in Fragments \cup {IdleUnit},
           \A k \in 1 .. UnitSlots : buf[n + k - 1] \in {[unit |-> v, part |-> k], Garbled},
           IsUnit(Gathered(buf, n, m), u)
    PROVE  u = v
<1>1. 1 \in 1 .. UnitSlots
  BY Counts
<1>2. Gathered(buf, n, m)[1] = [unit |-> u, part |-> 1]
  BY <1>1 DEF IsUnit
<1>3. Gathered(buf, n, m)[1] = buf[n + 1 - 1]
  BY <1>1 DEF Gathered
<1>4. [unit |-> u, part |-> 1] \in SacchSlots
  BY <1>1 DEF SacchSlots
<1>5. [unit |-> u, part |-> 1] # Garbled
  BY <1>4, SlotsAssumption
<1>6. [unit |-> u, part |-> 1] = [unit |-> v, part |-> 1]
  BY <1>1, <1>2, <1>3, <1>5
<1> QED BY <1>6

\* ... and as that one when none is garbled.
LEMMA SlotsMakeUnit ==
    ASSUME NEW buf, NEW n, NEW m, m - n = UnitSlots, NEW v,
           \A k \in 1 .. UnitSlots : buf[n + k - 1] = [unit |-> v, part |-> k]
    PROVE  IsUnit(Gathered(buf, n, m), v)
<1>1. Gathered(buf, n, m) = [k \in 1 .. UnitSlots |-> buf[n + k - 1]]
  BY DEF Gathered
<1> QED BY <1>1 DEF IsUnit

\* Which slots a unit is in.
LEMMA SlotsOfUnits ==
    ASSUME NEW p, NEW n, NEW k \in 1 .. UnitSlots
    PROVE  /\ RchEnd + k - 1 \in Positions /\ RchEnd + k - 1 < Sacch0End
           /\ Sacch0End + k - 1 \in Positions /\ Sacch0End + k - 1 < Sacch1End
           /\ SlotAt(p, n, RchEnd + k - 1) = [unit |-> UnitAt(p, 2 * n - 1), part |-> k]
           /\ SlotAt(p, n, Sacch0End + k - 1) = [unit |-> UnitAt(p, 2 * n), part |-> k]
<1>1. PICK c \in Positions : c = RchEnd + k - 1
  BY Counts DEF Positions
<1>2. PICK d \in Positions : d = Sacch0End + k - 1
  BY Counts DEF Positions
<1>3. /\ ~(c < RchEnd) /\ c < Sacch0End /\ c - RchEnd + 1 = k
      /\ ~(d < RchEnd) /\ ~(d < Sacch0End) /\ d < Sacch1End /\ d - Sacch0End + 1 = k
  BY <1>1, <1>2, Counts DEF Positions
<1>4. /\ SlotAt(p, n, c) = [unit |-> UnitAt(p, 2 * n - 1), part |-> k]
      /\ SlotAt(p, n, d) = [unit |-> UnitAt(p, 2 * n), part |-> k]
  BY <1>3 DEF SlotAt
<1> QED BY <1>1, <1>2, <1>3, <1>4

\* With the last slot of a unit, proc_sacch runs on what was sent of it.
LEMMA UnitGathered ==
    ASSUME AirOK, Inv, OnAir, NEW slot \in {SlotAt(plan, super, pos), Garbled},
           Gather(pos, slot), Received(sacch_buf, pos), pos + 1 \in {Sacch0End, Sacch1End}
    PROVE  \E s : /\ ProcSacch(s)
                  /\ \A u \in Fragments \cup {IdleUnit} :
                        IsUnit(s, u) => u = UnitAt(plan, Behind + 1)
                  /\ Whole(sacch_buf, pos) /\ slot = SlotAt(plan, super, pos)
                        => IsUnit(s, UnitAt(plan, Behind + 1))
<1> DEFINE v == UnitAt(plan, Behind + 1)
           whole == Whole(sacch_buf, pos) /\ slot = SlotAt(plan, super, pos)
<1>1. /\ pos \in Nat /\ Behind \in Nat
      /\ pos + 1 = Sacch0End => Behind + 1 = 2 * super - 1
      /\ pos + 1 = Sacch1End => Behind + 1 = 2 * super
  BY OnAirMoves DEF AirOK, Positions
<1>2. v \in Fragments \cup {IdleUnit}
  <2>1. plan \in Plans /\ Len(plan) \in Nat /\ Behind + 1 >= 1 /\ Behind + 1 \in Nat
    BY <1>1, PlanFacts DEF AirOK
  <2> QED BY <2>1, UnitType DEF UnitAt
<1>3. Received(sacch_buf', pos + 1) /\ (whole => Whole(sacch_buf', pos + 1))
  BY SlotStored
<1>4. sacch_block \in Blocks /\ Finalize(pos + 1, rch', sacch')
  BY DEF Inv, SFTypeOK, Gather
<1>5. /\ pos + 1 = Sacch0End => v = UnitAt(plan, 2 * super - 1)
      /\ pos + 1 = Sacch1End => v = UnitAt(plan, 2 * super)
  BY <1>1
<1> HIDE DEF v, whole
<1>6. CASE pos + 1 = Sacch0End
  <2>1. ProcSacch(sacch'[0])
    BY <1>4, <1>6, FinalizeDoes
  <2>2. sacch'[0] = Gathered(sacch_buf', RchEnd, Sacch0End)
    BY <1>6, Counts DEF Gather
  <2>3. ASSUME NEW k \in 1 .. UnitSlots
        PROVE  /\ RchEnd + k - 1 \in Positions /\ RchEnd + k - 1 < pos + 1
               /\ SlotAt(plan, super, RchEnd + k - 1) = [unit |-> v, part |-> k]
    <3>1. /\ RchEnd + k - 1 \in Positions /\ RchEnd + k - 1 < Sacch0End
          /\ SlotAt(plan, super, RchEnd + k - 1) = [unit |-> UnitAt(plan, 2 * super - 1), part |-> k]
      BY SlotsOfUnits
    <3> QED BY <1>5, <1>6, <3>1
  <2>4. \A k \in 1 .. UnitSlots :
           sacch_buf'[RchEnd + k - 1] \in {[unit |-> v, part |-> k], Garbled}
    BY <1>3, <2>3 DEF Received
  <2>5. whole => \A k \in 1 .. UnitSlots : sacch_buf'[RchEnd + k - 1] = [unit |-> v, part |-> k]
    BY <1>3, <2>3 DEF Whole
  <2>6. RchEnd \in Nat /\ Sacch0End \in Nat /\ Sacch0End - RchEnd = UnitSlots
    BY Counts
  <2>7. /\ \A u \in Fragments \cup {IdleUnit} : IsUnit(sacch'[0], u) => u = v
        /\ whole => IsUnit(sacch'[0], v)
    <3>1. ASSUME NEW u \in Fragments \cup {IdleUnit}, IsUnit(Gathered(sacch_buf', RchEnd, Sacch0End), u)
          PROVE  u = v
      BY <2>4, <2>6, <3>1, SlotsOfNoOther
    <3>2. ASSUME whole PROVE IsUnit(Gathered(sacch_buf', RchEnd, Sacch0End), v)
      BY <2>5, <2>6, <3>2, SlotsMakeUnit
    <3> QED BY <2>2, <3>1, <3>2
  <2> QED BY <2>1, <2>7 DEF v, whole
<1>7. CASE pos + 1 = Sacch1End
  <2>1. ProcSacch(sacch'[1])
    BY <1>4, <1>7, FinalizeDoes
  <2>2. sacch'[1] = Gathered(sacch_buf', Sacch0End, Sacch1End)
    BY <1>7, Counts DEF Gather
  <2>3. ASSUME NEW k \in 1 .. UnitSlots
        PROVE  /\ Sacch0End + k - 1 \in Positions /\ Sacch0End + k - 1 < pos + 1
               /\ SlotAt(plan, super, Sacch0End + k - 1) = [unit |-> v, part |-> k]
    <3>1. /\ Sacch0End + k - 1 \in Positions /\ Sacch0End + k - 1 < Sacch1End
          /\ SlotAt(plan, super, Sacch0End + k - 1) = [unit |-> UnitAt(plan, 2 * super), part |-> k]
      BY SlotsOfUnits
    <3> QED BY <1>5, <1>7, <3>1
  <2>4. \A k \in 1 .. UnitSlots :
           sacch_buf'[Sacch0End + k - 1] \in {[unit |-> v, part |-> k], Garbled}
    BY <1>3, <2>3 DEF Received
  <2>5. whole => \A k \in 1 .. UnitSlots : sacch_buf'[Sacch0End + k - 1] = [unit |-> v, part |-> k]
    BY <1>3, <2>3 DEF Whole
  <2>6. Sacch0End \in Nat /\ Sacch1End \in Nat /\ Sacch1End - Sacch0End = UnitSlots
    BY Counts
  <2>7. /\ \A u \in Fragments \cup {IdleUnit} : IsUnit(sacch'[1], u) => u = v
        /\ whole => IsUnit(sacch'[1], v)
    <3>1. ASSUME NEW u \in Fragments \cup {IdleUnit}, IsUnit(Gathered(sacch_buf', Sacch0End, Sacch1End), u)
          PROVE  u = v
      BY <2>4, <2>6, <3>1, SlotsOfNoOther
    <3>2. ASSUME whole PROVE IsUnit(Gathered(sacch_buf', Sacch0End, Sacch1End), v)
      BY <2>5, <2>6, <3>2, SlotsMakeUnit
    <3> QED BY <2>2, <3>1, <3>2
  <2> QED BY <2>1, <2>7 DEF v, whole
<1> QED BY <1>6, <1>7

\* So the unit fails, or it is idle behind the plan, or it is the next one of the plan.
LEMMA UnitEnds ==
    ASSUME AirOK, Inv, OnAir, NEW slot \in {SlotAt(plan, super, pos), Garbled},
           Gather(pos, slot), Received(sacch_buf, pos), pos + 1 \in {Sacch0End, Sacch1End}
    PROVE  \/ /\ sacch_panic' = sacch_panic /\ sacch_record'.message = <<>>
              /\ \/ /\ sacch_block'.count = 0
                    /\ ~(Whole(sacch_buf, pos) /\ slot = SlotAt(plan, super, pos))
                 \/ sacch_block' = sacch_block /\ Behind = Len(plan)
           \/ /\ Behind + 1 \in 1 .. Len(plan)
              /\ \/ SacchSingle(UnitOf(plan[Behind + 1]))
                 \/ SacchFragment(UnitOf(plan[Behind + 1]))
                 \/ SacchMisplaced(UnitOf(plan[Behind + 1]))
<1> DEFINE v == UnitAt(plan, Behind + 1)
           whole == Whole(sacch_buf, pos) /\ slot = SlotAt(plan, super, pos)
<1>1. PICK s : /\ ProcSacch(s)
               /\ \A u \in Fragments \cup {IdleUnit} : IsUnit(s, u) => u = v
               /\ whole => IsUnit(s, v)
  BY UnitGathered
<1>2. /\ Behind \in Nat /\ Len(plan) \in Nat /\ Behind <= Len(plan) /\ plan \in Plans
      /\ sacch_block \in Blocks
  BY OnAirMoves, PlanFacts DEF AirOK, Inv, SFTypeOK
<1>3. /\ Behind + 1 <= Len(plan) =>
             /\ Behind + 1 \in 1 .. Len(plan) /\ v = UnitOf(plan[Behind + 1])
             /\ v \in Fragments
      /\ ~(Behind + 1 <= Len(plan)) => v = IdleUnit /\ Behind = Len(plan)
  <2>1. Behind + 1 <= Len(plan) => Behind + 1 \in 1 .. Len(plan) /\ v = UnitOf(plan[Behind + 1])
    BY <1>2 DEF UnitAt
  <2>2. ~(Behind + 1 <= Len(plan)) => v = IdleUnit /\ Behind = Len(plan)
    BY <1>2 DEF UnitAt
  <2> HIDE DEF v
  <2> QED BY <1>2, <2>1, <2>2, UnitType
<1>4. IdleUnit \notin Fragments
  BY CountsAssumption
<1>5. \A x : [NoRecord EXCEPT !.unit = x].message = <<>>
  BY DEF NoRecord
<1> HIDE DEF v, whole
<1>6. CASE SacchIdle(s)
  <2>1. v = IdleUnit
    BY <1>1, <1>6 DEF SacchIdle
  <2>2. Behind = Len(plan)
    BY <1>3, <1>4, <2>1
  <2> QED BY <1>6, <2>2 DEF SacchIdle, NoRecord
<1>7. CASE SacchFailed(s)
  <2>1. ~IsUnit(s, v)
    BY <1>3, <1>7 DEF SacchFailed
  <2>2. ~whole
    BY <1>1, <2>1
  <2>3. sacch_block'.count = 0
    BY <1>2, <1>7 DEF SacchFailed, InitBlock, Blocks
  <2> QED BY <1>5, <1>7, <2>2, <2>3 DEF SacchFailed, whole
<1>8. ASSUME NEW u \in Fragments, IsUnit(s, u),
             SacchSingle(u) \/ SacchFragment(u) \/ SacchMisplaced(u)
      PROVE  /\ Behind + 1 \in 1 .. Len(plan)
             /\ \/ SacchSingle(UnitOf(plan[Behind + 1]))
                \/ SacchFragment(UnitOf(plan[Behind + 1]))
                \/ SacchMisplaced(UnitOf(plan[Behind + 1]))
  <2>1. u = v /\ v # IdleUnit
    BY <1>1, <1>4, <1>8
  <2>2. Behind + 1 \in 1 .. Len(plan) /\ u = UnitOf(plan[Behind + 1])
    BY <1>3, <2>1
  <2> QED BY <1>8, <2>2
<1> QED BY <1>1, <1>6, <1>7, <1>8 DEF ProcSacch

-----------------------------------------------------------------------------
(* What is reported: types, and RCHs in the order of the super-frames. *)

LEMMA ReportsTyped ==
    ASSUME Inv, AirOK, HeardOK, OnAir, WholeStep \/ HurtStep
    PROVE  HeardOK'
<1>1. CASE Report
  BY <1>1 DEF Report, HeardOK
<1>2. ASSUME sacch_record'.message \in Seq(Messages), sacch_record'.rch \in Seq(RchIds), Decoded
      PROVE  HeardOK'
  BY <1>2, ConcatProperties DEF Decoded, HeardOK
<1>3. sacch_block \in Blocks
  BY DEF Inv, SFTypeOK
<1>4. ASSUME NEW slot, PscFrame(slot), Decoded PROVE HeardOK'
  <2>1. CASE \E c \in Positions : Gather(c, slot)
    BY <1>2, <1>3, <1>4, <2>1, FinalizeDoes DEF Gather
  <2>2. CASE sacch_record' = NoRecord
    BY <1>2, <1>4, <2>2 DEF NoRecord
  <2> QED BY <1>4, <2>1, <2>2, FrameStep
<1>5. CASE RichError /\ Decoded
  BY <1>2, <1>3, <1>5, FinalizeDoes DEF RichError
<1> QED BY <1>1, <1>4, <1>5 DEF WholeStep, HurtStep

\* An RCH is reported when the last slot of one is on air, and it is that one.
LEMMA RchReported ==
    ASSUME AirOK, Inv, Sending, NEW slot \in {SlotAt(plan, super, pos), Garbled}, PscFrame(slot),
           sacch_record'.rch # <<>>
    PROVE  sacch_record'.rch = <<super>> /\ pos + 1 = RchEnd
<1>1. PICK c \in Positions : Gather(c, slot)
  BY FrameStep DEF NoRecord
<1>2. c + 1 = RchEnd /\ sacch_record'.rch = ProcRch(rch')
  BY <1>1, FinalizeDoes DEF Gather, Inv, SFTypeOK
<1>3. PICK id \in RchIds : IsRch(rch', id) /\ sacch_record'.rch = <<rch'[1].rch>>
  BY <1>2 DEF ProcRch
<1>4. 1 \in 1 .. RchEnd /\ RchEnd \in 1 .. RchEnd /\ RchEnd - 0 = RchEnd
  BY Counts
<1>5. rch'[1].rch = id /\ rch'[RchEnd] = [rch |-> id, part |-> RchEnd]
  BY <1>3, <1>4 DEF IsRch
<1>6. rch'[RchEnd] = slot
  <2>1. rch' = Gathered(sacch_buf', 0, RchEnd) /\ sacch_buf' = [sacch_buf EXCEPT ![c] = slot]
    BY <1>1, <1>2 DEF Gather
  <2>2. rch'[RchEnd] = sacch_buf'[0 + RchEnd - 1] /\ 0 + RchEnd - 1 = c
    BY <1>2, <1>4, <2>1, Counts DEF Gathered, Positions
  <2>3. sacch_buf'[c] = slot
    BY <2>1 DEF Inv, SFTypeOK
  <2> QED BY <2>2, <2>3
<1>7. slot # Garbled
  <2>1. [rch |-> id, part |-> RchEnd] \in RchSlots
    BY <1>4 DEF RchSlots
  <2> QED BY <1>5, <1>6, <2>1, SlotsAssumption
<1>8. [rch |-> id, part |-> RchEnd] = SlotAt(plan, super, pos)
  BY <1>5, <1>6, <1>7
<1>9. pos < RchEnd
  <2>1. SUFFICES ASSUME ~(pos < RchEnd) PROVE FALSE
    OBVIOUS
  <2>2. \E u, k : SlotAt(plan, super, pos) = [unit |-> u, part |-> k]
    BY <2>1 DEF SlotAt
  <2>3. PICK u, k : [rch |-> id, part |-> RchEnd] = [unit |-> u, part |-> k]
    BY <1>8, <2>2
  <2>4. DOMAIN [rch |-> id, part |-> RchEnd] = {"rch", "part"}
        /\ DOMAIN [unit |-> u, part |-> k] = {"unit", "part"}
    OBVIOUS
  <2>5. "rch" \in {"unit", "part"}
    BY <2>3, <2>4
  <2> QED BY <2>5
<1>10. SlotAt(plan, super, pos) = [rch |-> super, part |-> pos + 1]
  BY <1>9 DEF SlotAt
<1>11. id = super /\ RchEnd = pos + 1
  BY <1>8, <1>10
<1> QED BY <1>3, <1>5, <1>11

\* A report more.
LEMMA OneMore ==
    ASSUME NEW S, NEW s \in Seq(S), NEW x \in S
    PROVE  /\ s \o <<x>> \in Seq(S)
           /\ Len(s \o <<x>>) = Len(s) + 1
           /\ \A k \in 1 .. Len(s) : (s \o <<x>>)[k] = s[k]
           /\ (s \o <<x>>)[Len(s) + 1] = x
<1>1. <<x>> \in Seq(S) /\ Len(<<x>>) = 1 /\ <<x>>[1] = x /\ Len(s) \in Nat
  OBVIOUS
<1> QED BY <1>1, ConcatProperties

LEMMA RchsStayInOrder ==
    ASSUME AirOK, Inv, HeardOK, RchsInOrder, OnAir, WholeStep \/ HurtStep
    PROVE  RchsInOrder'
<1> SUFFICES ASSUME "header" \notin damage'
             PROVE  /\ \A k \in DOMAIN rch_heard' :
                          /\ rch_heard'[k] \in Nat
                          /\ \/ rch_heard'[k] < super'
                             \/ rch_heard'[k] = super' /\ pos' >= RchEnd
                    /\ \A j, k \in DOMAIN rch_heard' : j < k => rch_heard'[j] < rch_heard'[k]
  BY DEF RchsInOrder
<1>1. /\ pos \in Nat /\ super \in Nat /\ super' \in Nat /\ pos' \in Nat
      /\ pos + 1 # Sacch1End => pos' = pos + 1 /\ super' = super
      /\ pos + 1 = Sacch1End => pos' = 0 /\ super' = super + 1
  BY OnAirMoves DEF AirOK, Positions
<1>2. damage \subseteq damage'
  BY DEF WholeStep, HurtStep
<1>3. /\ \A k \in DOMAIN rch_heard :
            /\ rch_heard[k] \in Nat
            /\ rch_heard[k] < super \/ (rch_heard[k] = super /\ pos >= RchEnd)
      /\ \A j, k \in DOMAIN rch_heard : j < k => rch_heard[j] < rch_heard[k]
  BY <1>2 DEF RchsInOrder
<1>4. \A r \in Nat : r < super \/ (r = super /\ pos >= RchEnd)
                        => r < super' \/ (r = super' /\ pos' >= RchEnd)
  BY <1>1, Counts
<1>5. CASE rch_heard' = rch_heard
  BY <1>3, <1>4, <1>5
<1>6. ASSUME NEW slot \in {SlotAt(plan, super, pos), Garbled}, PscFrame(slot), Decoded,
             rch_heard' # rch_heard
      PROVE  rch_heard' = rch_heard \o <<super>> /\ pos + 1 = RchEnd
  <2>1. rch_heard' = rch_heard \o sacch_record'.rch
    BY <1>6 DEF Decoded
  <2>2. sacch_record'.rch # <<>>
    BY <1>6, <2>1, ConcatEmptySeq DEF HeardOK
  <2> QED BY <1>6, <2>1, <2>2, RchReported DEF OnAir
<1>7. rch_heard' # rch_heard => rch_heard' = rch_heard \o <<super>> /\ pos + 1 = RchEnd
  BY <1>6 DEF WholeStep, HurtStep, Report
<1>8. CASE rch_heard' # rch_heard
  <2>1. super \in RchIds /\ rch_heard \in Seq(RchIds)
    BY SlotTypes DEF OnAir, HeardOK
  <2>2. /\ Len(rch_heard) \in Nat
        /\ DOMAIN rch_heard = 1 .. Len(rch_heard) /\ DOMAIN rch_heard' = 1 .. (Len(rch_heard) + 1)
        /\ \A k \in 1 .. Len(rch_heard) : rch_heard'[k] = rch_heard[k]
        /\ rch_heard'[Len(rch_heard) + 1] = super
    BY <1>7, <1>8, <2>1, OneMore
  <2>3. \A k \in DOMAIN rch_heard' : k \in DOMAIN rch_heard \/ k = Len(rch_heard) + 1
    BY <2>2
  <2>4. super' = super /\ pos' >= RchEnd /\ ~(pos >= RchEnd)
    BY <1>1, <1>7, <1>8, Counts
  <2>5. \A k \in DOMAIN rch_heard : rch_heard[k] \in Nat /\ rch_heard[k] < super
    BY <1>3, <2>4
  <2>6. ASSUME NEW j \in DOMAIN rch_heard', NEW k \in DOMAIN rch_heard', j < k
        PROVE  rch_heard'[j] < rch_heard'[k]
    <3>1. j \in DOMAIN rch_heard
      BY <2>2, <2>6
    <3>2. CASE k = Len(rch_heard) + 1
      BY <2>2, <2>5, <3>1, <3>2
    <3>3. CASE k \in DOMAIN rch_heard
      BY <1>3, <2>2, <2>6, <3>1, <3>3
    <3> QED BY <2>3, <3>2, <3>3
  <2>7. \A k \in DOMAIN rch_heard' : rch_heard'[k] \in Nat /\ (rch_heard'[k] < super \/ rch_heard'[k] = super)
    BY <1>1, <2>2, <2>3, <2>5
  <2> QED BY <2>4, <2>6, <2>7
<1> QED BY <1>5, <1>8

-----------------------------------------------------------------------------
(* After damage that is noticed. *)

\* A message more.
LEMMA MessageMore ==
    ASSUME HeardOK, NEW x, heard' = heard \o <<x>>
    PROVE  /\ Len(heard) \in Nat
           /\ DOMAIN heard = 1 .. Len(heard) /\ DOMAIN heard' = 1 .. (Len(heard) + 1)
           /\ \A k \in DOMAIN heard : heard'[k] = heard[k]
           /\ heard'[Len(heard) + 1] = x
           /\ \A k \in DOMAIN heard' : k \in DOMAIN heard \/ k = Len(heard) + 1
<1> DEFINE S == Messages \cup {x}
<1>1. heard \in Seq(S) /\ x \in S
  <2>1. heard \in Seq(Messages)
    BY DEF HeardOK
  <2> HIDE DEF Messages
  <2> QED BY <2>1
<1> HIDE DEF S
<1>2. /\ Len(heard) \in Nat
      /\ DOMAIN heard = 1 .. Len(heard) /\ DOMAIN heard' = 1 .. (Len(heard) + 1)
      /\ \A k \in 1 .. Len(heard) : heard'[k] = heard[k]
      /\ heard'[Len(heard) + 1] = x
  BY <1>1, OneMore
<1> QED BY <1>2

LEMMA SentFirst ==
    ASSUME NEW p \in Plans, NEW x \in 1 .. Len(p)
    PROVE  Sent(p[x]).pieces[1][1] = p[x].message /\ p[x].message \in Nat
<1>1. p[x].units \in Nat /\ p[x].units \in 1 .. MaxCells /\ p[x].message \in Nat
  BY PlanFacts
<1>2. 1 \in 1 .. p[x].units
  <2>1. \A n \in Nat : n \in 1 .. MaxCells => 1 \in 1 .. n
    BY BlockAssumption
  <2> QED BY <1>1, <2>1
<1> QED BY <1>1, <1>2 DEF Sent

LEMMA HeardStaysSent ==
    ASSUME AirOK, HeardOK, HeardSent, OnAir,
           \/ heard' = heard
           \/ /\ Behind' = Behind + 1 /\ Behind + 1 \in 1 .. Len(plan)
              /\ plan[Behind + 1].unit = plan[Behind + 1].units
              /\ heard' = heard \o <<Sent(plan[Behind + 1])>>
    PROVE  HeardSent'
<1>1. /\ plan \in Plans /\ plan' = plan /\ Len(plan) \in Nat
      /\ Behind \in Nat /\ Behind' \in Nat /\ (Behind' = Behind \/ Behind' = Behind + 1)
  BY OnAirMoves, PlanFacts DEF AirOK
<1> DEFINE First(k) == heard[k].pieces[1][1]
<1>2. /\ \A k \in DOMAIN heard : \E x \in 1 .. Len(plan) :
            plan[x].unit = plan[x].units /\ heard[k] = Sent(plan[x])
      /\ Behind < Len(plan) => \A k \in DOMAIN heard : First(k) < plan[Behind + 1].message
      /\ \A j, k \in DOMAIN heard : j < k => First(j) < First(k)
  BY DEF HeardSent
<1>3. \A k \in DOMAIN heard : First(k) \in Nat
  BY <1>1, <1>2, SentFirst
\* The units after the next one are of its message or of a later one.
<1>4. ASSUME Behind' = Behind + 1, Behind' < Len(plan)
      PROVE  /\ plan[Behind + 1].message \in Nat /\ plan[Behind' + 1].message \in Nat
             /\ plan[Behind + 1].message <= plan[Behind' + 1].message
             /\ plan[Behind + 1].unit = plan[Behind + 1].units
                   => plan[Behind + 1].message < plan[Behind' + 1].message
  <2>1. PICK w \in 1 .. Len(plan) : w = Behind + 1 /\ w < Len(plan) /\ w + 1 = Behind' + 1
    BY <1>1, <1>4
  <2>2. PICK y \in 1 .. Len(plan) : y = w + 1
    BY <1>1, <2>1
  <2>3. /\ plan[w].unit \in Nat /\ plan[w].units \in Nat /\ plan[w].unit <= plan[w].units
        /\ plan[w].message \in Nat /\ plan[y].message \in Nat
    BY <1>1, PlanFacts
  <2>4. /\ plan[w].unit < plan[w].units => plan[y].message = plan[w].message
        /\ plan[w].unit = plan[w].units => plan[y].message > plan[w].message
    BY <1>1, <2>1, <2>2, PlanGoesOn
  <2>5. \A i, j \in Nat : i <= j => i < j \/ i = j
    OBVIOUS
  <2>6. plan[w].unit < plan[w].units \/ plan[w].unit = plan[w].units
    BY <2>3, <2>5
  <2>7. /\ plan[w].message <= plan[y].message
        /\ plan[w].unit = plan[w].units => plan[w].message < plan[y].message
    BY <2>3, <2>4, <2>6
  <2> QED BY <2>1, <2>2, <2>3, <2>7
<1>5. CASE heard' = heard
  <2>1. ASSUME Behind' < Len(plan), NEW k \in DOMAIN heard
        PROVE  First(k) < plan[Behind' + 1].message
    <3>1. Behind < Len(plan)
      BY <1>1, <2>1
    <3>2. First(k) < plan[Behind + 1].message /\ First(k) \in Nat
      BY <1>2, <1>3, <3>1
    <3> HIDE DEF First
    <3>3. CASE Behind' = Behind
      BY <3>2, <3>3
    <3>4. CASE Behind' = Behind + 1
      BY <1>4, <2>1, <3>2, <3>4
    <3> QED BY <1>1, <3>3, <3>4
  <2> QED BY <1>1, <1>2, <1>5, <2>1 DEF HeardSent
<1>6. CASE heard' # heard
  <2>0. PICK x \in 1 .. Len(plan) : x = Behind + 1
    BY <1>6
  <2> DEFINE m == plan[x]
             n == Len(heard) + 1
  <2>1. /\ Behind' = Behind + 1 /\ Behind + 1 \in 1 .. Len(plan) /\ m.unit = m.units
        /\ heard' = heard \o <<Sent(m)>> /\ m = plan[Behind + 1]
    BY <1>6, <2>0
  <2>9. Sent(m).pieces[1][1] = m.message /\ m.message \in Nat
    BY <1>1, SentFirst
  <2>2. /\ DOMAIN heard = 1 .. Len(heard) /\ Len(heard) \in Nat
        /\ \A k \in DOMAIN heard : heard'[k] = heard[k]
        /\ heard'[n] = Sent(m)
        /\ \A k \in DOMAIN heard' : k \in DOMAIN heard \/ k = n
        /\ DOMAIN heard' = 1 .. n
    BY <2>1, MessageMore
  <2>3. heard'[n].pieces[1][1] = m.message /\ m.message \in Nat
    BY <2>2, <2>9
  <2>4. \A k \in DOMAIN heard : First(k) < m.message
    BY <1>1, <1>2, <2>1
  <2>5. \A k \in DOMAIN heard : heard'[k].pieces[1][1] = First(k)
    BY <2>2
  <2>6. \A k \in DOMAIN heard' : \E y \in 1 .. Len(plan) :
           plan[y].unit = plan[y].units /\ heard'[k] = Sent(plan[y])
    <3>1. ASSUME NEW k \in DOMAIN heard
          PROVE  \E y \in 1 .. Len(plan) : plan[y].unit = plan[y].units /\ heard'[k] = Sent(plan[y])
      BY <1>2, <2>2
    <3>2. heard'[n] = Sent(plan[x])
      BY <2>2
    <3>3. plan[x].unit = plan[x].units
      BY <2>1
    <3> QED BY <2>2, <3>1, <3>2, <3>3
  <2> HIDE DEF First
  <2>7. ASSUME NEW j \in DOMAIN heard', NEW k \in DOMAIN heard', j < k
        PROVE  heard'[j].pieces[1][1] < heard'[k].pieces[1][1]
    <3>1. j \in DOMAIN heard
      BY <2>2, <2>7
    <3>2. CASE k = n
      BY <2>3, <2>4, <2>5, <3>1, <3>2
    <3>3. CASE k \in DOMAIN heard
      BY <1>2, <2>5, <2>7, <3>1, <3>3
    <3> QED BY <2>2, <3>2, <3>3
  <2>8. ASSUME Behind' < Len(plan), NEW k \in DOMAIN heard'
        PROVE  heard'[k].pieces[1][1] < plan[Behind' + 1].message
    <3>1. m.message < plan[Behind' + 1].message /\ plan[Behind' + 1].message \in Nat
      BY <1>4, <2>1, <2>8
    <3>2. CASE k = n
      BY <2>3, <3>1, <3>2
    <3>3. CASE k \in DOMAIN heard
      BY <1>3, <2>3, <2>4, <2>5, <3>1, <3>3
    <3> QED BY <2>2, <3>2, <3>3
  <2> QED BY <1>1, <2>6, <2>7, <2>8 DEF HeardSent
<1> QED BY <1>5, <1>6

\* A frame counted in step with the sender.
LEMMA CountedFrame ==
    ASSUME AirOK, Inv, HeardOK, OnAir, NEW slot \in {SlotAt(plan, super, pos), Garbled},
           Gather(pos, slot), Received(sacch_buf, pos), BlockSent, Decoded
    PROVE  /\ sacch_panic' = sacch_panic
           /\ BlockSent'
           /\ \/ heard' = heard
              \/ /\ Behind' = Behind + 1 /\ Behind + 1 \in 1 .. Len(plan)
                 /\ plan[Behind + 1].unit = plan[Behind + 1].units
                 /\ heard' = heard \o <<Sent(plan[Behind + 1])>>
<1>1. /\ plan \in Plans /\ plan' = plan /\ Len(plan) \in Nat
      /\ Behind \in Nat /\ Behind <= Len(plan) /\ LastBehind = Behind
      /\ sacch_block \in Blocks
  BY OnAirMoves, PlanFacts DEF AirOK, Inv, SFTypeOK
<1>2. heard' = heard \o sacch_record'.message /\ heard \o <<>> = heard
  BY ConcatEmptySeq DEF Decoded, HeardOK
<1>3. sacch_block.count # 0 => Behind # 0 /\ InProgress(sacch_block, plan[Behind])
  BY <1>1 DEF BlockSent
<1>4. LastBehind' = IF Behind' <= Len(plan) THEN Behind' ELSE Len(plan)
  BY <1>1 DEF LastBehind
<1>5. CASE pos + 1 \notin {Sacch0End, Sacch1End}
  <2>1. /\ sacch_panic' = sacch_panic /\ sacch_block' = sacch_block
        /\ sacch_record'.message = <<>>
    BY <1>1, <1>5, FinalizeDoes DEF Gather
  <2>2. LastBehind' = Behind
    BY <1>1, <1>4, <1>5, OnAirMoves
  <2> QED BY <1>1, <1>2, <1>3, <2>1, <2>2 DEF BlockSent
<1>6. CASE pos + 1 \in {Sacch0End, Sacch1End}
  <2>1. Behind' = Behind + 1
    BY <1>6, OnAirMoves
  <2>2. CASE sacch_panic' = sacch_panic /\ sacch_record'.message = <<>> /\ sacch_block'.count = 0
    BY <1>2, <2>2 DEF BlockSent
  <2>3. CASE /\ sacch_panic' = sacch_panic /\ sacch_record'.message = <<>>
             /\ sacch_block' = sacch_block /\ Behind = Len(plan)
    <3>1. LastBehind' = Behind
      BY <1>1, <1>4, <2>1, <2>3
    <3> QED BY <1>1, <1>2, <1>3, <2>3, <3>1 DEF BlockSent
  <2>4. CASE /\ Behind + 1 \in 1 .. Len(plan)
             /\ \/ SacchSingle(UnitOf(plan[Behind + 1]))
                \/ SacchFragment(UnitOf(plan[Behind + 1]))
                \/ SacchMisplaced(UnitOf(plan[Behind + 1]))
    <3>1. PICK x \in 1 .. Len(plan) : x = Behind + 1
      BY <2>4
    <3>2. LastBehind' = x /\ x # 0 /\ x - 1 = Behind
      BY <1>1, <1>4, <2>1, <3>1
    <3>3. sacch_block.count = 0 \/ (x > 1 /\ InProgress(sacch_block, plan[x - 1]))
      BY <1>1, <1>3, <3>1, <3>2
    <3>4. /\ sacch_panic' = sacch_panic
          /\ sacch_block'.count # 0 => InProgress(sacch_block', plan[x])
          /\ \/ sacch_record'.message = <<>>
             \/ plan[x].unit = plan[x].units /\ sacch_record'.message = <<Sent(plan[x])>>
      BY <1>1, <2>4, <3>1, <3>3, UnitTaken
    <3> QED BY <1>1, <1>2, <2>1, <3>1, <3>2, <3>4 DEF BlockSent
  <2> QED BY <1>6, <2>2, <2>3, <2>4, UnitEnds
<1> QED BY <1>5, <1>6

LEMMA RecognisedStays ==
    ASSUME AirOK, Inv, HeardOK, Recognised, OnAir, WholeStep \/ HurtStep
    PROVE  Recognised'
<1> SUFFICES ASSUME Noticed' PROVE (CountedOrNot /\ BlockSent /\ HeardSent)'
  BY DEF Recognised
<1>1. damage \subseteq damage' /\ "gone" \notin damage' /\ "header" \notin damage'
  BY DEF WholeStep, HurtStep, Noticed
<1>2. CountedOrNot /\ BlockSent /\ HeardSent
  BY <1>1 DEF Recognised, Noticed
<1>3. /\ pos \in Nat /\ plan' = plan /\ plan \in Plans
      /\ pos' \in Positions /\ (pos' = pos + 1 \/ pos' = 0)
  BY OnAirMoves DEF AirOK, Positions
<1>4. sacch_block \in Blocks
  BY DEF Inv, SFTypeOK
\* Nothing counted, and no message under way.
<1>5. ASSUME ~sacch_panic', sacch_count' = 0, sacch_block'.count = 0, heard' = heard
      PROVE  (CountedOrNot /\ BlockSent /\ HeardSent)'
  <2>2. pos' = 0 => Received(sacch_buf, pos)'
    <3>1. \A c \in Positions : ~(c < 0)
      BY DEF Positions
    <3> QED BY <3>1 DEF Received
  <2> QED BY <1>2, <1>5, <2>2, HeardStaysSent DEF CountedOrNot, BlockSent
<1>6. CASE ResetIdle /\ Report
  <2>1. sacch_block'.count = 0
    BY <1>4, <1>6 DEF ResetIdle, InitBlock, Blocks
  <2> QED BY <1>5, <1>6, <2>1 DEF ResetIdle, Report
<1>7. ASSUME NEW slot \in {SlotAt(plan, super, pos), Garbled}, PscFrame(slot), Decoded
      PROVE  (CountedOrNot /\ BlockSent /\ HeardSent)'
  <2>1. CASE Gather(pos, slot) /\ (sacch_count = pos \/ pos = 0)
    <3>1. Received(sacch_buf, pos)
      <4>1. pos = 0 => Received(sacch_buf, pos)
        BY Counts DEF Received, Positions
      <4> QED BY <1>2, <2>1, <4>1 DEF CountedOrNot
    <3>2. /\ sacch_panic' = sacch_panic /\ BlockSent' /\ HeardSent'
      BY <1>2, <1>7, <2>1, <3>1, CountedFrame, HeardStaysSent
    <3>3. sacch_count' = pos' /\ Received(sacch_buf, pos)'
      BY <2>1, <3>1, InStep
    <3> QED BY <1>2, <3>2, <3>3 DEF CountedOrNot
  <2>2. CASE /\ pos # 0 /\ sacch_count = 0 /\ sacch_count' = 0
             /\ sacch_record' = NoRecord
             /\ UNCHANGED <<sacch_buf, rch, sacch, sacch_block, sacch_panic>>
    <3>1. heard' = heard
      BY <1>7, <2>2, NothingDecoded DEF NoRecord, Report
    <3>2. sacch_block.count = 0 /\ ~sacch_panic
      BY <1>2, <2>2 DEF CountedOrNot
    <3> QED BY <1>5, <2>2, <3>1, <3>2
  <2>3. ASSUME NEW c \in Positions, c = 0 => pos = 0, c # 0 => c = sacch_count, Gather(c, slot)
        PROVE  Gather(pos, slot) /\ (sacch_count = pos \/ pos = 0)
    <3>1. sacch_count = 0 \/ sacch_count = pos
      BY <1>2 DEF CountedOrNot
    <3>2. c = pos
      BY <2>3, <3>1
    <3> QED BY <2>3, <3>1, <3>2
  <2>4. \/ \E c \in Positions :
             (c = 0 => pos = 0) /\ (c # 0 => c = sacch_count) /\ Gather(c, slot)
        \/ /\ pos # 0 /\ sacch_count = 0 /\ sacch_count' = 0
           /\ sacch_record' = NoRecord
           /\ UNCHANGED <<sacch_buf, rch, sacch, sacch_block, sacch_panic>>
    BY <1>7, FrameStep
  <2>5. CASE \E c \in Positions :
             (c = 0 => pos = 0) /\ (c # 0 => c = sacch_count) /\ Gather(c, slot)
    <3>1. PICK c \in Positions :
             (c = 0 => pos = 0) /\ (c # 0 => c = sacch_count) /\ Gather(c, slot)
      BY <2>5
    <3>2. Gather(pos, slot) /\ (sacch_count = pos \/ pos = 0)
      BY <2>3, <3>1
    <3> QED BY <2>1, <3>2
  <2> QED BY <2>2, <2>4, <2>5
<1> QED BY <1>1, <1>6, <1>7 DEF WholeStep, HurtStep

-----------------------------------------------------------------------------
(* Behind the damage. *)

\* Nothing behind this super-frame is on air yet.
LEMMA NothingFollows ==
    ASSUME AirOK, OnAir, hurt' = super
    PROVE  Followed'
<1>1. /\ super \in Nat /\ plan \in Plans /\ plan' = plan /\ Len(plan) \in Nat
      /\ pos + 1 # Sacch1End => super' = super
      /\ pos + 1 = Sacch1End => pos' = 0 /\ super' = super + 1
      /\ Behind' \in Nat /\ Behind' <= 2 * super
  BY OnAirMoves, PlanFacts DEF AirOK
<1>2. \A i, n \in Nat : n # 0 /\ i <= 2 * super => ~(i - n >= 2 * super)
  BY <1>1
<1>3. Gathering'
  BY <1>1 DEF Gathering
<1>4. Following'
  <2>1. ASSUME NEW x \in 1 .. Len(plan), x = Behind'
        PROVE  ~(x - plan[x].unit >= 2 * hurt')
    <3>1. plan[x].unit \in Nat /\ plan[x].unit # 0
      BY <1>1, PlanFacts
    <3> QED BY <1>1, <1>2, <2>1, <3>1
  <2> QED BY <1>1, <2>1 DEF Following
<1>5. MessagesReported'
  <2>1. ASSUME NEW x \in 1 .. Len(plan), x <= Behind'
        PROVE  ~(x - plan[x].units >= 2 * hurt')
    <3>1. plan[x].units \in Nat /\ plan[x].units # 0
      <4>1. plan[x].units \in Nat /\ plan[x].units \in 1 .. MaxCells
        BY <1>1, PlanFacts
      <4>2. \A n \in 1 .. MaxCells : n # 0
        BY BlockAssumption
      <4> QED BY <4>1, <4>2
    <3>2. x \in Nat /\ x <= 2 * super
      BY <1>1, <2>1
    <3> QED BY <1>2, <3>1, <3>2
  <2> QED BY <1>1, <2>1 DEF MessagesReported
<1> QED BY <1>3, <1>4, <1>5 DEF Followed

\* A message more, if any, leaves those reported before.
LEMMA ReportsStay ==
    ASSUME HeardOK, sacch_record'.message \in Seq(Messages), Decoded
    PROVE  /\ \A k \in DOMAIN heard : k \in DOMAIN heard' /\ heard'[k] = heard[k]
           /\ \A x : sacch_record'.message = <<x>> => \E k \in DOMAIN heard' : heard'[k] = x
<1>1. /\ heard \in Seq(Messages) /\ heard' = heard \o sacch_record'.message
      /\ Len(heard) \in Nat /\ DOMAIN heard = 1 .. Len(heard)
  BY DEF HeardOK, Decoded
<1>2. ASSUME NEW k \in DOMAIN heard PROVE k \in DOMAIN heard' /\ heard'[k] = heard[k]
  <2> DEFINE t == sacch_record'.message
  <2>1. t \in Seq(Messages) /\ Len(t) \in Nat
    OBVIOUS
  <2> HIDE DEF t
  <2>2. /\ heard \o t \in Seq(Messages) /\ Len(heard \o t) = Len(heard) + Len(t)
        /\ \A i \in 1 .. Len(heard) : (heard \o t)[i] = heard[i]
    BY <1>1, <2>1, ConcatProperties
  <2>3. DOMAIN (heard \o t) = 1 .. (Len(heard) + Len(t))
    BY <2>2
  <2>4. k \in 1 .. Len(heard) /\ k \in 1 .. (Len(heard) + Len(t))
    BY <1>1, <2>1
  <2>5. heard' = heard \o t
    BY <1>1 DEF t
  <2> QED BY <2>2, <2>3, <2>4, <2>5
<1>3. ASSUME NEW x, sacch_record'.message = <<x>>
      PROVE  \E k \in DOMAIN heard' : heard'[k] = x
  <2>1. heard' = heard \o <<x>>
    BY <1>1, <1>3
  <2>2. DOMAIN heard' = 1 .. (Len(heard) + 1) /\ heard'[Len(heard) + 1] = x
    BY <2>1, MessageMore
  <2>3. Len(heard) + 1 \in 1 .. (Len(heard) + 1)
    BY <1>1
  <2> QED BY <2>2, <2>3
<1> QED BY <1>2, <1>3

\* In a super-frame that came whole so far the next slot is stored in its place.
LEMMA WholeGathers ==
    ASSUME AirOK, Inv, Gathering, hurt < super, PscFrame(SlotAt(plan, super, pos))
    PROVE  Gather(pos, SlotAt(plan, super, pos)) /\ Whole(sacch_buf, pos)
<1>1. pos # 0 => sacch_count = pos /\ Whole(sacch_buf, pos)
  BY DEF Gathering
<1>2. pos = 0 => Whole(sacch_buf, pos)
  <2>1. \A c \in Positions : ~(c < 0)
    BY DEF Positions
  <2> QED BY <2>1 DEF Whole
<1> DEFINE slot == SlotAt(plan, super, pos)
<1> HIDE DEF slot
<1>3. \/ \E c \in Positions :
           (c = 0 => pos = 0) /\ (c # 0 => pos # 0 /\ c = sacch_count) /\ Gather(c, slot)
      \/ pos # 0 /\ sacch_count = 0
  BY FrameStep DEF slot
<1>4. PICK c \in Positions :
         (c = 0 => pos = 0) /\ (c # 0 => pos # 0 /\ c = sacch_count) /\ Gather(c, slot)
  BY <1>1, <1>3
<1>5. c = pos
  BY <1>1, <1>4
<1> QED BY <1>1, <1>2, <1>4, <1>5 DEF slot

LEMMA WholeFollowed ==
    ASSUME AirOK, Inv, HeardOK, Followed, OnAir, WholeStep, hurt < super
    PROVE  Followed'
<1> SUFFICES ASSUME ~sacch_panic' PROVE Gathering' /\ Following' /\ MessagesReported'
  BY DEF Followed
<1> DEFINE slot == SlotAt(plan, super, pos)
<1>1. /\ plan \in Plans /\ plan' = plan /\ Len(plan) \in Nat /\ hurt' = hurt /\ hurt \in Nat
      /\ Behind \in Nat /\ Behind <= Len(plan) /\ sacch_block \in Blocks /\ Decoded
  BY OnAirMoves, PlanFacts DEF AirOK, Inv, SFTypeOK, WholeStep
<1>2. Gathering /\ Following /\ MessagesReported
  BY OnAirMoves DEF Followed
<1>3. Gather(pos, slot) /\ Whole(sacch_buf, pos)
  BY <1>2, WholeGathers DEF WholeStep
<1>4. Received(sacch_buf, pos)
  BY <1>3 DEF Whole, Received
<1>5. Gathering'
  BY <1>3, <1>4, InStep DEF Gathering
<1>6. /\ sacch_record'.message \in Seq(Messages)
      /\ pos + 1 \notin {Sacch0End, Sacch1End} => sacch_block' = sacch_block
  BY <1>1, <1>3, FinalizeDoes DEF Gather
<1>7. /\ \A k \in DOMAIN heard : k \in DOMAIN heard' /\ heard'[k] = heard[k]
      /\ \A x : sacch_record'.message = <<x>> => \E k \in DOMAIN heard' : heard'[k] = x
  BY <1>1, <1>6, ReportsStay
<1>8. \A x \in 1 .. Len(plan) :
         /\ plan[x].unit = plan[x].units
         /\ x - plan[x].units >= 2 * hurt /\ x <= Behind
         => \E k \in DOMAIN heard' : heard'[k] = Sent(plan[x])
  BY <1>2, <1>7 DEF MessagesReported
<1>9. CASE pos + 1 \notin {Sacch0End, Sacch1End}
  <2>1. Behind' = Behind /\ sacch_block' = sacch_block
    BY <1>6, <1>9, OnAirMoves
  <2>2. Following'
    BY <1>1, <1>2, <2>1 DEF Following
  <2>3. MessagesReported'
    BY <1>1, <1>8, <2>1 DEF MessagesReported
  <2> QED BY <1>5, <2>2, <2>3
<1>10. CASE pos + 1 \in {Sacch0End, Sacch1End}
  <2>1. Behind' = Behind + 1
    BY <1>10, OnAirMoves
  <2>2. CASE Behind = Len(plan)
    <3>1. Following'
      BY <1>1, <2>1, <2>2 DEF Following
    <3>2. \A x \in 1 .. Len(plan) : x <= Behind
      BY <1>1, <2>2
    <3>3. MessagesReported'
      BY <1>1, <1>8, <3>2 DEF MessagesReported
    <3> QED BY <1>5, <3>1, <3>3
  <2>3. CASE /\ Behind + 1 \in 1 .. Len(plan)
             /\ \/ SacchSingle(UnitOf(plan[Behind + 1]))
                \/ SacchFragment(UnitOf(plan[Behind + 1]))
                \/ SacchMisplaced(UnitOf(plan[Behind + 1]))
    <3>1. PICK x \in 1 .. Len(plan) : x = Behind + 1
      BY <2>3
    <3> DEFINE m == plan[x]
    <3>2. /\ m.unit \in Nat \ {0} /\ m.unit <= m.units /\ m.units \in Nat
      BY <1>1, PlanFacts
\* A message that began behind the damage goes on where it was left.
    <3>3. ASSUME x - m.unit >= 2 * hurt, m.unit # 1
          PROVE  x > 1 /\ InProgress(sacch_block, plan[x - 1])
      <4>1. x # 1
        BY <1>1, <3>3, PlanGoesOn
      <4>2. PICK w \in 1 .. Len(plan) : w = x - 1 /\ w < Len(plan) /\ w + 1 = x /\ w = Behind
        BY <1>1, <3>1, <4>1
      <4>3. /\ plan[w].unit < plan[w].units =>
                  m.units = plan[w].units /\ m.unit = plan[w].unit + 1
            /\ plan[w].unit = plan[w].units => m.unit = 1
        BY <1>1, <4>2, PlanGoesOn
      <4>4. plan[w].unit \in Nat \ {0} /\ plan[w].units \in Nat /\ plan[w].unit <= plan[w].units
        BY <1>1, PlanFacts
      <4> HIDE DEF m
      <4>5. \A i, n, u \in Nat : i # 0 /\ i <= n /\ i # n /\ u = i + 1 =>
                                   i < n /\ n # 1 /\ w - i = x - u
        BY <4>2
      <4>6. plan[w].unit # plan[w].units
        BY <3>3, <4>3
      <4>7. plan[w].unit < plan[w].units
        BY <4>4, <4>6
      <4>8. plan[w].units # 1 /\ w - plan[w].unit = x - m.unit
        BY <3>2, <4>3, <4>4, <4>5, <4>6, <4>7
      <4>9. InProgress(sacch_block, plan[w])
        BY <1>1, <1>2, <3>3, <4>2, <4>8 DEF Following
      <4> QED BY <3>1, <4>1, <4>2, <4>9
    <3>4. ASSUME x - m.unit >= 2 * hurt
          PROVE  /\ m.units # 1 => InProgress(sacch_block', m)
                 /\ m.unit = m.units => sacch_record'.message = <<Sent(m)>>
      BY <1>1, <2>3, <3>1, <3>3, <3>4, UnitTaken
    <3> HIDE DEF m
    <3>5. Following'
      <4>1. m.units # 1 /\ x - m.unit >= 2 * hurt => InProgress(sacch_block', m)
        BY <3>4
      <4> QED BY <1>1, <2>1, <3>1, <4>1 DEF Following, m
    <3>6. m.unit = m.units /\ x - m.units >= 2 * hurt
             => \E k \in DOMAIN heard' : heard'[k] = Sent(m)
      BY <1>7, <3>4
    <3>7. \A y \in 1 .. Len(plan) : y <= Behind' => y <= Behind \/ y = x
      BY <1>1, <2>1, <3>1
    <3>8. MessagesReported'
      BY <1>1, <1>8, <3>6, <3>7 DEF MessagesReported, m
    <3> QED BY <1>5, <3>5, <3>8
  <2> QED BY <1>3, <1>4, <1>10, <2>2, <2>3, UnitEnds
<1> QED BY <1>9, <1>10

-----------------------------------------------------------------------------
(***************************************************************************)
(* The theorems about the channel.                                         *)
(***************************************************************************)

LEMMA AirInit == Init => AirInv
<1> SUFFICES ASSUME Init PROVE AirInv
  OBVIOUS
<1>1. /\ SFInit /\ plan \in Plans /\ super = 1 /\ pos = 0 /\ damage = {} /\ hurt = 0
      /\ heard = <<>> /\ rch_heard = <<>>
  BY DEF Init
<1>2. 0 \in Positions /\ ~(0 >= Sacch0End) /\ \A c \in Positions : ~(c < 0)
  BY Counts DEF Positions
<1>3. /\ ~sacch_panic /\ sacch_count = 0 /\ sacch_block.count = 0
  BY <1>1 DEF SFInit, NewBlock
<1>4. Behind = 0 /\ Len(plan) \in Nat
  BY <1>1, <1>2, PlanFacts DEF Behind
<1>5. AirOK
  BY <1>1, <1>2 DEF AirOK
<1>6. Inv
  BY <1>1, StartInv
<1>7. HeardOK /\ RchsInOrder
  BY <1>1 DEF HeardOK, RchsInOrder
<1>8. CountedOrNot /\ BlockSent /\ HeardSent
  BY <1>1, <1>2, <1>3 DEF CountedOrNot, BlockSent, HeardSent, Received
<1>9. Gathering /\ Following
  BY <1>1, <1>4 DEF Gathering, Following
<1>10. MessagesReported
  <2>1. \A x \in 1 .. Len(plan) : ~(x <= Behind)
    BY <1>4
  <2> QED BY <2>1 DEF MessagesReported
<1> QED BY <1>5, <1>6, <1>7, <1>8, <1>9, <1>10 DEF AirInv, Recognised, Followed

LEMMA AirStutters == AirInv /\ UNCHANGED <<sfvars, airvars>> => AirInv'
<1> SUFFICES ASSUME AirInv, UNCHANGED <<sfvars, airvars>> PROVE AirInv'
  OBVIOUS
<1>1. /\ sacch_count' = sacch_count /\ sacch_buf' = sacch_buf /\ sacch_block' = sacch_block
      /\ sacch_panic' = sacch_panic
      /\ plan' = plan /\ super' = super /\ pos' = pos /\ damage' = damage /\ hurt' = hurt
      /\ heard' = heard /\ rch_heard' = rch_heard
  BY DEF sfvars, airvars
<1>2. AirOK'
  BY <1>1 DEF AirInv, AirOK
<1>3. Inv'
  BY StepInv DEF AirInv
<1>4. HeardOK' /\ RchsInOrder'
  BY <1>1 DEF AirInv, HeardOK, RchsInOrder
<1>5. Behind' = Behind /\ LastBehind' = LastBehind
  BY <1>1 DEF Behind, LastBehind
<1>6. Recognised'
  BY <1>1, <1>5 DEF AirInv, Recognised, Noticed, CountedOrNot, Received, BlockSent, HeardSent
<1>7. Followed'
  BY <1>1, <1>5 DEF AirInv, Followed, Gathering, Whole, Following, MessagesReported
<1> QED BY <1>2, <1>3, <1>4, <1>6, <1>7 DEF AirInv

LEMMA AirSteps == AirInv /\ [Next]_<<sfvars, airvars>> => AirInv'
<1> SUFFICES ASSUME AirInv, OnAir, WholeStep \/ HurtStep PROVE AirInv'
  BY AirStutters, Steps DEF AirInv
<1> USE DEF AirInv
<1>1. AirOK'
  <2>1. /\ plan' = plan /\ super' \in Nat \ {0} /\ pos' \in Positions
        /\ super \in Nat /\ (super' = super \/ super' = super + 1)
        /\ hurt \in Nat /\ hurt <= super /\ plan \in Plans
    BY OnAirMoves DEF AirOK
  <2>2. hurt' = hurt \/ hurt' = super
    BY DEF WholeStep, HurtStep
  <2> QED BY <2>1, <2>2 DEF AirOK
<1>2. Inv'
  BY StepIsDecoders, StepInv
<1>3. HeardOK' /\ RchsInOrder'
  BY ReportsTyped, RchsStayInOrder
<1>4. Recognised'
  BY RecognisedStays
<1>5. Followed'
  <2>1. CASE WholeStep /\ hurt < super
    BY <2>1, WholeFollowed
  <2>2. CASE HurtStep \/ ~(hurt < super)
    <3>1. hurt' = super
      BY <2>2 DEF WholeStep, HurtStep, AirOK
    <3> QED BY <3>1, NothingFollows
  <2> QED BY <2>1, <2>2
<1> QED BY <1>1, <1>2, <1>3, <1>4, <1>5

\* The invariant of the super-frame side and its sender, from which the theorems below follow:
\* whatever frames are lost or damaged, decoder and transmission stay related as it says.
THEOREM AirCorrect == Spec => []AirInv
  BY AirInit, AirSteps, PTL DEF Spec

\* Behind every transmission and whatever is lost of it, the decoder's side keeps its types,
\* and what it holds repacked is of the super-frame it counts.
THEOREM AirTypeCorrect == Spec => [](SFTypeOK /\ RepackedFromCurrent)
<1>1. AirInv => SFTypeOK /\ RepackedFromCurrent
  BY DEF AirInv, Inv
<1> QED BY <1>1, AirCorrect, PTL

\* As long as no frame vanishes and no header is lost, however many slots are garbled and
\* however many frames replaced, only messages that were sent are reported, whole, once and
\* in order, and the program goes on: for every transmission whose messages fit into the
\* block.
THEOREM OnlyGenuineMessages == Spec => []GenuineMessages
<1>1. AirInv => GenuineMessages
  <2>1. AirInv => DOMAIN plan = 1 .. Len(plan)
    BY PlanFacts DEF AirInv, AirOK
  <2> QED BY <2>1 DEF AirInv, Recognised, CountedOrNot, HeardSent, GenuineMessages
<1> QED BY <1>1, AirCorrect, PTL

\* Whatever was lost, frames and headers too: unless that stopped the program, a message
\* that is sent in super-frames behind the damage is reported when the last of them is over.
THEOREM DecoderResynchronises == Spec => []Resynchronised
<1>1. AirInv => Resynchronised
  <2> SUFFICES ASSUME AirInv, NEW x \in DOMAIN plan,
                      plan[x].unit = plan[x].units,
                      x - plan[x].units >= 2 * hurt, x <= 2 * (super - 1), ~sacch_panic
               PROVE  \E k \in DOMAIN heard : heard[k] = Sent(plan[x])
    BY DEF Resynchronised
  <2>1. x \in 1 .. Len(plan) /\ super \in Nat /\ x \in Nat
    BY PlanFacts DEF AirInv, AirOK
  <2>2. x <= Behind
    BY <2>1 DEF Behind
  <2> QED BY <2>1, <2>2 DEF AirInv, Followed, MessagesReported
<1> QED BY <1>1, AirCorrect, PTL

\* And unless a header was lost, each super-frame's RCH is reported at most once, in order,
\* however many frames vanish.
THEOREM RchsReportedInOrder == Spec => []RchInOrder
<1>1. AirInv => RchInOrder
  BY DEF AirInv, RchsInOrder, RchInOrder
<1> QED BY <1>1, AirCorrect, PTL
=============================================================================
