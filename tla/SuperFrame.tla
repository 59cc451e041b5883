----------------------------- MODULE SuperFrame -----------------------------
(***************************************************************************)
(* The super-frame side of the decoder (src/decoder/header.rs, acch.rs and *)
(* mod.rs): every S2 or S6 frame carries one SACCH/RCH slot.  The slots    *)
(* from an S2 frame on are counted; the first two make an RCH, the next    *)
(* eight a SACCH unit, the last eight another, and SACCH units make        *)
(* messages.                                                               *)
(*                                                                         *)
(* Deinterleaving, convolutional decoding and CRC are abstracted to what   *)
(* they are for: a unit is recognised when the slots are its parts, all of *)
(* them and in order, and anything else fails.                             *)
(***************************************************************************)
EXTENDS BlockAssembly

CONSTANTS
    RchEnd, Sacch0End, Sacch1End,   \* slots counted when each is complete: 2, 10, 18
    RchIds,                         \* what an RCH can say
    IdleUnit,       \* the INVALID patterns, sent when there is nothing to say
    Garbled,        \* a slot with transmission errors
    Failed          \* the record of a unit that does not decode

ASSUME CountsAssumption ==
    /\ RchEnd \in Nat /\ Sacch0End \in Nat /\ Sacch1End \in Nat
    /\ 0 < RchEnd /\ RchEnd < Sacch0End /\ Sacch0End < Sacch1End
    /\ Sacch1End - Sacch0End = Sacch0End - RchEnd
    /\ IdleUnit \notin RchIds \cup Fragments

UnitSlots == Sacch0End - RchEnd

RchSlots == [rch : RchIds \cup {IdleUnit}, part : 1 .. RchEnd]
SacchSlots == [unit : Fragments \cup {IdleUnit}, part : 1 .. UnitSlots]
Slots == RchSlots \cup SacchSlots \cup {Garbled}

ASSUME SlotsAssumption == Garbled \notin RchSlots \cup SacchSlots

Positions == 0 .. (Sacch1End - 1)

\* The gathered slots n .. m - 1, as sacch_unpack_pair lines them up.
Gathered(buf, n, m) == [k \in 1 .. (m - n) |-> buf[n + k - 1]]

IsRch(slots, r) == slots = [k \in 1 .. RchEnd |-> [rch |-> r, part |-> k]]
IsUnit(slots, u) == slots = [k \in 1 .. UnitSlots |-> [unit |-> u, part |-> k]]

VARIABLES
    sacch_count,    \* slots gathered in this super-frame
    sacch_buf,      \* the slots
    rch,            \* the RCH, as last repacked
    sacch,          \* the two SACCH units, as last repacked
    sacch_block,    \* the message under way
    sacch_record,   \* what the last frame's record says of RCH and SACCH
    sacch_panic     \* an index went out of range: the program is gone

sfvars == <<sacch_count, sacch_buf, rch, sacch, sacch_block, sacch_record, sacch_panic>>

\* A record: the RCH, the SACCH unit and the SACCH message it reports, if any.
NoRecord == [rch |-> <<>>, unit |-> <<>>, message |-> <<>>]

SFInit ==
    /\ sacch_count = 0
    /\ sacch_buf = [i \in Positions |-> Garbled]
    /\ rch = Gathered(sacch_buf, 0, RchEnd)
    /\ sacch = [i \in 0 .. 1 |-> Gathered(sacch_buf, RchEnd, Sacch0End)]
    /\ sacch_block = NewBlock
    /\ sacch_record = NoRecord
    /\ sacch_panic = FALSE

-----------------------------------------------------------------------------
(***************************************************************************)
(* proc_rch and proc_sacch: what is made of the repacked slots.            *)
(***************************************************************************)

\* The RCH of the record; nothing is reported for an idle or an undecodable one.
ProcRch(r) == IF \E id \in RchIds : IsRch(r, id) THEN <<r[1].rch>> ELSE <<>>

SacchIdle(s) ==
    /\ IsUnit(s, IdleUnit)
    /\ sacch_record' = NoRecord
    /\ UNCHANGED <<sacch_block, sacch_panic>>

\* Defective variant: a failed unit leaves the message under way.
SacchFailedKept(s) ==
    /\ ~IsUnit(s, IdleUnit) /\ ~\E u \in Fragments : IsUnit(s, u)
    /\ sacch_record' = [NoRecord EXCEPT !.unit = <<Failed>>]
    /\ UNCHANGED <<sacch_block, sacch_panic>>

SacchFailed(s) ==
    /\ ~IsUnit(s, IdleUnit) /\ ~\E u \in Fragments : IsUnit(s, u)
    /\ sacch_record' = [NoRecord EXCEPT !.unit = <<Failed>>]
    /\ sacch_block' = InitBlock(sacch_block)
    /\ UNCHANGED sacch_panic

\* A message of a single unit.
SacchSingle(u) ==
    /\ u.first /\ u.last
    /\ sacch_record' = [NoRecord EXCEPT !.unit = <<u>>,
                                        !.message = <<[pieces |-> <<u.piece>>, len |-> u.len]>>]
    /\ sacch_block' = InitBlock(sacch_block)
    /\ UNCHANGED sacch_panic

\* A unit of a longer message; the last one brings the message out.
SacchFragment(u) ==
    LET b == IF u.first THEN AllocSacch(sacch_block, u.len + 1) ELSE sacch_block
        a == Assemble(b, u)
    IN /\ ~(u.first /\ u.last)
       /\ ~Misplaced(b, u)
       /\ sacch_block' = a
       /\ sacch_record' = [NoRecord EXCEPT
                             !.unit = <<u>>,
                             !.message = IF u.last /\ TotalLen(a) > 0 THEN <<Message(a)>>
                                                                      ELSE <<>>]
       /\ UNCHANGED sacch_panic

SacchMisplaced(u) ==
    /\ ~u.first /\ ~u.last
    /\ Misplaced(sacch_block, u)
    /\ sacch_panic' = TRUE
    /\ sacch_record' = NoRecord
    /\ UNCHANGED sacch_block

ProcSacch(s) ==
    \/ SacchIdle(s)
    \/ SacchFailed(s)
    \/ \E u \in {f \in Fragments : IsUnit(s, f)} :
         SacchSingle(u) \/ SacchFragment(u) \/ SacchMisplaced(u)

-----------------------------------------------------------------------------
(***************************************************************************)
(* finalize_super_frame, with the count and the repacked slots the frame's *)
(* branch left.  It runs after every frame, whatever that branch was.      *)
(***************************************************************************)

\* Defective variant: an RCH is due whenever one is complete.
RchDueLong(c, r) ==
    /\ c >= RchEnd /\ c \notin {Sacch0End, Sacch1End}
    /\ sacch_record' = [NoRecord EXCEPT !.rch = ProcRch(r)]
    /\ UNCHANGED <<sacch_block, sacch_panic>>

RchDue(c, r) ==
    /\ c = RchEnd
    /\ sacch_record' = [NoRecord EXCEPT !.rch = ProcRch(r)]
    /\ UNCHANGED <<sacch_block, sacch_panic>>

NothingDue(c) ==
    /\ c \notin {RchEnd, Sacch0End, Sacch1End}
    /\ sacch_record' = NoRecord
    /\ UNCHANGED <<sacch_block, sacch_panic>>

\* Defective variant: the count is not reset at the end of a super-frame.
FinalizeNoReset(c, r, s) ==
    /\ \/ RchDue(c, r)
       \/ c = Sacch0End /\ ProcSacch(s[0])
       \/ c = Sacch1End /\ ProcSacch(s[1])
       \/ NothingDue(c)
    /\ sacch_count' = c

Finalize(c, r, s) ==
    /\ \/ RchDue(c, r)
       \/ c = Sacch0End /\ ProcSacch(s[0])
       \/ c = Sacch1End /\ ProcSacch(s[1])
       \/ NothingDue(c)
    /\ sacch_count' = IF c = Sacch1End THEN 0 ELSE c

-----------------------------------------------------------------------------
(***************************************************************************)
(* The frames.                                                             *)
(***************************************************************************)

\* Defective variant: the RCH is repacked a slot too late.
GatherLate(c, slot) ==
    /\ sacch_buf' = [sacch_buf EXCEPT ![c] = slot]
    /\ rch' = IF c = RchEnd THEN Gathered(sacch_buf', 0, RchEnd) ELSE rch
    /\ sacch' = [i \in 0 .. 1 |->
                   IF i = 0 /\ c + 1 = Sacch0End
                   THEN Gathered(sacch_buf', RchEnd, Sacch0End)
                   ELSE IF i = 1 /\ c + 1 = Sacch1End
                   THEN Gathered(sacch_buf', Sacch0End, Sacch1End)
                   ELSE sacch[i]]
    /\ Finalize(c + 1, rch', sacch')

\* The slot at position c: it is stored and, where it completes them, the RCH or a unit
\* is repacked.
Gather(c, slot) ==
    /\ sacch_buf' = [sacch_buf EXCEPT ![c] = slot]
    /\ rch' = IF c + 1 = RchEnd THEN Gathered(sacch_buf', 0, RchEnd) ELSE rch
    /\ sacch' = [i \in 0 .. 1 |->
                   IF i = 0 /\ c + 1 = Sacch0End
                   THEN Gathered(sacch_buf', RchEnd, Sacch0End)
                   ELSE IF i = 1 /\ c + 1 = Sacch1End
                   THEN Gathered(sacch_buf', Sacch0End, Sacch1End)
                   ELSE sacch[i]]
    /\ Finalize(c + 1, rch', sacch')

\* Defective variant: an S2 frame does not begin a super-frame while one is counted.
TopFrameContinues(slot) ==
    /\ ~sacch_panic
    /\ Gather(sacch_count, slot)

\* An S2 frame: a super-frame begins, whether or not the last one was complete.
TopFrame(slot) ==
    /\ ~sacch_panic
    /\ Gather(0, slot)

\* An S6 frame of a super-frame whose S2 was seen.
MidFrame(slot) ==
    /\ ~sacch_panic
    /\ sacch_count # 0
    /\ Gather(sacch_count, slot)

\* An S6 frame before any S2.
MidFrameUncounted ==
    /\ ~sacch_panic
    /\ sacch_count = 0
    /\ UNCHANGED <<sacch_buf, rch, sacch>>
    /\ Finalize(0, rch, sacch)

\* An S2 or S6 frame whose RICH does not decode: proc_psc_branch returns at once.
RichError ==
    /\ ~sacch_panic
    /\ UNCHANGED <<sacch_buf, rch, sacch>>
    /\ Finalize(sacch_count, rch, sacch)

\* Defective variant: the count survives.
ResetIdleCounting ==
    /\ ~sacch_panic
    /\ sacch_block' = InitBlock(sacch_block)
    /\ sacch_record' = NoRecord
    /\ UNCHANGED <<sacch_count, sacch_buf, rch, sacch, sacch_panic>>

\* reset_idle: placeholder, SS1 and unknown frames.
ResetIdle ==
    /\ ~sacch_panic
    /\ sacch_count' = 0
    /\ sacch_block' = InitBlock(sacch_block)
    /\ sacch_record' = NoRecord
    /\ UNCHANGED <<sacch_buf, rch, sacch, sacch_panic>>

SFNext ==
    \/ \E slot \in Slots : TopFrame(slot) \/ MidFrame(slot)
    \/ MidFrameUncounted
    \/ RichError
    \/ ResetIdle

SFSpec == SFInit /\ [][SFNext]_sfvars

SFTypeOK ==
    /\ sacch_count \in Positions
    /\ sacch_buf \in [Positions -> Slots]
    /\ rch \in [1 .. RchEnd -> Slots]
    /\ sacch \in [0 .. 1 -> [1 .. UnitSlots -> Slots]]
    /\ sacch_block \in Blocks
    /\ sacch_panic \in BOOLEAN

\* The RCH and the first SACCH unit held are the ones of the super-frame being counted:
\* a re-synchronisation, a lost header or a reset in between never leaves a count that
\* vouches for slots of an earlier super-frame.
RepackedFromCurrent ==
    /\ sacch_count >= RchEnd => rch = Gathered(sacch_buf, 0, RchEnd)
    /\ sacch_count >= Sacch0End => sacch[0] = Gathered(sacch_buf, RchEnd, Sacch0End)
=============================================================================
