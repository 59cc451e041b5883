----------------------------- MODULE PscPairing -----------------------------
(***************************************************************************)
(* The traffic side of the decoder (proc_psc_branch, proc_layer2 and       *)
(* proc_voice of src/decoder): a traffic channel unit is spread over two   *)
(* consecutive frames, so each frame is decoded together with the one      *)
(* before it, and Layer-2 units make messages.                             *)
(*                                                                         *)
(* A frame carries the first half of one thing and the second half of the  *)
(* thing the frame before it began.  For Layer 2 the halves are the bits   *)
(* of the masks 0xaa and 0x55, for voice the two 16-byte halves.  The      *)
(* channel code is abstracted to what it is for: two halves decode when    *)
(* they are the halves of one unit.  Voice has no such guard before its    *)
(* hash: wrong halves may decode, and then the hash tells.                 *)
(***************************************************************************)
EXTENDS BlockAssembly

CONSTANTS
    Voices,         \* what a voice frame can carry
    Nothing,        \* a half that is noise or belongs to something else
    Failed          \* the record of a pair that does not decode

ASSUME ThingsAssumption ==
    /\ Nothing \notin Fragments \cup Voices
    /\ Fragments \cap Voices = {}
    /\ Failed \notin [celp : Voices \cup {Nothing}, hash_ok : BOOLEAN]

MFields == {"IDLE", "VOICE", "RAW", "DATA", "FACCH", "FREE", "BUSY", "UNDEF"}
Layer2 == {"DATA", "FACCH"}

Halves == Fragments \cup Voices \cup {Nothing}
Tchs == [begins : Halves, ends : Halves]

\* PscState::default(): an all-zero TCH is nothing.
BlankTch == [begins |-> Nothing, ends |-> Nothing]

VARIABLES
    psc_m,          \* what the last frame began: IDLE, VOICE, DATA or FACCH
    psc_tch,        \* the last frame's TCH
    l2block,        \* the Layer-2 message under way
    tch_record,     \* what the last frame's record says of Layer 2 and voice
    l2_panic        \* an index went out of range: the program is gone

ppvars == <<psc_m, psc_tch, l2block, tch_record, l2_panic>>

\* The Layer-2 unit, the message with the kind it is reported as, and the voice frame
\* with its hash flag.
NoTchRecord == [unit |-> <<>>, message |-> <<>>, voice |-> <<>>]

PPInit ==
    /\ psc_m = "IDLE"
    /\ psc_tch = BlankTch
    /\ l2block = NewBlock
    /\ tch_record = NoTchRecord
    /\ l2_panic = FALSE

-----------------------------------------------------------------------------
(***************************************************************************)
(* proc_layer2(prev, cur, ty): the block it leaves, and the record.        *)
(***************************************************************************)

\* The unit two frames carry between them.
Paired(prev, cur) == {u \in Fragments : prev.begins = u /\ cur.ends = u}

Reported(ty, pieces, len) == [ty |-> ty, pieces |-> pieces, len |-> len]

\* Defective variant: a failed pair leaves the message under way.
Layer2FailedKept(b) ==
    [block |-> b, unit |-> <<Failed>>, message |-> <<>>, panic |-> FALSE]

\* The two frames do not hold one unit: the message under way is given up.
Layer2Failed(b) ==
    [block |-> InitBlock(b), unit |-> <<Failed>>, message |-> <<>>, panic |-> FALSE]

\* A unit that is a message of its own does not touch the block.
Layer2Single(b, u) ==
    [block |-> b, unit |-> <<u>>, panic |-> FALSE,
     message |-> <<Reported("ACCH", <<u.piece>>, u.len)>>]

\* Defective variant: every unit brings the message out, not only the last.
Layer2FragmentAlways(b, u, ty) ==
    LET a == IF u.first THEN AllocL2(b, u.len + 1) ELSE b
        c == Assemble(a, u)
    IN IF Misplaced(a, u)
       THEN [block |-> b, unit |-> <<>>, message |-> <<>>, panic |-> TRUE]
       ELSE [block |-> c, unit |-> <<u>>, panic |-> FALSE,
             message |-> IF c.count # 0
                         THEN <<Reported(ty, Message(c).pieces, TotalLen(c))>>
                         ELSE <<>>]

Layer2Fragment(b, u, ty) ==
    LET a == IF u.first THEN AllocL2(b, u.len + 1) ELSE b
        c == Assemble(a, u)
    IN IF Misplaced(a, u)
       THEN [block |-> b, unit |-> <<>>, message |-> <<>>, panic |-> TRUE]
       ELSE [block |-> c, unit |-> <<u>>, panic |-> FALSE,
             message |-> IF u.last /\ c.count # 0
                         THEN <<Reported(ty, Message(c).pieces, TotalLen(c))>>
                         ELSE <<>>]

ProcLayer2(b, prev, cur, ty) ==
    IF Paired(prev, cur) = {} THEN Layer2Failed(b)
    ELSE LET u == prev.begins
         IN IF u.first /\ u.last THEN Layer2Single(b, u) ELSE Layer2Fragment(b, u, ty)

Undisturbed(b) == [block |-> b, unit |-> <<>>, message |-> <<>>, panic |-> FALSE]

\* proc_voice: the halves of one voice frame give it, others give an error or something
\* whose hash does not match.
ProcVoice(prev, cur) ==
    IF prev.begins = cur.ends /\ prev.begins \in Voices
    THEN {<<[celp |-> prev.begins, hash_ok |-> TRUE]>>}
    ELSE {<<Failed>>, <<[celp |-> Nothing, hash_ok |-> FALSE]>>}

-----------------------------------------------------------------------------
(***************************************************************************)
(* The frames.                                                             *)
(***************************************************************************)

\* Defective variant: whatever follows Layer 2 begins nothing.
EffectiveNone(m) == IF psc_m \in Layer2 THEN "IDLE" ELSE m

\* The M-field the frame counts as: what ends a Layer-2 run begins nothing itself.
Effective(m) == IF psc_m \in Layer2 /\ m \notin Layer2 THEN "IDLE" ELSE m

\* An S2 or S6 frame with M-field m.
PscFrame(m, tch) ==
    LET l2 == IF psc_m \in Layer2 THEN ProcLayer2(l2block, psc_tch, tch, psc_m)
                                  ELSE Undisturbed(l2block)
        m_eff == Effective(m)
        paired == m_eff = "VOICE" /\ psc_m = "VOICE"
        begins == m_eff \in Layer2 \cup {"VOICE"}
    IN /\ ~l2_panic
       /\ l2_panic' = l2.panic
       /\ \E v \in IF paired THEN ProcVoice(psc_tch, tch) ELSE {<<>>} :
            tch_record' = [unit |-> l2.unit, message |-> l2.message, voice |-> v]
       /\ psc_m' = IF begins THEN m_eff ELSE "IDLE"
       /\ psc_tch' = IF begins THEN tch ELSE psc_tch
       /\ l2block' = IF begins \/ l2.panic THEN l2.block ELSE InitBlock(l2.block)

\* Defective variant: the pairing goes on over a lost header.
PscRichErrorKept ==
    /\ ~l2_panic
    /\ tch_record' = NoTchRecord
    /\ UNCHANGED <<psc_m, psc_tch, l2block, l2_panic>>

\* The RICH does not decode: the pairing ends, and nothing else happens.
PscRichError ==
    /\ ~l2_panic
    /\ psc_m' = "IDLE"
    /\ tch_record' = NoTchRecord
    /\ UNCHANGED <<psc_tch, l2block, l2_panic>>

\* Defective variant: the message under way survives.
PscResetKept ==
    /\ ~l2_panic
    /\ psc_m' = "IDLE"
    /\ psc_tch' = BlankTch
    /\ tch_record' = NoTchRecord
    /\ UNCHANGED <<l2block, l2_panic>>

\* A placeholder or an unknown sync word.
PscReset ==
    /\ ~l2_panic
    /\ psc_m' = "IDLE"
    /\ psc_tch' = BlankTch
    /\ l2block' = InitBlock(l2block)
    /\ tch_record' = NoTchRecord
    /\ UNCHANGED l2_panic

\* An SS1 frame, its RICH and PICH decodable or not: the TCH stays, unused.
PscSs1 ==
    /\ ~l2_panic
    /\ psc_m' = "IDLE"
    /\ l2block' = InitBlock(l2block)
    /\ tch_record' = NoTchRecord
    /\ UNCHANGED <<psc_tch, l2_panic>>

PPNext ==
    \/ \E m \in MFields, tch \in Tchs : PscFrame(m, tch)
    \/ PscRichError
    \/ PscReset
    \/ PscSs1

PPSpec == PPInit /\ [][PPNext]_ppvars

-----------------------------------------------------------------------------
PPTypeOK ==
    /\ psc_m \in {"IDLE", "VOICE"} \cup Layer2
    /\ psc_tch \in Tchs
    /\ l2block \in Blocks
    /\ l2_panic \in BOOLEAN
=============================================================================
