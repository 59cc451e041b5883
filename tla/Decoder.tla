------------------------------ MODULE Decoder ------------------------------
(***************************************************************************)
(* Decoder::process_frame (src/decoder/mod.rs): one frame at a time goes   *)
(* to the super-frame side and to the traffic side, and a record or a CELP *)
(* line is written.  The two sides share nothing but the frame; what each  *)
(* does with it is in SuperFrame and PscPairing.                           *)
(***************************************************************************)
EXTENDS Integers, Sequences, FiniteSets

CONSTANTS
    RchEnd, Sacch0End, Sacch1End, RchIds, IdleUnit, Garbled, Failed,
    MaxCells, Pieces, Zeroes, Voices, Nothing,
    Modes,          \* output modes: "Json", "CelpOnly"
    Inputs,         \* the frames that may arrive
    MaxFrames       \* bound: how many do

VARIABLES
    sacch_count, sacch_buf, rch, sacch, sacch_block, sacch_record, sacch_panic,
    psc_m, psc_tch, l2block, tch_record, l2_panic,
    mode,           \* the output mode
    record,         \* the rest of the last frame's record: type, sync, mfield and error
    read,           \* the frames read
    out             \* the lines written

SF == INSTANCE SuperFrame WITH CellLen <- 6
PP == INSTANCE PscPairing WITH CellLen <- 12

vars == <<sacch_count, sacch_buf, rch, sacch, sacch_block, sacch_record, sacch_panic,
          psc_m, psc_tch, l2block, tch_record, l2_panic, mode, record, read, out>>

\* A frame: whether byte 17 is zero, the sync word at byte 0x17, the M-field of the RICH
\* if it decodes, whether a PICH does, and the two payloads.
Frames == [zero17 : BOOLEAN, sync : {"S2", "S6", "SS1", "none"},
           rich : PP!MFields \cup {"error"}, pich_ok : BOOLEAN,
           slot : SF!Slots, tch : PP!Tchs]

\* What the two sides ask of their constants, with their cells of 6 and 12 bytes.
ASSUME DecoderAssumption ==
    /\ MaxCells \in Nat \ {0} /\ Zeroes \notin Pieces
    /\ RchEnd \in Nat /\ Sacch0End \in Nat /\ Sacch1End \in Nat
    /\ 0 < RchEnd /\ RchEnd < Sacch0End /\ Sacch0End < Sacch1End
    /\ Sacch1End - Sacch0End = Sacch0End - RchEnd
    /\ IdleUnit \notin RchIds \cup SF!Fragments
    /\ Nothing \notin PP!Fragments \cup Voices
    /\ PP!Fragments \cap Voices = {}
    /\ Failed \notin [celp : Voices \cup {Nothing}, hash_ok : BOOLEAN]
    /\ Inputs \subseteq Frames

\* The slicer's all-zero placeholder.
Placeholder == [zero17 |-> TRUE, sync |-> "none", rich |-> "IDLE", pich_ok |-> TRUE,
                slot |-> Garbled, tch |-> PP!BlankTch]

Header(type, sync, mfield, error) ==
    [type |-> type, sync |-> sync, mfield |-> mfield, error |-> error]

Init ==
    /\ SF!SFInit /\ PP!PPInit
    /\ mode \in Modes
    /\ record = Header("", "", "", "")
    /\ read = <<>> /\ out = <<>>

-----------------------------------------------------------------------------
(* The branches, in the order they are tried. *)

NoSignal(f) ==
    /\ f.zero17
    /\ record' = Header("no_signal", "", "", "")
    /\ SF!ResetIdle /\ PP!PscReset

PscBranch(f) ==
    /\ ~f.zero17 /\ f.sync \in {"S2", "S6"}
    /\ f.rich # "error"
    /\ record' = Header("", f.sync, f.rich, "")
    /\ IF f.sync = "S2" THEN SF!TopFrame(f.slot)
                        ELSE SF!MidFrame(f.slot) \/ SF!MidFrameUncounted
    /\ PP!PscFrame(f.rich, f.tch)

PscBranchError(f) ==
    /\ ~f.zero17 /\ f.sync \in {"S2", "S6"}
    /\ f.rich = "error"
    /\ record' = Header("", f.sync, "", "rich_deconvo")
    /\ SF!RichError /\ PP!PscRichError

Ss1Branch(f) ==
    /\ ~f.zero17 /\ f.sync = "SS1"
    /\ record' = CASE f.rich = "error" -> Header("", "SS1", "", "rich_deconvo")
                   [] f.rich # "error" /\ ~f.pich_ok -> Header("", "SS1", f.rich, "pich_deconvo")
                   [] OTHER -> Header("", "SS1", f.rich, "")
    /\ SF!ResetIdle /\ PP!PscSs1

UnknownSync(f) ==
    /\ ~f.zero17 /\ f.sync = "none"
    /\ record' = Header("unknown_sync", "", "", "")
    /\ SF!ResetIdle /\ PP!PscReset

-----------------------------------------------------------------------------
\* What is written for a frame: the record with its number, or the CELP payload if the
\* record has one.
Json(n) == <<[frame |-> n, header |-> record', sacch |-> sacch_record', tch |-> tch_record']>>
CelpLine == IF tch_record'.voice = <<Failed>> THEN <<>> ELSE tch_record'.voice

\* A program that goes out of range in mid-frame writes nothing for it.
Write ==
    /\ out' = IF sacch_panic' \/ l2_panic' THEN out
              ELSE out \o (IF mode = "Json" THEN Json(Len(read)) ELSE CelpLine)
    /\ UNCHANGED mode

ProcessFrame(f) ==
    /\ ~sacch_panic /\ ~l2_panic
    /\ Len(read) < MaxFrames
    /\ \/ NoSignal(f)
       \/ PscBranch(f)
       \/ PscBranchError(f)
       \/ Ss1Branch(f)
       \/ UnknownSync(f)
    /\ read' = Append(read, f)
    /\ Write

\* The input ends, or the program is gone.
Ended ==
    /\ sacch_panic \/ l2_panic \/ Len(read) = MaxFrames
    /\ UNCHANGED vars

Next == (\E f \in Inputs : ProcessFrame(f)) \/ Ended

Spec == Init /\ [][Next]_vars

-----------------------------------------------------------------------------
(***************************************************************************)
(* Properties: the state carried from frame to frame, against the frames   *)
(* themselves.                                                             *)
(***************************************************************************)

TypeOK ==
    /\ SF!SFTypeOK /\ PP!PPTypeOK
    /\ mode \in Modes
    /\ read \in Seq(Inputs)
    /\ Len(out) <= Len(read)

Now == Len(read)
IsPsc(f) == ~f.zero17 /\ f.sync \in {"S2", "S6"}
Decodes(f) == IsPsc(f) /\ f.rich # "error"
Top(f) == Decodes(f) /\ f.sync = "S2"

\* A Layer-2 unit is only ever put together from the frame just read and the one before
\* it, both with a header, the earlier one announcing Layer 2; voice from two frames that
\* both announce voice.  No reset, lost header or foreign frame lies between.
PairsAreNeighbours ==
    /\ tch_record.unit # <<>> =>
          /\ Now > 1 /\ Decodes(read[Now]) /\ Decodes(read[Now - 1])
          /\ read[Now - 1].rich \in PP!Layer2
          /\ tch_record.unit # <<Failed>> =>
                <<read[Now - 1].tch.begins>> = tch_record.unit
    /\ tch_record.voice # <<>> =>
          /\ Now > 1 /\ Decodes(read[Now]) /\ Decodes(read[Now - 1])
          /\ read[Now].rich = "VOICE" /\ read[Now - 1].rich = "VOICE"

\* Frames since the last reset that had a slot.
Since(n) == {k \in n .. Now : Decodes(read[k])}

\* The count is the number of slots since the S2 frame that began the super-frame, and the
\* gathered slots are theirs: headers that were lost in between are not counted, resets
\* end the count, and an S2 begins a new one.
CountsSinceTop ==
    sacch_count > 0 =>
        \E top \in 1 .. Now :
            /\ Top(read[top])
            /\ \A k \in (top + 1) .. Now : IsPsc(read[k]) /\ ~Top(read[k])
            /\ sacch_count = Cardinality(Since(top))
            /\ \A k \in Since(top) : sacch_buf[Cardinality(Since(top) \cap 1 .. k) - 1] = read[k].slot

\* What the documentation promises and the code does not keep.

\* "no_signal: slicer placeholder": the type is reported for no other frame.
NoSignalIsPlaceholder ==
    Now > 0 /\ record.type = "no_signal" => read[Now] = Placeholder
=============================================================================
