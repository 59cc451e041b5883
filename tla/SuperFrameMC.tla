---------------------------- MODULE SuperFrameMC ----------------------------
(***************************************************************************)
(* Small instances of SuperFrameAir: an RCH of 2 slots as in the code, and *)
(* SACCH units of 3 slots instead of 8; more than the frames that are      *)
(* lost, so that losses shift the slots of a unit and never replace one    *)
(* unit by another.                                                        *)
(***************************************************************************)
EXTENDS SuperFrameAir, SequencesExt

CONSTANTS MaxMessages, MaxUnits

AllPieces == (1 .. MaxMessages) \X (1 .. MaxUnits)

\* Messages of these many units, one after the other.
Messages(lens) ==
    FlattenSeq([i \in DOMAIN lens |->
        [k \in 1 .. lens[i] |-> [message |-> i, unit |-> k, units |-> lens[i]]]])

\* A long message behind a short one, at either half of a super-frame; single units.
SomePlans == {Messages(lens) : lens \in {<<1, 2, 4>>, <<2, 3, 1>>, <<2, 4>>}}
=============================================================================
