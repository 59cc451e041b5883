------------------------------ MODULE FieldsMC -------------------------------
(***************************************************************************)
(* Both kinds of bodies in one instance: a behaviour parses one body.  The *)
(* lengths are those around every length the code compares with and around *)
(* the ends of layouts; bytes are the ones the code compares with, and     *)
(* lengths small enough to fit, to just not fit and to reach far outside.  *)
(***************************************************************************)
EXTENDS AcchFields, DataFields

\* A behaviour leaves alone the variables of the parser it does not run.
NoAcch == parser = "none" /\ len = 0 /\ announced = 0 /\ claimed = 0 /\ at = "none"
NoData == /\ kind = "none" /\ info = 0 /\ plan = <<Rest>> /\ gated = FALSE
          /\ counted = [at |-> 0, n |-> 0] /\ place = <<>> /\ gps = NoPosition

acchonly == <<parser, len, announced, claimed, at>>
dataonly == <<kind, info, plan, gated, counted, place, gps>>
vars == <<size, cur, acchonly, dataonly>>

Init ==
    \/ AcchInit /\ NoData
    \/ DataInit /\ NoAcch

Next ==
    \/ kind = "none" /\ AcchNext /\ UNCHANGED dataonly
    \/ parser = "none" /\ DataNext /\ UNCHANGED acchonly

Spec == Init /\ [][Next]_vars

TypeOK == IF kind = "none" THEN AcchTypeOK ELSE DataTypeOK

SixBits == 0 .. 63
Short == 0 .. 16
\* The edges, and places where a divisor of the datum shift off by one, either way, shows.
LatitudesOfJapan == {20 * Degree, 12823489, 12824460, 46 * Degree}
LongitudesOfJapan == {122 * Degree, 50297185, 50298064, 154 * Degree}
=============================================================================
