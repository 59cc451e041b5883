----------------------------- MODULE PairingMC -----------------------------
(***************************************************************************)
(* Small instances of PairingAir: messages of both kinds back to back,     *)
(* behind and before voice, short before long and long before short.       *)
(***************************************************************************)
EXTENDS PairingAir

CONSTANTS MaxRuns, MaxUnits

AllPieces == (1 .. MaxRuns) \X (1 .. MaxUnits)
AllVoices == [run : 1 .. MaxRuns, frame : 1 .. MaxUnits]

Run(m, n) == [m |-> m, n |-> n]

SomePlans == {
    <<Run("SS1", 1), Run("FACCH", 2), Run("DATA", 4), Run("VOICE", 3), Run("IDLE", 2)>>,
    <<Run("VOICE", 3), Run("DATA", 3), Run("IDLE", 1), Run("SS1", 1), Run("DATA", 4), Run("FREE", 1)>>,
    <<Run("DATA", 2), Run("VOICE", 4), Run("FACCH", 1), Run("DATA", 3), Run("BUSY", 1)>>,
    <<Run("DATA", 4), Run("DATA", 2), Run("FACCH", 3), Run("IDLE", 1)>>}
=============================================================================
