------------------------------ MODULE SyncWords ------------------------------
(***************************************************************************)
(* Sync words, and the two comparisons with them: match_window of the      *)
(* slicer (src/slicer.rs) counts inverted bits, compare_sync_byte of the   *)
(* decoder (src/primitives.rs) counts wrong symbols.  A window is the 16   *)
(* symbols from where a sync word is looked for; the two shorter words say *)
(* nothing of its last six.                                                *)
(***************************************************************************)
EXTENDS Integers, Sequences, FiniteSets

Symbols == 0 .. 3
WindowSymbols == 16
IsWindow(w) == w \in [1 .. WindowSymbols -> Symbols]

S6 == <<0, 1, 3, 2, 1, 1, 1, 2, 3, 3>>
S2 == <<2, 1, 3, 1, 0, 2, 0, 3, 1, 2>>
SS1 == <<0, 2, 3, 3, 2, 1, 1, 0, 3, 1, 0, 0, 1, 2, 2, 3>>

SyncWord(type) ==
    CASE type = "S6" -> S6 [] type = "SS1" -> SS1 [] type = "S2" -> S2

-----------------------------------------------------------------------------
\* The slicer: ERROR_MAX, and how many bits of the word's two bits a symbol are inverted.
ErrorMax == 1

HighBit(s) == s \div 2
LowBit(s) == s % 2
BitErrors(w, word) ==
    LET Wrong(Bit(_)) == {i \in DOMAIN word : Bit(w[i]) # Bit(word[i])}
    IN  Cardinality(Wrong(HighBit)) + Cardinality(Wrong(LowBit))

Tolerated(w, type) == BitErrors(w, SyncWord(type)) <= ErrorMax

\* match_window: the table in its order, S6, SS1, S2.
MatchWindow(w) ==
    CASE Tolerated(w, "S6") -> "S6"
      [] ~Tolerated(w, "S6") /\ Tolerated(w, "SS1") -> "SS1"
      [] ~Tolerated(w, "S6") /\ ~Tolerated(w, "SS1") /\ Tolerated(w, "S2") -> "S2"
      [] OTHER -> "none"

\* What is tolerated is put right before the frame is cut.
Patched(w, type) ==
    [i \in 1 .. WindowSymbols |-> IF i <= Len(SyncWord(type)) THEN SyncWord(type)[i] ELSE w[i]]

-----------------------------------------------------------------------------
\* Defective variant: as tolerant as half of the shorter words.
MaxSwErrHalf == 5

\* The decoder: MAX_SW_ERR.
MaxSwErr == 3

SymbolErrors(w, word) == Cardinality({i \in DOMAIN word : w[i] # word[i]})
CompareSyncByte(w, type) == SymbolErrors(w, SyncWord(type)) <= MaxSwErr

\* The branches of process_frame: S6, S2, SS1.
SyncType(w) ==
    CASE CompareSyncByte(w, "S6") -> "S6"
      [] ~CompareSyncByte(w, "S6") /\ CompareSyncByte(w, "S2") -> "S2"
      [] ~CompareSyncByte(w, "S6") /\ ~CompareSyncByte(w, "S2") /\ CompareSyncByte(w, "SS1") -> "SS1"
      [] OTHER -> "unknown_sync"
=============================================================================
