----------------------------- MODULE PipelineMC ------------------------------
(***************************************************************************)
(* Frames of six bytes: the byte 17 stands for, the four of the sync word  *)
(* and one behind.  The pipe holds more than a frame and less than two.    *)
(* On the air: each word as it is, with a bit inverted in its first or     *)
(* last symbol, with a symbol of both bits inverted, and, for the short    *)
(* words, followed by other symbols.                                       *)
(***************************************************************************)
EXTENDS Pipeline

Pad(word, s) == [i \in 1 .. WindowSymbols |-> IF i <= Len(word) THEN word[i] ELSE s]
Inverted(w, i, bits) == [w EXCEPT ![i] = IF bits = 2 THEN 3 - @ ELSE IF @ % 2 = 0 THEN @ + 1 ELSE @ - 1]

Air == {Pad(SyncWord(t), 0) : t \in {"S6", "S2", "SS1"}} \cup {Pad(S2, 1)}
WindowsOnAir ==
    Air \cup {Inverted(w, i, 1) : w \in Air, i \in {1, 10}} \cup {Inverted(w, 5, 2) : w \in Air}
=============================================================================
