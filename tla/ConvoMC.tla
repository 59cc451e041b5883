------------------------------ MODULE ConvoMC -------------------------------
(***************************************************************************)
(* The code of deconvo26 on words of eight symbols: two message bits, a    *)
(* parity bit in the place of the CRC and the five tail bits.  The words   *)
(* are a code word with up to MaxNoise of its bits inverted.               *)
(***************************************************************************)
EXTENDS Convo, FiniteSetsExt

CONSTANTS MaxNoise

CONVO_TABLE_26 ==
    <<0, 2, 1, 3, 3, 1, 2, 0, 1, 3, 0, 2, 2, 0, 3, 1,
      3, 1, 2, 0, 0, 2, 1, 3, 2, 0, 3, 1, 1, 3, 0, 2>>
Table26 == [s \in 0 .. 31 |-> CONVO_TABLE_26[s + 1]]

EvenParity == {m \in [0 .. (Length - 1) -> {0, 1}] : (m[0] + m[1] + m[2]) % 2 = 0}

\* A word sent without errors, and every word few enough inverted bits away from it.
SentWord == CodeWord([k \in 0 .. (Length - 1) |-> IF k \in {0, 2} THEN 1 ELSE 0])
BitsOfWord == (0 .. (Length - 1)) \X {1, 2}
Noise == UNION {kSubset(n, BitsOfWord) : n \in 0 .. MaxNoise}
Invert(bit, word) == [word EXCEPT ![bit[1]] = Xor(@, bit[2])]
NoisyWords == {FoldSet(Invert, SentWord, bits) : bits \in Noise}

\* The code's free distance is 8, so three errors still leave the sent word the nearest,
\* and the searches come to that many flips.
ASSUME FreeDistance == 3 < MaxEc /\ FarApart(3)

CorrectsThree == CorrectsFew(3)
=============================================================================
