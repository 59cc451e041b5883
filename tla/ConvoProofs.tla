---------------------------- MODULE ConvoProofs -----------------------------
(***************************************************************************)
(* Proofs about Convo, for every code, word length and number of flips:    *)
(* the search stays within its types and its flips are those of the calls  *)
(* still open.                                                             *)
(***************************************************************************)
EXTENDS ConvoMC, SequenceTheorems, FiniteSetTheorems, FunctionTheorems,
        WellFoundedInduction, TLAPS

\* A call is behind the flips of its callers.
Ordered == \A m, n \in DOMAIN flips : m < n => flips[m].at < flips[n].at

\* A flipped symbol fits the state the walk resumes in.
Fitting ==
    \A n \in DOMAIN flips : \E b \in Bits : Fits(flips[n].from, input[flips[n].at], b)

\* The walk is at the innermost flip, in the state it resumed in, or behind it.
Walking ==
    phase = "walk" /\ flips # <<>> =>
        Top.at <= i /\ (i = Top.at => state = Top.from)

Inv == TypeOK /\ Ordered /\ Fitting /\ Walking /\ OnlyOpenFlips

-----------------------------------------------------------------------------
(* The symbols. *)

\* Flips stay symbols.
LEMMA XorType == \A v \in Symbols, n \in {1, 2, 3} : Xor(v, n) \in Symbols
  BY DEF Xor, Symbols

\* A symbol that fits no bit of a state fits one with its low bit inverted.
LEMMA FirstFlipFits ==
    ASSUME NEW e \in Symbols, NEW v \in Symbols, v # e, v # 3 - e
    PROVE  Xor(v, 1) = e \/ Xor(v, 1) = 3 - e
  BY DEF Xor, Symbols

\* A symbol that fits a bit fits the other one when it is complemented.
LEMMA SecondFlipFits ==
    ASSUME NEW e \in Symbols, NEW v \in Symbols, v = e \/ v = 3 - e
    PROVE  Xor(v, 3) = e \/ Xor(v, 3) = 3 - e
  BY DEF Xor, Symbols

\* The three flips in a row are no flip.
LEMMA FlipsCancel ==
    ASSUME NEW v \in Symbols
    PROVE  Xor(Xor(v, 1), 3) = Xor(v, 2) /\ Xor(Xor(v, 2), 2) = v
  BY DEF Xor, Symbols

\* To fit a bit is to be the symbol of the state or its complement.
LEMMA FitsOne ==
    ASSUME NEW s, NEW v
    PROVE  (\E b \in Bits : Fits(s, v, b)) <=> (v = Table[s] \/ v = 3 - Table[s])
  BY DEF Fits, Sends, Bits

\* The encoder stays within its states.
LEMMA NextStateType ==
    ASSUME NEW s \in 0 .. (States - 1), NEW b \in Bits
    PROVE  NextState(s, b) \in 0 .. (States - 1)
<1>1. States \in Nat \ {0}
  BY ConvoAssumption
<1>2. 2 * s + b \in Int
  BY <1>1 DEF Bits
<1> QED BY <1>1, <1>2 DEF NextState

-----------------------------------------------------------------------------
(* The stack. *)

\* The stack without its innermost call.
LEMMA LowerCalls ==
    ASSUME flips \in Seq(Calls), flips # <<>>
    PROVE  /\ Lower \in Seq(Calls)
           /\ Len(Lower) = Len(flips) - 1
           /\ \A n \in 1 .. (Len(flips) - 1) : Lower[n] = flips[n]
           /\ Top \in Calls
           /\ Len(flips) \in DOMAIN flips
<1>1. Len(flips) \in Nat /\ Len(flips) > 0 /\ DOMAIN flips = 1 .. Len(flips)
  BY EmptySeq, LenProperties
<1>2. Top \in Calls
  BY <1>1, ElementOfSeq DEF Top
<1>3. /\ Lower \in Seq(Calls)
      /\ Len(Lower) = Len(flips) - 1
      /\ \A n \in 1 .. (Len(flips) - 1) : Lower[n] = flips[n]
  BY <1>1, SubSeqProperties DEF Lower
<1> QED BY <1>1, <1>2, <1>3

\* A call is the innermost one or one below it.
LEMMA LastOrBefore == \A N \in Nat \ {0} : \A n \in 1 .. N : n = N \/ n \in 1 .. (N - 1)
  OBVIOUS

\* The stack with one more call, or with another innermost one.
LEMMA PushedCalls ==
    ASSUME NEW s \in Seq(Calls), NEW c \in Calls
    PROVE  /\ Append(s, c) \in Seq(Calls)
           /\ Append(s, c) # <<>>
           /\ Len(Append(s, c)) = Len(s) + 1
           /\ DOMAIN Append(s, c) = 1 .. (Len(s) + 1)
           /\ Append(s, c)[Len(s) + 1] = c
           /\ \A n \in 1 .. Len(s) : Append(s, c)[n] = s[n]
  BY AppendProperties, LenProperties

-----------------------------------------------------------------------------
(* The steps. *)

\* deconvo26 starts with the word as received and no call behind a flip.
LEMMA InitInv == Init => Inv
<1> SUFFICES ASSUME Init PROVE Inv
  OBVIOUS
<1>1. TypeOK
  BY ConvoAssumption DEF Init, TypeOK, Messages, Bits, Offsets, Phases, Calls
<1>2. DOMAIN flips = {}
  BY DEF Init
<1> QED BY <1>1, <1>2 DEF Init, Inv, Ordered, Fitting, Walking, OnlyOpenFlips

\* A symbol that fits takes the walk on.
LEMMA AdvanceInv ==
    ASSUME Inv, NEW b \in Bits, Advance(b)
    PROVE  Inv'
<1> USE DEF Inv
<1>1. i \in Offsets /\ i' \in 0 .. Length
  BY ConvoAssumption DEF TypeOK, Advance, Offsets
<1>2. state' \in 0 .. (States - 1)
  BY NextStateType DEF TypeOK, Advance
<1>3. out' \in Messages
  BY <1>1 DEF TypeOK, Advance, Messages
<1>4. TypeOK'
  BY <1>1, <1>2, <1>3 DEF TypeOK, Advance
<1>5. Walking'
  <2> SUFFICES ASSUME flips # <<>> PROVE Top.at <= i' /\ i' # Top.at
    BY DEF Walking, Top, Advance
  <2>1. Top \in Calls
    BY LowerCalls DEF TypeOK
  <2>2. Top.at \in Int /\ i \in Int
    BY <2>1, <1>1, ConvoAssumption DEF Calls, Offsets
  <2>3. Top.at <= i
    BY DEF Walking, Advance
  <2> QED BY <2>2, <2>3 DEF Advance
<1> QED BY <1>4, <1>5 DEF Advance, Ordered, Fitting, OnlyOpenFlips

\* Where the walk is at a flip it does not fail: a failing walk is behind all of them.
LEMMA BehindFlips ==
    ASSUME Inv, phase = "walk", Mismatch
    PROVE  \A n \in DOMAIN flips : flips[n].at < i
<1> SUFFICES ASSUME NEW n \in DOMAIN flips PROVE flips[n].at < i
  OBVIOUS
<1> USE DEF Inv
<1>1. flips \in Seq(Calls) /\ flips # <<>> /\ n \in 1 .. Len(flips) /\ Len(flips) \in Nat
  BY LenProperties, EmptySeq DEF TypeOK
<1>2. Top \in Calls /\ flips[n] \in Calls /\ Len(flips) \in DOMAIN flips
  BY <1>1, LowerCalls, ElementOfSeq
<1>3. Top.at \in Int /\ flips[n].at \in Int /\ i \in Int
  BY <1>2, ConvoAssumption DEF TypeOK, Calls, Offsets
<1>4. i # Top.at
  <2> SUFFICES ASSUME i = Top.at PROVE FALSE
    OBVIOUS
  <2>1. state = Top.from
    BY <1>1 DEF Walking
  <2>2. \E b \in Bits : Fits(Top.from, input[Top.at], b)
    BY <1>2 DEF Fitting, Top
  <2> QED BY <2>1, <2>2 DEF Mismatch
<1>5. Top.at < i
  BY <1>1, <1>3, <1>4 DEF Walking
<1>6. n = Len(flips) \/ flips[n].at < Top.at
  BY <1>1, <1>2 DEF Ordered, Top
<1> QED BY <1>3, <1>5, <1>6 DEF Top

\* The first flip of a call: a symbol no caller has touched.
LEMMA FirstFlipFacts ==
    ASSUME Inv, FirstFlip
    PROVE  /\ i \in Offsets /\ state \in 0 .. (States - 1)
           /\ Len(flips) \in Nat /\ DOMAIN flips = 1 .. Len(flips)
           /\ flips' \in Seq(Calls) /\ flips' # <<>>
           /\ Len(flips') = Len(flips) + 1
           /\ DOMAIN flips' = 1 .. (Len(flips) + 1)
           /\ flips'[Len(flips) + 1] = [at |-> i, from |-> state, try |-> 1]
           /\ \A n \in 1 .. Len(flips) : flips'[n] = flips[n]
           /\ \A n \in DOMAIN flips : flips[n].at < i /\ flips[n].at \in Offsets
           /\ input[i] = received[i] /\ input[i] \in Symbols
           /\ input' \in [Offsets -> Symbols] /\ input'[i] = Xor(received[i], 1)
           /\ \A k \in Offsets : k # i => input'[k] = input[k]
<1> DEFINE c == [at |-> i, from |-> state, try |-> 1]
<1> USE DEF Inv
<1>1. i \in Offsets /\ state \in 0 .. (States - 1) /\ c \in Calls
  BY ConvoAssumption DEF TypeOK, FirstFlip, Mismatch, Offsets, Calls
<1>2. flips \in Seq(Calls) /\ Len(flips) \in Nat /\ DOMAIN flips = 1 .. Len(flips)
  BY LenProperties DEF TypeOK
<1>3. /\ flips' \in Seq(Calls) /\ flips' # <<>>
      /\ Len(flips') = Len(flips) + 1
      /\ DOMAIN flips' = 1 .. (Len(flips) + 1)
      /\ flips'[Len(flips) + 1] = c
      /\ \A n \in 1 .. Len(flips) : flips'[n] = flips[n]
  BY <1>1, <1>2, PushedCalls DEF FirstFlip
<1>4. \A n \in DOMAIN flips : flips[n].at < i /\ flips[n].at \in Offsets
  <2>1. \A n \in DOMAIN flips : flips[n].at < i
    BY BehindFlips DEF FirstFlip
  <2>2. \A n \in DOMAIN flips : flips[n] \in Calls
    BY <1>2, ElementOfSeq
  <2> QED BY <2>1, <2>2 DEF Calls
<1>5. i \in Int /\ \A n \in DOMAIN flips : flips[n].at # i
  BY <1>1, <1>4, ConvoAssumption DEF Offsets
<1>6. /\ input \in [Offsets -> Symbols] /\ received \in [Offsets -> Symbols]
      /\ input' = [input EXCEPT ![i] = Xor(input[i], 1)]
  BY DEF TypeOK, FirstFlip, Flip
<1>7. input[i] = received[i]
  BY <1>1, <1>5 DEF OnlyOpenFlips
<1>8. input' \in [Offsets -> Symbols] /\ input'[i] = Xor(received[i], 1)
  BY <1>1, <1>6, <1>7, XorType
<1>9. \A k \in Offsets : k # i => input'[k] = input[k]
  BY <1>6
<1> QED BY <1>1, <1>2, <1>3, <1>4, <1>6, <1>7, <1>8, <1>9

LEMMA FirstFlipInv ==
    ASSUME Inv, FirstFlip
    PROVE  Inv'
<1> DEFINE c == [at |-> i, from |-> state, try |-> 1]
<1> USE DEF Inv
<1>1. i \in Offsets /\ state \in 0 .. (States - 1) /\ i \in Int
  BY FirstFlipFacts, ConvoAssumption DEF Offsets
<1>2. Len(flips) \in Nat /\ DOMAIN flips = 1 .. Len(flips)
  BY FirstFlipFacts
<1>3. /\ flips' \in Seq(Calls) /\ flips' # <<>>
      /\ Len(flips') = Len(flips) + 1
      /\ DOMAIN flips' = 1 .. (Len(flips) + 1)
      /\ flips'[Len(flips) + 1] = c
      /\ \A n \in 1 .. Len(flips) : flips'[n] = flips[n]
  BY FirstFlipFacts
<1>4. \A n \in DOMAIN flips : flips[n].at < i /\ flips[n].at \in Offsets
  BY FirstFlipFacts
<1>5. \A n \in DOMAIN flips : flips[n].at # i
  BY <1>1, <1>4, ConvoAssumption DEF Offsets
<1>7. input[i] = received[i] /\ input[i] \in Symbols
  BY FirstFlipFacts
<1>8. input' \in [Offsets -> Symbols] /\ input'[i] = Xor(received[i], 1)
  BY FirstFlipFacts
<1>9. \A k \in Offsets : k # i => input'[k] = input[k]
  BY FirstFlipFacts
<1>10. TypeOK'
  <2>1. Len(flips') <= max'
    BY <1>2, <1>3, ConvoAssumption DEF TypeOK, FirstFlip
  <2> QED BY <1>3, <1>8, <2>1 DEF TypeOK, FirstFlip
<1>11. Ordered'
  BY <1>2, <1>3, <1>4 DEF Ordered
<1>12. Fitting'
  <2> SUFFICES ASSUME NEW n \in DOMAIN flips'
               PROVE  \E b \in Bits : Fits(flips'[n].from, input'[flips'[n].at], b)
    BY DEF Fitting, Fits, Sends
  <2>1. CASE n = Len(flips) + 1
    <3>1. Table[state] \in Symbols /\ input[i] \in Symbols
      BY <1>1, <1>7, ConvoAssumption
    <3>2. input[i] # Table[state] /\ input[i] # 3 - Table[state]
      BY FitsOne DEF FirstFlip, Mismatch
    <3>3. input'[i] = Table[state] \/ input'[i] = 3 - Table[state]
      BY <3>1, <3>2, <1>7, <1>8, FirstFlipFits
    <3> QED BY <2>1, <3>3, <1>3, FitsOne
  <2>2. CASE n \in DOMAIN flips
    <3>1. flips'[n] = flips[n] /\ input'[flips[n].at] = input[flips[n].at]
      BY <2>2, <1>2, <1>3, <1>4, <1>5, <1>9
    <3> QED BY <2>2, <3>1 DEF Fitting
  <2> QED BY <2>1, <2>2, <1>2, <1>3
<1>13. Walking'
  <2>1. Top' = c
    BY <1>3 DEF Top
  <2> QED BY <2>1, <1>1 DEF Walking, FirstFlip
<1>14. OnlyOpenFlips'
  <2> SUFFICES ASSUME NEW k \in Offsets
               PROVE  \/ input'[k] = received[k] /\ \A n \in DOMAIN flips' : flips'[n].at # k
                      \/ \E n \in DOMAIN flips' :
                           flips'[n].at = k /\ input'[k] = Xor(received[k], flips'[n].try)
    BY DEF OnlyOpenFlips, FirstFlip
  <2>1. CASE k = i
    BY <2>1, <1>2, <1>3, <1>8
  <2>2. CASE k # i
    BY <2>2, <1>2, <1>3, <1>9 DEF OnlyOpenFlips
  <2> QED BY <2>1, <2>2
<1> QED BY <1>10, <1>11, <1>12, <1>13, <1>14

\* The second flip: the symbol is the other one that fits, and the walk resumes at it.
LEMMA SecondFlipFacts ==
    ASSUME Inv, SecondFlip
    PROVE  /\ flips \in Seq(Calls) /\ Len(flips) \in Nat \ {0} /\ DOMAIN flips = 1 .. Len(flips)
           /\ Top \in Calls /\ flips[Len(flips)] = Top
           /\ flips' \in Seq(Calls) /\ flips' # <<>>
           /\ Len(flips') = Len(flips) /\ DOMAIN flips' = 1 .. Len(flips)
           /\ flips'[Len(flips)].try = 2
           /\ \A n \in 1 .. (Len(flips) - 1) : flips'[n] = flips[n]
           /\ \A n \in 1 .. Len(flips) : flips'[n].at = flips[n].at /\ flips'[n].from = flips[n].from
           /\ \A n \in 1 .. (Len(flips) - 1) : flips[n].at < Top.at /\ flips[n].at \in Offsets
           /\ input' \in [Offsets -> Symbols]
           /\ input[Top.at] = Xor(received[Top.at], 1)
           /\ input'[Top.at] = Xor(input[Top.at], 3)
           /\ input'[Top.at] = Xor(received[Top.at], 2)
           /\ \A k \in Offsets : k # Top.at => input'[k] = input[k]
<1> DEFINE L == Len(flips)
           c == [Top EXCEPT !.try = 2]
<1> USE DEF Inv
<1>1. flips \in Seq(Calls) /\ L \in Nat \ {0} /\ DOMAIN flips = 1 .. L
  BY LenProperties, EmptySeq DEF TypeOK, SecondFlip
<1>2. /\ Lower \in Seq(Calls)
      /\ Len(Lower) = L - 1
      /\ \A n \in 1 .. (L - 1) : Lower[n] = flips[n]
      /\ Top \in Calls
  BY <1>1, LowerCalls DEF SecondFlip
<1>3. c \in Calls /\ c.at = Top.at /\ c.from = Top.from /\ c.try = 2
  BY <1>2 DEF Calls
<1>4. /\ flips' \in Seq(Calls) /\ flips' # <<>>
      /\ Len(flips') = L
      /\ DOMAIN flips' = 1 .. L
      /\ flips'[L] = c
      /\ \A n \in 1 .. (L - 1) : flips'[n] = flips[n]
  <2>1. Append(Lower, c) = flips'
    BY DEF SecondFlip
  <2>2. (L - 1) + 1 = L
    BY <1>1
  <2> QED BY <1>2, <1>3, <2>1, <2>2, PushedCalls
<1>5. flips[L] = Top /\ L \in DOMAIN flips
  BY <1>1 DEF Top
<1> HIDE DEF c
<1>same. /\ flips'[L].at = Top.at /\ flips'[L].from = Top.from /\ flips'[L].try = 2
         /\ \A n \in 1 .. L : flips'[n].at = flips[n].at /\ flips'[n].from = flips[n].from
  <2>1. flips'[L].at = Top.at /\ flips'[L].from = Top.from /\ flips'[L].try = 2
    BY <1>3, <1>4
  <2>2. \A n \in 1 .. L : n = L \/ n \in 1 .. (L - 1)
    BY <1>1, LastOrBefore
  <2> QED BY <2>1, <2>2, <1>4, <1>5
<1>6. \A n \in 1 .. (L - 1) : flips[n].at < Top.at /\ flips[n].at \in Offsets
  <2> SUFFICES ASSUME NEW n \in 1 .. (L - 1)
               PROVE  flips[n].at < Top.at /\ flips[n].at \in Offsets
    OBVIOUS
  <2>1. n \in DOMAIN flips /\ n < L
    BY <1>1
  <2>2. flips[n] \in Calls
    BY <1>1, <2>1, ElementOfSeq
  <2>3. flips[n].at \in Offsets /\ flips[n].at \in Int
    BY <2>2, ConvoAssumption DEF Calls, Offsets
  <2>4. flips[n].at < Top.at
    BY <1>5, <2>1 DEF Ordered
  <2> QED BY <2>3, <2>4
<1>7. /\ input \in [Offsets -> Symbols] /\ received \in [Offsets -> Symbols]
      /\ input' = [input EXCEPT ![Top.at] = Xor(input[Top.at], 3)]
      /\ Top.at \in Offsets
  BY <1>2 DEF TypeOK, SecondFlip, Flip, Calls
<1>8. input[Top.at] = Xor(received[Top.at], 1)
  <2>1. PICK n \in DOMAIN flips :
          flips[n].at = Top.at /\ input[Top.at] = Xor(received[Top.at], flips[n].try)
    BY <1>5, <1>7 DEF OnlyOpenFlips
  <2>2. n = L
    BY <1>1, <1>6, <2>1, ConvoAssumption DEF Offsets
  <2> QED BY <1>5, <2>1, <2>2 DEF SecondFlip
<1>9. /\ input' \in [Offsets -> Symbols]
      /\ input'[Top.at] = Xor(input[Top.at], 3)
      /\ input'[Top.at] = Xor(received[Top.at], 2)
  BY <1>7, <1>8, XorType, FlipsCancel
<1>10. \A k \in Offsets : k # Top.at => input'[k] = input[k]
  BY <1>7
<1> QED BY <1>1, <1>2, <1>4, <1>5, <1>same, <1>6, <1>8, <1>9, <1>10

LEMMA SecondFlipInv ==
    ASSUME Inv, SecondFlip
    PROVE  Inv'
<1> DEFINE L == Len(flips)
<1> USE DEF Inv
<1>1. /\ flips \in Seq(Calls) /\ L \in Nat \ {0} /\ DOMAIN flips = 1 .. L
      /\ Top \in Calls /\ flips[L] = Top /\ L \in DOMAIN flips
  BY SecondFlipFacts
<1>2. Top.at \in Offsets /\ Top.at \in Int /\ Top.from \in 0 .. (States - 1)
  BY <1>1, ConvoAssumption DEF Calls, Offsets
<1>4. /\ flips' \in Seq(Calls) /\ flips' # <<>>
      /\ Len(flips') = L
      /\ DOMAIN flips' = 1 .. L
      /\ flips'[L].try = 2
      /\ \A n \in 1 .. (L - 1) : flips'[n] = flips[n]
  BY SecondFlipFacts
<1>5. \A n \in 1 .. L : flips'[n].at = flips[n].at /\ flips'[n].from = flips[n].from
  BY SecondFlipFacts
<1>6. \A n \in 1 .. (L - 1) : flips[n].at # Top.at /\ flips[n].at \in Offsets
  BY <1>2, SecondFlipFacts, ConvoAssumption DEF Offsets
<1>9. /\ input' \in [Offsets -> Symbols] /\ input[Top.at] \in Symbols
      /\ input'[Top.at] = Xor(input[Top.at], 3)
      /\ input'[Top.at] = Xor(received[Top.at], 2)
  BY <1>2, SecondFlipFacts DEF TypeOK
<1>10. \A k \in Offsets : k # Top.at => input'[k] = input[k]
  BY SecondFlipFacts
<1>11. TypeOK'
  <2>1. i' \in 0 .. Length /\ state' \in 0 .. (States - 1)
    BY <1>2, ConvoAssumption DEF SecondFlip, Calls, Offsets
  <2> QED BY <1>4, <1>9, <2>1 DEF TypeOK, SecondFlip, Phases
<1>12. Ordered'
  BY <1>1, <1>4, <1>5 DEF Ordered
<1>13. Fitting'
  <2> SUFFICES ASSUME NEW n \in DOMAIN flips'
               PROVE  \E b \in Bits : Fits(flips'[n].from, input'[flips'[n].at], b)
    BY DEF Fitting, Fits, Sends
  <2>1. CASE n = L
    <3>1. Table[Top.from] \in Symbols /\ input[Top.at] \in Symbols
      BY <1>2, <1>9, ConvoAssumption
    <3>2. input[Top.at] = Table[Top.from] \/ input[Top.at] = 3 - Table[Top.from]
      BY <1>1, FitsOne DEF Fitting
    <3>3. input'[Top.at] = Table[Top.from] \/ input'[Top.at] = 3 - Table[Top.from]
      BY <3>1, <3>2, <1>9, SecondFlipFits
    <3>4. flips'[n].at = Top.at /\ flips'[n].from = Top.from
      BY <2>1, <1>1, <1>5
    <3>5. \E b \in Bits : Fits(Top.from, input'[Top.at], b)
      BY <3>3, FitsOne
    <3> QED BY <3>4, <3>5
  <2>2. CASE n \in 1 .. (L - 1)
    <3>1. flips'[n] = flips[n] /\ input'[flips[n].at] = input[flips[n].at]
      BY <2>2, <1>4, <1>6, <1>10
    <3>2. n \in DOMAIN flips
      BY <2>2, <1>1
    <3> QED BY <3>1, <3>2 DEF Fitting
  <2> QED BY <2>1, <2>2, <1>1, <1>4
<1>14. Walking'
  <2>1. Top'.at = Top.at /\ Top'.from = Top.from
    BY <1>1, <1>4, <1>5 DEF Top
  <2> QED BY <2>1, <1>2 DEF Walking, SecondFlip
<1>15. OnlyOpenFlips'
  <2> SUFFICES ASSUME NEW k \in Offsets
               PROVE  \/ input'[k] = received[k] /\ \A n \in DOMAIN flips' : flips'[n].at # k
                      \/ \E n \in DOMAIN flips' :
                           flips'[n].at = k /\ input'[k] = Xor(received[k], flips'[n].try)
    BY DEF OnlyOpenFlips, SecondFlip
  <2>1. CASE k = Top.at
    BY <2>1, <1>1, <1>4, <1>5, <1>9
  <2>2. CASE k # Top.at
    <3>1. CASE input[k] = received[k] /\ \A n \in DOMAIN flips : flips[n].at # k
      BY <2>2, <3>1, <1>1, <1>4, <1>5, <1>10
    <3>2. CASE \E n \in DOMAIN flips :
                 flips[n].at = k /\ input[k] = Xor(received[k], flips[n].try)
      BY <2>2, <3>2, <1>1, <1>4, <1>5, <1>10
    <3> QED BY <3>1, <3>2 DEF OnlyOpenFlips
  <2> QED BY <2>1, <2>2
<1> QED BY <1>11, <1>12, <1>13, <1>14, <1>15

\* Both flips have failed: the symbol is as received and the call is gone.
LEMMA GiveUpFacts ==
    ASSUME Inv, GiveUp
    PROVE  /\ flips \in Seq(Calls) /\ Len(flips) \in Nat \ {0} /\ DOMAIN flips = 1 .. Len(flips)
           /\ Top \in Calls /\ flips[Len(flips)] = Top
           /\ flips' \in Seq(Calls)
           /\ Len(flips') = Len(flips) - 1 /\ DOMAIN flips' = 1 .. (Len(flips) - 1)
           /\ \A n \in 1 .. (Len(flips) - 1) : flips'[n] = flips[n]
           /\ \A n \in 1 .. (Len(flips) - 1) : flips[n].at < Top.at /\ flips[n].at \in Offsets
           /\ input' \in [Offsets -> Symbols] /\ input'[Top.at] = received[Top.at]
           /\ \A k \in Offsets : k # Top.at => input'[k] = input[k]
<1> DEFINE L == Len(flips)
<1> USE DEF Inv
<1>1. flips \in Seq(Calls) /\ L \in Nat \ {0} /\ DOMAIN flips = 1 .. L
  BY LenProperties, EmptySeq DEF TypeOK, GiveUp
<1>2. /\ flips' \in Seq(Calls)
      /\ Len(flips') = L - 1
      /\ \A n \in 1 .. (L - 1) : flips'[n] = flips[n]
      /\ Top \in Calls
  BY <1>1, LowerCalls DEF GiveUp
<1>3. DOMAIN flips' = 1 .. (L - 1)
  BY <1>2, LenProperties
<1>4. flips[L] = Top /\ L \in DOMAIN flips
  BY <1>1 DEF Top
<1>5. \A n \in 1 .. (L - 1) : flips[n].at < Top.at /\ flips[n].at \in Offsets
  <2> SUFFICES ASSUME NEW n \in 1 .. (L - 1)
               PROVE  flips[n].at < Top.at /\ flips[n].at \in Offsets
    OBVIOUS
  <2>1. n \in DOMAIN flips /\ n < L
    BY <1>1
  <2>2. flips[n] \in Calls
    BY <1>1, <2>1, ElementOfSeq
  <2>3. flips[n].at \in Offsets /\ flips[n].at \in Int
    BY <2>2, ConvoAssumption DEF Calls, Offsets
  <2>4. flips[n].at < Top.at
    BY <1>4, <2>1 DEF Ordered
  <2> QED BY <2>3, <2>4
<1>6. /\ input \in [Offsets -> Symbols] /\ received \in [Offsets -> Symbols]
      /\ input' = [input EXCEPT ![Top.at] = Xor(input[Top.at], 2)]
      /\ Top.at \in Offsets
  BY <1>2 DEF TypeOK, GiveUp, Flip, Calls
<1>7. input[Top.at] = Xor(received[Top.at], 2)
  <2>1. PICK n \in DOMAIN flips :
          flips[n].at = Top.at /\ input[Top.at] = Xor(received[Top.at], flips[n].try)
    BY <1>4, <1>6 DEF OnlyOpenFlips
  <2>2. n = L
    BY <1>1, <1>5, <2>1, ConvoAssumption DEF Offsets
  <2> QED BY <1>4, <2>1, <2>2 DEF GiveUp
<1>8. input' \in [Offsets -> Symbols] /\ input'[Top.at] = received[Top.at]
  BY <1>6, <1>7, XorType, FlipsCancel
<1>9. \A k \in Offsets : k # Top.at => input'[k] = input[k]
  BY <1>6
<1> QED BY <1>1, <1>2, <1>3, <1>4, <1>5, <1>8, <1>9

LEMMA GiveUpInv ==
    ASSUME Inv, GiveUp
    PROVE  Inv'
<1> DEFINE L == Len(flips)
<1> USE DEF Inv
<1>1. /\ flips \in Seq(Calls) /\ L \in Nat \ {0} /\ DOMAIN flips = 1 .. L
      /\ Top \in Calls /\ flips[L] = Top /\ L \in DOMAIN flips
  BY GiveUpFacts
<1>2. /\ flips' \in Seq(Calls) /\ Len(flips') = L - 1 /\ DOMAIN flips' = 1 .. (L - 1)
      /\ \A n \in 1 .. (L - 1) : flips'[n] = flips[n]
  BY GiveUpFacts
<1>4. Top.at \in Offsets
  BY <1>1 DEF Calls
<1>5. \A n \in 1 .. (L - 1) : flips[n].at # Top.at /\ flips[n].at \in Offsets
  BY <1>4, GiveUpFacts, ConvoAssumption DEF Offsets
<1>8. input' \in [Offsets -> Symbols] /\ input'[Top.at] = received[Top.at]
  BY GiveUpFacts
<1>9. \A k \in Offsets : k # Top.at => input'[k] = input[k]
  BY GiveUpFacts
<1>10. TypeOK'
  <2>1. Len(flips') <= max'
    BY <1>1, <1>2, ConvoAssumption DEF TypeOK, GiveUp
  <2> QED BY <1>2, <1>8, <2>1 DEF TypeOK, GiveUp
<1>11. Ordered'
  BY <1>1, <1>2 DEF Ordered
<1>12. Fitting'
  <2> SUFFICES ASSUME NEW n \in DOMAIN flips'
               PROVE  \E b \in Bits : Fits(flips'[n].from, input'[flips'[n].at], b)
    BY DEF Fitting, Fits, Sends
  <2>1. flips'[n] = flips[n] /\ input'[flips[n].at] = input[flips[n].at]
    BY <1>2, <1>5, <1>9
  <2>2. n \in DOMAIN flips
    BY <1>1, <1>2
  <2> QED BY <2>1, <2>2 DEF Fitting
<1>13. Walking'
  BY DEF Walking, GiveUp
<1>14. OnlyOpenFlips'
  <2> SUFFICES ASSUME NEW k \in Offsets
               PROVE  \/ input'[k] = received[k] /\ \A n \in DOMAIN flips' : flips'[n].at # k
                      \/ \E n \in DOMAIN flips' :
                           flips'[n].at = k /\ input'[k] = Xor(received[k], flips'[n].try)
    BY DEF OnlyOpenFlips, GiveUp
  <2>1. CASE k = Top.at
    BY <2>1, <1>2, <1>5, <1>8
  <2>2. CASE k # Top.at
    <3>1. CASE input[k] = received[k] /\ \A n \in DOMAIN flips : flips[n].at # k
      BY <2>2, <3>1, <1>1, <1>2, <1>9
    <3>2. CASE \E n \in DOMAIN flips :
                 flips[n].at = k /\ input[k] = Xor(received[k], flips[n].try)
      BY <2>2, <3>2, <1>1, <1>2, <1>4, <1>9
    <3> QED BY <3>1, <3>2 DEF OnlyOpenFlips
  <2> QED BY <2>1, <2>2
<1> QED BY <1>10, <1>11, <1>12, <1>13, <1>14

\* The next search starts at the front, with no call open.
LEMMA NextBudgetInv ==
    ASSUME Inv, NextBudget
    PROVE  Inv'
<1> USE DEF Inv
<1>1. max' \in 0 .. (MaxEc - 1) /\ Len(flips) <= max'
  BY ConvoAssumption, LenProperties DEF TypeOK, NextBudget
<1>2. TypeOK'
  BY <1>1, ConvoAssumption DEF TypeOK, NextBudget, Phases
<1> QED BY <1>2 DEF NextBudget, Ordered, Fitting, Walking, OnlyOpenFlips, Fits, Sends

\* Every step of the search keeps the invariant.
LEMMA StepInv == Inv /\ [Next]_vars => Inv'
<1> SUFFICES ASSUME Inv, [Next]_vars PROVE Inv'
  OBVIOUS
<1>1. CASE \E b \in Bits : Advance(b)
  BY <1>1, AdvanceInv
<1>2. CASE FirstFlip
  BY <1>2, FirstFlipInv
<1>3. CASE SecondFlip
  BY <1>3, SecondFlipInv
<1>4. CASE GiveUp
  BY <1>4, GiveUpInv
<1>5. CASE NextBudget
  BY <1>5, NextBudgetInv
<1>6. CASE Accept \/ Reject \/ NotFound
  <2>1. /\ UNCHANGED <<received, input, out, max, i, state, flips>>
        /\ phase' \in Phases \ {"walk"}
    BY <1>6 DEF Accept, Reject, NotFound, Phases
  <2> QED BY <2>1 DEF Inv, TypeOK, Ordered, Fitting, Walking, OnlyOpenFlips, Fits, Sends
<1>7. CASE UNCHANGED vars
  BY <1>7 DEF vars, Inv, TypeOK, Ordered, Fitting, Walking, OnlyOpenFlips, Fits, Sends, Top
<1> QED BY <1>1, <1>2, <1>3, <1>4, <1>5, <1>6, <1>7 DEF Next, Returned

-----------------------------------------------------------------------------
\* The search never uses more flips than it may, walks off neither end of the word, and
\* puts only symbols into the buffer.
THEOREM SearchTypeCorrect == Spec => []TypeOK
<1>1. Inv => TypeOK
  BY DEF Inv
<1> QED BY <1>1, InitInv, StepInv, PTL DEF Spec

\* The flips in the buffer are those of the calls still open, each at a symbol of its own:
\* deconvo26 and deconvo29 start every search, and return a failure, with the word as
\* they received it.
THEOREM InputIsRestored == Spec => []OnlyOpenFlips
<1>1. Inv => OnlyOpenFlips
  BY DEF Inv
<1> QED BY <1>1, InitInv, StepInv, PTL DEF Spec

-----------------------------------------------------------------------------
(* The encoder: what is defined along a word is proved along it, from the least place   *)
(* where it would fail.                                                                 *)

\* A set of places has a first one.
LEMMA FirstPlace ==
    ASSUME NEW N \in Nat, NEW T, T \subseteq 0 .. N, T # {}
    PROVE  \E n \in T : \A m \in T : n <= m
<1> DEFINE S == 0 .. N
           F == {0 .. k : k \in T}
           R == StrictSubsetOrdering(S)
<1>1. IsWellFoundedOn(R, FiniteSubsetsOf(S))
  BY FS_StrictSubsetOrderingWellFounded
<1>2. F \subseteq FiniteSubsetsOf(S) /\ F # {}
  <2>1. ASSUME NEW k \in T PROVE 0 .. k \in SUBSET S /\ IsFiniteSet(0 .. k)
    BY FS_Interval
  <2> QED BY <2>1 DEF FiniteSubsetsOf
<1>3. \E x \in F : \A y \in F : <<y, x>> \notin R
  <2> HIDE DEF F, R, S
  <2> QED BY <1>1, <1>2, WFMin
<1>4. PICK n \in T : \A m \in T : <<0 .. m, 0 .. n>> \notin R
  BY <1>3
<1>5. ASSUME NEW m \in T, m < n PROVE FALSE
  <2>1. 0 .. m \subseteq 0 .. n /\ 0 .. m # 0 .. n
    BY <1>5
  <2>2. 0 .. m \in SUBSET S /\ 0 .. n \in SUBSET S
    OBVIOUS
  <2>3. <<0 .. m, 0 .. n>> \in R
    BY <2>1, <2>2 DEF StrictSubsetOrdering
  <2> QED BY <2>3, <1>4
<1> QED BY <1>5

\* The states an encoder goes through, as a function of the places up to n.
Run(m, n, s) ==
    /\ s \in [0 .. n -> 0 .. (States - 1)]
    /\ \A k \in 0 .. n : s[k] = IF k = 0 THEN 0 ELSE NextState(s[k - 1], m[k - 1])

LEMMA RunExists ==
    ASSUME NEW m \in Messages
    PROVE  \E s : Run(m, Length, s)
<1> DEFINE T == {n \in 0 .. Length : ~ \E s : Run(m, n, s)}
<1>1. Length \in Nat /\ States \in Nat \ {0}
  BY ConvoAssumption
<1> SUFFICES ASSUME T # {} PROVE FALSE
  BY <1>1
<1>2. PICK n \in T : \A k \in T : n <= k
  <2> HIDE DEF T
  <2>1. T \subseteq 0 .. Length
    BY DEF T
  <2> QED BY <1>1, <2>1, FirstPlace
<1>3. n # 0
  <2>1. Run(m, 0, [k \in 0 .. 0 |-> 0])
    BY <1>1 DEF Run
  <2> QED BY <2>1
<1>4. n - 1 \in 0 .. Length /\ n - 1 \notin T
  BY <1>1, <1>2, <1>3
<1>5. PICK s : Run(m, n - 1, s)
  BY <1>4
<1> DEFINE t == [k \in 0 .. n |-> IF k = n THEN NextState(s[n - 1], m[n - 1]) ELSE s[k]]
<1>6. n \in Nat /\ n - 1 \in Offsets /\ n - 1 \in 0 .. n
  BY <1>1, <1>3 DEF Offsets
<1>7. s[n - 1] \in 0 .. (States - 1) /\ m[n - 1] \in Bits
  BY <1>5, <1>6 DEF Run, Messages
<1>8. NextState(s[n - 1], m[n - 1]) \in 0 .. (States - 1)
  BY <1>7, NextStateType
<1>9. \A k \in 0 .. n : k # n => k \in 0 .. (n - 1)
  BY <1>6
<1>10. t \in [0 .. n -> 0 .. (States - 1)]
  BY <1>5, <1>8, <1>9 DEF Run
<1>11. ASSUME NEW k \in 0 .. n
       PROVE  t[k] = IF k = 0 THEN 0 ELSE NextState(t[k - 1], m[k - 1])
  <2>1. CASE k = n
    <3>1. k # 0 /\ t[k - 1] = s[n - 1]
      BY <1>3, <1>6, <2>1
    <3> QED BY <2>1, <3>1
  <2>2. CASE k # n
    <3>1. k \in 0 .. (n - 1) /\ t[k] = s[k]
      BY <1>9, <2>2
    <3>2. k # 0 => k - 1 \in 0 .. n /\ k - 1 # n /\ t[k - 1] = s[k - 1]
      BY <1>6, <3>1
    <3> QED BY <1>5, <3>1, <3>2 DEF Run
  <2> QED BY <2>1, <2>2
<1>12. Run(m, n, t)
  BY <1>10, <1>11 DEF Run
<1> QED BY <1>12

\* The encoder begins in state 0 and takes each bit into the next state.
LEMMA Encoder ==
    ASSUME NEW m \in Messages
    PROVE  /\ StatesOf(m)[0] = 0
           /\ \A k \in 0 .. Length : StatesOf(m)[k] \in 0 .. (States - 1)
           /\ \A k \in Offsets : StatesOf(m)[k + 1] = NextState(StatesOf(m)[k], m[k])
<1>1. Length \in Nat
  BY ConvoAssumption
<1>2. PICK s : Run(m, Length, s)
  BY RunExists
<1>3. s = [k \in 0 .. Length |-> IF k = 0 THEN 0 ELSE NextState(s[k - 1], m[k - 1])]
  BY <1>2 DEF Run
<1>4. StatesOf(m) = CHOOSE t : t = [k \in 0 .. Length |->
                                      IF k = 0 THEN 0 ELSE NextState(t[k - 1], m[k - 1])]
  BY DEF StatesOf
<1>5. StatesOf(m) = [k \in 0 .. Length |->
                       IF k = 0 THEN 0 ELSE NextState(StatesOf(m)[k - 1], m[k - 1])]
  BY <1>3, <1>4
<1>6. /\ StatesOf(m)[0] = 0
      /\ \A k \in Offsets : StatesOf(m)[k + 1] = NextState(StatesOf(m)[k], m[k])
  <2> DEFINE st == StatesOf(m)
  <2>1. \A k \in 0 .. Length : st[k] = IF k = 0 THEN 0 ELSE NextState(st[k - 1], m[k - 1])
    BY <1>5
  <2> HIDE DEF st
  <2>2. ASSUME NEW k \in Offsets PROVE st[k + 1] = NextState(st[k], m[k])
    <3>1. k + 1 \in 0 .. Length /\ k + 1 # 0 /\ (k + 1) - 1 = k
      BY <1>1 DEF Offsets
    <3> QED BY <2>1, <3>1
  <2>3. st[0] = 0
    BY <1>1, <2>1
  <2> QED BY <2>2, <2>3 DEF st
<1>7. ASSUME NEW k \in 0 .. Length
      PROVE  StatesOf(m)[k] \in 0 .. (States - 1)
  <2> DEFINE T == {n \in 0 .. Length : StatesOf(m)[n] \notin 0 .. (States - 1)}
  <2> SUFFICES ASSUME T # {} PROVE FALSE
    OBVIOUS
  <2>1. PICK n \in T : \A l \in T : n <= l
    <3> HIDE DEF T
    <3>1. T \subseteq 0 .. Length
      BY DEF T
    <3> QED BY <1>1, <3>1, FirstPlace
  <2>2. n # 0
    BY <1>6, ConvoAssumption
  <2>3. n - 1 \in Offsets /\ n - 1 \notin T /\ n - 1 \in 0 .. Length /\ (n - 1) + 1 = n
    BY <1>1, <2>1, <2>2 DEF Offsets
  <2>4. StatesOf(m)[n - 1] \in 0 .. (States - 1) /\ m[n - 1] \in Bits
    BY <2>3 DEF Messages
  <2>5. StatesOf(m)[n] = NextState(StatesOf(m)[n - 1], m[n - 1])
    BY <1>6, <2>3
  <2> QED BY <2>4, <2>5, NextStateType
<1> QED BY <1>6, <1>7

\* What a state sends tells the bit.
LEMMA BitsTold ==
    ASSUME NEW s \in 0 .. (States - 1), NEW b \in Bits, NEW c \in Bits, Sends(s, b) = Sends(s, c)
    PROVE  b = c
<1>1. Table[s] \in Symbols
  BY ConvoAssumption
<1> QED BY <1>1 DEF Sends, Bits, Symbols

\* Messages that begin with the same bits, or whose words begin with the same symbols, begin
\* with both, and take the encoder to the same states.
LEMMA SameStart ==
    ASSUME NEW m \in Messages, NEW o \in Messages, NEW n \in 0 .. Length,
           \A k \in Offsets : k < n => m[k] = o[k] \/ CodeWord(m)[k] = CodeWord(o)[k]
    PROVE  /\ \A k \in 0 .. n : StatesOf(m)[k] = StatesOf(o)[k]
           /\ \A k \in Offsets : k < n => m[k] = o[k] /\ CodeWord(m)[k] = CodeWord(o)[k]
<1>1. Length \in Nat /\ n \in Nat /\ 0 .. n \subseteq 0 .. Length
  BY ConvoAssumption
<1>2. ASSUME NEW k \in Offsets, k < n, StatesOf(m)[k] = StatesOf(o)[k]
      PROVE  m[k] = o[k] /\ CodeWord(m)[k] = CodeWord(o)[k]
  <2>1. m[k] \in Bits /\ o[k] \in Bits /\ StatesOf(m)[k] \in 0 .. (States - 1)
    BY <1>1, Encoder DEF Messages, Offsets
  <2>2. /\ CodeWord(m)[k] = Sends(StatesOf(m)[k], m[k])
        /\ CodeWord(o)[k] = Sends(StatesOf(o)[k], o[k])
    BY DEF CodeWord
  <2>3. m[k] = o[k]
    BY <1>2, <2>1, <2>2, BitsTold
  <2> QED BY <1>2, <2>2, <2>3
<1> DEFINE T == {k \in 0 .. n : StatesOf(m)[k] # StatesOf(o)[k]}
<1>3. T = {}
  <2> SUFFICES ASSUME T # {} PROVE FALSE
    OBVIOUS
  <2>1. PICK k \in T : \A l \in T : k <= l
    <3> HIDE DEF T
    <3>1. T \subseteq 0 .. n
      BY DEF T
    <3> QED BY <1>1, <3>1, FirstPlace
  <2>2. k # 0
    BY Encoder
  <2>3. k - 1 \in Offsets /\ k - 1 < n /\ k - 1 \in 0 .. n /\ k - 1 \notin T /\ (k - 1) + 1 = k
    BY <1>1, <2>1, <2>2 DEF Offsets
  <2>4. StatesOf(m)[k - 1] = StatesOf(o)[k - 1] /\ m[k - 1] = o[k - 1]
    BY <1>2, <2>3
  <2>5. /\ StatesOf(m)[k] = NextState(StatesOf(m)[k - 1], m[k - 1])
        /\ StatesOf(o)[k] = NextState(StatesOf(o)[k - 1], o[k - 1])
    BY <2>3, Encoder
  <2> QED BY <2>4, <2>5
<1>4. \A k \in Offsets : k < n => k \in 0 .. n
  BY <1>1 DEF Offsets
<1> QED BY <1>2, <1>3, <1>4

-----------------------------------------------------------------------------
(* The walk: what it has made of the input is what the encoder would send. *)

\* Where the walk has come to, or will resume.
Front == IF phase \in {"walk", "ok"} THEN i ELSE IF flips = <<>> THEN 0 ELSE Top.at

\* Up to there the input is the code word of the bits walked, in the encoder's states.
Path ==
    /\ \A k \in Offsets : k < Front => input[k] = CodeWord(out)[k]
    /\ phase \in {"walk", "ok"} => state = StatesOf(out)[i]
    /\ \A n \in DOMAIN flips : flips[n].from = StatesOf(out)[flips[n].at]

\* The open flips are before where the walk is.
LEMMA FlipsBehindFront ==
    ASSUME Inv
    PROVE  /\ Length \in Nat /\ Front \in 0 .. Length
           /\ \A n \in DOMAIN flips : flips[n].at \in Offsets /\ flips[n].at \in 0 .. Length
           /\ phase = "walk" => \A n \in DOMAIN flips : flips[n].at <= i
           /\ flips # <<>> => \A n \in DOMAIN flips : flips[n].at <= Top.at
<1>1. Length \in Nat /\ flips \in Seq(Calls) /\ i \in 0 .. Length
  BY ConvoAssumption DEF Inv, TypeOK
<1>2. \A n \in DOMAIN flips : flips[n].at \in Offsets /\ flips[n].at \in 0 .. Length
  <2>1. \A n \in DOMAIN flips : flips[n] \in Calls
    BY <1>1, ElementOfSeq, LenProperties
  <2>2. \A k \in Offsets : k \in 0 .. Length
    BY <1>1 DEF Offsets
  <2> QED BY <2>1, <2>2 DEF Calls
<1>3. ASSUME flips # <<>>
      PROVE  /\ Top.at \in 0 .. Length
             /\ \A n \in DOMAIN flips : flips[n].at <= Top.at
  <2>1. /\ Len(flips) \in Nat /\ DOMAIN flips = 1 .. Len(flips) /\ Len(flips) \in DOMAIN flips
        /\ flips[Len(flips)] = Top
    BY <1>1, <1>3, LowerCalls, LenProperties DEF Top
  <2>2. Top.at \in 0 .. Length
    BY <1>2, <2>1
  <2>3. ASSUME NEW n \in DOMAIN flips PROVE flips[n].at <= Top.at
    <3>1. n = Len(flips) \/ n < Len(flips)
      BY <2>1
    <3>2. n < Len(flips) => flips[n].at < Top.at
      BY <2>1 DEF Inv, Ordered
    <3>3. flips[n].at \in 0 .. Length
      BY <1>2
    <3> QED BY <1>1, <2>1, <2>2, <3>1, <3>2, <3>3
  <2> QED BY <2>2, <2>3
<1>4. ASSUME phase = "walk", NEW n \in DOMAIN flips PROVE flips[n].at <= i
  <2>1. flips # <<>>
    BY <1>4
  <2>2. Top.at <= i /\ flips[n].at <= Top.at /\ Top.at \in 0 .. Length
    BY <1>3, <1>4, <2>1 DEF Inv, Walking
  <2>3. flips[n].at \in 0 .. Length
    BY <1>2, <1>4
  <2> QED BY <1>1, <2>2, <2>3
<1>5. Front \in 0 .. Length
  BY <1>1, <1>3 DEF Front
<1> QED BY <1>1, <1>2, <1>3, <1>4, <1>5

LEMMA PathInit == Init => Path
<1> SUFFICES ASSUME Init PROVE Path
  OBVIOUS
<1>1. Length \in Nat /\ out \in Messages
  BY InitInv, ConvoAssumption DEF Inv, TypeOK
<1>2. StatesOf(out)[0] = 0
  BY <1>1, Encoder
<1>3. DOMAIN flips = {}
  BY DEF Init
<1> QED BY <1>1, <1>2, <1>3 DEF Init, Path, Front, Offsets

\* A bit more: the walk goes where the encoder goes.
LEMMA PathAdvance ==
    ASSUME Inv, Path, NEW b \in Bits, Advance(b)
    PROVE  Path'
<1>1. /\ out \in Messages /\ out' \in Messages /\ Length \in Nat
      /\ i \in Offsets /\ i \in 0 .. Length /\ i' = i + 1 /\ phase = "walk" /\ phase' = "walk"
      /\ input' = input /\ flips' = flips
  <2>1. Inv'
    BY AdvanceInv
  <2>2. out \in Messages /\ out' \in Messages /\ i \in 0 .. Length
    BY <2>1 DEF Inv, TypeOK
  <2>3. Length \in Nat /\ i < Length
    BY ConvoAssumption DEF Advance
  <2> QED BY <2>2, <2>3 DEF Advance, Offsets
<1>2. out'[i] = b /\ \A k \in Offsets : k # i => out'[k] = out[k]
  BY <1>1 DEF Advance, Messages
<1>3. /\ \A k \in 0 .. i : StatesOf(out')[k] = StatesOf(out)[k]
      /\ \A k \in Offsets : k < i => CodeWord(out')[k] = CodeWord(out)[k]
  <2>1. \A k \in Offsets : k < i => out'[k] = out[k]
    BY <1>1, <1>2
  <2> QED BY <1>1, <2>1, SameStart
<1>4. i \in 0 .. i /\ state = StatesOf(out)[i]
  BY <1>1 DEF Path
<1>5. CodeWord(out')[i] = Sends(state, b)
  BY <1>1, <1>2, <1>3, <1>4 DEF CodeWord
<1>6. input[i] = Sends(state, b)
  BY DEF Advance, Fits
<1>7. \A k \in Offsets : k < i + 1 => input[k] = CodeWord(out')[k]
  <2>1. \A k \in Offsets : k < i => input[k] = CodeWord(out)[k]
    BY <1>1 DEF Path, Front
  <2>2. \A k \in Offsets : k < i + 1 => k < i \/ k = i
    BY <1>1 DEF Offsets
  <2> QED BY <1>3, <1>5, <1>6, <2>1, <2>2
<1>8. state' = StatesOf(out')[i + 1]
  <2>1. StatesOf(out')[i + 1] = NextState(StatesOf(out')[i], out'[i])
    BY <1>1, Encoder
  <2> QED BY <1>2, <1>3, <1>4, <2>1 DEF Advance
<1>9. ASSUME NEW n \in DOMAIN flips PROVE flips[n].from = StatesOf(out')[flips[n].at]
  <2>1. flips[n].at \in 0 .. i
    BY <1>1, FlipsBehindFront
  <2> QED BY <1>3, <2>1 DEF Path
<1> QED BY <1>1, <1>7, <1>8, <1>9 DEF Path, Front


\* Where the bits stay as they are, so do the code word and the states.
LEMMA PathKept ==
    ASSUME Path, UNCHANGED out, Front' <= Front, Front \in 0 .. Length, Front' \in 0 .. Length,
           \A k \in Offsets : k < Front' => input'[k] = input[k],
           phase' \in {"walk", "ok"} => state' = StatesOf(out)[i'],
           \A n \in DOMAIN flips' : flips'[n].from = StatesOf(out)[flips'[n].at]
    PROVE  Path'
<1>1. Length \in Nat
  BY ConvoAssumption
<1>2. \A k \in Offsets : k < Front' => input'[k] = CodeWord(out)[k]
  <2>1. \A k \in Offsets : k < Front' => k < Front
    BY <1>1 DEF Offsets
  <2> QED BY <2>1 DEF Path
<1>3. out' = out
  OBVIOUS
<1> HIDE DEF Front
<1> QED BY <1>2, <1>3 DEF Path

LEMMA PathStep == Inv /\ Path /\ [Next]_vars => Path'
<1> SUFFICES ASSUME Inv, Path, [Next]_vars PROVE Path'
  OBVIOUS
<1>1. Inv'
  BY StepInv
<1>2. /\ Length \in Nat /\ Front \in 0 .. Length /\ Front' \in 0 .. Length
      /\ i \in 0 .. Length /\ out \in Messages
  <2>1. /\ Length \in Nat /\ Front \in 0 .. Length
    BY FlipsBehindFront
  <2>2. Front' \in 0 .. Length
    <3>1. i' \in 0 .. Length /\ flips' \in Seq(Calls)
      BY <1>1 DEF Inv, TypeOK
    <3>2. ASSUME flips' # <<>> PROVE Top'.at \in 0 .. Length
      <4>1. Len(flips') \in DOMAIN flips'
        BY <3>1, <3>2, EmptySeq, LenProperties
      <4>2. Top' \in Calls
        BY <3>1, <4>1, ElementOfSeq, LenProperties DEF Top
      <4> QED BY <2>1, <4>2 DEF Calls, Offsets
    <3> QED BY <2>1, <3>1, <3>2 DEF Front
  <2> QED BY <1>1, <2>1, <2>2 DEF Inv, TypeOK
<1>3. \A n \in DOMAIN flips : flips[n].from = StatesOf(out)[flips[n].at]
  BY DEF Path
<1>4. CASE \E b \in Bits : Advance(b)
  BY <1>4, PathAdvance
<1>5. CASE Accept \/ Reject \/ NotFound
  <2>1. /\ UNCHANGED <<input, out, i, state, flips>>
        /\ phase' \in {"fail", "err", "ok"} /\ (phase' = "ok" => phase = "walk")
        /\ phase' = "fail" => phase = "walk"
    BY <1>5 DEF Accept, Reject, NotFound
  <2>2. Front' <= Front
    <3>1. Top' = Top
      BY <2>1 DEF Top
    <3>2. flips # <<>> => Top.at \in 0 .. Length
      <4>1. flips # <<>> => Len(flips) \in DOMAIN flips
        BY LowerCalls DEF Inv, TypeOK
      <4> QED BY <4>1, FlipsBehindFront DEF Top
    <3>3. CASE flips = <<>>
      BY <1>2, <2>1, <3>3 DEF Front
    <3>4. CASE flips # <<>>
      <4>1. CASE phase = "walk"
        <5>1. Top.at <= i
          BY <3>4, <4>1 DEF Inv, Walking
        <5> QED BY <1>2, <2>1, <3>1, <3>2, <3>4, <4>1, <5>1 DEF Front
      <4>2. CASE phase # "walk"
        BY <1>2, <1>5, <2>1, <3>4, <4>2 DEF Front, NotFound, Accept, Reject
      <4> QED BY <4>1, <4>2
    <3> QED BY <3>3, <3>4
  <2>3. phase' \in {"walk", "ok"} => state' = StatesOf(out)[i']
    BY <2>1 DEF Path
  <2> QED BY <1>2, <1>3, <2>1, <2>2, <2>3, PathKept
<1>6. CASE FirstFlip
  <2>1. /\ UNCHANGED <<out, i, state>> /\ phase = "walk" /\ phase' = "walk"
        /\ Front = i /\ Front' = i
    BY <1>6 DEF FirstFlip, Front
  <2>2. \A k \in Offsets : k < Front' => input'[k] = input[k]
    BY <1>2, <1>6, <2>1, FirstFlipFacts DEF Offsets
  <2>3. ASSUME NEW n \in DOMAIN flips'
        PROVE  flips'[n].from = StatesOf(out)[flips'[n].at]
    <3>1. n \in DOMAIN flips \/ n = Len(flips) + 1
      BY <1>6, FirstFlipFacts
    <3> QED BY <1>3, <1>6, <2>1, <3>1, FirstFlipFacts DEF Path
  <2>4. state' = StatesOf(out)[i']
    BY <2>1 DEF Path
  <2> QED BY <1>2, <2>1, <2>2, <2>3, <2>4, PathKept
<1>7. CASE SecondFlip
  <2>1. /\ UNCHANGED out /\ phase = "fail" /\ phase' = "walk" /\ flips # <<>>
        /\ i' = Top.at /\ state' = Top.from
        /\ Front = Top.at /\ Front' = Top.at
    BY <1>7 DEF SecondFlip, Front
  <2>2. \A k \in Offsets : k < Front' => input'[k] = input[k]
    BY <1>2, <1>7, <2>1, SecondFlipFacts DEF Offsets
  <2>3. \A n \in DOMAIN flips' : flips'[n].from = StatesOf(out)[flips'[n].at]
    BY <1>3, <1>7, SecondFlipFacts
  <2>4. state' = StatesOf(out)[i']
    BY <1>3, <1>7, <2>1, SecondFlipFacts
  <2> QED BY <1>2, <2>1, <2>2, <2>3, <2>4, PathKept
<1>8. CASE GiveUp
  <2>1. /\ UNCHANGED <<out, i, state, phase>> /\ phase = "fail" /\ flips # <<>>
        /\ Front = Top.at
    BY <1>8 DEF GiveUp, Front
  <2>2. Front' < Top.at \/ Front' = 0
    <3>1. CASE flips' = <<>>
      BY <2>1, <3>1 DEF Front
    <3>2. CASE flips' # <<>>
      <4>1. Len(flips') = Len(flips) - 1 /\ Len(flips') \in Nat \ {0}
        <5>1. Len(flips') = Len(flips) - 1
          BY <1>8, GiveUpFacts, Zenon
        <5>2. flips' \in Seq(Calls)
          BY <1>1 DEF Inv, TypeOK
        <5> QED BY <3>2, <5>1, <5>2, EmptySeq, LenProperties
      <4>2. Top' = flips[Len(flips) - 1] /\ Len(flips) - 1 \in 1 .. (Len(flips) - 1)
        BY <1>8, <4>1, GiveUpFacts DEF Top
      <4>3. Top'.at < Top.at
        BY <1>8, <4>2, GiveUpFacts
      <4>4. Front' = Top'.at
        BY <2>1, <3>2 DEF Front
      <4> QED BY <4>3, <4>4
    <3> QED BY <3>1, <3>2
  <2>3. \A k \in Offsets : k < Front' => input'[k] = input[k]
    <3>1. \A k \in Offsets : k < Front' => k # Top.at
      BY <1>2, <2>1, <2>2 DEF Offsets
    <3> QED BY <1>8, <3>1, GiveUpFacts
  <2>4. \A n \in DOMAIN flips' : flips'[n].from = StatesOf(out)[flips'[n].at]
    BY <1>3, <1>8, GiveUpFacts
  <2>5. Front' <= Front
    BY <1>2, <2>1, <2>2
  <2> QED BY <1>2, <2>1, <2>3, <2>4, <2>5, PathKept
<1>9. CASE NextBudget
  <2>1. /\ UNCHANGED <<input, out, flips>> /\ i' = 0 /\ state' = 0 /\ phase' = "walk"
        /\ Front' = 0
    BY <1>9 DEF NextBudget, Front
  <2>2. StatesOf(out)[0] = 0
    BY <1>2, Encoder
  <2> QED BY <1>2, <1>3, <2>1, <2>2, PathKept
<1>10. CASE UNCHANGED vars
  <2>1. UNCHANGED <<input, out, i, state, flips, phase>> /\ Front' = Front
    BY <1>10 DEF vars, Front, Top
  <2> QED BY <1>2, <1>3, <2>1, PathKept DEF Path
<1> QED BY <1>4, <1>5, <1>6, <1>7, <1>8, <1>9, <1>10 DEF Next, Returned

-----------------------------------------------------------------------------
(* The search: what it has not come to yet. *)

Agrees(m, n) == \A k \in Offsets : k < n => CodeWord(m)[k] = input[k]

\* A message the walk may still come to: it goes on as the walk does, ...
Here(m) ==
    /\ Agrees(m, i)
    /\ \A n \in DOMAIN flips : CodeWord(m)[flips[n].at] = input[flips[n].at]

\* ... or leaves it where a call has not come to its second flip.
Later(m) ==
    \E n \in DOMAIN flips :
        /\ flips[n].try = 1
        /\ Agrees(m, flips[n].at)
        /\ CodeWord(m)[flips[n].at] = Xor(received[flips[n].at], 2)

\* No message within reach of this search is passed over, nor was one of the searches before.
NonePassed ==
    /\ Within(max - 1) = {}
    /\ \A m \in Within(max) : /\ phase = "walk" => Here(m) \/ Later(m)
                              /\ phase = "fail" => Later(m)
    /\ phase = "ok" => i = Length /\ Accepts
    /\ phase = "err" => Within(max) = {} /\ max + 1 = MaxEc

\* One bit wrong, or none, or both.
LEMMA XorFacts ==
    ASSUME NEW v \in Symbols, NEW e \in Symbols
    PROVE  /\ Xor(v, 1) # v /\ Xor(v, 2) # v /\ Xor(v, 1) + v # 3 /\ Xor(v, 2) + v # 3
           /\ v + v # 3
           /\ v # e /\ v + e # 3 => e = Xor(v, 1) \/ e = Xor(v, 2)
  BY DEF Xor, Symbols

\* A code word is symbols, and what it takes to be within reach.
LEMMA WithinFacts ==
    ASSUME NEW n, NEW m \in Within(n)
    PROVE  /\ m \in Messages /\ m \in Valid /\ StatesOf(m)[Length] = 0
           /\ CodeWord(m) \in [Offsets -> Symbols]
           /\ \A k \in Offsets : received[k] + CodeWord(m)[k] # 3
           /\ Cardinality(Errors(received, CodeWord(m))) <= n
<1>1. m \in Accepted /\ m \in Messages /\ m \in Valid /\ StatesOf(m)[Length] = 0
  BY ConvoAssumption DEF Within, Accepted
<1>2. CodeBook[m] = CodeWord(m)
  BY <1>1 DEF CodeBook
<1>3. ASSUME NEW k \in Offsets PROVE Sends(StatesOf(m)[k], m[k]) \in Symbols
  <2>1. k \in 0 .. Length
    BY ConvoAssumption DEF Offsets
  <2>2. StatesOf(m)[k] \in 0 .. (States - 1)
    BY <1>1, <2>1, Encoder
  <2>3. Table[StatesOf(m)[k]] \in Symbols
    BY <2>2, ConvoAssumption
  <2> QED BY <2>3 DEF Sends, Symbols
<1>4. CodeWord(m) \in [Offsets -> Symbols]
  BY <1>3 DEF CodeWord
<1> QED BY <1>1, <1>2, <1>4 DEF Within, OneBitEach

\* Differences are places of the word.
LEMMA ErrorsFinite ==
    ASSUME NEW w, NEW v
    PROVE  IsFiniteSet(Errors(w, v)) /\ Cardinality(Errors(w, v)) \in Nat
<1>1. IsFiniteSet(Offsets)
  BY ConvoAssumption, FS_Interval DEF Offsets
<1>2. Errors(w, v) \subseteq Offsets
  BY DEF Errors
<1> QED BY <1>1, <1>2, FS_Subset, FS_CardinalityType

\* The symbols flipped: as many as there are open calls.
Flipped == {flips[n].at : n \in DOMAIN flips}

LEMMA FlippedCount ==
    ASSUME Inv
    PROVE  /\ IsFiniteSet(Flipped) /\ Cardinality(Flipped) = Len(flips)
           /\ Flipped \subseteq Offsets
           /\ \A k \in Offsets : k \notin Flipped => input[k] = received[k]
           /\ \A k \in Flipped : /\ input[k] \in {Xor(received[k], 1), Xor(received[k], 2)}
                                 /\ input[k] # received[k] /\ input[k] + received[k] # 3
           /\ Flipped = Errors(received, input)
<1> DEFINE L == Len(flips)
           f == [n \in 1 .. L |-> flips[n].at]
<1>1. flips \in Seq(Calls) /\ L \in Nat /\ DOMAIN flips = 1 .. L
  BY LenProperties DEF Inv, TypeOK
<1>2. \A n \in 1 .. L : flips[n] \in Calls /\ flips[n].at \in Offsets /\ flips[n].at \in Int
  <2>1. \A n \in 1 .. L : flips[n] \in Calls
    BY <1>1, ElementOfSeq
  <2>2. \A k \in Offsets : k \in Int
    BY ConvoAssumption DEF Offsets
  <2> QED BY <2>1, <2>2 DEF Calls
<1>3. Flipped \subseteq Offsets /\ f \in [1 .. L -> Flipped]
  BY <1>1, <1>2 DEF Flipped
<1>4. \A a, b \in 1 .. L : f[a] = f[b] => a = b
  <2>1. ASSUME NEW a \in 1 .. L, NEW b \in 1 .. L, a < b PROVE f[a] # f[b]
    <3>1. flips[a].at < flips[b].at
      BY <1>1, <2>1 DEF Inv, Ordered
    <3> QED BY <1>2, <3>1
  <2> QED BY <1>1, <2>1
<1>5. \A k \in Flipped : \E n \in 1 .. L : f[n] = k
  BY <1>1 DEF Flipped
<1>6. f \in Bijection(1 .. L, Flipped)
  <2> HIDE DEF f
  <2> QED BY <1>3, <1>4, <1>5, Fun_IsBij
<1>7. IsFiniteSet(Flipped) /\ Cardinality(Flipped) = Len(flips)
  <2>1. IsFiniteSet(1 .. L) /\ Cardinality(1 .. L) = L
    <3>1. 1 \in Int /\ L \in Int /\ (IF 1 > L THEN 0 ELSE L - 1 + 1) = L
      BY <1>1
    <3> HIDE DEF L
    <3> QED BY <3>1, FS_Interval
  <2>2. ExistsBijection(1 .. L, Flipped)
    BY <1>6 DEF ExistsBijection
  <2> QED BY <2>1, <2>2, FS_Bijection
<1>8. \A k \in Offsets : k \notin Flipped => input[k] = received[k]
  BY DEF Inv, OnlyOpenFlips, Flipped
<1>9. ASSUME NEW k \in Flipped
      PROVE  /\ input[k] \in {Xor(received[k], 1), Xor(received[k], 2)}
             /\ input[k] # received[k] /\ input[k] + received[k] # 3
  <2>1. k \in Offsets /\ received[k] \in Symbols
    BY <1>3 DEF Inv, TypeOK
  <2>2. \E n \in DOMAIN flips : flips[n].at = k /\ input[k] = Xor(received[k], flips[n].try)
    BY <2>1 DEF Inv, OnlyOpenFlips, Flipped
  <2>3. \A n \in DOMAIN flips : flips[n].try \in {1, 2}
    BY <1>1, <1>2 DEF Calls
  <2> QED BY <2>1, <2>2, <2>3, XorFacts
<1>10. Flipped = Errors(received, input)
  BY <1>3, <1>8, <1>9 DEF Errors
<1> QED BY <1>3, <1>7, <1>8, <1>9, <1>10

\* A message the walk is still on has brought the encoder to the same state.
LEMMA HereFacts ==
    ASSUME Inv, Path, phase = "walk", NEW m \in Messages, Here(m)
    PROVE  /\ StatesOf(m)[i] = state
           /\ \A k \in Offsets : k < i => m[k] = out[k]
           /\ \A k \in Offsets : k = i => CodeWord(m)[k] = Sends(state, m[k])
           /\ \A k \in Flipped : CodeWord(m)[k] = input[k]
<1>1. i \in 0 .. Length /\ i \in 0 .. i /\ out \in Messages
  BY ConvoAssumption DEF Inv, TypeOK
<1>2. \A k \in Offsets : k < i => CodeWord(m)[k] = CodeWord(out)[k]
  BY DEF Path, Here, Agrees, Front
<1>3. /\ \A k \in 0 .. i : StatesOf(m)[k] = StatesOf(out)[k]
      /\ \A k \in Offsets : k < i => m[k] = out[k]
  BY <1>1, <1>2, SameStart
<1>4. StatesOf(m)[i] = state
  BY <1>1, <1>3 DEF Path
<1>5. \A k \in Flipped : CodeWord(m)[k] = input[k]
  BY DEF Here, Flipped
<1> QED BY <1>3, <1>4, <1>5 DEF CodeWord

LEMMA NoneInit == Init => NonePassed
<1> SUFFICES ASSUME Init PROVE NonePassed
  OBVIOUS
<1>1. Within(max - 1) = {}
  <2> SUFFICES ASSUME NEW m \in Within(max - 1) PROVE FALSE
    OBVIOUS
  <2>1. Cardinality(Errors(received, CodeWord(m))) <= max - 1
    BY WithinFacts
  <2>2. Cardinality(Errors(received, CodeWord(m))) \in Nat
    BY ErrorsFinite
  <2> QED BY <2>1, <2>2 DEF Init
<1>2. DOMAIN flips = {}
  BY DEF Init
<1>3. \A m : Here(m)
  BY <1>2, ConvoAssumption DEF Here, Agrees, Init, Offsets
<1> QED BY <1>1, <1>3 DEF NonePassed, Init

\* Within reach the walk can only go on as the message does.
LEMMA NoneAdvance ==
    ASSUME Inv, Path, NonePassed, NEW b \in Bits, Advance(b)
    PROVE  NonePassed'
<1>1. /\ UNCHANGED <<received, input, max, flips>> /\ phase = "walk" /\ phase' = "walk"
      /\ i' = i + 1 /\ i \in Offsets /\ i \in Int
  BY ConvoAssumption DEF Advance, Inv, TypeOK, Offsets
<1>2. Within(max)' = Within(max) /\ Within(max - 1)' = Within(max - 1)
  BY <1>1 DEF Within
<1>3. ASSUME NEW m \in Within(max) PROVE Here(m)' \/ Later(m)'
  <2>1. CASE Later(m)
    BY <1>1, <2>1 DEF Later, Agrees
  <2>2. CASE Here(m)
    <3>1. /\ m \in Messages /\ CodeWord(m) \in [Offsets -> Symbols]
          /\ received[i] + CodeWord(m)[i] # 3
      BY <1>1, WithinFacts
    <3>2. CodeWord(m)[i] = Sends(state, m[i]) /\ m[i] \in Bits
      BY <1>1, <2>2, <3>1, HereFacts DEF Messages
    <3>3. input[i] = Sends(state, b)
      BY DEF Advance, Fits
    <3>4. CodeWord(m)[i] = input[i]
      <4>1. CASE i \in Flipped
        BY <1>1, <2>2, <3>1, <4>1, HereFacts
      <4>2. CASE i \notin Flipped
        <5>1. input[i] = received[i]
          BY <1>1, <4>2, FlippedCount
        <5>2. Table[state] \in Symbols
          BY ConvoAssumption DEF Inv, TypeOK
        <5>3. b # m[i] => Sends(state, b) + Sends(state, m[i]) = 3
          BY <3>2, <5>2 DEF Sends, Bits, Symbols
        <5> QED BY <3>1, <3>2, <3>3, <5>1, <5>3
      <4> QED BY <4>1, <4>2
    <3>5. \A k \in Offsets : k < i + 1 => k < i \/ k = i
      BY <1>1 DEF Offsets
    <3> QED BY <1>1, <2>2, <3>4, <3>5 DEF Here, Agrees
  <2> QED BY <1>1, <2>1, <2>2 DEF NonePassed
<1> QED BY <1>1, <1>2, <1>3 DEF NonePassed

\* Where the walk ends no message within reach does: it would be this one, or have more
\* wrong symbols than the search may flip.
LEMMA NoneRejected ==
    ASSUME Inv, Path, NonePassed, Reject
    PROVE  NonePassed'
<1>1. UNCHANGED <<received, input, max, flips>> /\ phase = "walk" /\ phase' = "fail"
  BY DEF Reject
<1>2. Within(max)' = Within(max) /\ Within(max - 1)' = Within(max - 1)
  BY <1>1 DEF Within
<1>3. ASSUME NEW m \in Within(max), Here(m) PROVE FALSE
  <2>1. /\ m \in Messages /\ m \in Valid /\ StatesOf(m)[Length] = 0
        /\ Cardinality(Errors(received, CodeWord(m))) <= max
    BY WithinFacts
  <2>2. CASE i = Length /\ ~Accepts
    <3>1. \A k \in Offsets : m[k] = out[k]
      <4>1. \A k \in Offsets : k < i
        BY <2>2, ConvoAssumption DEF Offsets
      <4> QED BY <1>1, <1>3, <2>1, <4>1, HereFacts
    <3>2. m = out
      BY <2>1, <3>1 DEF Inv, TypeOK, Messages
    <3>3. state = 0
      BY <1>1, <1>3, <2>1, <2>2, HereFacts
    <3> QED BY <2>1, <2>2, <3>2, <3>3 DEF Accepts
  <2>3. CASE Mismatch /\ Len(flips) = max
    <3>1. i \in Offsets /\ m[i] \in Bits
      BY <2>1, <2>3, ConvoAssumption DEF Mismatch, Inv, TypeOK, Offsets, Messages
    <3>2. CodeWord(m)[i] # input[i]
      BY <1>1, <1>3, <2>1, <2>3, <3>1, HereFacts DEF Mismatch, Fits
    <3>3. i \notin Flipped /\ input[i] = received[i]
      BY <1>1, <1>3, <2>1, <3>1, <3>2, HereFacts, FlippedCount
    <3>4. Flipped \cup {i} \subseteq Errors(received, CodeWord(m))
      <4>1. \A k \in Flipped : CodeWord(m)[k] = input[k] /\ input[k] # received[k] /\ k \in Offsets
        BY <1>1, <1>3, <2>1, HereFacts, FlippedCount
      <4> QED BY <3>1, <3>2, <3>3, <4>1 DEF Errors
    <3>5. Cardinality(Flipped \cup {i}) = Len(flips) + 1
      BY <3>3, FlippedCount, FS_AddElement
    <3>6. /\ Cardinality(Flipped \cup {i}) <= Cardinality(Errors(received, CodeWord(m)))
          /\ Cardinality(Errors(received, CodeWord(m))) \in Nat
      BY <3>4, ErrorsFinite, FS_Subset
    <3>7. max \in Int /\ Len(flips) = max
      BY <2>3, ConvoAssumption DEF Inv, TypeOK
    <3> QED BY <2>1, <3>5, <3>6, <3>7
  <2> QED BY <2>2, <2>3 DEF Reject
<1>4. ASSUME NEW m \in Within(max) PROVE Later(m)'
  BY <1>1, <1>3, <1>4 DEF NonePassed, Later, Agrees
<1> QED BY <1>1, <1>2, <1>4 DEF NonePassed

\* At the first flip a message on the walk goes on with it or is left for the second.
LEMMA NoneFirstFlip ==
    ASSUME Inv, Path, NonePassed, FirstFlip
    PROVE  NonePassed'
<1> DEFINE L == Len(flips)
<1>1. /\ UNCHANGED <<received, max, i>> /\ phase = "walk" /\ phase' = "walk" /\ Mismatch
      /\ received \in [Offsets -> Symbols]
  BY DEF FirstFlip, Inv, TypeOK
<1>2. /\ i \in Offsets
      /\ L \in Nat /\ DOMAIN flips = 1 .. L
      /\ DOMAIN flips' = 1 .. (L + 1)
      /\ flips'[L + 1].at = i /\ flips'[L + 1].try = 1
      /\ \A n \in 1 .. L : flips'[n] = flips[n]
      /\ \A n \in DOMAIN flips : flips[n].at < i /\ flips[n].at \in Offsets
      /\ input[i] = received[i]
      /\ input'[i] = Xor(received[i], 1)
      /\ \A k \in Offsets : k # i => input'[k] = input[k]
  <2>1. flips'[L + 1] = [at |-> i, from |-> state, try |-> 1]
    BY FirstFlipFacts, Zenon
  <2>2. flips'[L + 1].at = i /\ flips'[L + 1].try = 1
    BY <2>1
  <2>3. i \in Offsets /\ L \in Nat /\ DOMAIN flips = 1 .. L /\ DOMAIN flips' = 1 .. (L + 1)
    BY FirstFlipFacts, Zenon
  <2>4. /\ \A n \in 1 .. L : flips'[n] = flips[n]
        /\ \A n \in DOMAIN flips : flips[n].at < i /\ flips[n].at \in Offsets
    BY FirstFlipFacts, Zenon
  <2>5. /\ input[i] = received[i] /\ input'[i] = Xor(received[i], 1)
        /\ \A k \in Offsets : k # i => input'[k] = input[k]
    BY FirstFlipFacts, Zenon
  <2> QED BY <2>2, <2>3, <2>4, <2>5
<1>3. Within(max)' = Within(max) /\ Within(max - 1)' = Within(max - 1)
  BY <1>1 DEF Within
<1>4. \A n \in 1 .. L : n \in DOMAIN flips' /\ n \in DOMAIN flips
  BY <1>2
<1>5. \A k \in Offsets : k < i => input'[k] = input[k]
  BY <1>2, ConvoAssumption DEF Offsets
<1>6. ASSUME NEW m \in Within(max) PROVE Here(m)' \/ Later(m)'
  <2>1. CASE Later(m)
    <3>1. PICK n \in DOMAIN flips :
            /\ flips[n].try = 1
            /\ Agrees(m, flips[n].at)
            /\ CodeWord(m)[flips[n].at] = Xor(received[flips[n].at], 2)
      BY <2>1 DEF Later
    <3>2. n \in DOMAIN flips' /\ flips'[n] = flips[n]
      BY <1>2, <1>4
    <3>3. \A k \in Offsets : k < flips[n].at => input'[k] = input[k]
      <4>1. \A k \in Offsets : k < flips[n].at => k < i
        BY <1>2, ConvoAssumption DEF Offsets
      <4> QED BY <1>5, <4>1
    <3>4. Agrees(m, flips[n].at)'
      BY <3>1, <3>2, <3>3 DEF Agrees
    <3> QED BY <1>1, <3>1, <3>2, <3>4 DEF Later
  <2>2. CASE Here(m)
    <3>1. /\ m \in Messages /\ CodeWord(m)[i] \in Symbols
          /\ received[i] + CodeWord(m)[i] # 3
      BY <1>2, WithinFacts
    <3>2. CodeWord(m)[i] = Sends(state, m[i]) /\ m[i] \in Bits
      BY <1>1, <1>2, <2>2, <3>1, HereFacts DEF Messages
    <3>3. CodeWord(m)[i] # received[i]
      BY <1>1, <1>2, <3>2 DEF Mismatch, Fits
    <3>4. CodeWord(m)[i] = Xor(received[i], 1) \/ CodeWord(m)[i] = Xor(received[i], 2)
      BY <1>1, <1>2, <3>1, <3>3, XorFacts
    <3>5. Agrees(m, i)'
      BY <1>1, <1>5, <2>2 DEF Here, Agrees
    <3>6. CASE CodeWord(m)[i] = Xor(received[i], 1)
      <4>1. ASSUME NEW n \in DOMAIN flips'
            PROVE  CodeWord(m)[flips'[n].at] = input'[flips'[n].at]
        <5>1. CASE n = L + 1
          BY <1>2, <3>6, <5>1
        <5>2. CASE n \in 1 .. L
          <6>1. flips'[n] = flips[n] /\ input'[flips[n].at] = input[flips[n].at]
            BY <1>2, <1>4, <1>5, <5>2
          <6> QED BY <1>4, <2>2, <5>2, <6>1 DEF Here
        <5> QED BY <1>2, <5>1, <5>2
      <4> QED BY <3>5, <4>1 DEF Here
    <3>7. CASE CodeWord(m)[i] = Xor(received[i], 2)
      <4>1. L + 1 \in DOMAIN flips'
        BY <1>2
      <4>2. \A k \in Offsets : k < flips'[L + 1].at => CodeWord(m)[k] = input'[k]
        BY <1>1, <1>2, <3>5 DEF Agrees
      <4> QED BY <1>1, <1>2, <3>7, <4>1, <4>2 DEF Later, Agrees
    <3> QED BY <3>4, <3>6, <3>7
  <2> QED BY <1>1, <2>1, <2>2 DEF NonePassed
<1> QED BY <1>1, <1>3, <1>6 DEF NonePassed

\* At the second flip those that were left are taken up, or wait for one of the callers.
LEMMA NoneSecondFlip ==
    ASSUME Inv, Path, NonePassed, SecondFlip
    PROVE  NonePassed'
<1> DEFINE L == Len(flips)
<1>1. /\ UNCHANGED <<received, max>> /\ phase = "fail" /\ phase' = "walk" /\ i' = Top.at
  BY DEF SecondFlip
<1>2. /\ L \in Nat \ {0} /\ DOMAIN flips = 1 .. L /\ flips[L] = Top /\ Top \in Calls
      /\ DOMAIN flips' = 1 .. L
      /\ \A n \in 1 .. (L - 1) : flips'[n] = flips[n]
      /\ \A n \in 1 .. L : flips'[n].at = flips[n].at
      /\ \A n \in 1 .. (L - 1) : flips[n].at < Top.at /\ flips[n].at \in Offsets
      /\ input'[Top.at] = Xor(received[Top.at], 2)
      /\ \A k \in Offsets : k # Top.at => input'[k] = input[k]
  BY SecondFlipFacts, Zenon
<1>3. Within(max)' = Within(max) /\ Within(max - 1)' = Within(max - 1)
  BY <1>1 DEF Within
<1>4. \A n \in 1 .. L : n = L \/ n \in 1 .. (L - 1)
  <2>1. L \in Nat \ {0}
    BY <1>2
  <2> HIDE DEF L
  <2> QED BY <2>1, LastOrBefore
<1>5. Top.at \in Offsets /\ \A k \in Offsets : k < Top.at => input'[k] = input[k]
  BY <1>2, ConvoAssumption DEF Offsets, Calls
<1>6. ASSUME NEW m \in Within(max) PROVE Here(m)' \/ Later(m)'
  <2>1. PICK n \in DOMAIN flips :
          /\ flips[n].try = 1
          /\ Agrees(m, flips[n].at)
          /\ CodeWord(m)[flips[n].at] = Xor(received[flips[n].at], 2)
    BY <1>1, <1>6 DEF NonePassed, Later
  <2>2. CASE n = L
    <3>1. \A k \in Offsets : k < Top.at => CodeWord(m)[k] = input'[k]
      BY <1>2, <1>5, <2>1, <2>2 DEF Agrees
    <3>2. ASSUME NEW l \in DOMAIN flips'
          PROVE  CodeWord(m)[flips'[l].at] = input'[flips'[l].at]
      <4>1. CASE l = L
        BY <1>2, <2>1, <2>2, <4>1
      <4>2. CASE l \in 1 .. (L - 1)
        <5>1. CodeWord(m)[flips[l].at] = input[flips[l].at]
          BY <1>2, <2>1, <2>2, <4>2 DEF Agrees
        <5> QED BY <1>2, <1>5, <4>2, <5>1
      <4> QED BY <1>2, <1>4, <4>1, <4>2
    <3> QED BY <1>1, <3>1, <3>2 DEF Here, Agrees
  <2>3. CASE n \in 1 .. (L - 1)
    <3>1. flips'[n] = flips[n] /\ n \in DOMAIN flips'
      BY <1>2, <2>1, <2>3
    <3>2. \A k \in Offsets : k < flips[n].at => input'[k] = input[k]
      <4>1. \A k \in Offsets : k < flips[n].at => k < Top.at
        BY <1>2, <1>5, <2>3, ConvoAssumption DEF Offsets
      <4> QED BY <1>5, <4>1
    <3>3. Agrees(m, flips[n].at)'
      BY <2>1, <3>1, <3>2 DEF Agrees
    <3> QED BY <1>1, <2>1, <3>1, <3>3 DEF Later
  <2> QED BY <1>2, <1>4, <2>2, <2>3
<1> QED BY <1>1, <1>3, <1>6 DEF NonePassed

\* A call that gives up has nothing left: what is not come to yet is for its callers.
LEMMA NoneGiveUp ==
    ASSUME Inv, Path, NonePassed, GiveUp
    PROVE  NonePassed'
<1> DEFINE L == Len(flips)
<1>1. /\ UNCHANGED <<received, max, phase>> /\ phase = "fail" /\ Top.try = 2
  BY DEF GiveUp
<1>2. /\ L \in Nat \ {0} /\ DOMAIN flips = 1 .. L /\ flips[L] = Top /\ Top \in Calls
      /\ DOMAIN flips' = 1 .. (L - 1)
      /\ \A n \in 1 .. (L - 1) : flips'[n] = flips[n]
      /\ \A n \in 1 .. (L - 1) : flips[n].at < Top.at /\ flips[n].at \in Offsets
      /\ \A k \in Offsets : k # Top.at => input'[k] = input[k]
  BY GiveUpFacts, Zenon
<1>3. Within(max)' = Within(max) /\ Within(max - 1)' = Within(max - 1)
  BY <1>1 DEF Within
<1>4. \A n \in 1 .. L : n = L \/ n \in 1 .. (L - 1)
  <2>1. L \in Nat \ {0}
    BY <1>2
  <2> HIDE DEF L
  <2> QED BY <2>1, LastOrBefore
<1>5. Top.at \in Offsets
  BY <1>2 DEF Calls
<1>6. ASSUME NEW m \in Within(max) PROVE Later(m)'
  <2>1. PICK n \in DOMAIN flips :
          /\ flips[n].try = 1
          /\ Agrees(m, flips[n].at)
          /\ CodeWord(m)[flips[n].at] = Xor(received[flips[n].at], 2)
    BY <1>1, <1>6 DEF NonePassed, Later
  <2>2. n \in 1 .. (L - 1)
    <3>1. n \in 1 .. L
      BY <1>2
    <3>2. n # L
      BY <1>1, <1>2, <2>1
    <3> QED BY <1>4, <3>1, <3>2
  <2>3. flips'[n] = flips[n] /\ n \in DOMAIN flips'
    BY <1>2, <2>2
  <2>4. \A k \in Offsets : k < flips[n].at => input'[k] = input[k]
    <3>1. \A k \in Offsets : k < flips[n].at => k # Top.at
      BY <1>2, <1>5, <2>2, ConvoAssumption DEF Offsets
    <3> QED BY <1>2, <3>1
  <2>5. Agrees(m, flips[n].at)'
    BY <2>1, <2>3, <2>4 DEF Agrees
  <2> QED BY <1>1, <2>1, <2>3, <2>5 DEF Later
<1> QED BY <1>1, <1>3, <1>6 DEF NonePassed

\* A search that fails without an open call has come to every message within its reach.
LEMMA NoneNextBudget ==
    ASSUME Inv, Path, NonePassed, NextBudget \/ NotFound
    PROVE  NonePassed'
<1>1. UNCHANGED <<received, flips>> /\ flips = <<>> /\ phase = "fail" /\ max \in Int
  BY ConvoAssumption DEF NextBudget, NotFound, Inv, TypeOK
<1>2. Within(max) = {}
  <2>1. \A m \in Within(max) : Later(m)
    BY <1>1 DEF NonePassed
  <2> QED BY <1>1, <2>1 DEF Later
<1>3. CASE NextBudget
  <2>1. max' = max + 1 /\ max' - 1 = max /\ i' = 0 /\ phase' = "walk"
    BY <1>1, <1>3 DEF NextBudget
  <2>2. Within(max - 1)' = {}
    BY <1>1, <1>2, <2>1 DEF Within
  <2>3. \A m : Here(m)'
    BY <1>1, <2>1, ConvoAssumption DEF Here, Agrees, Offsets
  <2> QED BY <2>1, <2>2, <2>3 DEF NonePassed
<1>4. CASE NotFound
  <2>1. UNCHANGED max /\ phase' = "err" /\ max + 1 = MaxEc
    BY <1>4 DEF NotFound
  <2>2. Within(max)' = Within(max) /\ Within(max - 1)' = Within(max - 1)
    BY <1>1, <2>1 DEF Within
  <2> QED BY <1>2, <2>1, <2>2 DEF NonePassed
<1> QED BY <1>3, <1>4

LEMMA NoneStep == Inv /\ Path /\ NonePassed /\ [Next]_vars => NonePassed'
<1> SUFFICES ASSUME Inv, Path, NonePassed, [Next]_vars PROVE NonePassed'
  OBVIOUS
<1>1. CASE Accept
  <2>1. /\ UNCHANGED <<received, out, max, i, state>> /\ phase' = "ok" /\ i = Length /\ Accepts
    BY <1>1 DEF Accept
  <2>2. Within(max - 1)' = Within(max - 1) /\ Accepts'
    BY <2>1 DEF Within, Accepts
  <2> QED BY <2>1, <2>2 DEF NonePassed
<1>2. CASE UNCHANGED vars
  <2>1. UNCHANGED <<received, input, out, max, i, state, flips, phase>>
    BY <1>2 DEF vars
  <2>2. /\ Within(max)' = Within(max) /\ Within(max - 1)' = Within(max - 1)
        /\ Accepts' = Accepts
    BY <2>1 DEF Within, Accepts
  <2>3. \A m : (Here(m) => Here(m)') /\ (Later(m) => Later(m)')
    BY <2>1 DEF Here, Later, Agrees
  <2> QED BY <2>1, <2>2, <2>3 DEF NonePassed
<1> QED BY <1>1, <1>2, NoneAdvance, NoneRejected, NoneFirstFlip, NoneSecondFlip, NoneGiveUp,
           NoneNextBudget DEF Next, Returned

\* What is returned has as many wrong symbols as there are open calls, and no nearer message
\* was passed over.
LEMMA NearestFound == Inv /\ Path /\ NonePassed => Nearest
<1> SUFFICES ASSUME Inv, Path, NonePassed PROVE Nearest
  OBVIOUS
<1>1. phase = "err" => Within(MaxEc - 1) = {}
  BY ConvoAssumption DEF NonePassed, Inv, TypeOK
<1>2. ASSUME phase = "ok" PROVE out \in Within(max) /\ input = CodeBook[out]
  <2>1. /\ i = Length /\ state = 0 /\ out \in Valid /\ out \in Messages
        /\ input \in [Offsets -> Symbols] /\ received \in [Offsets -> Symbols]
        /\ Len(flips) <= max
    BY <1>2 DEF NonePassed, Accepts, Inv, TypeOK
  <2>2. out \in Accepted
    BY <1>2, <2>1 DEF Path, Accepted
  <2>3. \A k \in Offsets : input[k] = CodeWord(out)[k]
    BY <1>2, <2>1, ConvoAssumption DEF Path, Front, Offsets
  <2>4. input = CodeWord(out) /\ CodeBook[out] = input
    <3>1. CodeWord(out) = [k \in Offsets |-> CodeWord(out)[k]]
      BY DEF CodeWord
    <3> QED BY <2>1, <2>2, <2>3, <3>1 DEF CodeBook
  <2>5. OneBitEach(received, input)
    <3> SUFFICES ASSUME NEW k \in Offsets PROVE received[k] + input[k] # 3
      BY DEF OneBitEach
    <3>1. received[k] \in Symbols /\ input[k] \in Symbols
      BY <2>1
    <3>2. CASE k \in Flipped
      BY <3>1, <3>2, FlippedCount DEF Symbols
    <3>3. CASE k \notin Flipped
      BY <3>1, <3>3, FlippedCount, XorFacts
    <3> QED BY <3>2, <3>3
  <2>6. Cardinality(Errors(received, input)) <= max
    BY <2>1, FlippedCount
  <2> QED BY <2>2, <2>4, <2>5, <2>6 DEF Within
<1> QED BY <1>1, <1>2 DEF Nearest, NonePassed

\* The search with growing budgets and flips only where the walk fails returns a message of
\* the code within one wrong bit per symbol of what was received, with the fewest wrong
\* symbols there are; and none is within its reach when it returns an error.  For every code,
\* every word, and every CRC.
THEOREM NearestIsFound == Spec => []Nearest
<1>1. Init => Inv /\ Path /\ NonePassed
  BY InitInv, PathInit, NoneInit
<1>2. Inv /\ Path /\ NonePassed /\ [Next]_vars => (Inv /\ Path /\ NonePassed)'
  BY StepInv, PathStep, NoneStep
<1> QED BY <1>1, <1>2, NearestFound, PTL DEF Spec

-----------------------------------------------------------------------------
(* What is near enough is the only message there. *)

\* With one wrong bit per symbol at most there are as many wrong bits as wrong symbols.
LEMMA BitsAndSymbols ==
    ASSUME NEW w \in [Offsets -> Symbols], NEW v \in [Offsets -> Symbols],
           \A k \in Offsets : w[k] + v[k] # 3
    PROVE  /\ IsFiniteSet(BitErrors(w, v))
           /\ Cardinality(BitErrors(w, v)) \in Nat
           /\ Cardinality(BitErrors(w, v)) <= Cardinality(Errors(w, v))
<1> DEFINE B == BitErrors(w, v)
           E == Errors(w, v)
           f == [e \in B |-> e[1]]
<1>1. \A e \in B : e = <<e[1], e[2]>> /\ e[1] \in Offsets /\ e[2] \in {1, 2}
  BY DEF BitErrors
<1>2. ASSUME NEW e \in B PROVE w[e[1]] # v[e[1]]
  BY DEF BitErrors
<1>3. \A e \in B : e[1] \in E
  BY <1>1, <1>2 DEF Errors
<1>4. ASSUME NEW d \in B, NEW e \in B, d[1] = e[1] PROVE d = e
  <2>1. /\ (w[d[1]] \div d[2]) % 2 # (v[d[1]] \div d[2]) % 2
        /\ (w[d[1]] \div e[2]) % 2 # (v[d[1]] \div e[2]) % 2
    BY <1>4 DEF BitErrors
  <2>2. w[d[1]] \in 0 .. 3 /\ v[d[1]] \in 0 .. 3 /\ w[d[1]] + v[d[1]] # 3
    BY <1>1 DEF Symbols
  <2>3. d[2] = e[2]
    BY <1>1, <2>1, <2>2
  <2> QED BY <1>1, <1>4, <2>3
<1>5. f \in Injection(B, E)
  <2>1. f \in [B -> E] /\ \A d, e \in B : f[d] = f[e] => d = e
    BY <1>3, <1>4
  <2> HIDE DEF f, B, E
  <2> QED BY <2>1, Fun_IsInj
<1>6. IsFiniteSet(E) /\ Cardinality(E) \in Nat
  BY ErrorsFinite
<1>7. IsFiniteSet(B) /\ Cardinality(B) <= Cardinality(E)
  <2> HIDE DEF f, B, E
  <2> QED BY <1>5, <1>6, FS_Injection DEF ExistsInjection
<1> QED BY <1>7, FS_CardinalityType

\* Two code words near what was received are near each other.
LEMMA NearEachOther ==
    ASSUME TypeOK, NEW Few \in Nat, NEW l \in Within(Few), NEW m \in Within(Few)
    PROVE  Cardinality(BitErrors(CodeWord(l), CodeWord(m))) <= 2 * Few
<1> DEFINE c == CodeWord(l)
           d == CodeWord(m)
<1>1. /\ received \in [Offsets -> Symbols]
      /\ c \in [Offsets -> Symbols] /\ \A k \in Offsets : received[k] + c[k] # 3
      /\ d \in [Offsets -> Symbols] /\ \A k \in Offsets : received[k] + d[k] # 3
      /\ Cardinality(Errors(received, c)) <= Few /\ Cardinality(Errors(received, d)) <= Few
  BY WithinFacts DEF TypeOK
<1> HIDE DEF c, d
<1>2. /\ IsFiniteSet(BitErrors(received, c)) /\ IsFiniteSet(BitErrors(received, d))
      /\ Cardinality(BitErrors(received, c)) \in Nat
      /\ Cardinality(BitErrors(received, d)) \in Nat
      /\ Cardinality(BitErrors(received, c)) <= Cardinality(Errors(received, c))
      /\ Cardinality(BitErrors(received, d)) <= Cardinality(Errors(received, d))
  BY <1>1, BitsAndSymbols
<1>3. BitErrors(c, d) \subseteq BitErrors(received, c) \cup BitErrors(received, d)
  BY DEF BitErrors
<1>4. LET U == BitErrors(received, c) \cup BitErrors(received, d)
      IN  /\ IsFiniteSet(U) /\ Cardinality(U) \in Nat
          /\ Cardinality(U) <= Cardinality(BitErrors(received, c))
                                + Cardinality(BitErrors(received, d))
  <2>1. IsFiniteSet(BitErrors(received, c) \cap BitErrors(received, d))
    BY <1>2, FS_Subset
  <2>2. Cardinality(BitErrors(received, c) \cap BitErrors(received, d)) \in Nat
    BY <2>1, FS_CardinalityType
  <2>3. /\ IsFiniteSet(BitErrors(received, c) \cup BitErrors(received, d))
        /\ Cardinality(BitErrors(received, c) \cup BitErrors(received, d))
            = Cardinality(BitErrors(received, c)) + Cardinality(BitErrors(received, d))
              - Cardinality(BitErrors(received, c) \cap BitErrors(received, d))
    BY <1>2, FS_Union
  <2>4. Cardinality(BitErrors(received, c) \cup BitErrors(received, d)) \in Nat
    BY <2>3, FS_CardinalityType
  <2> QED BY <1>2, <2>2, <2>3, <2>4
<1>5. /\ Cardinality(BitErrors(c, d)) \in Nat
      /\ Cardinality(BitErrors(c, d))
          <= Cardinality(BitErrors(received, c) \cup BitErrors(received, d))
  BY <1>3, <1>4, FS_Subset, FS_CardinalityType
<1>6. Cardinality(Errors(received, c)) \in Nat /\ Cardinality(Errors(received, d)) \in Nat
  BY ErrorsFinite
<1> QED BY <1>1, <1>2, <1>4, <1>5, <1>6 DEF c, d

\* A wider reach has all that is in a narrower one.
LEMMA WithinGrows ==
    ASSUME NEW a \in Nat, NEW b \in Nat, a <= b
    PROVE  Within(a) \subseteq Within(b)
<1> SUFFICES ASSUME NEW m \in Within(a) PROVE m \in Within(b)
  OBVIOUS
<1>1. Cardinality(Errors(received, CodeBook[m])) \in Nat
  BY ErrorsFinite
<1> QED BY <1>1 DEF Within

\* Whatever the searches come to, a message this near is what is returned.
LEMMA FewCorrected ==
    ASSUME NEW Few \in Nat, Few < MaxEc, FarApart(Few), TypeOK, Nearest
    PROVE  CorrectsFew(Few)
<1> SUFFICES ASSUME phase \in {"ok", "err"}, NEW m \in Within(Few) PROVE phase = "ok" /\ out = m
  BY DEF CorrectsFew
<1>1. MaxEc \in Nat \ {0} /\ max \in 0 .. (MaxEc - 1)
  BY ConvoAssumption DEF TypeOK
<1>2. phase = "ok"
  <2> SUFFICES ASSUME phase = "err" PROVE FALSE
    OBVIOUS
  <2>1. MaxEc - 1 \in Nat /\ Few <= MaxEc - 1
    BY <1>1
  <2> QED BY <2>1, WithinGrows DEF Nearest
<1>3. max <= Few
  <2> SUFFICES ASSUME Few <= max - 1 PROVE FALSE
    BY <1>1
  <2>1. max - 1 \in Nat
    BY <1>1
  <2> QED BY <1>2, <2>1, WithinGrows DEF Nearest
<1>4. out \in Within(Few)
  BY <1>1, <1>2, <1>3, WithinGrows DEF Nearest
<1>5. ASSUME out # m PROVE FALSE
  <2>1. out \in Accepted /\ m \in Accepted
    BY <1>4 DEF Within
  <2>2. Cardinality(BitErrors(CodeWord(out), CodeWord(m))) > 2 * Few
    BY <1>5, <2>1 DEF FarApart, CodeBook
  <2>3. Cardinality(BitErrors(CodeWord(out), CodeWord(m))) \in Nat
    <3>1. IsFiniteSet(Offsets \X {1, 2})
      <4>1. IsFiniteSet(Offsets)
        BY ConvoAssumption, FS_Interval DEF Offsets
      <4>2. IsFiniteSet({1, 2})
        <5>1. IsFiniteSet({1}) /\ {1, 2} = {1} \cup {2}
          BY FS_Singleton
        <5> QED BY <5>1, FS_AddElement
      <4> QED BY <4>1, <4>2, FS_Product
    <3>2. BitErrors(CodeWord(out), CodeWord(m)) \subseteq Offsets \X {1, 2}
      BY DEF BitErrors
    <3> QED BY <3>1, <3>2, FS_Subset, FS_CardinalityType
  <2> QED BY <1>4, <2>2, <2>3, NearEachOther
<1> QED BY <1>2, <1>5

\* With code words more than twice that many bits apart, up to Few errors, one per symbol at
\* most, are put right, in any code of either decoder: the first message the search comes to
\* is the one sent, although it stops there and has never seen the others.
THEOREM FewErrorsCorrected ==
    ASSUME NEW Few \in Nat, Few < MaxEc, FarApart(Few)
    PROVE  Spec => []CorrectsFew(Few)
<1>1. TypeOK /\ Nearest => CorrectsFew(Few)
  BY FewCorrected
<1> QED BY <1>1, NearestIsFound, SearchTypeCorrect, PTL

\* Three errors in a word of deconvo26, whose code words are eight bits apart.
THEOREM ThreeErrorsCorrected == Spec => []CorrectsThree
<1>1. TypeOK /\ Nearest => CorrectsThree
  BY FreeDistance, FewCorrected DEF CorrectsThree
<1> QED BY <1>1, NearestIsFound, SearchTypeCorrect, PTL
=============================================================================
