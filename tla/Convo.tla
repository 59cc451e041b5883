------------------------------- MODULE Convo --------------------------------
(***************************************************************************)
(* The convolutional decoders (src/convo.rs): deconvo26 and deconvo29 look *)
(* for the message whose code word is nearest to what was received, by     *)
(* walking the code's trellis and flipping a symbol in place wherever the  *)
(* walk does not fit.  They try every way with 0 flips, then with 1, and   *)
(* so on.                                                                  *)
(*                                                                         *)
(* The recursion is a stack: a call of deconvo26_sub behind a flip is an   *)
(* entry of `flips', `count' is the height of the stack, and the walk      *)
(* resumes behind the flip.  The two decoders differ in the constants and  *)
(* in that only deconvo26 looks at a CRC, which is the set Valid here.     *)
(***************************************************************************)
EXTENDS Integers, Sequences, FiniteSets

CONSTANTS
    Length,     \* len, symbols in a word
    States,     \* 32 or 256, states of the encoder
    Table,      \* CONVO_TABLE_26 or _29: the symbol a state sends for a 0
    MaxEc,      \* MAX_EC_26 or _29, 5 or 8
    Valid,      \* the messages with a right CRC; all of them for deconvo29
    Words       \* the received words considered

Offsets == 0 .. (Length - 1)
Bits == {0, 1}
Symbols == 0 .. 3
Messages == [Offsets -> Bits]

ASSUME ConvoAssumption ==
    /\ Length \in Nat /\ States \in Nat \ {0} /\ MaxEc \in Nat \ {0}
    /\ Table \in [0 .. (States - 1) -> Symbols]
    /\ Valid \subseteq Messages
    /\ Words \subseteq [Offsets -> Symbols]

VARIABLES
    received,   \* the word as the caller passed it
    input,      \* the same buffer, with the flips of the search
    out,        \* the bits of the walk
    max,        \* how many flips this search may use
    i, state,   \* where the walk is
    flips,      \* one entry per call behind a flip: where, from which state, which flip
    phase       \* walking, returning a failure, or how the decoder has returned

vars == <<received, input, out, max, i, state, flips, phase>>

Phases == {"walk", "fail", "ok", "err"}
Calls == [at : Offsets, from : 0 .. (States - 1), try : {1, 2}]

TypeOK ==
    /\ received \in [Offsets -> Symbols] /\ input \in [Offsets -> Symbols]
    /\ out \in Messages
    /\ max \in 0 .. (MaxEc - 1)
    /\ i \in 0 .. Length /\ state \in 0 .. (States - 1)
    /\ flips \in Seq(Calls) /\ Len(flips) <= max
    /\ phase \in Phases

Init ==
    /\ received \in Words
    /\ input = received
    /\ out = [k \in Offsets |-> 0]
    /\ max = 0
    /\ i = 0 /\ state = 0
    /\ flips = <<>>
    /\ phase = "walk"

-----------------------------------------------------------------------------
(***************************************************************************)
(* The trellis.                                                            *)
(***************************************************************************)

NextState(s, b) == (2 * s + b) % States

\* What a state sends for a bit: the two symbols are each other's complement.
Sends(s, b) == IF b = 0 THEN Table[s] ELSE 3 - Table[s]

\* The bit a symbol stands for in a state; a symbol one bit off both stands for none.
Fits(s, v, b) == v = Sends(s, b)

Mismatch == i < Length /\ \A b \in Bits : ~Fits(state, input[i], b)

\* A symbol with one of its bits, or both, inverted: v ^ n.
Xor(v, n) == CASE n = 1 -> IF v % 2 = 0 THEN v + 1 ELSE v - 1
               [] n = 2 -> (v + 2) % 4
               [] n = 3 -> 3 - v

Flip(k, n) == input' = [input EXCEPT ![k] = Xor(@, n)]

Top == flips[Len(flips)]
Lower == SubSeq(flips, 1, Len(flips) - 1)

-----------------------------------------------------------------------------
(***************************************************************************)
(* Steps of the search.                                                    *)
(***************************************************************************)

Advance(b) ==
    /\ phase = "walk" /\ i < Length
    /\ Fits(state, input[i], b)
    /\ out' = [out EXCEPT ![i] = b]
    /\ state' = NextState(state, b)
    /\ i' = i + 1
    /\ UNCHANGED <<received, input, max, flips, phase>>

Accepts == state = 0 /\ out \in Valid

Accept ==
    /\ phase = "walk" /\ i = Length /\ Accepts
    /\ phase' = "ok"
    /\ UNCHANGED <<received, input, out, max, i, state, flips>>

\* The walk ends where the search does not want it, or has no flip left.
Reject ==
    /\ phase = "walk"
    /\ (i = Length /\ ~Accepts) \/ (Mismatch /\ Len(flips) = max)
    /\ phase' = "fail"
    /\ UNCHANGED <<received, input, out, max, i, state, flips>>

\* Defective variant: one flip more than the search may use.
FirstFlipExtra ==
    /\ phase = "walk" /\ Mismatch /\ Len(flips) <= max
    /\ Flip(i, 1)
    /\ flips' = Append(flips, [at |-> i, from |-> state, try |-> 1])
    /\ UNCHANGED <<received, out, max, i, state, phase>>

FirstFlip ==
    /\ phase = "walk" /\ Mismatch /\ Len(flips) < max
    /\ Flip(i, 1)
    /\ flips' = Append(flips, [at |-> i, from |-> state, try |-> 1])
    /\ UNCHANGED <<received, out, max, i, state, phase>>

\* Defective variant: the walk resumes in the state it failed in.
SecondFlipStale ==
    /\ phase = "fail" /\ flips # <<>> /\ Top.try = 1
    /\ Flip(Top.at, 3)
    /\ flips' = Append(Lower, [Top EXCEPT !.try = 2])
    /\ i' = Top.at
    /\ phase' = "walk"
    /\ UNCHANGED <<received, out, max, state>>

\* Defective variant: the call does not remember that it has come to its second flip.
SecondFlipAgain ==
    /\ phase = "fail" /\ flips # <<>> /\ Top.try = 1
    /\ Flip(Top.at, 3)
    /\ i' = Top.at /\ state' = Top.from
    /\ phase' = "walk"
    /\ UNCHANGED <<received, out, max, flips>>

\* The call behind the first flip has failed: the other bit is tried instead.
SecondFlip ==
    /\ phase = "fail" /\ flips # <<>> /\ Top.try = 1
    /\ Flip(Top.at, 3)
    /\ flips' = Append(Lower, [Top EXCEPT !.try = 2])
    /\ i' = Top.at /\ state' = Top.from
    /\ phase' = "walk"
    /\ UNCHANGED <<received, out, max>>

\* Defective variant: the flip undone is the first one, not the second.
GiveUpSwapped ==
    /\ phase = "fail" /\ flips # <<>> /\ Top.try = 2
    /\ Flip(Top.at, 1)
    /\ flips' = Lower
    /\ UNCHANGED <<received, out, max, i, state, phase>>

\* So has the one behind the second: the symbol is put back and the caller fails too.
GiveUp ==
    /\ phase = "fail" /\ flips # <<>> /\ Top.try = 2
    /\ Flip(Top.at, 2)
    /\ flips' = Lower
    /\ UNCHANGED <<received, out, max, i, state, phase>>

\* Defective variant: the search goes on from where the last one ended.
NextBudgetStale ==
    /\ phase = "fail" /\ flips = <<>> /\ max + 1 < MaxEc
    /\ max' = max + 1
    /\ phase' = "walk"
    /\ UNCHANGED <<received, input, out, i, state, flips>>

NextBudget ==
    /\ phase = "fail" /\ flips = <<>> /\ max + 1 < MaxEc
    /\ max' = max + 1
    /\ i' = 0 /\ state' = 0
    /\ phase' = "walk"
    /\ UNCHANGED <<received, input, out, flips>>

NotFound ==
    /\ phase = "fail" /\ flips = <<>> /\ max + 1 = MaxEc
    /\ phase' = "err"
    /\ UNCHANGED <<received, input, out, max, i, state, flips>>

Returned == phase \in {"ok", "err"} /\ UNCHANGED vars

Next ==
    \/ \E b \in Bits : Advance(b)
    \/ Accept
    \/ Reject
    \/ FirstFlip
    \/ SecondFlip
    \/ GiveUp
    \/ NextBudget
    \/ NotFound
    \/ Returned

Spec == Init /\ [][Next]_vars

\* The search is sequential code: it does not stop between two steps.
FairSpec == Spec /\ WF_vars(Next)

-----------------------------------------------------------------------------
(***************************************************************************)
(* Properties.                                                             *)
(***************************************************************************)

\* The states an encoder goes through for a message, and the word it sends.
StatesOf(m) ==
    LET s[k \in 0 .. Length] == IF k = 0 THEN 0 ELSE NextState(s[k - 1], m[k - 1])
    IN  s

CodeWord(m) == [k \in Offsets |-> Sends(StatesOf(m)[k], m[k])]

\* The messages that bring the encoder back to state 0 and have a right CRC.
Accepted == {m \in Valid : StatesOf(m)[Length] = 0}
CodeBook == [m \in Accepted |-> CodeWord(m)]

Errors(w, v) == {k \in Offsets : w[k] # v[k]}
OneBitEach(w, v) == \A k \in Offsets : w[k] + v[k] # 3

\* The messages within reach: one wrong bit per symbol at most, and not too many.
Within(n) == {m \in Accepted : /\ OneBitEach(received, CodeBook[m])
                               /\ Cardinality(Errors(received, CodeBook[m])) <= n}

\* The search leaves its input as it found it: the flips of the calls still open are the
\* only ones, so each search, and the caller after a failure, has the word as received.
OnlyOpenFlips ==
    \A k \in Offsets :
        \/ input[k] = received[k] /\ \A n \in DOMAIN flips : flips[n].at # k
        \/ \E n \in DOMAIN flips :
            flips[n].at = k /\ input[k] = Xor(received[k], flips[n].try)

\* What is returned is the message whose code word the search has made of its input.  The
\* walk only ever flips a symbol it has just failed on, yet no message with fewer
\* corrections than the one returned is missed, and none at all when it reports an error.
Nearest ==
    /\ phase = "ok" => Within(max - 1) = {} /\ out \in Within(max) /\ input = CodeBook[out]
    /\ phase = "err" => Within(MaxEc - 1) = {}

\* The bits two words differ in, and a code whose words differ in more than twice Few.
BitErrors(w, v) ==
    {b \in Offsets \X {1, 2} : (w[b[1]] \div b[2]) % 2 # (v[b[1]] \div b[2]) % 2}
FarApart(Few) ==
    \A l, m \in Accepted : l # m => Cardinality(BitErrors(CodeBook[l], CodeBook[m])) > 2 * Few

\* Up to Few errors, one per symbol, are put right: nothing else is as near.
CorrectsFew(Few) ==
    phase \in {"ok", "err"} => \A m \in Within(Few) : phase = "ok" /\ out = m

\* Every search ends.
Terminates == <>(phase \in {"ok", "err"})
=============================================================================
