---------------------------- MODULE FrameSequence ----------------------------
(***************************************************************************)
(* What the slicer promises its caller, with no buffer, no reads and no    *)
(* held back frame: it moves through the stream from left to right, cuts a *)
(* frame at a sync word, and never passes over a sync word by more than    *)
(* the drift without cutting a frame there.  A placeholder may stand in    *)
(* front of a frame whose distance shows that a slot is missing, and at    *)
(* the end; which holes get one is left open.                              *)
(***************************************************************************)
EXTENDS Integers, Sequences

CONSTANTS FrameSymbols, Fluct, Streams

Step == FrameSymbols - Fluct

\* A slot without a frame; every other slot is the stream position its frame starts at.
NoSignal == -1

VARIABLES
    stream,     \* the input: [len, syncs]
    covered,    \* the part of it that is dealt with
    slots,      \* what the caller got or is about to get
    over        \* nothing follows but what is in slots

vars == <<stream, covered, slots, over>>

Init ==
    /\ stream \in Streams
    /\ covered = 0
    /\ slots = <<>>
    /\ over = FALSE

\* Nothing begins in the next n symbols: a step of the stream goes by in silence.
Skip(n) ==
    /\ ~over
    /\ \A p \in stream.syncs : ~(covered <= p /\ p < covered + n)
    /\ covered' = covered + n
    /\ UNCHANGED <<stream, slots, over>>

\* The next frame starts at q, the first sync word but for the drift.
Deliver(q) ==
    /\ ~over
    /\ covered <= q
    /\ \A p \in stream.syncs : ~(covered <= p /\ p < q - Fluct)
    /\ covered' = q + Step
    /\ \/ slots' = Append(slots, q)
       \/ /\ q > covered + Step
          /\ slots' = slots \o <<NoSignal, q>>
    /\ UNCHANGED <<stream, over>>

Finish ==
    /\ ~over
    /\ \A p \in stream.syncs : ~(covered <= p /\ p + FrameSymbols <= stream.len)
    /\ over' = TRUE
    /\ slots' \in {slots, Append(slots, NoSignal)}
    /\ UNCHANGED <<stream, covered>>

Next ==
    \/ Skip(Step)
    \/ \E q \in stream.syncs : Deliver(q)
    \/ Finish

Spec == Init /\ [][Next]_vars
=============================================================================
