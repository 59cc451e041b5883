----------------------------- MODULE FrameChannel -----------------------------
(***************************************************************************)
(* What the pipe between slicer and decoder promises, with no bytes and no *)
(* partial reads: the decoder gets the frames the slicer sends, whole, in  *)
(* order and numbered from 0.  Only a frame the slicer was stopped in the  *)
(* middle of can be missing from the end of an input decoded to its end.   *)
(***************************************************************************)
EXTENDS Integers, Sequences

CONSTANT Frames

VARIABLES
    sent,       \* the frames the slicer has produced
    sending,    \* it may produce more
    cut,        \* its last frame was not sent to the end
    got,        \* the frames the decoder has processed, with their numbers
    receiver    \* running, ended at the end of the input, or failed

vars == <<sent, sending, cut, got, receiver>>

Init ==
    /\ sent = <<>> /\ sending = TRUE /\ cut = FALSE
    /\ got = <<>> /\ receiver = "running"

Send(f) ==
    /\ sending
    /\ sent' = Append(sent, f)
    /\ UNCHANGED <<sending, cut, got, receiver>>

\* The slicer ends, or is stopped with the last frame not processed yet and perhaps cut.
Stop(c) ==
    /\ sending
    /\ c => Len(got) < Len(sent)
    /\ sending' = FALSE /\ cut' = c
    /\ UNCHANGED <<sent, got, receiver>>

Whole == IF cut THEN Len(sent) - 1 ELSE Len(sent)

Receive ==
    /\ receiver = "running"
    /\ Len(got) < Whole
    /\ got' = Append(got, [num |-> Len(got), frame |-> sent[Len(got) + 1]])
    /\ UNCHANGED <<sent, sending, cut, receiver>>

\* The end of the input: nothing whole is left.
End ==
    /\ receiver = "running"
    /\ ~sending /\ Len(got) = Whole
    /\ receiver' = "eof"
    /\ UNCHANGED <<sent, sending, cut, got>>

Fail ==
    /\ receiver = "running"
    /\ receiver' = "failed"
    /\ UNCHANGED <<sent, sending, cut, got>>

Next ==
    \/ \E f \in Frames : Send(f)
    \/ \E c \in BOOLEAN : Stop(c)
    \/ Receive \/ End \/ Fail

Spec == Init /\ [][Next]_vars
=============================================================================
