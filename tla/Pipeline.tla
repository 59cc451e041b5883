------------------------------ MODULE Pipeline -------------------------------
(***************************************************************************)
(* The two programs on the pipe between them: main of t61_frame_slicer and *)
(* main of t61_fd_decoder (src/bin/).  The slicer's frames come from       *)
(* src/slicer.rs and are handed on with write_all; the decoder fills its   *)
(* one buffer with read_full, counts, and calls process_frame.             *)
(*                                                                         *)
(* A byte is the frame it was sent in and its place there, so that what    *)
(* the buffer holds says where it came from.  Of a frame's contents there  *)
(* are the byte process_frame takes for a placeholder's and the sync word. *)
(* Between the programs there may be more than one pipe (tee, a socket):   *)
(* a write or a read may stop at any byte.                                 *)
(***************************************************************************)
EXTENDS SyncWords

CONSTANTS
    FrameBytes,     \* 48
    HeaderByte,     \* 17, inside the header
    SyncByte,       \* 0x17, which is SYNC_WORD_OFFSET in bytes
    PipeBytes,      \* what the pipe holds
    MaxFrames,      \* bound on the frames the slicer finds
    Windows         \* windows on the air

ASSUME PipelineAssumption ==
    /\ FrameBytes \in Nat /\ HeaderByte \in Nat /\ SyncByte \in Nat
    /\ HeaderByte < SyncByte /\ SyncByte + 4 <= FrameBytes
    /\ PipeBytes \in Nat \ {0} /\ MaxFrames \in Nat
    /\ \A w \in Windows : IsWindow(w)

VARIABLES
    slicer,     \* pulling the next frame, writing it, or gone
    sent,       \* the frames pulled
    out,        \* how much of the last one is written
    pipe,
    decoder,    \* running, at the end of its input, or failed
    frame,      \* its buffer, over which read_full goes again and again
    filled,     \* how much of it is read
    frame_num,
    records     \* what process_frame was called with, and the type it found

vars == <<slicer, sent, out, pipe, decoder, frame, filled, frame_num, records>>

Offsets == 0 .. (FrameBytes - 1)

\* A frame: its byte 17, zero or not, and the 16 symbols from byte 0x17 on, where the sync
\* word ends up that next_frame found.
FrameCut(w, header) == [header |-> header, sync |-> Patched(w, MatchWindow(w))]
NoSignalFrame == [header |-> 0, sync |-> [i \in 1 .. WindowSymbols |-> 0]]

Found == {w \in Windows : MatchWindow(w) # "none"}
Frames == {FrameCut(w, header) : w \in Found, header \in {0, 1}} \cup {NoSignalFrame}

Blank == [of |-> 0, at |-> 0]

Init ==
    /\ slicer = "pulling" /\ sent = <<>> /\ out = FrameBytes
    /\ pipe = <<>>
    /\ decoder = "running" /\ frame = [j \in Offsets |-> Blank] /\ filled = 0
    /\ frame_num = 0 /\ records = <<>>

-----------------------------------------------------------------------------
(***************************************************************************)
(* The slicer.                                                             *)
(***************************************************************************)

Pulled(f) ==
    /\ slicer = "pulling" /\ Len(sent) < MaxFrames
    /\ sent' = Append(sent, f)
    /\ out' = 0 /\ slicer' = "writing"
    /\ UNCHANGED <<pipe, decoder, frame, filled, frame_num, records>>

\* next_frame finds a sync word.
PullFrame(w, header) == Pulled(FrameCut(w, header))

PullNoSignal == Pulled(NoSignalFrame)

\* The input is at its end, or does not go on: the loop is over.
InputOver ==
    /\ slicer = "pulling"
    /\ slicer' = "gone"
    /\ UNCHANGED <<sent, out, pipe, decoder, frame, filled, frame_num, records>>

\* Defective variant: write in place of write_all.
WriteSomeOnce(n) ==
    /\ slicer = "writing" /\ decoder = "running"
    /\ n \in 1 .. (FrameBytes - out) /\ Len(pipe) + n <= PipeBytes
    /\ pipe' = pipe \o [i \in 1 .. n |-> [of |-> Len(sent), at |-> out + i - 1]]
    /\ out' = FrameBytes
    /\ slicer' = "pulling"
    /\ UNCHANGED <<sent, decoder, frame, filled, frame_num, records>>

\* One write of write_all's: the rest of the frame, or as much of it as there is room for.
WriteSome(n) ==
    /\ slicer = "writing" /\ decoder = "running"
    /\ n \in 1 .. (FrameBytes - out) /\ Len(pipe) + n <= PipeBytes
    /\ pipe' = pipe \o [i \in 1 .. n |-> [of |-> Len(sent), at |-> out + i - 1]]
    /\ out' = out + n
    /\ slicer' = IF out + n = FrameBytes THEN "pulling" ELSE "writing"
    /\ UNCHANGED <<sent, decoder, frame, filled, frame_num, records>>

\* Defective variant: a write that fails is left at that.
WriteFailsSilently ==
    /\ slicer = "writing" /\ decoder # "running"
    /\ slicer' = "pulling"
    /\ UNCHANGED <<sent, out, pipe, decoder, frame, filled, frame_num, records>>

\* Nobody reads any more.
WriteFails ==
    /\ slicer = "writing" /\ decoder # "running"
    /\ slicer' = "gone"
    /\ UNCHANGED <<sent, out, pipe, decoder, frame, filled, frame_num, records>>

\* The operator stops the slicer, at whatever byte it is.
Killed ==
    /\ slicer = "writing"
    /\ slicer' = "gone"
    /\ UNCHANGED <<sent, out, pipe, decoder, frame, filled, frame_num, records>>

-----------------------------------------------------------------------------
(***************************************************************************)
(* The decoder.                                                            *)
(***************************************************************************)

\* Defective variant: every read goes to the front of the buffer.
ReadSomeInFront(n) ==
    /\ decoder = "running" /\ n \in 1 .. (FrameBytes - filled) /\ n <= Len(pipe)
    /\ frame' = [j \in Offsets |-> IF j < n THEN pipe[j + 1] ELSE frame[j]]
    /\ filled' = filled + n
    /\ pipe' = SubSeq(pipe, n + 1, Len(pipe))
    /\ UNCHANGED <<slicer, sent, out, decoder, frame_num, records>>

\* Defective variant: every read asks for a whole frame.
ReadSomeWhole(n) ==
    /\ decoder = "running" /\ filled < FrameBytes /\ n \in 1 .. FrameBytes /\ n <= Len(pipe)
    /\ frame' = [j \in Offsets |-> IF j \in filled .. (filled + n - 1) THEN pipe[j - filled + 1] ELSE frame[j]]
    /\ filled' = filled + n
    /\ pipe' = SubSeq(pipe, n + 1, Len(pipe))
    /\ UNCHANGED <<slicer, sent, out, decoder, frame_num, records>>

\* One read of read_full's, which returns what it likes.
ReadSome(n) ==
    /\ decoder = "running" /\ n \in 1 .. (FrameBytes - filled) /\ n <= Len(pipe)
    /\ frame' = [j \in Offsets |-> IF j \in filled .. (filled + n - 1) THEN pipe[j - filled + 1] ELSE frame[j]]
    /\ filled' = filled + n
    /\ pipe' = SubSeq(pipe, n + 1, Len(pipe))
    /\ UNCHANGED <<slicer, sent, out, decoder, frame_num, records>>

\* Defective variant: a frame that is not there at once is the end.
ReadEofShort ==
    /\ decoder = "running" /\ filled < FrameBytes
    /\ pipe = <<>> /\ (slicer = "gone" \/ filled > 0)
    /\ decoder' = "eof"
    /\ UNCHANGED <<slicer, sent, out, pipe, frame, filled, frame_num, records>>

\* A read of nothing: what there is of a frame is dropped.
ReadEof ==
    /\ decoder = "running" /\ filled < FrameBytes
    /\ pipe = <<>> /\ slicer = "gone"
    /\ decoder' = "eof"
    /\ UNCHANGED <<slicer, sent, out, pipe, frame, filled, frame_num, records>>

\* What the bytes of the buffer hold.  A byte that is neither of byte 17 nor of the sync
\* word has contents that are not modelled: nobody reads them while frames are aligned.
Symbol(buf, i) ==
    LET b == buf[SyncByte + ((i - 1) \div 4)]
    IN  IF b.at - SyncByte \in 0 .. 3 THEN sent[b.of].sync[4 * (b.at - SyncByte) + ((i - 1) % 4) + 1] ELSE 0
Sync(buf) == [i \in 1 .. WindowSymbols |-> Symbol(buf, i)]
Header(buf) == IF buf[HeaderByte].at = HeaderByte THEN sent[buf[HeaderByte].of].header ELSE 1

Type(buf) == IF Header(buf) = 0 THEN "no_signal" ELSE SyncType(Sync(buf))

\* Defective variant: a frame is processed when the next one begins to come in.
ProcessFrameLate ==
    /\ decoder = "running" /\ filled = FrameBytes
    /\ pipe # <<>> \/ slicer = "gone"
    /\ records' = Append(records, [num |-> frame_num, frame |-> frame, type |-> Type(frame)])
    /\ frame_num' = frame_num + 1
    /\ filled' = 0
    /\ UNCHANGED <<slicer, sent, out, pipe, decoder, frame>>

ProcessFrame ==
    /\ decoder = "running" /\ filled = FrameBytes
    /\ records' = Append(records, [num |-> frame_num, frame |-> frame, type |-> Type(frame)])
    /\ frame_num' = frame_num + 1
    /\ filled' = 0
    /\ UNCHANGED <<slicer, sent, out, pipe, decoder, frame>>

\* A read fails, or process_frame does: with its output closed, or on a frame it cannot take.
DecoderFails ==
    /\ decoder = "running"
    /\ decoder' = "failed"
    /\ UNCHANGED <<slicer, sent, out, pipe, frame, filled, frame_num, records>>

Write == WriteFails \/ \E n \in 1 .. FrameBytes : WriteSome(n)
Decode == ReadEof \/ ProcessFrame \/ \E n \in 1 .. FrameBytes : ReadSome(n)

\* Both are gone, or the decoder is and the slicer waits for an input that does not come.
Over == decoder # "running" /\ slicer # "writing" /\ UNCHANGED vars

Next ==
    \/ \E w \in Found, header \in {0, 1} : PullFrame(w, header)
    \/ PullNoSignal \/ InputOver \/ Killed \/ DecoderFails
    \/ Write \/ Decode \/ Over

Spec == Init /\ [][Next]_vars

\* A radio that is silent owes the slicer nothing, so pulling is not fair.
FairSpec == Spec /\ WF_vars(Write) /\ WF_vars(Decode)

-----------------------------------------------------------------------------
(***************************************************************************)
(* Properties.                                                             *)
(***************************************************************************)

ByteIds == [of : 0 .. MaxFrames, at : Offsets]

TypeOK ==
    /\ slicer \in {"pulling", "writing", "gone"}
    /\ sent \in Seq(Frames) /\ out \in 0 .. FrameBytes
    /\ pipe \in Seq(ByteIds) /\ Len(pipe) <= PipeBytes
    /\ decoder \in {"running", "eof", "failed"}
    /\ frame \in [Offsets -> ByteIds] /\ filled \in 0 .. FrameBytes
    /\ frame_num \in Nat
    /\ records \in Seq([num : Nat, frame : [Offsets -> ByteIds],
                        type : {"S6", "S2", "SS1", "no_signal", "unknown_sync"}])

\* Whatever the reads and the writes return and whenever the slicer is stopped: the k-th
\* call of process_frame has the number k - 1 and every byte of the k-th frame, in its place.
FramesAligned ==
    \A k \in DOMAIN records :
        /\ records[k].num = k - 1
        /\ \A j \in Offsets : records[k].frame[j] = [of |-> k, at |-> j]

\* The word the slicer cut a frame at is the one the decoder takes it for, although one
\* counts bits and the other symbols and they try the words in different orders; but for
\* byte 17 of the header, which the decoder asks first.
TypeFor(f) == IF f.header = 0 THEN "no_signal" ELSE MatchWindow(f.sync)
SlicerDecoderAgree == \A k \in DOMAIN records : records[k].type = TypeFor(sent[k])

\* At the end of its input the decoder has processed every frame that was written whole:
\* what it drops is the beginning of one the slicer was stopped in.
Written == IF out = FrameBytes THEN Len(sent) ELSE Len(sent) - 1
CompleteAtEof == decoder = "eof" => slicer = "gone" /\ Len(records) = Written

\* The pipe is a channel of frames.
Contents(r) == [num |-> r.num, frame |-> [header |-> Header(r.frame), sync |-> Sync(r.frame)]]
Channel == INSTANCE FrameChannel WITH
    sending <- slicer # "gone",
    cut <- slicer = "gone" /\ out < FrameBytes,
    got <- [k \in DOMAIN records |-> Contents(records[k])],
    receiver <- decoder
ImplementsFrameChannel == Channel!Spec

\* No buffering: a frame the slicer has found is processed even if no other ever comes.
EveryFrameArrives ==
    \A k \in 1 .. MaxFrames :
        (Len(sent) >= k) ~> \/ Len(records) >= k
                            \/ decoder = "failed"
                            \/ slicer = "gone" /\ Written < k

\* When one program has gone the other follows, the slicer with its next frame.
NobodyIsLeft ==
    /\ (slicer = "gone") ~> (decoder # "running")
    /\ (decoder # "running" /\ slicer = "writing") ~> (slicer = "gone")
=============================================================================
