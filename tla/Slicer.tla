------------------------------- MODULE Slicer -------------------------------
(***************************************************************************)
(* The streaming frame slicer (src/slicer.rs): it turns a stream of 2-bit  *)
(* symbols into 48-byte frames, by looking for a sync word in a sliding    *)
(* buffer of three frames.                                                 *)
(*                                                                         *)
(* A symbol is named by its position in the input stream, so the buffer    *)
(* holds positions and a frame says exactly which input symbols it is made *)
(* of.  Zero stands for a symbol that never came from the input (the       *)
(* buffer's initial fill, the symbols of a placeholder).  What the search  *)
(* can tell of the symbols is which positions carry a recognisable sync    *)
(* word: the set `syncs' of the stream holds the starts of the frames it   *)
(* would cut there.                                                        *)
(***************************************************************************)
EXTENDS Integers, Sequences, FiniteSets

CONSTANTS
    FrameSymbols,       \* FRAME_SYMBOLS, 192
    Fluct,              \* LP_R_FLUCT, 4
    SyncOffset,         \* SYNC_WORD_OFFSET, 92
    SmallestSync,       \* SMALLEST_SYNC_LEN, 10
    SymPerByte,         \* symbols per packed input byte, 4
    ShortReads,         \* whether read() may return less than it was asked for
    MaxErrors,          \* bound: how many reads may fail
    Streams             \* the input streams considered

ASSUME SizesAssumption ==
    /\ FrameSymbols \in Nat /\ Fluct \in Nat /\ SyncOffset \in Nat
    /\ SmallestSync \in Nat \ {0} /\ SymPerByte \in Nat \ {0} /\ MaxErrors \in Nat
    /\ Fluct > 0
    /\ SyncOffset + Fluct < FrameSymbols
    /\ 3 * Fluct <= FrameSymbols
    /\ SmallestSync <= FrameSymbols
    /\ FrameSymbols % SymPerByte = 0
    /\ ShortReads \in BOOLEAN

ASSUME StreamsAssumption ==
    \A s \in Streams : /\ DOMAIN s = {"len", "syncs"}
                       /\ s.len \in Nat /\ s.len % SymPerByte = 0
                       /\ s.syncs \subseteq Nat

Zero == -1
Cells == 0 .. (3 * FrameSymbols - 1)
Offsets == 0 .. (FrameSymbols - 1)
Symbols == Int
Frames == [Offsets -> Symbols]

\* The all-zero placeholder.
NO_SIGNAL_FRAME == [k \in Offsets |-> Zero]

\* What one consumption moves past: the frame, less the drift the next search absorbs.
Step == FrameSymbols - Fluct

VARIABLES
    stream,     \* the input: [len, syncs]
    taken,      \* how many input symbols read() has delivered
    rbuf,       \* the sliding window
    valid,      \* how many of its cells hold input not yet consumed
    pending,    \* <<>>, or <<f>> for a frame held back behind a placeholder
    eof, done,
    out,        \* every frame next_frame has returned
    errors      \* how many reads have failed so far

vars == <<stream, taken, rbuf, valid, pending, eof, done, out, errors>>

TypeOK ==
    /\ stream \in Streams
    /\ taken \in 0 .. stream.len
    /\ rbuf \in [Cells -> Symbols]
    /\ valid \in 0 .. 3 * FrameSymbols
    /\ pending \in Seq(Frames) /\ Len(pending) <= 1
    /\ eof \in BOOLEAN /\ done \in BOOLEAN
    /\ out \in Seq(Frames)
    /\ errors \in 0 .. MaxErrors

Init ==
    /\ stream \in Streams
    /\ taken = 0
    /\ rbuf = [k \in Cells |-> Zero]
    /\ valid = 0
    /\ pending = <<>>
    /\ eof = FALSE /\ done = FALSE
    /\ out = <<>>
    /\ errors = 0

-----------------------------------------------------------------------------
(***************************************************************************)
(* The sync search.                                                        *)
(***************************************************************************)

\* The window at offset i of the buffer is within the error budget of a sync word.
Match(i) == rbuf[SyncOffset + i] - SyncOffset \in stream.syncs

\* Defective variant: the scan stops one position short.
ProbedShort == IF valid < FrameSymbols THEN {}
                                       ELSE {Fluct} \cup 0 .. (valid - FrameSymbols - 1)

\* The offsets the search looks at: every one where a whole frame is valid, and the
\* expected drift, which is probed without regard to `valid'.
Probed == IF valid < FrameSymbols THEN {}
                                  ELSE {Fluct} \cup 0 .. (valid - FrameSymbols)

Hits == {i \in Probed : Match(i)}

\* Defective variant: the last match instead of the first.
FoundLast(ret) == ret \in Hits /\ \A i \in Hits : i <= ret

\* find_sync returns Some(ret): the expected drift if it matches, else the first match.
Found(ret) ==
    /\ ret \in Hits
    /\ ret = Fluct \/ (Fluct \notin Hits /\ \A i \in Hits : ret <= i)

NotFound == Hits = {}

-----------------------------------------------------------------------------
(***************************************************************************)
(* Steps of next_frame.  Each loop iteration is a step, so that a read can *)
(* deliver any amount; the caller calls again as soon as a frame is out.   *)
(***************************************************************************)

\* Defective variant: one symbol less is dropped than consumed.
DropShort(n) ==
    /\ valid' = valid - n + 1
    /\ rbuf' = [k \in Cells |-> IF k <= valid - n THEN rbuf[k + n - 1] ELSE rbuf[k]]

\* Defective variant: one symbol less is copied than stays valid.
DropTorn(n) ==
    /\ valid' = valid - n
    /\ rbuf' = [k \in Cells |-> IF k < valid - n - 1 THEN rbuf[k + n] ELSE rbuf[k]]

\* copy_within(n .. valid, 0): the cells past the copied ones keep what they held.
Drop(n) ==
    /\ valid' = valid - n
    /\ rbuf' = [k \in Cells |-> IF k < valid - n THEN rbuf[k + n] ELSE rbuf[k]]

FrameAt(ret) == [k \in Offsets |-> rbuf[ret + k]]

Searching == pending = <<>> /\ ~done

\* Defective variant: a read is started with less than a frame of room.
FillingLate == Searching /\ ~eof /\ valid <= 2 * FrameSymbols + Fluct

Filling == Searching /\ ~eof /\ valid <= 2 * FrameSymbols
Scanning == Searching /\ ~eof /\ valid > 2 * FrameSymbols
Draining == Searching /\ eof

TakePending ==
    /\ pending # <<>>
    /\ out' = out \o pending
    /\ pending' = <<>>
    /\ UNCHANGED <<stream, taken, rbuf, valid, eof, done, errors>>

\* What one read can deliver, in symbols: whole bytes, at most a frame of them.
Readable == {n \in 1 .. FrameSymbols : n % SymPerByte = 0 /\ taken + n <= stream.len}

ReadMore(n) ==
    /\ Filling
    /\ n \in Readable
    /\ ShortReads \/ \A m \in Readable : m <= n
    /\ rbuf' = [k \in Cells |-> IF valid <= k /\ k < valid + n THEN taken + (k - valid)
                                                               ELSE rbuf[k]]
    /\ valid' = valid + n
    /\ taken' = taken + n
    /\ UNCHANGED <<stream, pending, eof, done, out, errors>>

ReadEof ==
    /\ Filling
    /\ Readable = {}
    /\ eof' = TRUE
    /\ UNCHANGED <<stream, taken, rbuf, valid, pending, done, out, errors>>

\* read() fails: the error goes to the caller before anything changes.
ReadError ==
    /\ Filling
    /\ errors < MaxErrors
    /\ errors' = errors + 1
    /\ UNCHANGED <<stream, taken, rbuf, valid, pending, eof, done, out>>

SlideForward ==
    /\ Scanning
    /\ NotFound
    /\ Drop(Step)
    /\ UNCHANGED <<stream, taken, pending, eof, done, out, errors>>

\* Defective variant: any drift beyond the expected one counts as a lost slot.
ConsumeEager(ret) ==
    /\ Scanning
    /\ Found(ret)
    /\ Drop(ret + Step)
    /\ IF ret > Fluct
       THEN /\ pending' = <<FrameAt(ret)>>
            /\ out' = Append(out, NO_SIGNAL_FRAME)
       ELSE /\ out' = Append(out, FrameAt(ret))
            /\ UNCHANGED pending
    /\ UNCHANGED <<stream, taken, eof, done, errors>>

ConsumeWithNoSignal(ret) ==
    /\ Scanning
    /\ Found(ret)
    /\ Drop(ret + Step)
    /\ IF ret > Step
       THEN /\ pending' = <<FrameAt(ret)>>
            /\ out' = Append(out, NO_SIGNAL_FRAME)
       ELSE /\ out' = Append(out, FrameAt(ret))
            /\ UNCHANGED pending
    /\ UNCHANGED <<stream, taken, eof, done, errors>>

DrainConsume(ret) ==
    /\ Draining
    /\ Found(ret)
    /\ Drop(ret + Step)
    /\ out' = Append(out, FrameAt(ret))
    /\ UNCHANGED <<stream, taken, pending, eof, done, errors>>

\* Defective variant: the drain ends only with less than a frame left.
DrainFinishShort ==
    /\ Draining
    /\ NotFound
    /\ valid < FrameSymbols
    /\ done' = TRUE
    /\ out' = IF valid >= SmallestSync THEN Append(out, NO_SIGNAL_FRAME) ELSE out
    /\ UNCHANGED <<stream, taken, rbuf, valid, pending, eof, errors>>

DrainFinish ==
    /\ Draining
    /\ NotFound
    /\ done' = TRUE
    /\ out' = IF valid >= SmallestSync THEN Append(out, NO_SIGNAL_FRAME) ELSE out
    /\ UNCHANGED <<stream, taken, rbuf, valid, pending, eof, errors>>

\* Every later call returns None.
ReturnNone ==
    /\ pending = <<>> /\ done
    /\ UNCHANGED vars

NextFrame ==
    \/ TakePending
    \/ \E n \in 1 .. FrameSymbols : ReadMore(n)
    \/ ReadEof
    \/ ReadError
    \/ SlideForward
    \/ \E ret \in Probed : ConsumeWithNoSignal(ret)
    \/ \E ret \in Probed : DrainConsume(ret)
    \/ DrainFinish
    \/ ReturnNone

Spec == Init /\ [][NextFrame]_vars

\* The consumer keeps calling and the source keeps answering its reads.
FairSpec == Spec /\ WF_vars(NextFrame)

-----------------------------------------------------------------------------
(***************************************************************************)
(* Properties.                                                             *)
(***************************************************************************)

\* How much of the input the slicer has moved past for good.
Covered == taken - valid

\* The frames in the order the caller gets them, the held back one included.
Slots == out \o pending

IsReal(f) == f[0] # Zero
Start(f) == f[0]

\* A sync word at p is accounted for by a frame cut at q when the two overlap as far as
\* a search tells them apart: less than Fluct before q, or inside what q consumed.
Accounts(q, p) == q - Fluct <= p /\ p < q + Step

AccountedFor(p) ==
    \E i \in DOMAIN Slots : IsReal(Slots[i]) /\ Accounts(Start(Slots[i]), p)

\* No frame is lost: every sync word of the part of the input the slicer has moved past
\* belongs to a frame it returned or holds back, whatever the reads delivered; and at the
\* end so does every frame the input held completely (the interplay of the fast path, the
\* scan limit, slide_forward and the drain phase).
NoFrameLost ==
    \A p \in stream.syncs :
        p < Covered \/ (done /\ p + FrameSymbols <= stream.len) => AccountedFor(p)

\* Frames come out in stream order and overlap by at most the drift: no symbol but those
\* of the absorbed drift is delivered twice, and the held back frame does not overtake.
FramesInOrder ==
    \A i, j \in DOMAIN Slots :
        i < j /\ IsReal(Slots[i]) /\ IsReal(Slots[j])
            => Start(Slots[i]) + Step <= Start(Slots[j])

\* A frame is made of consecutive input symbols starting at a sync match: nothing in it
\* is left over from an earlier frame, except past the end of the input (the drain phase
\* cuts at the expected drift without looking at `valid').
FramesIntact ==
    \A i \in DOMAIN Slots :
        IsReal(Slots[i]) =>
            /\ Start(Slots[i]) \in stream.syncs
            /\ \A k \in Offsets :
                Start(Slots[i]) + k < stream.len => Slots[i][k] = Start(Slots[i]) + k

\* A placeholder stands for a hole: the frame behind it starts more than a slot past the
\* end of what was covered before it.  Only the trailing one has no frame behind it.
PlaceholderFillsHole ==
    \A i \in DOMAIN Slots : ~IsReal(Slots[i]) =>
        \/ i = Len(Slots) /\ done
        \/ /\ i < Len(Slots)
           /\ IsReal(Slots[i + 1])
           /\ Start(Slots[i + 1]) > Step + (IF i = 1 THEN 0 ELSE Start(Slots[i - 1]) + Step)

\* A stream in which every frame carries its sync word, within the drift of the last one.
Synced(s) ==
    /\ s.syncs # {}
    /\ \E p \in s.syncs : p <= Step
    /\ \A p \in s.syncs :
        \/ p > s.len - FrameSymbols - Fluct
        \/ \E q \in s.syncs : q - p \in Step .. FrameSymbols + Fluct
    /\ \A p, q \in s.syncs : p < q => p + Step <= q

\* docs/en/frame-slicer.md:110-112, "once the stream is synced the framing is the same
\* regardless of read granularity", of which slicer.rs:8-16 has only the other half:
\* the frames of a synced stream come out at its sync words, one each and no placeholder
\* between them, and at the end none that fits is missing.
SyncedFraming ==
    Synced(stream) =>
        /\ \A i \in DOMAIN Slots : ~IsReal(Slots[i]) => i = Len(Slots) /\ done
        /\ \A i \in DOMAIN Slots :
            IsReal(Slots[i]) =>
                i = 1 + Cardinality({p \in stream.syncs : p < Start(Slots[i])})
        /\ done => \A p \in stream.syncs :
            p + FrameSymbols <= stream.len =>
                \E i \in DOMAIN Slots : Start(Slots[i]) = p

\* The caller gets to the end of every finite input, past read errors.
Terminates == <>(done /\ pending = <<>>)

\* The slicer implements FrameSequence: reads, the sliding window and the held back frame
\* are invisible in what the caller gets.  A slot is known by where its frame starts.
Abstract == INSTANCE FrameSequence WITH
                covered <- Covered,
                slots <- [i \in DOMAIN Slots |-> Start(Slots[i])],
                over <- done

ImplementsFrameSequence == Abstract!Spec

\* What the documentation promises and the code does not keep.

\* Every lost slot is replaced by a placeholder, so that the frame number of a frame is
\* its slot on the air ("one slot lost = one no_signal, no shift").
OnePlaceholderPerLostSlot ==
    \A i, j \in DOMAIN Slots :
        IsReal(Slots[i]) /\ IsReal(Slots[j]) /\ i < j =>
            (j - i) * FrameSymbols = Start(Slots[j]) - Start(Slots[i])

\* Every frame is a stretch of the input.
FramesFromInput ==
    \A i \in DOMAIN Slots :
        IsReal(Slots[i]) => \A k \in Offsets : Slots[i][k] = Start(Slots[i]) + k
=============================================================================
