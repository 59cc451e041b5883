---------------------------- MODULE SlicerProofs ----------------------------
(***************************************************************************)
(* Theorems about the slicer, for frames, drifts, buffers and streams of   *)
(* every size: what the window holds, and that the slicer implements       *)
(* FrameSequence.                                                          *)
(***************************************************************************)
EXTENDS Slicer, SequenceTheorems, TLAPS

-----------------------------------------------------------------------------
(* Arithmetic of whole bytes. *)

\* A multiple of n is n times something.
LEMMA Quotient ==
    ASSUME NEW n \in Nat \ {0}, NEW a \in Nat, a % n = 0
    PROVE  \E q \in Nat : a = n * q
<1>1. a = n * (a \div n) + (a % n)
  BY SMTT(30)
<1>2. a \div n \in Nat
  BY SMTT(30)
<1> QED BY <1>1, <1>2

\* The other way round.
LEMMA Multiple ==
    ASSUME NEW n \in Nat \ {0}, NEW q \in Nat
    PROVE  (n * q) % n = 0
  BY SMTT(30)

\* Whole bytes add up to whole bytes.
LEMMA WholeBytesAdd ==
    ASSUME NEW n \in Nat \ {0}, NEW a \in Nat, NEW b \in Nat, a % n = 0, b % n = 0
    PROVE  (a + b) % n = 0
<1>1. PICK p \in Nat : a = n * p
  BY Quotient
<1>2. PICK q \in Nat : b = n * q
  BY Quotient
<1>3. a + b = n * (p + q)
  BY <1>1, <1>2, SMTT(30)
<1>4. (n * (p + q)) % n = 0
  <2>1. p + q \in Nat
    OBVIOUS
  <2> QED BY <2>1, Multiple
<1> QED BY <1>3, <1>4

\* Between two different multiples of n there is room for n.
LEMMA WholeByteFits ==
    ASSUME NEW n \in Nat \ {0}, NEW a \in Nat, NEW b \in Nat,
           a % n = 0, b % n = 0, a < b
    PROVE  a + n <= b
<1>1. PICK p \in Nat : a = n * p
  BY Quotient
<1>2. PICK q \in Nat : b = n * q
  BY Quotient
<1>3. p < q
  BY <1>1, <1>2, SMTT(30)
<1>4. n * (p + 1) <= n * q
  BY <1>3, SMTT(30)
<1>5. n * (p + 1) = n * p + n
  BY SMTT(30)
<1> QED BY <1>1, <1>2, <1>4, <1>5

-----------------------------------------------------------------------------
(* The inductive invariant. *)

\* The valid part of the buffer mirrors the input: cell k holds the symbol k places behind
\* what is covered.
Mirror ==
    /\ valid <= taken
    /\ \A k \in Cells : k < valid => rbuf[k] = Covered + k

\* The end of the input is reported only when all of it has been read, in whole bytes.
ReadAll ==
    /\ taken % SymPerByte = 0
    /\ eof => taken = stream.len

Inv == TypeOK /\ Mirror /\ ReadAll

\* The sizes, without their names.
LEMMA Sizes ==
    /\ FrameSymbols \in Nat /\ Fluct \in Nat /\ SyncOffset \in Nat
    /\ SymPerByte \in Nat \ {0} /\ MaxErrors \in Nat
    /\ 0 < Fluct /\ SyncOffset + Fluct < FrameSymbols /\ Step = FrameSymbols - Fluct
    /\ SymPerByte <= FrameSymbols
<1>1. FrameSymbols \in Nat /\ SymPerByte \in Nat \ {0} /\ FrameSymbols % SymPerByte = 0
  BY SizesAssumption
<1>2. 0 < FrameSymbols /\ 0 % SymPerByte = 0
  BY SizesAssumption, SMTT(30)
<1>3. 0 + SymPerByte <= FrameSymbols
  BY <1>1, <1>2, WholeByteFits
<1> QED BY <1>3, SizesAssumption DEF Step

\* The placeholder is a frame.
LEMMA PlaceholderType == NO_SIGNAL_FRAME \in Frames
  BY DEF NO_SIGNAL_FRAME, Frames, Symbols, Zero

\* The search never leaves the buffer, and where it looks for a sync word is valid.
LEMMA ProbedInside ==
    ASSUME TypeOK, NEW ret \in Probed
    PROVE  /\ ret \in Nat /\ FrameSymbols <= valid
           /\ ret + FrameSymbols <= valid \/ ret = Fluct
           /\ SyncOffset + ret \in Cells /\ SyncOffset + ret < valid
           /\ ret + Step <= valid
  BY Sizes DEF TypeOK, Probed, Cells

\* A frame cut there is a frame.
LEMMA FrameAtType ==
    ASSUME TypeOK, NEW ret \in Probed
    PROVE  FrameAt(ret) \in Frames
<1>1. ASSUME NEW k \in Offsets PROVE ret + k \in Cells
  BY ProbedInside, Sizes DEF TypeOK, Probed, Cells, Offsets
<1> QED BY <1>1 DEF FrameAt, Frames, TypeOK

\* Dropping symbols leaves a buffer.
LEMMA DropType ==
    ASSUME TypeOK, NEW n \in Nat, n <= valid, Drop(n)
    PROVE  rbuf' \in [Cells -> Symbols] /\ valid' \in 0 .. 3 * FrameSymbols
<1>1. valid \in 0 .. 3 * FrameSymbols /\ rbuf \in [Cells -> Symbols]
  BY DEF TypeOK
<1>2. valid' \in 0 .. 3 * FrameSymbols
  BY <1>1, Sizes DEF Drop
<1>3. ASSUME NEW k \in Cells, k < valid - n PROVE k + n \in Cells
  BY <1>1, <1>3, Sizes DEF Cells
<1> QED BY <1>1, <1>2, <1>3 DEF Drop

\* ... and what stays valid still mirrors the input.
LEMMA DropMirror ==
    ASSUME TypeOK, Mirror, NEW n \in Nat, n <= valid, Drop(n), taken' = taken
    PROVE  Mirror' /\ Covered' = Covered + n
<1>1. /\ valid \in 0 .. 3 * FrameSymbols /\ taken \in Nat /\ valid' = valid - n
      /\ stream \in Streams /\ stream.len \in Nat
  BY StreamsAssumption, Sizes DEF TypeOK, Drop
<1>2. Covered' = Covered + n
  BY <1>1 DEF Covered
<1>3. ASSUME NEW k \in Cells, k < valid' PROVE rbuf'[k] = Covered' + k
  <2>1. k + n \in Cells /\ k + n < valid /\ k < valid - n
    BY <1>1, <1>3, Sizes DEF Cells
  <2>2. rbuf'[k] = rbuf[k + n]
    BY <2>1 DEF Drop
  <2>3. rbuf[k + n] = Covered + (k + n)
    BY <2>1 DEF Mirror
  <2> QED BY <1>1, <1>2, <2>2, <2>3 DEF Covered, Cells
<1> QED BY <1>1, <1>2, <1>3 DEF Mirror

-----------------------------------------------------------------------------
(* Type correctness. *)

\* Slicer::new establishes the invariant: nothing taken, nothing valid, no frame out.
LEMMA InitInv == Init => Inv
<1> SUFFICES ASSUME Init PROVE Inv
  OBVIOUS
<1>1. stream.len \in Nat
  BY StreamsAssumption DEF Init
<1>2. 0 % SymPerByte = 0
  BY SizesAssumption, SMTT(30)
<1>3. TypeOK
  <2>1. rbuf \in [Cells -> Symbols]
    BY DEF Init, Symbols, Zero
  <2>2. pending \in Seq(Frames) /\ Len(pending) <= 1 /\ out \in Seq(Frames)
    BY EmptySeq DEF Init
  <2>3. valid \in 0 .. 3 * FrameSymbols /\ errors \in 0 .. MaxErrors /\ taken \in 0 .. stream.len
    BY <1>1, Sizes DEF Init
  <2> QED BY <2>1, <2>2, <2>3 DEF Init, TypeOK
<1>4. Mirror
  BY DEF Init, Mirror, Cells
<1> QED BY <1>2, <1>3, <1>4 DEF Init, ReadAll, Inv

\* Every step of next_frame keeps the invariant, one case per action.
LEMMA StepInv == Inv /\ [NextFrame]_vars => Inv'
<1> SUFFICES ASSUME Inv, [NextFrame]_vars PROVE Inv'
  OBVIOUS
<1> USE DEF Inv
<1>0. /\ stream \in Streams /\ stream.len \in Nat /\ stream.len % SymPerByte = 0
      /\ taken \in Nat /\ taken <= stream.len /\ valid \in 0 .. 3 * FrameSymbols
  BY StreamsAssumption DEF TypeOK
<1>1. CASE TakePending
  BY <1>1 DEF TakePending, TypeOK, Mirror, Covered, ReadAll
<1>2. ASSUME NEW n \in 1 .. FrameSymbols, ReadMore(n) PROVE Inv'
  <2>1. /\ n % SymPerByte = 0 /\ taken' = taken + n /\ taken' <= stream.len
        /\ valid' = valid + n /\ stream' = stream /\ eof' = eof /\ ~eof
        /\ valid <= 2 * FrameSymbols /\ n \in Nat
    BY <1>2, Sizes DEF ReadMore, Readable, Filling
  <2>2. valid' \in 0 .. 3 * FrameSymbols /\ taken' \in 0 .. stream.len
    BY <1>0, <2>1, Sizes
  <2>3. ASSUME NEW k \in Cells
        PROVE /\ rbuf'[k] = IF valid <= k /\ k < valid + n THEN taken + (k - valid) ELSE rbuf[k]
              /\ rbuf'[k] \in Symbols
    BY <1>2, <1>0 DEF ReadMore, TypeOK, Symbols, Cells
  <2>4. rbuf' \in [Cells -> Symbols]
    BY <1>2, <2>3 DEF ReadMore
  <2>5. TypeOK'
    BY <1>2, <2>1, <2>2, <2>4 DEF ReadMore, TypeOK
  <2>6. Covered' = Covered
    BY <1>0, <2>1 DEF Covered
  <2>7. ASSUME NEW k \in Cells, k < valid' PROVE rbuf'[k] = Covered' + k
    <3>1. CASE k < valid
      BY <1>0, <2>3, <2>6, <3>1 DEF Mirror, Cells
    <3>2. CASE valid <= k
      BY <1>0, <2>1, <2>3, <2>6, <2>7, <3>2, Sizes DEF Covered, Cells
    <3> QED BY <1>0, <3>1, <3>2, Sizes DEF Cells
  <2>8. Mirror'
    BY <1>0, <2>1, <2>7 DEF Mirror
  <2>9. ReadAll'
    BY <1>0, <2>1, WholeBytesAdd, Sizes DEF ReadAll
  <2> QED BY <2>5, <2>8, <2>9
<1>3. CASE ReadEof
  <2>1. /\ taken' = taken /\ valid' = valid /\ stream' = stream /\ rbuf' = rbuf
        /\ Readable = {}
    BY <1>3 DEF ReadEof
  <2>2. taken = stream.len
    <3> SUFFICES ASSUME taken < stream.len PROVE FALSE
      BY <1>0
    <3>1. taken + SymPerByte <= stream.len
      BY <1>0, WholeByteFits, Sizes DEF ReadAll
    <3>2. SymPerByte % SymPerByte = 0
      BY Sizes, SMTT(30)
    <3>3. SymPerByte \in Readable
      BY <3>1, <3>2, Sizes DEF Readable
    <3> QED BY <2>1, <3>3
  <2> QED BY <1>3, <2>1, <2>2 DEF ReadEof, TypeOK, Mirror, Covered, ReadAll
<1>4. CASE ReadError
  BY <1>4, Sizes DEF ReadError, TypeOK, Mirror, Covered, ReadAll
<1>5. CASE SlideForward
  <2>1. Step \in Nat /\ Step <= valid /\ Drop(Step) /\ taken' = taken
    BY <1>0, <1>5, Sizes DEF SlideForward, Scanning
  <2>2. Mirror'
    BY <2>1, DropMirror
  <2>3. rbuf' \in [Cells -> Symbols] /\ valid' \in 0 .. 3 * FrameSymbols
    BY <2>1, DropType
  <2> QED BY <1>5, <2>2, <2>3 DEF SlideForward, TypeOK, ReadAll
<1>6. ASSUME NEW ret \in Probed, ConsumeWithNoSignal(ret) PROVE Inv'
  <2>1. /\ ret + Step \in Nat /\ ret + Step <= valid /\ Drop(ret + Step) /\ taken' = taken
    BY <1>0, <1>6, ProbedInside, Sizes DEF ConsumeWithNoSignal
  <2>2. Mirror'
    BY <2>1, DropMirror
  <2>3. rbuf' \in [Cells -> Symbols] /\ valid' \in 0 .. 3 * FrameSymbols
    BY <2>1, DropType
  <2>4. FrameAt(ret) \in Frames /\ NO_SIGNAL_FRAME \in Frames
    BY FrameAtType, PlaceholderType
  <2>5. /\ out' = Append(out, NO_SIGNAL_FRAME) \/ out' = Append(out, FrameAt(ret))
        /\ pending' = <<FrameAt(ret)>> \/ pending' = pending
    BY <1>6 DEF ConsumeWithNoSignal
  <2>6. Append(out, NO_SIGNAL_FRAME) \in Seq(Frames) /\ Append(out, FrameAt(ret)) \in Seq(Frames)
    BY <2>4, AppendProperties DEF TypeOK
  <2>7. <<FrameAt(ret)>> \in Seq(Frames) /\ Len(<<FrameAt(ret)>>) = 1
    BY <2>4
  <2>8. /\ out' \in Seq(Frames)
        /\ pending' \in Seq(Frames) /\ Len(pending') <= 1
    <3>1. out' \in Seq(Frames)
      BY <2>5, <2>6
    <3>2. CASE pending' = <<FrameAt(ret)>>
      BY <3>1, <3>2, <2>7
    <3>3. CASE pending' = pending
      BY <3>1, <3>3 DEF TypeOK
    <3> QED BY <2>5, <3>2, <3>3
  <2> QED BY <1>6, <2>2, <2>3, <2>8 DEF ConsumeWithNoSignal, TypeOK, ReadAll
<1>7. ASSUME NEW ret \in Probed, DrainConsume(ret) PROVE Inv'
  <2>1. /\ ret + Step \in Nat /\ ret + Step <= valid /\ Drop(ret + Step) /\ taken' = taken
    BY <1>0, <1>7, ProbedInside, Sizes DEF DrainConsume
  <2>2. Mirror'
    BY <2>1, DropMirror
  <2>3. rbuf' \in [Cells -> Symbols] /\ valid' \in 0 .. 3 * FrameSymbols
    BY <2>1, DropType
  <2>4. out' \in Seq(Frames)
    BY <1>7, FrameAtType DEF DrainConsume, TypeOK
  <2> QED BY <1>7, <2>2, <2>3, <2>4 DEF DrainConsume, TypeOK, ReadAll
<1>8. CASE DrainFinish
  BY <1>8, PlaceholderType DEF DrainFinish, TypeOK, Mirror, Covered, ReadAll
<1>9. CASE ReturnNone
  BY <1>9 DEF ReturnNone, vars, TypeOK, Mirror, Covered, ReadAll
<1>10. CASE UNCHANGED vars
  BY <1>10 DEF vars, TypeOK, Mirror, Covered, ReadAll
<1> QED BY <1>1, <1>2, <1>3, <1>4, <1>5, <1>6, <1>7, <1>8, <1>9, <1>10 DEF NextFrame

\* The buffer's valid part is the input read and not yet covered, in every reachable state.
THEOREM BufferMirrorsInput == Spec => []Inv
  BY InitInv, StepInv, PTL DEF Spec

\* The slicer's state stays within its types: the window never holds more than its three
\* frames, so read_more never writes past its end, and no frame overtakes another in the
\* one place to hold it.
THEOREM TypeCorrect == Spec => []TypeOK
  BY BufferMirrorsInput, PTL DEF Inv

-----------------------------------------------------------------------------
(***************************************************************************)
(* The slicer implements FrameSequence.  The argument: the valid part of   *)
(* the window mirrors the input, so the search sees exactly the sync words *)
(* of the input that begin there (SearchSeesInput); hence sliding forward  *)
(* skips no sync word, a frame is cut at the first one but for the drift,  *)
(* and the drain leaves none that still fits.  Reads, failures and the     *)
(* release of the held back frame change nothing the caller can tell.      *)
(***************************************************************************)

(* What the search finds. *)

\* A probed offset matches when the input has a sync word there.
LEMMA SearchSeesInput ==
    ASSUME TypeOK, Mirror, NEW ret \in Probed
    PROVE  Match(ret) <=> Covered + ret \in stream.syncs
<1>1. /\ SyncOffset + ret \in Cells /\ SyncOffset + ret < valid /\ ret \in Nat
  BY ProbedInside
<1>2. rbuf[SyncOffset + ret] = Covered + (SyncOffset + ret)
  BY <1>1 DEF Mirror
<1>3. Covered \in Int
  BY StreamsAssumption DEF TypeOK, Covered
<1>4. Covered + (SyncOffset + ret) - SyncOffset = Covered + ret
  BY <1>1, <1>3, Sizes
<1>5. rbuf[SyncOffset + ret] - SyncOffset = Covered + ret
  BY <1>1, <1>2, <1>3, Sizes
<1> QED BY <1>5 DEF Match

\* Every offset below a whole valid frame is probed.
LEMMA ProbesAll ==
    ASSUME TypeOK, FrameSymbols <= valid, NEW j \in Nat, j + FrameSymbols <= valid
    PROVE  j \in Probed
  BY Sizes DEF TypeOK, Probed

\* The frame cut at ret starts at the input position ret places behind what is covered.
LEMMA FrameStart ==
    ASSUME TypeOK, Mirror, NEW ret \in Probed
    PROVE  /\ Start(FrameAt(ret)) = Covered + ret
           /\ IsReal(FrameAt(ret))
<1>1. ret \in Nat /\ ret \in Cells /\ ret < valid
  BY ProbedInside, Sizes DEF Cells, TypeOK
<1>2. rbuf[ret] = Covered + ret
  BY <1>1 DEF Mirror
<1>3. 0 \in Offsets /\ ret + 0 = ret
  BY <1>1, Sizes DEF Offsets
<1>4. FrameAt(ret)[0] = Covered + ret
  BY <1>2, <1>3 DEF FrameAt
<1>5. Covered \in Nat
  BY StreamsAssumption DEF TypeOK, Mirror, Covered
<1> QED BY <1>1, <1>4, <1>5 DEF Start, IsReal, Zero

-----------------------------------------------------------------------------
(* Frames and the positions they start at. *)

Starts(s) == [i \in DOMAIN s |-> Start(s[i])]

\* One position to a frame.
LEMMA StartsType ==
    ASSUME NEW s \in Seq(Frames)
    PROVE  /\ Starts(s) \in Seq(Int) /\ Len(Starts(s)) = Len(s)
           /\ \A i \in 1 .. Len(s) : Starts(s)[i] = Start(s[i])
<1>1. DOMAIN s = 1 .. Len(s) /\ Len(s) \in Nat /\ \A i \in 1 .. Len(s) : s[i] \in Frames
  BY LenProperties, ElementOfSeq
<1>2. \A i \in 1 .. Len(s) : Start(s[i]) \in Int
  BY <1>1, Sizes DEF Start, Frames, Offsets, Symbols
<1>3. Starts(s) = [i \in 1 .. Len(s) |-> Start(s[i])]
  BY <1>1 DEF Starts
<1> QED BY <1>1, <1>2, <1>3

\* The positions of a sequence that is one frame longer.
LEMMA StartsAppend ==
    ASSUME NEW s \in Seq(Frames), NEW f \in Frames
    PROVE  Starts(Append(s, f)) = Append(Starts(s), Start(f))
<1>1. Start(f) \in Int
  BY Sizes DEF Start, Frames, Offsets, Symbols
<1>2. /\ Append(s, f) \in Seq(Frames) /\ Len(Append(s, f)) = Len(s) + 1 /\ Len(s) \in Nat
      /\ \A i \in 1 .. Len(s) : Append(s, f)[i] = s[i]
      /\ Append(s, f)[Len(s) + 1] = f
  BY AppendProperties, LenProperties
<1>3. /\ Append(Starts(s), Start(f)) \in Seq(Int)
      /\ Len(Append(Starts(s), Start(f))) = Len(s) + 1
      /\ \A i \in 1 .. Len(s) : Append(Starts(s), Start(f))[i] = Starts(s)[i]
      /\ Append(Starts(s), Start(f))[Len(s) + 1] = Start(f)
  BY <1>1, StartsType, AppendProperties
<1>4. /\ Starts(Append(s, f)) \in Seq(Int) /\ Len(Starts(Append(s, f))) = Len(s) + 1
      /\ \A i \in 1 .. (Len(s) + 1) : Starts(Append(s, f))[i] = Start(Append(s, f)[i])
  BY <1>2, StartsType
<1>5. \A i \in 1 .. (Len(s) + 1) : Starts(Append(s, f))[i] = Append(Starts(s), Start(f))[i]
  BY <1>2, <1>3, <1>4, StartsType
<1> QED BY <1>3, <1>4, <1>5, SeqEqual

-----------------------------------------------------------------------------
(* The steps. *)

\* While there is no held back frame the slots are the returned frames.
LEMMA NothingPending ==
    ASSUME TypeOK, pending = <<>>
    PROVE  Slots = out
  BY ConcatEmptySeq DEF TypeOK, Slots

\* A placeholder starts where nothing does.
LEMMA PlaceholderStart == Start(NO_SIGNAL_FRAME) = Abstract!NoSignal
  BY Sizes DEF Start, NO_SIGNAL_FRAME, Offsets, Zero, Abstract!NoSignal

\* No sync word lies before the place the search stops at, but for the drift.
LEMMA NothingBefore ==
    ASSUME TypeOK, Mirror, NEW ret \in Probed, Found(ret),
           NEW p \in stream.syncs, Covered <= p
    PROVE  Covered + ret - Fluct <= p
<1>1. /\ Covered \in Nat /\ p \in Nat /\ ret \in Nat /\ Fluct \in Nat
  BY StreamsAssumption, ProbedInside, Sizes DEF TypeOK, Mirror, Covered
<1>2. CASE ret = Fluct
  BY <1>1, <1>2
<1>3. CASE ret # Fluct
  <2> SUFFICES ASSUME p < Covered + ret - Fluct PROVE FALSE
    BY <1>1
  <2> DEFINE j == p - Covered
  <2>1. j \in Nat /\ j < ret /\ Covered + j = p
    BY <1>1
  <2>2. FrameSymbols <= valid /\ j + FrameSymbols <= valid
    BY <1>1, <1>3, <2>1, ProbedInside, Sizes DEF TypeOK
  <2>3. j \in Probed
    BY <2>1, <2>2, ProbesAll
  <2>4. j \in Hits
    BY <2>1, <2>3, SearchSeesInput DEF Hits
  <2> QED BY <1>1, <1>3, <2>1, <2>4 DEF Found
<1> QED BY <1>2, <1>3

\* Two at once, or one after the other.
LEMMA TwoAppends ==
    ASSUME NEW s \in Seq(Int), NEW a \in Int, NEW b \in Int
    PROVE  Append(Append(s, a), b) = s \o <<a, b>>
  OBVIOUS

\* A frame cut by the search is one the abstract specification may deliver.
LEMMA Delivers ==
    ASSUME TypeOK, Mirror, pending = <<>>, ~done, NEW ret \in Probed, Found(ret),
           Drop(ret + Step), taken' = taken, stream' = stream, done' = done,
           \/ Slots' = Append(out, FrameAt(ret))
           \/ /\ ret > Step
              /\ Slots' = Append(Append(out, NO_SIGNAL_FRAME), FrameAt(ret))
    PROVE  Abstract!Next
<1> DEFINE q == Covered + ret
<1>1. /\ ret + Step \in Nat /\ ret + Step <= valid /\ ret \in Nat /\ Step \in Nat
      /\ Covered \in Nat
  BY ProbedInside, StreamsAssumption, Sizes DEF TypeOK, Mirror, Covered
<1>2. Covered' = q + Step
  BY <1>1, DropMirror
<1>3. q \in stream.syncs
  BY SearchSeesInput DEF Found, Hits
<1>4. \A p \in stream.syncs : ~(Covered <= p /\ p < q - Fluct)
  <2> SUFFICES ASSUME NEW p \in stream.syncs, Covered <= p, p < q - Fluct PROVE FALSE
    OBVIOUS
  <2>1. p \in Nat
    BY StreamsAssumption DEF TypeOK
  <2>2. Covered + ret - Fluct <= p
    BY NothingBefore
  <2> QED BY <1>1, <2>1, <2>2, Sizes
<1>5. /\ out \in Seq(Frames) /\ FrameAt(ret) \in Frames /\ NO_SIGNAL_FRAME \in Frames
      /\ Append(out, NO_SIGNAL_FRAME) \in Seq(Frames)
      /\ Start(FrameAt(ret)) = q
      /\ Starts(Slots) = Starts(out) /\ Starts(out) \in Seq(Int) /\ q \in Int
  BY <1>1, FrameAtType, PlaceholderType, AppendProperties, FrameStart, NothingPending, StartsType
     DEF TypeOK
<1> DEFINE slots == [i \in DOMAIN Slots |-> Start(Slots[i])]
<1>8. slots = Starts(Slots) /\ slots' = Starts(Slots')
  BY DEF Starts
<1>9. /\ Abstract!Step = Step /\ stream' = stream /\ done' = done /\ ~done
      /\ Covered <= q
  BY <1>1 DEF Abstract!Step, Step
<1> HIDE DEF slots, q
<1>10. CASE Slots' = Append(out, FrameAt(ret))
  <2>1. Starts(Slots') = Append(Starts(Slots), q)
    BY <1>5, <1>10, StartsAppend
  <2>2. Abstract!Deliver(q)
    BY <1>2, <1>4, <1>8, <1>9, <2>1 DEF Abstract!Deliver, slots
  <2> QED BY <1>3, <2>2 DEF Abstract!Next
<1>7. CASE ret > Step /\ Slots' = Append(Append(out, NO_SIGNAL_FRAME), FrameAt(ret))
  <2>1. Starts(Slots') = Append(Append(Starts(Slots), Abstract!NoSignal), q)
    BY <1>5, <1>7, StartsAppend, PlaceholderStart
  <2>2. Starts(Slots') = Starts(Slots) \o <<Abstract!NoSignal, q>>
    BY <1>5, <2>1, TwoAppends DEF Abstract!NoSignal
  <2>3. q > Covered + Step
    BY <1>1, <1>7 DEF q
  <2>4. Abstract!Deliver(q)
    BY <1>2, <1>4, <1>8, <1>9, <2>2, <2>3 DEF Abstract!Deliver, slots
  <2> QED BY <1>3, <2>4 DEF Abstract!Next
<1> QED BY <1>10, <1>7

-----------------------------------------------------------------------------
(* The theorem. *)

\* What the caller can tell does not change.
LEMMA Invisible ==
    ASSUME stream' = stream, Covered' = Covered, Slots' = Slots, done' = done
    PROVE  UNCHANGED Abstract!vars
  BY DEF Abstract!vars

\* A new slicer is a frame sequence that has covered nothing.
LEMMA InitRefines == Init => Abstract!Init
<1> SUFFICES ASSUME Init PROVE Abstract!Init
  OBVIOUS
<1>1. Slots = <<>> /\ Covered = 0
  BY DEF Init, Slots, Covered
<1>2. [i \in DOMAIN Slots |-> Start(Slots[i])] = <<>>
  BY <1>1
<1> QED BY <1>1, <1>2 DEF Init, Abstract!Init

\* Every step of next_frame is a step of the frame sequence or leaves it alone.
LEMMA StepRefines == Inv /\ [NextFrame]_vars => [Abstract!Next]_(Abstract!vars)
<1> SUFFICES ASSUME Inv, [NextFrame]_vars
             PROVE  Abstract!Next \/ UNCHANGED Abstract!vars
  OBVIOUS
<1>0. /\ TypeOK /\ Mirror /\ ReadAll
      /\ stream \in Streams /\ stream.len \in Nat /\ stream.syncs \subseteq Nat
      /\ taken \in Nat /\ valid \in 0 .. 3 * FrameSymbols /\ Covered \in Nat
      /\ out \in Seq(Frames)
  BY StreamsAssumption DEF Inv, TypeOK, Mirror, Covered
<1>1. CASE TakePending
  <2>1. out \o pending \in Seq(Frames)
    BY <1>0, ConcatProperties DEF TypeOK
  <2>2. (out \o pending) \o <<>> = out \o pending
    BY <2>1, ConcatEmptySeq
  <2>3. Slots' = Slots
    BY <1>1, <2>2 DEF TakePending, Slots
  <2> QED BY <1>1, <2>3, Invisible DEF TakePending, Covered
<1>2. ASSUME NEW n \in 1 .. FrameSymbols, ReadMore(n)
      PROVE  UNCHANGED Abstract!vars
  <2>1. Covered' = Covered
    BY <1>0, <1>2, Sizes DEF ReadMore, Covered
  <2> QED BY <1>2, <2>1, Invisible DEF ReadMore, Slots
<1>3. CASE ReadEof
  BY <1>3, Invisible DEF ReadEof, Covered, Slots
<1>4. CASE ReadError
  BY <1>4, Invisible DEF ReadError, Covered, Slots
<1>5. CASE SlideForward
  <2>1. /\ Step \in Nat /\ Step <= valid /\ Drop(Step) /\ taken' = taken /\ ~done /\ NotFound
        /\ 2 * FrameSymbols < valid
    BY <1>0, <1>5, Sizes DEF SlideForward, Scanning, Searching
  <2>2. Covered' = Covered + Step
    BY <1>0, <2>1, DropMirror
  <2>3. \A p \in stream.syncs : ~(Covered <= p /\ p < Covered + Step)
    <3> SUFFICES ASSUME NEW p \in stream.syncs, Covered <= p, p < Covered + Step PROVE FALSE
      OBVIOUS
    <3> DEFINE j == p - Covered
    <3>1. /\ j \in Nat /\ Covered + j = p /\ j + FrameSymbols <= valid
          /\ FrameSymbols <= valid
      BY <1>0, <2>1, Sizes
    <3>2. j \in Probed
      BY <1>0, <3>1, ProbesAll
    <3>3. j \in Hits
      BY <1>0, <3>1, <3>2, SearchSeesInput DEF Hits
    <3> QED BY <2>1, <3>3 DEF NotFound
  <2>4. [i \in DOMAIN Slots |-> Start(Slots[i])]' = [i \in DOMAIN Slots |-> Start(Slots[i])]
    BY <1>5 DEF SlideForward, Slots
  <2>5. Abstract!Skip(Abstract!Step)
    BY <1>5, <2>1, <2>2, <2>3, <2>4 DEF SlideForward, Abstract!Skip, Abstract!Step, Step
  <2> QED BY <2>5 DEF Abstract!Next
<1>6. ASSUME NEW ret \in Probed, ConsumeWithNoSignal(ret)
      PROVE  Abstract!Next
  <2>1. /\ pending = <<>> /\ ~done /\ Found(ret) /\ Drop(ret + Step)
        /\ taken' = taken /\ stream' = stream /\ done' = done
    BY <1>6 DEF ConsumeWithNoSignal, Scanning, Searching
  <2>2. FrameAt(ret) \in Frames /\ NO_SIGNAL_FRAME \in Frames
    BY <1>0, FrameAtType, PlaceholderType
  <2>3. CASE ret > Step
    <3>1. out' = Append(out, NO_SIGNAL_FRAME) /\ pending' = <<FrameAt(ret)>>
      BY <1>6, <2>3 DEF ConsumeWithNoSignal
    <3>2. Slots' = Append(out, NO_SIGNAL_FRAME) \o <<FrameAt(ret)>>
      BY <3>1 DEF Slots
    <3>3. Append(out, NO_SIGNAL_FRAME) \in Seq(Frames)
      BY <1>0, <2>2, AppendProperties
    <3>4. Slots' = Append(Append(out, NO_SIGNAL_FRAME), FrameAt(ret))
      BY <2>2, <3>2, <3>3, AppendIsConcat
    <3> QED BY <1>0, <2>1, <2>3, <3>4, Delivers
  <2>4. CASE ~(ret > Step)
    <3>1. out' = Append(out, FrameAt(ret)) /\ pending' = <<>>
      BY <1>6, <2>1, <2>4 DEF ConsumeWithNoSignal
    <3>2. Append(out, FrameAt(ret)) \in Seq(Frames)
      BY <1>0, <2>2, AppendProperties
    <3>3. Slots' = Append(out, FrameAt(ret))
      BY <3>1, <3>2, ConcatEmptySeq DEF Slots
    <3> QED BY <1>0, <2>1, <3>3, Delivers
  <2> QED BY <2>3, <2>4
<1>7. ASSUME NEW ret \in Probed, DrainConsume(ret)
      PROVE  Abstract!Next
  <2>1. /\ pending = <<>> /\ ~done /\ Found(ret) /\ Drop(ret + Step)
        /\ taken' = taken /\ stream' = stream /\ done' = done
    BY <1>7 DEF DrainConsume, Draining, Searching
  <2>2. out' = Append(out, FrameAt(ret)) /\ pending' = <<>>
    BY <1>7, <2>1 DEF DrainConsume
  <2>3. Append(out, FrameAt(ret)) \in Seq(Frames)
    BY <1>0, FrameAtType, AppendProperties
  <2>4. Slots' = Append(out, FrameAt(ret))
    BY <2>2, <2>3, ConcatEmptySeq DEF Slots
  <2> QED BY <1>0, <2>1, <2>4, Delivers
<1>8. CASE DrainFinish
  <2>1. /\ pending = <<>> /\ ~done /\ eof /\ NotFound /\ done' /\ stream' = stream
        /\ Covered' = Covered
        /\ out' = out \/ out' = Append(out, NO_SIGNAL_FRAME)
        /\ pending' = <<>>
    BY <1>8 DEF DrainFinish, Draining, Searching, Covered
  <2>2. \A p \in stream.syncs : ~(Covered <= p /\ p + FrameSymbols <= stream.len)
    <3> SUFFICES ASSUME NEW p \in stream.syncs, Covered <= p, p + FrameSymbols <= stream.len
                 PROVE  FALSE
      OBVIOUS
    <3> DEFINE j == p - Covered
    <3>1. taken = stream.len
      BY <1>0, <2>1 DEF ReadAll
    <3>2. /\ j \in Nat /\ Covered + j = p /\ j + FrameSymbols <= valid
          /\ FrameSymbols <= valid
      <4>1. p \in Nat /\ valid \in Nat /\ FrameSymbols \in Nat
        BY <1>0, Sizes
      <4>2. j \in Nat /\ Covered + j = p
        BY <1>0, <4>1
      <4>3. p + FrameSymbols <= taken /\ taken = Covered + valid
        BY <1>0, <3>1, <4>1 DEF Covered
      <4> QED BY <1>0, <4>1, <4>2, <4>3
    <3>3. j \in Probed
      BY <1>0, <3>2, ProbesAll
    <3>4. j \in Hits
      BY <1>0, <3>2, <3>3, SearchSeesInput DEF Hits
    <3> QED BY <2>1, <3>4 DEF NotFound
  <2>3. Starts(Slots') \in {Starts(Slots), Append(Starts(Slots), Abstract!NoSignal)}
    <3>1. Slots = out
      BY <1>0, <2>1, NothingPending
    <3>2. CASE out' = out
      <4>1. Slots' = out
        BY <1>0, <2>1, <3>2, ConcatEmptySeq DEF Slots
      <4> QED BY <3>1, <4>1
    <3>3. CASE out' = Append(out, NO_SIGNAL_FRAME)
      <4>1. Append(out, NO_SIGNAL_FRAME) \in Seq(Frames)
        BY <1>0, PlaceholderType, AppendProperties
      <4>2. Slots' = Append(out, NO_SIGNAL_FRAME)
        BY <2>1, <3>3, <4>1, ConcatEmptySeq DEF Slots
      <4> QED BY <1>0, <3>1, <4>2, StartsAppend, PlaceholderType, PlaceholderStart
    <3> QED BY <2>1, <3>2, <3>3
  <2>4. /\ [i \in DOMAIN Slots |-> Start(Slots[i])] = Starts(Slots)
        /\ [i \in DOMAIN Slots |-> Start(Slots[i])]' = Starts(Slots')
    BY DEF Starts
  <2>5. Abstract!Finish
    BY <2>1, <2>2, <2>3, <2>4 DEF Abstract!Finish
  <2> QED BY <2>5 DEF Abstract!Next
<1>9. CASE ReturnNone
  BY <1>9, Invisible DEF ReturnNone, vars, Covered, Slots
<1>10. CASE UNCHANGED vars
  BY <1>10, Invisible DEF vars, Covered, Slots
<1> QED BY <1>1, <1>2, <1>3, <1>4, <1>5, <1>6, <1>7, <1>8, <1>9, <1>10 DEF NextFrame

\* The slicer implements FrameSequence, whatever the sizes and whatever the reads deliver:
\* next_frame never passes over a sync word by more than the drift without cutting a frame
\* there, a placeholder always stands before a frame more than a slot away or at the end,
\* and None comes only when no whole frame is left.
THEOREM SlicerImplementsFrameSequence == Spec => ImplementsFrameSequence
  BY BufferMirrorsInput, InitRefines, StepRefines, PTL DEF Spec, ImplementsFrameSequence, Abstract!Spec
=============================================================================
