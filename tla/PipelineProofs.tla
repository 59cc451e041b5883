---------------------------- MODULE PipelineProofs ----------------------------
(***************************************************************************)
(* Theorems about the pipe between the programs: for frames of every size, *)
(* pipes of every capacity, windows of every kind, and whatever reads and  *)
(* writes return.                                                          *)
(***************************************************************************)
EXTENDS Pipeline, SequenceTheorems, FiniteSetTheorems, TLAPS

-----------------------------------------------------------------------------
(* Sync words. *)

\* Two wrong places make at least two errors, four at least four.
LEMMA AtLeastOne ==
    ASSUME NEW n \in Nat, NEW S \in SUBSET (1 .. n), NEW a \in S
    PROVE  Cardinality(S) \in Nat /\ Cardinality(S) >= 1
<1>1. IsFiniteSet(1 .. n)
  BY FS_Interval
<1>2. IsFiniteSet(S)
  BY <1>1, FS_Subset
<1>3. Cardinality(S) \in Nat /\ Cardinality({a}) = 1
  BY <1>2, FS_CardinalityType, FS_Singleton
<1>4. {a} \in SUBSET S
  OBVIOUS
<1>5. Cardinality({a}) <= Cardinality(S)
  BY <1>2, <1>4, FS_Subset
<1> QED BY <1>3, <1>5

LEMMA AtLeastFour ==
    ASSUME NEW n \in Nat, NEW S \in SUBSET (1 .. n),
           NEW a \in S, NEW b \in S, NEW c \in S, NEW d \in S,
           a # b, a # c, a # d, b # c, b # d, c # d
    PROVE  Cardinality(S) >= 4
<1>1. IsFiniteSet(1 .. n)
  BY FS_Interval
<1>2. IsFiniteSet(S)
  BY <1>1, FS_Subset
<1>3. IsFiniteSet({a}) /\ Cardinality({a}) = 1
  BY FS_Singleton
<1>4. IsFiniteSet({a} \cup {b}) /\ Cardinality({a} \cup {b}) = 2
  BY <1>3, FS_AddElement
<1>5. IsFiniteSet({a} \cup {b} \cup {c}) /\ Cardinality({a} \cup {b} \cup {c}) = 3
  <2>1. c \notin {a} \cup {b}
    OBVIOUS
  <2> QED BY <1>4, <2>1, FS_AddElement
<1>6. Cardinality({a} \cup {b} \cup {c} \cup {d}) = 4
  <2>1. d \notin {a} \cup {b} \cup {c}
    OBVIOUS
  <2> QED BY <1>5, <2>1, FS_AddElement
<1>7. {a} \cup {b} \cup {c} \cup {d} \in SUBSET S
  OBVIOUS
<1>8. Cardinality({a} \cup {b} \cup {c} \cup {d}) <= Cardinality(S)
  BY <1>2, <1>7, FS_Subset
<1>9. Cardinality(S) \in Nat
  BY <1>2, FS_CardinalityType
<1> QED BY <1>6, <1>8, <1>9

\* A window that holds the word has no errors, counted either way.
LEMMA NoErrors ==
    ASSUME NEW w, NEW word, \A i \in DOMAIN word : w[i] = word[i]
    PROVE  SymbolErrors(w, word) = 0 /\ BitErrors(w, word) = 0
<1>1. {i \in DOMAIN word : w[i] # word[i]} = {}
  OBVIOUS
<1>2. {i \in DOMAIN word : HighBit(w[i]) # HighBit(word[i])} = {}
  OBVIOUS
<1>3. {i \in DOMAIN word : LowBit(w[i]) # LowBit(word[i])} = {}
  OBVIOUS
<1> QED BY <1>1, <1>2, <1>3, FS_EmptySet DEF SymbolErrors, BitErrors

\* A symbol with both bits inverted is more than the slicer takes.
LEMMA BothBits ==
    ASSUME NEW w, NEW word, NEW n \in Nat, DOMAIN word = 1 .. n, NEW i \in 1 .. n,
           HighBit(w[i]) # HighBit(word[i]), LowBit(w[i]) # LowBit(word[i])
    PROVE  ~(BitErrors(w, word) <= ErrorMax)
<1> DEFINE Hi == {j \in DOMAIN word : HighBit(w[j]) # HighBit(word[j])}
           Lo == {j \in DOMAIN word : LowBit(w[j]) # LowBit(word[j])}
<1>1. Hi \in SUBSET (1 .. n) /\ i \in Hi /\ Lo \in SUBSET (1 .. n) /\ i \in Lo
  OBVIOUS
<1>2. Cardinality(Hi) \in Nat /\ Cardinality(Hi) >= 1
  BY <1>1, AtLeastOne
<1>3. Cardinality(Lo) \in Nat /\ Cardinality(Lo) >= 1
  BY <1>1, AtLeastOne
<1>4. BitErrors(w, word) = Cardinality(Hi) + Cardinality(Lo)
  BY DEF BitErrors
<1> QED BY <1>2, <1>3, <1>4 DEF ErrorMax

\* The words are so far from each other that one put right is never taken for another,
\* neither by the slicer's measure nor by the decoder's, in whichever order they try them.
LEMMA PatchedIsRecognised ==
    ASSUME NEW w, NEW t \in {"S6", "SS1", "S2"}
    PROVE  MatchWindow(Patched(w, t)) = t /\ SyncType(Patched(w, t)) = t
<1> DEFINE p == Patched(w, t)
<1>0. DOMAIN S6 = 1 .. 10 /\ DOMAIN S2 = 1 .. 10 /\ DOMAIN SS1 = 1 .. 16
  BY DEF S6, S2, SS1
<1>1. CASE t = "S6"
  <2>1. \A i \in DOMAIN S6 : p[i] = S6[i]
    BY <1>0, <1>1 DEF Patched, SyncWord, WindowSymbols, S6
  <2>2. SymbolErrors(p, S6) = 0 /\ BitErrors(p, S6) = 0
    BY <2>1, NoErrors
  <2> QED BY <1>1, <2>2 DEF MatchWindow, SyncType, Tolerated, CompareSyncByte, SyncWord, ErrorMax, MaxSwErr
<1>2. CASE t = "SS1"
  <2>1. \A i \in DOMAIN SS1 : p[i] = SS1[i]
    BY <1>0, <1>2 DEF Patched, SyncWord, WindowSymbols, SS1
  <2>2. SymbolErrors(p, SS1) = 0 /\ BitErrors(p, SS1) = 0
    BY <2>1, NoErrors
  <2>3. p[1] = 0 /\ p[2] = 2 /\ p[4] = 3 /\ p[5] = 2 /\ p[8] = 0 /\ p[10] = 1
    BY <1>0, <2>1 DEF SS1
  <2>4. ~Tolerated(p, "S6")
    <3>1. HighBit(p[2]) # HighBit(S6[2]) /\ LowBit(p[2]) # LowBit(S6[2])
      BY <2>3 DEF HighBit, LowBit, S6
    <3>2. 10 \in Nat /\ 2 \in 1 .. 10
      OBVIOUS
    <3>3. ~(BitErrors(p, S6) <= ErrorMax)
      BY <1>0, <3>1, <3>2, BothBits
    <3> QED BY <3>3 DEF Tolerated, SyncWord
  <2>5. ~CompareSyncByte(p, "S6")
    <3> DEFINE D == {i \in DOMAIN S6 : p[i] # S6[i]}
    <3>1. D \in SUBSET (1 .. 10) /\ 2 \in D /\ 4 \in D /\ 5 \in D /\ 8 \in D
      BY <1>0, <2>3 DEF S6
    <3> HIDE DEF D
    <3>2. Cardinality(D) >= 4
      BY <3>1, AtLeastFour
    <3> QED BY <3>2, <1>0, <3>1, AtLeastOne DEF D, CompareSyncByte, SymbolErrors, SyncWord, MaxSwErr
  <2>6. ~CompareSyncByte(p, "S2")
    <3> DEFINE D == {i \in DOMAIN S2 : p[i] # S2[i]}
    <3>1. D \in SUBSET (1 .. 10) /\ 1 \in D /\ 2 \in D /\ 4 \in D /\ 5 \in D
      BY <1>0, <2>3 DEF S2
    <3> HIDE DEF D
    <3>2. Cardinality(D) >= 4
      BY <3>1, AtLeastFour
    <3> QED BY <3>2, <1>0, <3>1, AtLeastOne DEF D, CompareSyncByte, SymbolErrors, SyncWord, MaxSwErr
  <2> QED BY <1>2, <2>2, <2>4, <2>5, <2>6
          DEF MatchWindow, SyncType, Tolerated, CompareSyncByte, SyncWord, ErrorMax, MaxSwErr
<1>3. CASE t = "S2"
  <2>1. \A i \in DOMAIN S2 : p[i] = S2[i]
    BY <1>0, <1>3 DEF Patched, SyncWord, WindowSymbols, S2
  <2>2. SymbolErrors(p, S2) = 0 /\ BitErrors(p, S2) = 0
    BY <2>1, NoErrors
  <2>3. p[1] = 2 /\ p[2] = 1 /\ p[4] = 1 /\ p[5] = 0 /\ p[6] = 2
    BY <1>0, <2>1 DEF S2
  <2>4. ~Tolerated(p, "S6")
    <3>1. HighBit(p[4]) # HighBit(S6[4]) /\ LowBit(p[4]) # LowBit(S6[4])
      BY <2>3 DEF HighBit, LowBit, S6
    <3>2. 10 \in Nat /\ 4 \in 1 .. 10
      OBVIOUS
    <3>3. ~(BitErrors(p, S6) <= ErrorMax)
      BY <1>0, <3>1, <3>2, BothBits
    <3> QED BY <3>3 DEF Tolerated, SyncWord
  <2>5. ~Tolerated(p, "SS1")
    <3>1. HighBit(p[2]) # HighBit(SS1[2]) /\ LowBit(p[2]) # LowBit(SS1[2])
      BY <2>3 DEF HighBit, LowBit, SS1
    <3>2. 16 \in Nat /\ 2 \in 1 .. 16
      OBVIOUS
    <3>3. ~(BitErrors(p, SS1) <= ErrorMax)
      BY <1>0, <3>1, <3>2, BothBits
    <3> QED BY <3>3 DEF Tolerated, SyncWord
  <2>6. ~CompareSyncByte(p, "S6")
    <3> DEFINE D == {i \in DOMAIN S6 : p[i] # S6[i]}
    <3>1. D \in SUBSET (1 .. 10) /\ 1 \in D /\ 4 \in D /\ 5 \in D /\ 6 \in D
      BY <1>0, <2>3 DEF S6
    <3> HIDE DEF D
    <3>2. Cardinality(D) >= 4
      BY <3>1, AtLeastFour
    <3> QED BY <3>2, <1>0, <3>1, AtLeastOne DEF D, CompareSyncByte, SymbolErrors, SyncWord, MaxSwErr
  <2> QED BY <1>3, <2>2, <2>4, <2>5, <2>6
          DEF MatchWindow, SyncType, Tolerated, CompareSyncByte, SyncWord, ErrorMax, MaxSwErr
<1> QED BY <1>1, <1>2, <1>3

-----------------------------------------------------------------------------
(* Places in the stream of bytes. *)

\* A byte's number in the stream, counted from the frame in front of the first.
Place(b) == b.of * FrameBytes + b.at

LEMMA Sizes == FrameBytes \in Nat /\ FrameBytes >= 5 /\ 0 \in Offsets
  BY PipelineAssumption DEF Offsets

\* A frame further is a frame's bytes further.
LEMMA NextPlace ==
    ASSUME NEW a \in Int
    PROVE  a * FrameBytes \in Int /\ (a + 1) * FrameBytes = a * FrameBytes + FrameBytes
  BY Sizes

LEMMA PlaceMonotonic ==
    ASSUME NEW a \in Int, NEW b \in Int, a <= b
    PROVE  a * FrameBytes <= b * FrameBytes
<1>1. PICK d \in Nat : b = a + d
  <2>1. b - a \in Nat /\ b = a + (b - a)
    OBVIOUS
  <2> QED BY <2>1
<1>2. d * FrameBytes \in Nat
  BY Sizes
<1>3. b * FrameBytes = a * FrameBytes + d * FrameBytes
  BY <1>1, Sizes
<1>4. a * FrameBytes \in Int
  BY Sizes
<1> QED BY <1>2, <1>3, <1>4

\* The frame and the offset are told from the place.
LEMMA PlaceIsUnique ==
    ASSUME NEW a \in Int, NEW b \in Int, NEW x \in Offsets, NEW y \in Offsets,
           a * FrameBytes + x = b * FrameBytes + y
    PROVE  a = b /\ x = y
<1>1. x \in Int /\ y \in Int /\ 0 <= x /\ x < FrameBytes /\ 0 <= y /\ y < FrameBytes
  BY Sizes DEF Offsets
<1>2. ~(a + 1 <= b)
  <2>1. SUFFICES ASSUME a + 1 <= b PROVE FALSE
    OBVIOUS
  <2>2. (a + 1) * FrameBytes <= b * FrameBytes
    BY <2>1, PlaceMonotonic
  <2> QED BY <2>2, <1>1, NextPlace, Sizes
<1>3. ~(b + 1 <= a)
  <2>1. SUFFICES ASSUME b + 1 <= a PROVE FALSE
    OBVIOUS
  <2>2. (b + 1) * FrameBytes <= a * FrameBytes
    BY <2>1, PlaceMonotonic
  <2> QED BY <2>2, <1>1, NextPlace, Sizes
<1>4. a = b
  BY <1>2, <1>3
<1> QED BY <1>1, <1>4, NextPlace

-----------------------------------------------------------------------------
(* The invariant. *)

Received == Len(records)

\* Every byte written is in a record, in the buffer or in the pipe, once and in order.
Stream ==
    /\ (Received + 1) * FrameBytes + filled + Len(pipe) = Len(sent) * FrameBytes + out
    /\ \A i \in 1 .. Len(pipe) : Place(pipe[i]) = (Received + 1) * FrameBytes + filled + i - 1
    /\ \A j \in Offsets : j < filled => frame[j] = [of |-> Received + 1, at |-> j]

\* What the programs are at.
Control ==
    /\ slicer = "pulling" => out = FrameBytes
    /\ slicer = "writing" => out < FrameBytes /\ Len(sent) > 0
    /\ Len(sent) = 0 => out = FrameBytes
    /\ Len(sent) <= MaxFrames
    /\ frame_num = Received
    /\ decoder = "eof" => slicer = "gone" /\ pipe = <<>> /\ filled < FrameBytes

\* Only frames written whole are in records.
Recorded == Received <= Len(sent)

Inv == TypeOK /\ Control /\ Stream /\ Recorded /\ FramesAligned /\ SlicerDecoderAgree

\* The buffer holds a whole frame only when a frame was written whole that no record has.
LEMMA WholeFrame ==
    ASSUME TypeOK, Control, Stream, filled = FrameBytes
    PROVE  Received + 1 <= Written
<1> DEFINE A == (Received + 1) * FrameBytes
           B == Len(sent) * FrameBytes
<1>1. /\ Received \in Nat /\ Len(pipe) \in Nat /\ Len(sent) \in Nat
      /\ out \in Int /\ 0 <= out /\ out <= FrameBytes
  BY Sizes DEF TypeOK, Received
<1>2. A \in Int /\ B \in Int /\ A + FrameBytes + Len(pipe) = B + out
  BY <1>1, Sizes DEF Stream
<1>3. Received + 1 <= Len(sent)
  <2>1. SUFFICES ASSUME Len(sent) + 1 <= Received + 1 PROVE FALSE
    BY <1>1
  <2>2. (Len(sent) + 1) * FrameBytes <= A
    BY <1>1, <2>1, PlaceMonotonic
  <2>3. (Len(sent) + 1) * FrameBytes = B + FrameBytes
    BY <1>1, NextPlace
  <2> HIDE DEF A, B
  <2> QED BY <1>1, <1>2, <2>2, <2>3, Sizes
<1>4. out # FrameBytes => Received + 1 <= Len(sent) - 1
  <2>1. SUFFICES ASSUME out # FrameBytes, Received + 1 = Len(sent) PROVE FALSE
    BY <1>1, <1>3, Sizes
  <2>2. A = B
    BY <2>1
  <2> HIDE DEF A, B
  <2> QED BY <1>1, <1>2, <2>1, <2>2, Sizes
<1> QED BY <1>3, <1>4 DEF Written

-----------------------------------------------------------------------------
(* What a whole frame holds. *)

\* A frame the slicer cuts: its sync word is recognised by both programs.
LEMMA CutFrames ==
    ASSUME NEW f \in Frames
    PROVE  /\ f.sync = [i \in 1 .. WindowSymbols |-> f.sync[i]]
           /\ f.header # 0 => SyncType(f.sync) = MatchWindow(f.sync)
<1>1. CASE f = NoSignalFrame
  BY <1>1 DEF NoSignalFrame
<1>2. CASE \E w \in Found, header \in {0, 1} : f = FrameCut(w, header)
  <2>1. PICK w \in Found, header \in {0, 1} : f = FrameCut(w, header)
    BY <1>2
  <2>2. MatchWindow(w) \in {"S6", "SS1", "S2"}
    BY DEF Found, MatchWindow
  <2>3. f.sync = Patched(w, MatchWindow(w))
    BY <2>1 DEF FrameCut
  <2>4. f.sync = [i \in 1 .. WindowSymbols |-> f.sync[i]]
    BY <2>3 DEF Patched
  <2> QED BY <2>2, <2>3, <2>4, PatchedIsRecognised
<1> QED BY <1>1, <1>2 DEF Frames

\* An aligned buffer holds the header and the sync word of its frame.
LEMMA AlignedContents ==
    ASSUME NEW buf, NEW k \in DOMAIN sent, sent[k] \in Frames,
           \A j \in Offsets : buf[j] = [of |-> k, at |-> j]
    PROVE  Header(buf) = sent[k].header /\ Sync(buf) = sent[k].sync
<1>1. HeaderByte \in Offsets
  BY PipelineAssumption DEF Offsets
<1>2. Header(buf) = sent[k].header
  <2>1. buf[HeaderByte] = [of |-> k, at |-> HeaderByte]
    BY <1>1
  <2>2. buf[HeaderByte].at = HeaderByte /\ buf[HeaderByte].of = k
    BY <2>1
  <2> QED BY <2>2 DEF Header
<1>3. ASSUME NEW i \in 1 .. WindowSymbols
      PROVE  Symbol(buf, i) = sent[k].sync[i]
  <2> DEFINE q == (i - 1) \div 4
             r == (i - 1) % 4
  <2>1. q \in 0 .. 3 /\ r \in 0 .. 3 /\ 4 * q + r + 1 = i
    BY DEF WindowSymbols
  <2>2. SyncByte + q \in Offsets
    BY <2>1, PipelineAssumption DEF Offsets
  <2>3. buf[SyncByte + q] = [of |-> k, at |-> SyncByte + q]
    BY <2>2
  <2>4. buf[SyncByte + q].of = k /\ buf[SyncByte + q].at - SyncByte = q
    BY <2>1, <2>3, PipelineAssumption
  <2>5. Symbol(buf, i) = sent[k].sync[4 * q + r + 1]
    BY <2>1, <2>4 DEF Symbol
  <2> QED BY <2>1, <2>5
<1>4. Sync(buf) = [i \in 1 .. WindowSymbols |-> sent[k].sync[i]]
  BY <1>3 DEF Sync
<1> QED BY <1>2, <1>4, CutFrames

\* The decoder takes it for what the slicer cut it as.
LEMMA AlignedType ==
    ASSUME NEW buf, NEW k \in DOMAIN sent, sent[k] \in Frames,
           \A j \in Offsets : buf[j] = [of |-> k, at |-> j]
    PROVE  Type(buf) = TypeFor(sent[k])
  BY AlignedContents, CutFrames DEF Type, TypeFor

\* Of a whole frame in the buffer every byte is in its place.
LEMMA WholeBuffer ==
    ASSUME TypeOK, Control, Stream, filled = FrameBytes
    PROVE  /\ Received + 1 \in DOMAIN sent /\ sent[Received + 1] \in Frames
           /\ \A j \in Offsets : frame[j] = [of |-> Received + 1, at |-> j]
<1>1. Received \in Nat /\ Len(sent) \in Nat /\ sent \in Seq(Frames)
  BY DEF TypeOK, Received
<1>2. Received + 1 \in 1 .. Len(sent)
  BY <1>1, WholeFrame DEF Written
<1>3. \A j \in Offsets : j < filled
  BY Sizes DEF Offsets
<1> QED BY <1>1, <1>2, <1>3, ElementOfSeq DEF Stream

\* Whatever the buffer holds has some type.
LEMMA TypeIsAType ==
    ASSUME NEW buf
    PROVE  Type(buf) \in {"S6", "S2", "SS1", "no_signal", "unknown_sync"}
  BY DEF Type, SyncType

-----------------------------------------------------------------------------
(* The steps that move bytes. *)

\* A write puts its bytes behind those in the pipe.
LEMMA WriteKeepsStream ==
    ASSUME Inv, NEW n \in 1 .. FrameBytes, WriteSome(n)
    PROVE  /\ pipe' \in Seq(ByteIds) /\ Len(pipe') = Len(pipe) + n
           /\ Stream'
<1> DEFINE added == [i \in 1 .. n |-> [of |-> Len(sent), at |-> out + i - 1]]
           A == (Received + 1) * FrameBytes
           B == Len(sent) * FrameBytes
<1>1. /\ n \in Nat /\ n >= 1 /\ out \in Nat /\ out + n <= FrameBytes /\ Len(sent) \in 0 .. MaxFrames
      /\ Len(pipe) \in Nat /\ filled \in Nat /\ Received \in Nat /\ pipe \in Seq(ByteIds)
  BY Sizes DEF Inv, TypeOK, Control, WriteSome, Received
<1>2. added \in Seq(ByteIds) /\ Len(added) = n
  <2>1. \A i \in 1 .. n : [of |-> Len(sent), at |-> out + i - 1] \in ByteIds
    BY <1>1, Sizes DEF ByteIds, Offsets
  <2> DEFINE e(i) == [of |-> Len(sent), at |-> out + i - 1]
  <2>2. \A i \in 1 .. n : e(i) \in ByteIds
    BY <2>1
  <2> HIDE DEF e
  <2>3. [i \in 1 .. n |-> e(i)] \in [1 .. n -> ByteIds]
    BY <2>2
  <2>4. [i \in 1 .. n |-> e(i)] \in Seq(ByteIds) /\ Len([i \in 1 .. n |-> e(i)]) = n
    BY <1>1, <2>3
  <2> QED BY <2>4 DEF e
<1>3. pipe' = pipe \o added
  BY DEF WriteSome
<1> HIDE DEF added
<1>4. /\ pipe' \in Seq(ByteIds) /\ Len(pipe') = Len(pipe) + n
      /\ \A i \in 1 .. Len(pipe) + n :
            pipe'[i] = IF i <= Len(pipe) THEN pipe[i] ELSE added[i - Len(pipe)]
  BY <1>1, <1>2, <1>3, ConcatProperties
<1>5. UNCHANGED <<sent, records, filled, frame>> /\ out' = out + n
  BY DEF WriteSome
<1>6. A \in Int /\ B \in Int /\ A + filled + Len(pipe) = B + out
  BY <1>1, Sizes DEF Inv, Stream
<1>7. A + filled + Len(pipe') = B + out'
  <2>1. Len(pipe') = Len(pipe) + n /\ out' = out + n
    BY <1>4, <1>5
  <2>2. n \in Int /\ out \in Int /\ filled \in Int /\ Len(pipe) \in Int
    BY <1>1
  <2> HIDE DEF A, B
  <2> QED BY <1>6, <2>1, <2>2
<1>8. ASSUME NEW i \in 1 .. Len(pipe')
      PROVE  Place(pipe'[i]) = A + filled + i - 1
  <2>1. CASE i <= Len(pipe)
    <3>1. i \in 1 .. Len(pipe) /\ pipe'[i] = pipe[i]
      BY <1>1, <1>4, <2>1
    <3> QED BY <3>1 DEF Inv, Stream
  <2>2. CASE i > Len(pipe)
    <3>0. i - Len(pipe) \in 1 .. n /\ pipe'[i] = added[i - Len(pipe)]
      BY <1>1, <1>4, <2>2
    <3>1. pipe'[i] = [of |-> Len(sent), at |-> out + (i - Len(pipe)) - 1]
      BY <3>0 DEF added
    <3>2. Place(pipe'[i]) = B + (out + (i - Len(pipe)) - 1)
      BY <3>1 DEF Place
    <3>3. i \in Int
      BY <1>1, <1>4
    <3> HIDE DEF A, B
    <3> QED BY <1>1, <1>6, <3>2, <3>3
  <2> QED BY <1>1, <1>4, <2>1, <2>2
<1>9. Received' = Received
  BY <1>5 DEF Received
<1> QED BY <1>4, <1>5, <1>7, <1>8, <1>9 DEF Inv, Stream

\* A read takes the bytes at the front of the pipe to where they belong in the buffer.
LEMMA ReadKeepsStream ==
    ASSUME Inv, NEW n \in 1 .. FrameBytes, ReadSome(n)
    PROVE  /\ pipe' \in Seq(ByteIds) /\ Len(pipe') = Len(pipe) - n
           /\ frame' \in [Offsets -> ByteIds]
           /\ Stream'
<1> DEFINE A == (Received + 1) * FrameBytes
<1>1. /\ n \in Nat /\ n >= 1 /\ filled \in Nat /\ filled + n <= FrameBytes /\ n <= Len(pipe)
      /\ Len(pipe) \in Nat /\ Received \in Nat /\ pipe \in Seq(ByteIds)
      /\ Len(sent) \in Nat /\ out \in Nat
  BY Sizes DEF Inv, TypeOK, ReadSome, Received
<1>2. /\ pipe' \in Seq(ByteIds) /\ Len(pipe') = Len(pipe) - n
      /\ \A i \in 1 .. Len(pipe') : pipe'[i] = pipe[n + i]
  <2>1. \A i \in (n + 1) .. Len(pipe) : pipe[i] \in ByteIds
    BY <1>1, ElementOfSeq
  <2>2. /\ SubSeq(pipe, n + 1, Len(pipe)) \in Seq(ByteIds)
        /\ Len(SubSeq(pipe, n + 1, Len(pipe))) = IF n + 1 <= Len(pipe) THEN Len(pipe) - (n + 1) + 1 ELSE 0
        /\ \A i \in 1 .. Len(pipe) - (n + 1) + 1 : SubSeq(pipe, n + 1, Len(pipe))[i] = pipe[n + 1 + i - 1]
    BY <1>1, <2>1, SubSeqProperties
  <2>3. pipe' = SubSeq(pipe, n + 1, Len(pipe))
    BY DEF ReadSome
  <2> QED BY <1>1, <2>2, <2>3
<1>3. UNCHANGED <<sent, records, out>> /\ filled' = filled + n
  BY DEF ReadSome
<1>4. Received' = Received
  BY <1>3 DEF Received
<1>5. A \in Int /\ Len(sent) * FrameBytes \in Int /\ A + filled + Len(pipe) = Len(sent) * FrameBytes + out
  BY <1>1, Sizes DEF Inv, Stream
<1>6. A + filled' + Len(pipe') = Len(sent) * FrameBytes + out
  <2> DEFINE B == Len(sent) * FrameBytes
  <2> HIDE DEF A, B
  <2>1. B \in Int /\ A + filled + Len(pipe) = B + out
    BY <1>5 DEF B
  <2>2. Len(pipe') = Len(pipe) - n /\ filled' = filled + n
    BY <1>2, <1>3
  <2>3. A \in Int
    BY <1>5
  <2>4. A + filled' + Len(pipe') = B + out
    BY <1>1, <2>1, <2>2, <2>3
  <2> QED BY <2>4 DEF B
<1>7. ASSUME NEW i \in 1 .. Len(pipe')
      PROVE  Place(pipe'[i]) = A + filled' + i - 1
  <2>1. n + i \in 1 .. Len(pipe)
    BY <1>1, <1>2
  <2>2. Place(pipe[n + i]) = A + filled + (n + i) - 1
    BY <2>1 DEF Inv, Stream
  <2> HIDE DEF A
  <2> QED BY <1>1, <1>2, <1>3, <1>5, <2>2
<1>8. frame' = [j \in Offsets |-> IF j \in filled .. (filled + n - 1) THEN pipe[j - filled + 1] ELSE frame[j]]
  BY DEF ReadSome
<1>9. frame' \in [Offsets -> ByteIds]
  <2>1. ASSUME NEW j \in Offsets, j \in filled .. (filled + n - 1)
        PROVE  pipe[j - filled + 1] \in ByteIds
    <3>1. j - filled + 1 \in 1 .. Len(pipe)
      BY <1>1, <2>1
    <3> QED BY <1>1, <3>1, ElementOfSeq
  <2> QED BY <1>8, <2>1 DEF Inv, TypeOK
<1>10. ASSUME NEW j \in Offsets, j < filled'
       PROVE  frame'[j] = [of |-> Received + 1, at |-> j]
  <2>0. j \in Nat /\ j < FrameBytes
    BY Sizes DEF Offsets
  <2>1. CASE j < filled
    <3>1. frame'[j] = frame[j]
      BY <1>1, <1>8, <2>0, <2>1
    <3> QED BY <2>1, <3>1 DEF Inv, Stream
  <2>2. CASE ~(j < filled)
    <3> DEFINE b == pipe[j - filled + 1]
    <3>1. j - filled + 1 \in 1 .. Len(pipe) /\ frame'[j] = b
      BY <1>1, <1>3, <1>8, <1>10, <2>0, <2>2
    <3>2. b \in ByteIds
      BY <1>1, <3>1, ElementOfSeq
    <3>3. Place(b) = A + filled + (j - filled + 1) - 1
      BY <3>1 DEF Inv, Stream
    <3>4. Place(b) = A + j
      <4> HIDE DEF A, b
      <4> QED BY <1>1, <1>5, <2>0, <3>3
    <3>5. b.of \in Int /\ b.at \in Offsets /\ b = [of |-> b.of, at |-> b.at]
      BY <3>2 DEF ByteIds
    <3>6. b.of * FrameBytes + b.at = (Received + 1) * FrameBytes + j
      BY <3>4 DEF Place
    <3>7. b.of = Received + 1 /\ b.at = j
      <4> HIDE DEF b
      <4> QED BY <1>1, <3>5, <3>6, PlaceIsUnique
    <3> QED BY <3>1, <3>5, <3>7
  <2> QED BY <2>1, <2>2
<1> QED BY <1>2, <1>3, <1>4, <1>6, <1>7, <1>9, <1>10 DEF Stream

-----------------------------------------------------------------------------
(* Initial states. *)

LEMMA InitInv == Init => Inv
<1> SUFFICES ASSUME Init PROVE Inv
  OBVIOUS
<1>1. /\ slicer = "pulling" /\ sent = <<>> /\ out = FrameBytes /\ pipe = <<>>
      /\ decoder = "running" /\ frame = [j \in Offsets |-> Blank] /\ filled = 0
      /\ frame_num = 0 /\ records = <<>>
  BY DEF Init
<1>2. Received = 0 /\ Len(sent) = 0 /\ Len(pipe) = 0
  BY <1>1 DEF Received
<1>3. TypeOK
  <2>1. Blank \in ByteIds
    BY PipelineAssumption, Sizes DEF Blank, ByteIds
  <2> QED BY <1>1, <2>1, Sizes, PipelineAssumption DEF TypeOK
<1>4. Control
  BY <1>1, <1>2, PipelineAssumption DEF Control
<1>5. Stream
  <2>1. (0 + 1) * FrameBytes = FrameBytes /\ 0 * FrameBytes = 0
    BY Sizes
  <2>2. \A j \in Offsets : ~(j < filled)
    BY <1>1 DEF Offsets
  <2> QED BY <1>1, <1>2, <2>1, <2>2, Sizes DEF Stream
<1>6. Recorded /\ FramesAligned /\ SlicerDecoderAgree
  BY <1>1, <1>2 DEF Recorded, FramesAligned, SlicerDecoderAgree
<1> QED BY <1>3, <1>4, <1>5, <1>6 DEF Inv

-----------------------------------------------------------------------------
(* Steps. *)

\* A step that moves no byte and no record.
LEMMA NothingMoves ==
    ASSUME Inv, UNCHANGED <<sent, out, pipe, frame, filled, frame_num, records>>,
           slicer' \in {"pulling", "writing", "gone"}, decoder' \in {"running", "eof", "failed"},
           slicer' # slicer => slicer' = "gone",
           decoder' = "eof" => slicer' = "gone" /\ pipe = <<>> /\ filled < FrameBytes
    PROVE  Inv'
<1>1. TypeOK'
  BY DEF Inv, TypeOK
<1>2. Control'
  BY DEF Inv, Control, Received
<1>3. Stream'
  BY DEF Inv, Stream, Received, Place
<1>4. Recorded' /\ FramesAligned' /\ SlicerDecoderAgree'
  BY DEF Inv, Recorded, FramesAligned, SlicerDecoderAgree, Received
<1> QED BY <1>1, <1>2, <1>3, <1>4 DEF Inv

LEMMA PulledKeepsInv ==
    ASSUME Inv, NEW f \in Frames, Pulled(f)
    PROVE  Inv'
<1>1. /\ slicer = "pulling" /\ Len(sent) < MaxFrames /\ sent' = Append(sent, f)
      /\ out = FrameBytes /\ out' = 0 /\ slicer' = "writing"
      /\ UNCHANGED <<pipe, decoder, frame, filled, frame_num, records>>
  BY DEF Inv, Control, Pulled
<1>2. /\ Len(sent) \in Nat /\ Received \in Nat /\ Len(pipe) \in Nat /\ filled \in Nat
      /\ sent \in Seq(Frames)
  BY DEF Inv, TypeOK, Received
<1>3. /\ sent' \in Seq(Frames) /\ Len(sent') = Len(sent) + 1
      /\ \A k \in 1 .. Len(sent) : sent'[k] = sent[k]
  BY <1>1, <1>2, AppendProperties
<1>4. TypeOK'
  BY <1>1, <1>3, Sizes DEF Inv, TypeOK
<1>5. Control'
  BY <1>1, <1>2, <1>3, Sizes, PipelineAssumption DEF Inv, Control, Received
<1>6. Received' = Received
  BY <1>1 DEF Received
<1>7. Stream'
  <2>1. (Len(sent) + 1) * FrameBytes = Len(sent) * FrameBytes + FrameBytes
    BY <1>2, NextPlace
  <2>2. Len(sent') * FrameBytes + out' = Len(sent) * FrameBytes + out
    BY <1>1, <1>2, <1>3, <2>1, Sizes
  <2> QED BY <1>1, <1>6, <2>2 DEF Inv, Stream, Place
<1>8. FramesAligned'
  BY <1>1 DEF Inv, FramesAligned
<1>9. SlicerDecoderAgree'
  <2>1. Received <= Len(sent)
    BY DEF Inv, Recorded
  <2> QED BY <1>1, <1>3, <2>1 DEF Inv, SlicerDecoderAgree, Received
<1>10. Recorded'
  BY <1>2, <1>3, <1>6 DEF Inv, Recorded
<1> QED BY <1>4, <1>5, <1>7, <1>8, <1>9, <1>10 DEF Inv

LEMMA ProcessKeepsInv ==
    ASSUME Inv, ProcessFrame
    PROVE  Inv'
<1> DEFINE r == [num |-> frame_num, frame |-> frame, type |-> Type(frame)]
           k == Received + 1
           Record == [num : Nat, frame : [Offsets -> ByteIds],
                      type : {"S6", "S2", "SS1", "no_signal", "unknown_sync"}]
<1>1. /\ decoder = "running" /\ filled = FrameBytes /\ records' = Append(records, r)
      /\ frame_num' = frame_num + 1 /\ filled' = 0
      /\ UNCHANGED <<slicer, sent, out, pipe, decoder, frame>>
  BY DEF ProcessFrame
<1>2. /\ Len(sent) \in Nat /\ Received \in Nat /\ Len(pipe) \in Nat /\ frame_num = Received
      /\ records \in Seq(Record)
  BY DEF Inv, TypeOK, Control, Received
<1>3. r \in Record
  BY <1>2, TypeIsAType DEF Inv, TypeOK
<1>4. /\ records' \in Seq(Record) /\ Received' = k
      /\ \A i \in 1 .. Received : records'[i] = records[i]
      /\ records'[k] = r
  <2> HIDE DEF r, Record
  <2> QED BY <1>1, <1>2, <1>3, AppendProperties DEF Received
<1>5. TypeOK'
  BY <1>1, <1>2, <1>4, Sizes DEF Inv, TypeOK
<1>6. Control'
  BY <1>1, <1>2, <1>4, Sizes DEF Inv, Control
<1>7. /\ k \in DOMAIN sent /\ sent[k] \in Frames
      /\ \A j \in Offsets : frame[j] = [of |-> k, at |-> j]
  BY <1>1, WholeBuffer DEF Inv
<1>8. Recorded'
  BY <1>1, <1>4, WholeFrame DEF Inv, Recorded, Written
<1>9. Stream'
  <2> DEFINE A == k * FrameBytes
             B == (k + 1) * FrameBytes
             C == Len(sent) * FrameBytes
  <2>1. A \in Int /\ B = A + FrameBytes
    <3>1. k \in Int
      BY <1>2
    <3> HIDE DEF k
    <3> QED BY <3>1, NextPlace
  <2>2. A + filled + Len(pipe) = C + out
    BY DEF Inv, Stream
  <2>3. B + filled' + Len(pipe') = C + out
    <3> HIDE DEF A, B, C
    <3> QED BY <1>1, <1>2, <2>1, <2>2, Sizes
  <2>4. ASSUME NEW i \in 1 .. Len(pipe)
        PROVE  Place(pipe[i]) = B + filled' + i - 1
    <3>1. Place(pipe[i]) = A + filled + i - 1
      BY DEF Inv, Stream
    <3> HIDE DEF A, B
    <3> QED BY <1>1, <1>2, <2>1, <3>1, Sizes
  <2>5. \A j \in Offsets : ~(j < filled')
    BY <1>1 DEF Offsets
  <2>6. \A i \in 1 .. Len(pipe') : Place(pipe'[i]) = B + filled' + i - 1
    BY <1>1, <2>4
  <2> QED BY <1>1, <1>4, <2>3, <2>5, <2>6 DEF Stream
<1>10. FramesAligned'
  <2>1. ASSUME NEW i \in 1 .. k
        PROVE  /\ records'[i].num = i - 1
               /\ \A j \in Offsets : records'[i].frame[j] = [of |-> i, at |-> j]
    <3>1. CASE i = k
      BY <1>2, <1>4, <1>7, <3>1
    <3>2. CASE i # k
      <4>1. i \in 1 .. Received /\ i \in DOMAIN records
        BY <1>2, <3>2 DEF Received
      <4>2. records'[i] = records[i]
        BY <1>4, <4>1
      <4> QED BY <4>1, <4>2 DEF Inv, FramesAligned
    <3> QED BY <3>1, <3>2
  <2>2. DOMAIN records' = 1 .. k
    BY <1>4 DEF Received
  <2> HIDE DEF k
  <2> QED BY <2>1, <2>2 DEF FramesAligned
<1>11. SlicerDecoderAgree'
  <2>1. ASSUME NEW i \in 1 .. k
        PROVE  records'[i].type = TypeFor(sent[i])
    <3>1. CASE i = k
      <4>1. records'[i].type = Type(frame)
        BY <1>4, <3>1
      <4> QED BY <1>7, <3>1, <4>1, AlignedType
    <3>2. CASE i # k
      <4>1. i \in 1 .. Received /\ i \in DOMAIN records
        BY <1>2, <3>2 DEF Received
      <4>2. records'[i] = records[i]
        BY <1>4, <4>1
      <4> QED BY <4>1, <4>2 DEF Inv, SlicerDecoderAgree
    <3> QED BY <3>1, <3>2
  <2>2. DOMAIN records' = 1 .. k
    BY <1>4 DEF Received
  <2> HIDE DEF k
  <2> QED BY <1>1, <2>1, <2>2 DEF SlicerDecoderAgree
<1> QED BY <1>5, <1>6, <1>8, <1>9, <1>10, <1>11 DEF Inv

\* A write.
LEMMA WriteKeepsInv ==
    ASSUME Inv, NEW n \in 1 .. FrameBytes, WriteSome(n)
    PROVE  Inv'
<1>1. /\ n \in Nat /\ n >= 1 /\ out \in Nat /\ out + n <= FrameBytes /\ Len(pipe) \in Nat
      /\ Len(pipe) + n <= PipeBytes /\ slicer = "writing" /\ decoder = "running"
      /\ out' = out + n /\ slicer' = IF out + n = FrameBytes THEN "pulling" ELSE "writing"
      /\ UNCHANGED <<sent, decoder, frame, filled, frame_num, records>>
  BY Sizes DEF Inv, TypeOK, WriteSome
<1>2. pipe' \in Seq(ByteIds) /\ Len(pipe') = Len(pipe) + n /\ Stream'
  BY WriteKeepsStream
<1>3. TypeOK'
  BY <1>1, <1>2, Sizes DEF Inv, TypeOK
<1>4. Control'
  BY <1>1, Sizes DEF Inv, Control, Received
<1>5. Recorded' /\ FramesAligned' /\ SlicerDecoderAgree'
  BY <1>1 DEF Inv, Recorded, FramesAligned, SlicerDecoderAgree, Received
<1> QED BY <1>2, <1>3, <1>4, <1>5 DEF Inv

\* A read.
LEMMA ReadKeepsInv ==
    ASSUME Inv, NEW n \in 1 .. FrameBytes, ReadSome(n)
    PROVE  Inv'
<1>1. /\ n \in Nat /\ filled \in Nat /\ filled + n <= FrameBytes /\ n <= Len(pipe) /\ Len(pipe) \in Nat
      /\ Len(pipe) <= PipeBytes /\ decoder = "running" /\ filled' = filled + n
      /\ UNCHANGED <<slicer, sent, out, decoder, frame_num, records>>
  BY Sizes DEF Inv, TypeOK, ReadSome
<1>2. /\ pipe' \in Seq(ByteIds) /\ Len(pipe') = Len(pipe) - n /\ frame' \in [Offsets -> ByteIds]
      /\ Stream'
  BY ReadKeepsStream
<1>3. TypeOK'
  BY <1>1, <1>2, Sizes, PipelineAssumption DEF Inv, TypeOK
<1>4. Control'
  BY <1>1, Sizes DEF Inv, Control, Received
<1>5. Recorded' /\ FramesAligned' /\ SlicerDecoderAgree'
  BY <1>1 DEF Inv, Recorded, FramesAligned, SlicerDecoderAgree, Received
<1> QED BY <1>2, <1>3, <1>4, <1>5 DEF Inv

\* Every step keeps the invariant.
LEMMA NextInv == Inv /\ [Next]_vars => Inv'
<1> SUFFICES ASSUME Inv, [Next]_vars PROVE Inv'
  OBVIOUS
<1>0. /\ slicer \in {"pulling", "writing", "gone"} /\ decoder \in {"running", "eof", "failed"}
      /\ decoder = "eof" => slicer = "gone" /\ pipe = <<>> /\ filled < FrameBytes
  BY DEF Inv, TypeOK, Control
<1>1. CASE \E w \in Found, header \in {0, 1} : PullFrame(w, header)
  BY <1>1, PulledKeepsInv DEF PullFrame, Frames
<1>2. CASE PullNoSignal
  BY <1>2, PulledKeepsInv DEF PullNoSignal, Frames
<1>3. CASE InputOver
  BY <1>0, <1>3, NothingMoves DEF InputOver
<1>4. CASE Killed
  BY <1>0, <1>4, NothingMoves DEF Killed
<1>5. CASE DecoderFails
  BY <1>0, <1>5, NothingMoves DEF DecoderFails
<1>6. CASE WriteFails
  BY <1>0, <1>6, NothingMoves DEF WriteFails
<1>7. CASE \E n \in 1 .. FrameBytes : WriteSome(n)
  BY <1>7, WriteKeepsInv
<1>8. CASE ReadEof
  BY <1>0, <1>8, NothingMoves DEF ReadEof
<1>9. CASE ProcessFrame
  BY <1>9, ProcessKeepsInv
<1>10. CASE \E n \in 1 .. FrameBytes : ReadSome(n)
  BY <1>10, ReadKeepsInv
<1>11. CASE UNCHANGED vars
  BY <1>0, <1>11, NothingMoves DEF vars
<1> QED
  BY <1>1, <1>2, <1>3, <1>4, <1>5, <1>6, <1>7, <1>8, <1>9, <1>10, <1>11
  DEF Next, Write, Decode, Over

\* The invariant of the pipe: frames of every size, whatever reads and writes return, and
\* whenever a program stops (the loops of both main functions, read_full, write_all).
THEOREM BytesInOrder == Spec => []Inv
<1> QED BY InitInv, NextInv, PTL DEF Spec

\* The state of both programs stays within its types: read_full never goes past the end of
\* the buffer.
THEOREM PipelineTypeCorrect == Spec => []TypeOK
<1>1. Inv => TypeOK
  BY DEF Inv
<1> QED BY BytesInOrder, <1>1, PTL

\* The decoder is called with the frames the slicer produced, byte for byte, in order and
\* with their numbers.
THEOREM FramesStayAligned == Spec => []FramesAligned
<1>1. Inv => FramesAligned
  BY DEF Inv
<1> QED BY BytesInOrder, <1>1, PTL

\* The decoder takes a frame for the sync word the slicer cut it at, however damaged the
\* window was and whatever is around the word.
THEOREM SlicerAndDecoderAgree == Spec => []SlicerDecoderAgree
<1>1. Inv => SlicerDecoderAgree
  BY DEF Inv
<1> QED BY BytesInOrder, <1>1, PTL

-----------------------------------------------------------------------------
(* The end of the input. *)

\* With nothing in the pipe and no whole frame in the buffer, every frame written whole is
\* in a record.
LEMMA NothingLeft ==
    ASSUME Inv, pipe = <<>>, filled < FrameBytes
    PROVE  Received = Written
<1> DEFINE A == (Received + 1) * FrameBytes
           B == Len(sent) * FrameBytes
<1>1. /\ Received \in Nat /\ Len(sent) \in Nat /\ out \in Int /\ 0 <= out /\ out <= FrameBytes
      /\ filled \in Nat /\ Received <= Len(sent) /\ (Len(sent) = 0 => out = FrameBytes)
  BY Sizes DEF Inv, TypeOK, Control, Recorded, Received
<1>2. A \in Int /\ B \in Int /\ A + filled = B + out
  <2>1. A + filled + Len(pipe) = B + out /\ Len(pipe) = 0
    BY DEF Inv, Stream
  <2>2. A \in Int /\ B \in Int
    BY <1>1, Sizes
  <2> HIDE DEF A, B
  <2> QED BY <1>1, <2>1, <2>2
<1>3. B = (Received + 1) * FrameBytes - FrameBytes + (Len(sent) - Received) * FrameBytes
  BY <1>1, Sizes
<1>4. CASE Len(sent) = Received
  <2>1. A = B + FrameBytes
    BY <1>1, <1>4, NextPlace
  <2>2. out = FrameBytes
    <3> HIDE DEF A, B
    <3> QED BY <1>1, <1>2, <2>1, Sizes
  <2> QED BY <1>4, <2>2 DEF Written
<1>5. CASE Len(sent) = Received + 1
  <2>1. A = B
    BY <1>5
  <2>2. out # FrameBytes
    <3> HIDE DEF A, B
    <3> QED BY <1>1, <1>2, <2>1, Sizes
  <2> QED BY <1>1, <1>5, <2>2 DEF Written
<1>6. CASE Received + 2 <= Len(sent)
  <2>1. (Received + 2) * FrameBytes <= B
    BY <1>1, <1>6, PlaceMonotonic
  <2>2. (Received + 2) * FrameBytes = A + FrameBytes
    BY <1>1, Sizes
  <2> HIDE DEF A, B
  <2> QED BY <1>1, <1>2, <2>1, <2>2, Sizes
<1> QED BY <1>1, <1>4, <1>5, <1>6

\* What the decoder drops at the end of its input is never a whole frame.
THEOREM CompleteAtTheEnd == Spec => []CompleteAtEof
<1>1. Inv => CompleteAtEof
  BY NothingLeft DEF Inv, Control, CompleteAtEof, Received
<1> QED BY BytesInOrder, <1>1, PTL

-----------------------------------------------------------------------------
(* The pipe is a channel of frames. *)

\* What the refinement mapping takes for the frames received.
Got == [k \in DOMAIN records |-> Contents(records[k])]
GotFrames == [k \in 1 .. Received |-> [num |-> k - 1, frame |-> sent[k]]]

\* They are the first of the frames sent.
LEMMA GotIsSent == Inv => Got = GotFrames
<1> SUFFICES ASSUME Inv PROVE Got = GotFrames
  OBVIOUS
<1>1. /\ Received \in Nat /\ Len(sent) \in Nat /\ Received <= Len(sent) /\ sent \in Seq(Frames)
      /\ DOMAIN records = 1 .. Received
  BY DEF Inv, TypeOK, Recorded, Received
<1>2. ASSUME NEW k \in 1 .. Received
      PROVE  Contents(records[k]) = [num |-> k - 1, frame |-> sent[k]]
  <2>1. k \in DOMAIN sent /\ sent[k] \in Frames
    BY <1>1, ElementOfSeq
  <2>2. records[k].num = k - 1 /\ \A j \in Offsets : records[k].frame[j] = [of |-> k, at |-> j]
    BY <1>1 DEF Inv, FramesAligned
  <2>3. Header(records[k].frame) = sent[k].header /\ Sync(records[k].frame) = sent[k].sync
    BY <2>1, <2>2, AlignedContents
  <2>4. sent[k] = [header |-> sent[k].header, sync |-> sent[k].sync]
    BY <2>1 DEF Frames, FrameCut, NoSignalFrame
  <2> QED BY <2>2, <2>3, <2>4 DEF Contents
<1> QED BY <1>1, <1>2 DEF Got, GotFrames

\* What holds whenever a step is looked at.
Mapped == Inv /\ Got = GotFrames

LEMMA GotLength == Mapped => Len(Got) = Received /\ Received \in Nat /\ Received <= Len(sent)
<1> SUFFICES ASSUME Mapped PROVE Len(Got) = Received /\ Received \in Nat /\ Received <= Len(sent)
  OBVIOUS
<1>1. Received \in Nat /\ Received <= Len(sent)
  BY DEF Mapped, Inv, TypeOK, Recorded, Received
<1> HIDE DEF Received
<1> QED BY <1>1 DEF Mapped, GotFrames

\* A frame further down the channel changes nothing of those received.
LEMMA GotUnchanged ==
    ASSUME Mapped, Mapped', UNCHANGED records, \A k \in 1 .. Len(sent) : sent'[k] = sent[k]
    PROVE  Got' = Got
<1>1. Received' = Received /\ Received \in Nat /\ Len(sent) \in Nat /\ Received <= Len(sent)
  BY DEF Mapped, Inv, TypeOK, Recorded, Received
<1>2. \A k \in 1 .. Received : sent'[k] = sent[k]
  BY <1>1
<1> QED BY <1>1, <1>2 DEF Mapped, GotFrames

\* A frame is pulled.
LEMMA PulledSends ==
    ASSUME Mapped, Mapped', NEW f \in Frames, Pulled(f)
    PROVE  Channel!Next
<1>1. /\ slicer = "pulling" /\ slicer' = "writing" /\ sent' = Append(sent, f)
      /\ UNCHANGED <<decoder, records>>
  BY DEF Pulled
<1>2. sent \in Seq(Frames)
  BY DEF Mapped, Inv, TypeOK
<1>3. \A k \in 1 .. Len(sent) : sent'[k] = sent[k]
  BY <1>1, <1>2, AppendProperties
<1>4. Got' = Got
  BY <1>1, <1>3, GotUnchanged
<1>5. Channel!Send(f)
  BY <1>1, <1>4 DEF Channel!Send, Got
<1> QED BY <1>5 DEF Channel!Next

\* The slicer goes, perhaps in the middle of a frame: that one the decoder cannot have.
LEMMA GoneStops ==
    ASSUME Mapped, Mapped', slicer # "gone", slicer' = "gone",
           UNCHANGED <<sent, out, decoder, records>>
    PROVE  Channel!Next
<1>1. Got' = Got
  BY GotUnchanged
<1>2. out < FrameBytes => Received < Len(sent)
  <2>1. SUFFICES ASSUME out < FrameBytes, ~(Received < Len(sent)) PROVE FALSE
    OBVIOUS
  <2>2. /\ Len(sent) \in Nat /\ Received = Len(sent) /\ out \in Nat /\ filled \in Nat /\ Len(pipe) \in Nat
    <3>1. Received \in Nat /\ Len(sent) \in Nat /\ Received <= Len(sent)
      BY DEF Mapped, Inv, TypeOK, Recorded, Received
    <3> QED BY <2>1, <3>1, Sizes DEF Mapped, Inv, TypeOK
  <2> DEFINE B == Len(sent) * FrameBytes
  <2>3. B \in Int /\ (Len(sent) + 1) * FrameBytes = B + FrameBytes
    BY <2>2, NextPlace
  <2>4. (Len(sent) + 1) * FrameBytes + filled + Len(pipe) = B + out
    BY <2>2 DEF Mapped, Inv, Stream
  <2> HIDE DEF B
  <2> QED BY <2>1, <2>2, <2>3, <2>4, Sizes
<1>3. Channel!Stop(out < FrameBytes)
  BY <1>1, <1>2, GotLength DEF Channel!Stop, Got
<1>4. (out < FrameBytes) \in BOOLEAN
  OBVIOUS
<1> QED BY <1>3, <1>4, Zenon DEF Channel!Next

\* A frame is processed: it was written whole and is the next.
LEMMA ProcessReceives ==
    ASSUME Mapped, Mapped', ProcessFrame
    PROVE  Channel!Next
<1>1. /\ decoder = "running" /\ filled = FrameBytes /\ UNCHANGED <<slicer, sent, out, decoder>>
      /\ Received' = Received + 1
  BY AppendProperties DEF Mapped, Inv, TypeOK, ProcessFrame, Received
<1>2. Received \in Nat /\ Received + 1 <= Written /\ Len(Got) = Received
  BY <1>1, WholeFrame, GotLength DEF Mapped, Inv
<1>3. Got = GotFrames /\ Got' = GotFrames'
  BY DEF Mapped
<1>4. Got' = Append(Got, [num |-> Len(Got), frame |-> sent[Len(Got) + 1]])
  <2> DEFINE Items == [num : Int, frame : Frames]
             g == [k \in 1 .. Received |-> [num |-> k - 1, frame |-> sent[k]]]
             new == [k \in 1 .. (Received + 1) |-> [num |-> k - 1, frame |-> sent[k]]]
             r == [num |-> Received, frame |-> sent[Received + 1]]
  <2>1. Got' = new /\ Got = g
    BY <1>1, <1>3 DEF GotFrames
  <2>2. ASSUME NEW k \in 1 .. (Received + 1)
        PROVE  [num |-> k - 1, frame |-> sent[k]] \in Items
    <3>1. k \in 1 .. Len(sent) /\ sent \in Seq(Frames)
      <4>1. Received + 1 <= Len(sent) /\ Len(sent) \in Nat
        BY <1>1, <1>2, WholeBuffer DEF Mapped, Inv, TypeOK
      <4> QED BY <1>2, <4>1 DEF Mapped, Inv, TypeOK
    <3>2. sent[k] \in Frames
      BY <3>1, ElementOfSeq
    <3> QED BY <1>2, <3>2
  <2>3. /\ new \in Seq(Items) /\ Len(new) = Received + 1
        /\ \A k \in 1 .. (Received + 1) : new[k] = [num |-> k - 1, frame |-> sent[k]]
    <3> HIDE DEF Items
    <3> QED BY <1>2, <2>2
  <2>4. /\ g \in Seq(Items) /\ Len(g) = Received
        /\ \A k \in 1 .. Received : g[k] = [num |-> k - 1, frame |-> sent[k]]
    <3> HIDE DEF Items
    <3> QED BY <1>2, <2>2
  <2>5. r \in Items /\ r = [num |-> (Received + 1) - 1, frame |-> sent[Received + 1]]
    BY <1>2, <2>2
  <2> HIDE DEF new, g, r, Items
  <2>6. /\ Append(g, r) \in Seq(Items) /\ Len(Append(g, r)) = Received + 1
        /\ \A k \in 1 .. Received : Append(g, r)[k] = g[k]
        /\ Append(g, r)[Received + 1] = r
    BY <2>4, <2>5, AppendProperties
  <2>7. ASSUME NEW k \in 1 .. (Received + 1)
        PROVE  Append(g, r)[k] = new[k]
    <3>1. CASE k = Received + 1
      BY <2>3, <2>5, <2>6, <3>1
    <3>2. CASE k # Received + 1
      <4>1. k \in 1 .. Received
        BY <1>2, <3>2
      <4> QED BY <2>3, <2>4, <2>6, <4>1
    <3> QED BY <3>1, <3>2
  <2>8. Append(g, r) = new
    BY <2>3, <2>6, <2>7, SeqEqual
  <2> QED BY <1>2, <2>1, <2>8 DEF r
<1>5. Received < Channel!Whole
  <2>1. Channel!Whole = Written \/ Channel!Whole = Len(sent)
    <3>1. out \in Int
      BY Sizes DEF Mapped, Inv, TypeOK
    <3> QED BY <3>1, Sizes DEF Channel!Whole, Written
  <2>2. Written <= Len(sent) /\ Len(sent) \in Nat /\ Written \in Int
    BY DEF Mapped, Inv, TypeOK, Written
  <2> QED BY <1>2, <2>1, <2>2
<1>6. Channel!Receive
  BY <1>1, <1>2, <1>4, <1>5 DEF Channel!Receive, Got
<1> QED BY <1>6 DEF Channel!Next

\* The decoder is at the end of its input.
LEMMA EofEnds ==
    ASSUME Mapped, Mapped', ReadEof
    PROVE  Channel!Next
<1>1. /\ decoder = "running" /\ decoder' = "eof" /\ filled < FrameBytes /\ pipe = <<>>
      /\ slicer = "gone" /\ UNCHANGED <<slicer, sent, out, records>>
  BY DEF ReadEof
<1>2. Got' = Got
  BY <1>1, GotUnchanged
<1>3. Received = Written
  BY <1>1, NothingLeft DEF Mapped
<1>4. Channel!Whole = Written
  <2>1. out \in Int /\ out <= FrameBytes
    BY Sizes DEF Mapped, Inv, TypeOK
  <2> QED BY <1>1, <2>1, Sizes DEF Channel!Whole, Written
<1>5. Channel!End
  BY <1>1, <1>2, <1>3, <1>4, GotLength DEF Channel!End, Got
<1> QED BY <1>5 DEF Channel!Next

\* A step that only moves bytes is none of the channel's.
LEMMA BytesStutter ==
    ASSUME Mapped, Mapped', UNCHANGED <<sent, decoder, records>>,
           (slicer' # "gone") <=> (slicer # "gone"), slicer = "gone" => out' = out
    PROVE  UNCHANGED Channel!vars
<1>1. Got' = Got
  BY GotUnchanged
<1> QED BY <1>1 DEF Channel!vars, Got

LEMMA InitChannel == Init => Channel!Init
<1> SUFFICES ASSUME Init PROVE Channel!Init
  OBVIOUS
<1>1. Got = <<>>
  BY DEF Got, Init
<1> QED BY <1>1 DEF Init, Channel!Init, Got

LEMMA StepChannel == Mapped /\ Mapped' /\ [Next]_vars => [Channel!Next]_(Channel!vars)
<1> SUFFICES ASSUME Mapped, Mapped', [Next]_vars
             PROVE  Channel!Next \/ UNCHANGED Channel!vars
  OBVIOUS
<1>1. CASE \E w \in Found, header \in {0, 1} : PullFrame(w, header)
  BY <1>1, PulledSends DEF PullFrame, Frames
<1>2. CASE PullNoSignal
  BY <1>2, PulledSends DEF PullNoSignal, Frames
<1>3. CASE InputOver \/ Killed \/ WriteFails
  BY <1>3, GoneStops DEF InputOver, Killed, WriteFails
<1>4. CASE DecoderFails
  <2>1. Got' = Got
    BY <1>4, GotUnchanged DEF DecoderFails
  <2>2. Channel!Fail
    BY <1>4, <2>1 DEF DecoderFails, Channel!Fail, Got
  <2> QED BY <2>2 DEF Channel!Next
<1>5. CASE \E n \in 1 .. FrameBytes : WriteSome(n)
  <2>1. UNCHANGED <<sent, decoder, records>> /\ slicer # "gone" /\ slicer' # "gone"
    BY <1>5 DEF WriteSome
  <2> QED BY <2>1, BytesStutter
<1>6. CASE \E n \in 1 .. FrameBytes : ReadSome(n)
  <2>1. UNCHANGED <<slicer, sent, out, decoder, records>>
    BY <1>6 DEF ReadSome
  <2> QED BY <2>1, BytesStutter
<1>7. CASE ProcessFrame
  BY <1>7, ProcessReceives
<1>8. CASE ReadEof
  BY <1>8, EofEnds
<1>9. CASE UNCHANGED vars
  BY <1>9, BytesStutter DEF vars
<1> QED
  BY <1>1, <1>2, <1>3, <1>4, <1>5, <1>6, <1>7, <1>8, <1>9 DEF Next, Write, Decode, Over

\* Bytes, partial reads, partial writes and a pipe of any capacity between them make a
\* channel of whole frames.
THEOREM PipeIsAChannel == Spec => ImplementsFrameChannel
<1>1. Inv => Mapped
  BY GotIsSent DEF Mapped
<1> QED
  BY BytesInOrder, <1>1, InitChannel, StepChannel, PTL DEF Spec, ImplementsFrameChannel, Channel!Spec
=============================================================================
