---------------------------- MODULE SlicerSafety ----------------------------
(***************************************************************************)
(* The slicer's safety invariants, for every size and every stream.  The   *)
(* ones about the sequence of frames follow from what the abstract         *)
(* specification's steps do to it; that frames are intact follows from the *)
(* mirror invariant.                                                       *)
(***************************************************************************)
EXTENDS SlicerProofs, FiniteSetTheorems

-----------------------------------------------------------------------------
(* What a step does to the positions the frames start at. *)

\* The positions of the frames so far.
At == Starts(Slots)

\* Every frame lies in what is covered.
AllCovered == \A i \in DOMAIN At : At[i] # Zero => At[i] + Step <= Covered

\* What the properties say, of positions.
LEMMA AtSlots ==
    ASSUME TypeOK
    PROVE  /\ At \in Seq(Int) /\ Covered \in Int /\ DOMAIN At = 1 .. Len(At) /\ Len(At) \in Nat
           /\ DOMAIN At = DOMAIN Slots
           /\ \A i \in DOMAIN At : /\ At[i] = Start(Slots[i])
                                   /\ IsReal(Slots[i]) <=> At[i] # Zero
<1>1. Slots \in Seq(Frames)
  BY ConcatProperties DEF TypeOK, Slots
<1>2. At \in Seq(Int) /\ DOMAIN At = 1 .. Len(At) /\ Len(At) \in Nat
  BY <1>1, StartsType, LenProperties DEF At
<1>3. Covered \in Int
  BY StreamsAssumption DEF TypeOK, Covered
<1> QED BY <1>2, <1>3 DEF At, Starts, Start, IsReal

\* A sequence and its continuation.
LEMMA ExtendsOld ==
    ASSUME NEW a \in Seq(Int), NEW s \in Seq(Int)
    PROVE  /\ a \o s \in Seq(Int) /\ DOMAIN (a \o s) = 1 .. (Len(a) + Len(s))
           /\ DOMAIN a = 1 .. Len(a) /\ Len(a) \in Nat /\ Len(s) \in Nat
           /\ \A i \in DOMAIN a : i \in DOMAIN (a \o s) /\ (a \o s)[i] = a[i]
           /\ \A i \in 1 .. Len(s) : (a \o s)[Len(a) + i] = s[i]
<1>1. /\ a \o s \in Seq(Int) /\ Len(a \o s) = Len(a) + Len(s)
      /\ \A i \in 1 .. Len(a) + Len(s) :
            (a \o s)[i] = IF i <= Len(a) THEN a[i] ELSE s[i - Len(a)]
  BY ConcatProperties
<1>2. /\ DOMAIN a = 1 .. Len(a) /\ Len(a) \in Nat /\ Len(s) \in Nat
      /\ DOMAIN (a \o s) = 1 .. Len(a \o s)
  BY <1>1, LenProperties
<1>3. ASSUME NEW i \in 1 .. Len(s) PROVE (a \o s)[Len(a) + i] = s[i]
  <2>1. Len(a) + i \in 1 .. Len(a) + Len(s) /\ ~(Len(a) + i <= Len(a)) /\ Len(a) + i - Len(a) = i
    BY <1>2
  <2> QED BY <1>1, <2>1
<1> QED BY <1>1, <1>2, <1>3

\* The four things that can happen.
LEMMA StepCases ==
    ASSUME Inv, Inv', [NextFrame]_vars
    PROVE  /\ stream' = stream /\ stream.syncs \subseteq Nat /\ stream.len \in Nat
           /\ \/ /\ At' = At /\ Covered' = Covered /\ done' = done
              \/ /\ At' = At /\ Covered' = Covered + Step /\ ~done /\ ~done'
                 /\ \A p \in stream.syncs : ~(Covered <= p /\ p < Covered + Step)
              \/ \E q \in stream.syncs :
                    /\ Covered <= q /\ Covered' = q + Step /\ ~done /\ ~done'
                    /\ \A p \in stream.syncs : ~(Covered <= p /\ p < q - Fluct)
                    /\ \/ At' = At \o <<q>>
                       \/ q > Covered + Step /\ At' = At \o <<Zero, q>>
              \/ /\ Covered' = Covered /\ ~done /\ done'
                 /\ \A p \in stream.syncs : ~(Covered <= p /\ p + FrameSymbols <= stream.len)
                 /\ \/ At' = At
                    \/ At' = At \o <<Zero>>
<1>1. Abstract!Next \/ UNCHANGED Abstract!vars
  BY StepRefines
<1>2. /\ At = [i \in DOMAIN Slots |-> Start(Slots[i])]
      /\ At' = [i \in DOMAIN Slots |-> Start(Slots[i])]'
  BY DEF At, Starts
<1>3. /\ stream.syncs \subseteq Nat /\ stream.len \in Nat /\ At \in Seq(Int)
      /\ Zero = Abstract!NoSignal /\ Step = Abstract!Step /\ Zero \in Int
  BY StreamsAssumption, AtSlots DEF Inv, TypeOK, Zero, Abstract!NoSignal, Step, Abstract!Step
<1>4. \A x \in Int : Append(At, x) = At \o <<x>>
  BY <1>3, AppendIsConcat
<1>5. CASE UNCHANGED Abstract!vars
  BY <1>2, <1>3, <1>5 DEF Abstract!vars
<1>6. CASE Abstract!Skip(Abstract!Step)
  BY <1>2, <1>3, <1>6 DEF Abstract!Skip
<1>7. ASSUME NEW q \in stream.syncs, Abstract!Deliver(q)
      PROVE  /\ Covered <= q /\ Covered' = q + Step /\ ~done /\ ~done' /\ stream' = stream
             /\ \A p \in stream.syncs : ~(Covered <= p /\ p < q - Fluct)
             /\ \/ At' = At \o <<q>>
                \/ q > Covered + Step /\ At' = At \o <<Zero, q>>
  <2>1. q \in Int
    BY <1>3
  <2> QED BY <1>2, <1>3, <1>4, <1>7, <2>1 DEF Abstract!Deliver
<1>8. CASE Abstract!Finish
  BY <1>2, <1>3, <1>4, <1>8 DEF Abstract!Finish
<1> QED BY <1>1, <1>3, <1>5, <1>6, <1>7, <1>8 DEF Abstract!Next

-----------------------------------------------------------------------------
(* No frame is lost. *)

\* NoFrameLost, of positions.
LostAt ==
    \A p \in stream.syncs :
        p < Covered \/ (done /\ p + FrameSymbols <= stream.len)
            => \E i \in DOMAIN At : At[i] # Zero /\ Accounts(At[i], p)

\* What a reachable state of the frame sequence says of the frames lost.
LEMMA NoFrameLostAt ==
    ASSUME TypeOK
    PROVE  LostAt <=> NoFrameLost
  BY AtSlots DEF LostAt, NoFrameLost, AccountedFor

\* What was accounted for stays accounted for.
LEMMA StillAccounted ==
    ASSUME NEW a \in Seq(Int), NEW s \in Seq(Int), NEW p,
           \E i \in DOMAIN a : a[i] # Zero /\ Accounts(a[i], p)
    PROVE  \E i \in DOMAIN (a \o s) : (a \o s)[i] # Zero /\ Accounts((a \o s)[i], p)
  BY ExtendsOld

\* A step that covers more, or ends the stream, has accounted for what it passed over.
LEMMA StepLostAt ==
    ASSUME Inv, Inv', LostAt, [NextFrame]_vars
    PROVE  LostAt'
<1>0. /\ At \in Seq(Int) /\ Covered \in Int /\ Zero = -1
      /\ Step \in Int /\ Fluct \in Nat /\ FrameSymbols \in Nat
      /\ stream' = stream /\ stream.syncs \subseteq Nat /\ stream.len \in Nat
  BY AtSlots, StepCases, Sizes DEF Inv, Zero
<1>1. CASE At' = At /\ Covered' = Covered /\ done' = done
  BY <1>0, <1>1 DEF LostAt, Accounts
<1>2. CASE /\ At' = At /\ Covered' = Covered + Step /\ ~done'
           /\ \A p \in stream.syncs : ~(Covered <= p /\ p < Covered + Step)
  <2> SUFFICES ASSUME NEW p \in stream.syncs, p < Covered + Step
               PROVE  \E i \in DOMAIN At : At[i] # Zero /\ Accounts(At[i], p)
    BY <1>0, <1>2 DEF LostAt, Accounts
  <2>1. p < Covered
    BY <1>0, <1>2
  <2> QED BY <2>1 DEF LostAt
<1>3. ASSUME NEW q \in stream.syncs, NEW s \in {<<q>>, <<Zero, q>>},
             Covered <= q, Covered' = q + Step, ~done', At' = At \o s,
             \A p \in stream.syncs : ~(Covered <= p /\ p < q - Fluct)
      PROVE  LostAt'
  <2>1. s \in Seq(Int) /\ q \in Nat
    <3>1. q \in Nat /\ q \in Int /\ Zero \in Int
      BY <1>0
    <3>2. <<q>> \in Seq(Int) /\ <<Zero, q>> \in Seq(Int)
      BY <3>1
    <3> QED BY <3>1, <3>2
  <2>2. \E i \in DOMAIN At' : At'[i] = q
    <3>1. \E i \in 1 .. Len(s) : s[i] = q
      <4>1. CASE s = <<q>>
        BY <4>1
      <4>2. CASE s = <<Zero, q>>
        <5>1. 2 \in 1 .. Len(s) /\ s[2] = q
          BY <4>2
        <5> QED BY <5>1
      <4> QED BY <4>1, <4>2
    <3>2. PICK i \in 1 .. Len(s) : s[i] = q
      BY <3>1
    <3>3. At'[Len(At) + i] = q /\ DOMAIN At' = 1 .. (Len(At) + Len(s)) /\ Len(At) \in Nat
          /\ Len(s) \in Nat
      BY <1>0, <1>3, <2>1, <3>2, ExtendsOld
    <3>4. Len(At) + i \in DOMAIN At'
      BY <3>3
    <3> QED BY <3>3, <3>4
  <2> SUFFICES ASSUME NEW p \in stream.syncs, p < q + Step
               PROVE  \E i \in DOMAIN At' : At'[i] # Zero /\ Accounts(At'[i], p)
    <3>1. ASSUME NEW p \in stream'.syncs,
                 p < Covered' \/ (done' /\ p + FrameSymbols <= stream'.len)
          PROVE  \E i \in DOMAIN At' : At'[i] # Zero /\ Accounts(At'[i], p)
      BY <1>0, <1>3, <3>1
    <3> QED BY <3>1 DEF LostAt, Accounts
  <2>3. CASE p < Covered
    <3>1. \E i \in DOMAIN At : At[i] # Zero /\ Accounts(At[i], p)
      BY <2>3 DEF LostAt
    <3> QED BY <1>0, <1>3, <2>1, <3>1, StillAccounted
  <2>4. CASE ~(p < Covered)
    <3>1. q - Fluct <= p /\ q # Zero
      BY <1>0, <1>3, <2>1, <2>4
    <3> QED BY <1>0, <2>2, <3>1 DEF Accounts
  <2> QED BY <2>3, <2>4
<1>4. ASSUME Covered' = Covered, NEW s \in {<<>>, <<Zero>>}, At' = At \o s,
             \A p \in stream.syncs : ~(Covered <= p /\ p + FrameSymbols <= stream.len)
      PROVE  LostAt'
  <2>1. s \in Seq(Int)
    <3>1. <<>> \in Seq(Int) /\ <<Zero>> \in Seq(Int)
      BY <1>0, EmptySeq
    <3> QED BY <3>1
  <2> SUFFICES ASSUME NEW p \in stream.syncs, p < Covered \/ p + FrameSymbols <= stream.len
               PROVE  \E i \in DOMAIN At' : At'[i] # Zero /\ Accounts(At'[i], p)
    <3>1. ASSUME NEW p \in stream'.syncs,
                 p < Covered' \/ (done' /\ p + FrameSymbols <= stream'.len)
          PROVE  \E i \in DOMAIN At' : At'[i] # Zero /\ Accounts(At'[i], p)
      BY <1>0, <1>4, <3>1
    <3> QED BY <3>1 DEF LostAt, Accounts
  <2>2. p < Covered
    BY <1>0, <1>4
  <2>3. \E i \in DOMAIN At : At[i] # Zero /\ Accounts(At[i], p)
    BY <2>2 DEF LostAt
  <2> QED BY <1>0, <1>4, <2>1, <2>3, StillAccounted
<1>5. At \o <<>> = At
  BY <1>0, ConcatEmptySeq
<1> QED BY <1>1, <1>2, <1>3, <1>4, <1>5, StepCases

\* No sync word of the part of the input that is behind the slicer, and none of a frame
\* the input holds completely when it ends, is without a frame: for every stream, every
\* window, every drift and every way the reads deliver the bytes.
THEOREM NoFrameIsLost == Spec => []NoFrameLost
<1>1. Init => LostAt
  <2> SUFFICES ASSUME Init PROVE LostAt
    OBVIOUS
  <2>1. Covered = 0 /\ ~done /\ stream.syncs \subseteq Nat
    BY StreamsAssumption DEF Init, Covered
  <2> QED BY <2>1 DEF LostAt
<1>2. LostAt /\ Inv /\ Inv' /\ [NextFrame]_vars => LostAt'
  BY StepLostAt
<1>3. Inv /\ LostAt => NoFrameLost
  BY NoFrameLostAt DEF Inv
<1> QED BY <1>1, <1>2, <1>3, BufferMirrorsInput, PTL DEF Spec

-----------------------------------------------------------------------------
(* Frames are in order. *)

OrderAt ==
    \A i, j \in DOMAIN At :
        i < j /\ At[i] # Zero /\ At[j] # Zero => At[i] + Step <= At[j]

\* Where an element of a continued sequence comes from.
LEMMA OldOrNew ==
    ASSUME NEW a \in Seq(Int), NEW s \in Seq(Int), NEW i \in DOMAIN (a \o s)
    PROVE  \/ i \in DOMAIN a /\ (a \o s)[i] = a[i]
           \/ \E k \in 1 .. Len(s) : i = Len(a) + k /\ (a \o s)[i] = s[k]
<1>1. /\ DOMAIN (a \o s) = 1 .. (Len(a) + Len(s)) /\ DOMAIN a = 1 .. Len(a)
      /\ Len(a) \in Nat /\ Len(s) \in Nat
  BY ExtendsOld
<1>2. CASE i <= Len(a)
  BY <1>1, <1>2, ExtendsOld
<1>3. CASE ~(i <= Len(a))
  <2>1. i - Len(a) \in 1 .. Len(s) /\ i = Len(a) + (i - Len(a))
    BY <1>1, <1>3
  <2> QED BY <2>1, ExtendsOld
<1> QED BY <1>2, <1>3

\* What can be added: at most one frame, behind everything covered.
LEMMA OrderExtends ==
    ASSUME At \in Seq(Int), Covered \in Int, AllCovered, OrderAt, Step \in Nat,
           NEW q \in Int, Covered <= q, NEW c \in Int, q + Step <= c,
           NEW s \in {<<q>>, <<Zero, q>>}, NEW b, b = At \o s
    PROVE  /\ \A i \in DOMAIN b : b[i] # Zero => b[i] + Step <= c
           /\ \A i, j \in DOMAIN b :
                i < j /\ b[i] # Zero /\ b[j] # Zero => b[i] + Step <= b[j]
<1>1. s \in Seq(Int)
  <2>1. <<q>> \in Seq(Int) /\ <<Zero, q>> \in Seq(Int)
    BY DEF Zero
  <2> QED BY <2>1
<1>2. \A k \in 1 .. Len(s) : s[k] = Zero \/ (k = Len(s) /\ s[k] = q)
  <2>1. CASE s = <<q>>
    BY <2>1
  <2>2. CASE s = <<Zero, q>>
    BY <2>2
  <2> QED BY <2>1, <2>2
<1>3. ASSUME NEW i \in DOMAIN b, b[i] # Zero
      PROVE  \/ i \in DOMAIN At /\ b[i] = At[i] /\ At[i] + Step <= Covered
             \/ i = Len(At) + Len(s) /\ b[i] = q
  BY <1>1, <1>2, <1>3, OldOrNew DEF AllCovered
<1>4. ASSUME NEW i \in DOMAIN At PROVE At[i] \in Int /\ i \in 1 .. Len(At) /\ Len(At) \in Nat
  BY ElementOfSeq, LenProperties
<1>5. Len(s) \in Nat /\ Len(At) \in Nat
  BY <1>1, LenProperties
<1>6. ASSUME NEW i \in DOMAIN b, b[i] # Zero PROVE b[i] + Step <= c
  BY <1>3, <1>4, <1>6
<1>7. ASSUME NEW i \in DOMAIN b, NEW j \in DOMAIN b, i < j, b[i] # Zero, b[j] # Zero
      PROVE  b[i] + Step <= b[j]
  <2>1. CASE j = Len(At) + Len(s) /\ b[j] = q /\ i \in DOMAIN At
    <3>1. b[i] = At[i]
      BY <1>1, <2>1, ExtendsOld
    <3>2. At[i] + Step <= Covered /\ At[i] \in Int
      BY <1>4, <1>7, <2>1, <3>1 DEF AllCovered
    <3> QED BY <2>1, <3>1, <3>2
  <2>2. CASE j \in DOMAIN At /\ b[j] = At[j] /\ i \in DOMAIN At
    <3>1. b[i] = At[i]
      BY <1>1, <2>2, ExtendsOld
    <3> QED BY <1>7, <2>2, <3>1 DEF OrderAt
  <2>3. CASE i = Len(At) + Len(s)
    BY <1>3, <1>4, <1>5, <1>7, <2>3
  <2> QED BY <1>3, <1>7, <2>1, <2>2, <2>3
<1> QED BY <1>6, <1>7

\* A step of the frame sequence keeps the slots in stream order.
LEMMA StepOrderAt ==
    ASSUME Inv, Inv', AllCovered, OrderAt, [NextFrame]_vars
    PROVE  AllCovered' /\ OrderAt'
<1>0. /\ At \in Seq(Int) /\ Covered \in Int /\ Step \in Nat
      /\ stream.syncs \subseteq Nat
      /\ \A i \in DOMAIN At : At[i] \in Int
  <2>1. At \in Seq(Int) /\ Covered \in Int /\ Step \in Nat /\ stream.syncs \subseteq Nat
    BY AtSlots, StepCases, Sizes DEF Inv
  <2>2. \A i \in DOMAIN At : At[i] \in Int
    BY <2>1, ElementOfSeq, LenProperties
  <2> QED BY <2>1, <2>2
<1>1. CASE At' = At /\ (Covered' = Covered \/ Covered' = Covered + Step)
  BY <1>0, <1>1 DEF AllCovered, OrderAt
<1>2. ASSUME NEW q \in stream.syncs, NEW s \in {<<q>>, <<Zero, q>>},
             Covered <= q, Covered' = q + Step, At' = At \o s
      PROVE  AllCovered' /\ OrderAt'
  <2>1. q \in Int /\ q + Step \in Int /\ q + Step <= q + Step
    BY <1>0
  <2>2. /\ \A i \in DOMAIN At' : At'[i] # Zero => At'[i] + Step <= q + Step
        /\ \A i, j \in DOMAIN At' :
              i < j /\ At'[i] # Zero /\ At'[j] # Zero => At'[i] + Step <= At'[j]
    BY <1>0, <1>2, <2>1, OrderExtends
  <2> QED BY <1>2, <2>2 DEF AllCovered, OrderAt
<1>3. CASE Covered' = Covered /\ At' = At \o <<Zero>>
  <2>1. <<Zero>> \in Seq(Int) /\ Len(<<Zero>>) = 1 /\ \A k \in 1 .. 1 : <<Zero>>[k] = Zero
    BY DEF Zero
  <2>2. \A i \in DOMAIN At' : At'[i] # Zero => i \in DOMAIN At /\ At'[i] = At[i]
    BY <1>0, <1>3, <2>1, OldOrNew
  <2> QED BY <1>0, <1>3, <2>2 DEF AllCovered, OrderAt
<1> QED BY <1>1, <1>2, <1>3, StepCases

\* The frames come out in stream order and share no symbol but the drift; the one held
\* back behind a placeholder is not overtaken.
THEOREM FramesAreInOrder == Spec => []FramesInOrder
<1>1. Init => AllCovered /\ OrderAt
  <2> SUFFICES ASSUME Init PROVE DOMAIN At = {}
    BY DEF AllCovered, OrderAt
  <2>1. Slots = <<>>
    BY DEF Init, Slots
  <2> QED BY <2>1 DEF At, Starts
<1>2. AllCovered /\ OrderAt /\ Inv /\ Inv' /\ [NextFrame]_vars => AllCovered' /\ OrderAt'
  BY StepOrderAt
<1>3. Inv /\ OrderAt => FramesInOrder
  BY AtSlots DEF Inv, OrderAt, FramesInOrder
<1> QED BY <1>1, <1>2, <1>3, BufferMirrorsInput, PTL DEF Spec

-----------------------------------------------------------------------------
(* Placeholders stand for holes. *)

\* PlaceholderFillsHole, of positions.
HoleAt ==
    \A i \in DOMAIN At : At[i] = Zero =>
        \/ i = Len(At) /\ done
        \/ /\ i < Len(At)
           /\ At[i + 1] # Zero
           /\ At[i + 1] > Step + (IF i = 1 THEN 0 ELSE At[i - 1] + Step)

\* Before the end the last slot is a frame, and nothing is covered yet in front of the first.
LEMMA LastIsFrame ==
    ASSUME Inv, AllCovered, HoleAt, ~done
    PROVE  /\ Covered \in Nat /\ Len(At) \in Nat
           /\ Len(At) > 0 => At[Len(At)] \in Int /\ At[Len(At)] # Zero /\ At[Len(At)] + Step <= Covered
<1>1. Covered \in Nat
  BY StreamsAssumption DEF Inv, TypeOK, Mirror, Covered
<1>2. At \in Seq(Int) /\ Len(At) \in Nat /\ DOMAIN At = 1 .. Len(At)
  BY AtSlots DEF Inv
<1>3. ASSUME Len(At) > 0
      PROVE  At[Len(At)] \in Int /\ At[Len(At)] # Zero /\ At[Len(At)] + Step <= Covered
  <2>1. Len(At) \in DOMAIN At
    BY <1>2, <1>3
  <2>2. At[Len(At)] # Zero
    <3>1. \A i \in DOMAIN At : At[i] = Zero => done \/ i < Len(At)
      BY ZenonT(30) DEF HoleAt
    <3> QED BY <1>2, <2>1, <3>1
  <2>3. At[Len(At)] \in Int
    BY <1>2, <2>1, ElementOfSeq
  <2> QED BY <2>1, <2>2, <2>3 DEF AllCovered
<1> QED BY <1>1, <1>2, <1>3

\* A frame more, with a placeholder in front only behind a hole.
LEMMA HoleExtends ==
    ASSUME Inv, AllCovered, HoleAt, ~done, NEW q \in Nat,
           NEW s, s = <<q>> \/ (q > Covered + Step /\ s = <<Zero, q>>), At' = At \o s
    PROVE  HoleAt'
<1>0. /\ At \in Seq(Int) /\ Len(At) \in Nat /\ DOMAIN At = 1 .. Len(At)
      /\ Step \in Nat /\ Covered \in Nat /\ Zero = -1
      /\ Len(At) > 0 => At[Len(At)] \in Int /\ At[Len(At)] # Zero /\ At[Len(At)] + Step <= Covered
  BY AtSlots, LastIsFrame, Sizes DEF Inv, Zero
<1>1. s \in Seq(Int) /\ Len(s) \in 1 .. 2 /\ s[Len(s)] = q
  <2>1. CASE s = <<q>>
    BY <2>1
  <2>2. CASE s = <<Zero, q>>
    BY <1>0, <2>2
  <2> QED BY <2>1, <2>2
<1>2. /\ Len(At') = Len(At) + Len(s) /\ DOMAIN At' = 1 .. (Len(At) + Len(s))
      /\ \A i \in 1 .. Len(At) : At'[i] = At[i]
      /\ \A k \in 1 .. Len(s) : At'[Len(At) + k] = s[k]
  <2>1. At' \in Seq(Int) /\ DOMAIN At' = 1 .. (Len(At) + Len(s)) /\ DOMAIN At' = 1 .. Len(At')
    BY <1>0, <1>1, ExtendsOld, LenProperties
  <2>2. Len(At') \in Nat
    BY <2>1, LenProperties
  <2>3. Len(At') = Len(At) + Len(s)
    BY <1>0, <1>1, <2>1, ConcatProperties
  <2> QED BY <1>0, <1>1, <2>1, <2>3, ExtendsOld
<1> SUFFICES ASSUME NEW i \in 1 .. (Len(At) + Len(s)), At'[i] = Zero
             PROVE  /\ i < Len(At) + Len(s)
                    /\ At'[i + 1] # Zero
                    /\ At'[i + 1] > Step + (IF i = 1 THEN 0 ELSE At'[i - 1] + Step)
  BY <1>2 DEF HoleAt
<1>3. CASE i \in 1 .. Len(At)
  <2>1. At[i] = Zero /\ i \in DOMAIN At
    BY <1>0, <1>2, <1>3
  <2>2. /\ i < Len(At) /\ At[i + 1] # Zero
        /\ At[i + 1] > Step + (IF i = 1 THEN 0 ELSE At[i - 1] + Step)
    BY <1>0, <2>1 DEF HoleAt
  <2>3. At'[i + 1] = At[i + 1]
    BY <1>0, <1>2, <1>3, <2>2
  <2>4. i # 1 => At'[i - 1] = At[i - 1]
    <3>1. i # 1 => i - 1 \in 1 .. Len(At)
      BY <1>0, <1>3
    <3> QED BY <1>2, <3>1
  <2> QED BY <1>0, <1>1, <1>3, <2>2, <2>3, <2>4
<1>4. CASE ~(i \in 1 .. Len(At))
  <2>1. i - Len(At) \in 1 .. Len(s) /\ i = Len(At) + (i - Len(At))
    BY <1>0, <1>1, <1>4
  <2>2. s[i - Len(At)] = Zero
    BY <1>2, <2>1
  <2>3. i = Len(At) + 1 /\ s = <<Zero, q>> /\ q > Covered + Step
    <3>1. CASE s = <<q>>
      <4>1. i - Len(At) = 1 /\ s[1] = q
        BY <2>1, <3>1
      <4> QED BY <1>0, <2>2, <4>1
    <3>2. CASE s = <<Zero, q>> /\ q > Covered + Step
      <4>1. Len(s) = 2 /\ s[2] = q
        BY <3>2
      <4>2. i - Len(At) # 2
        BY <1>0, <2>2, <4>1
      <4>3. i - Len(At) \in 1 .. 2 /\ i \in Int /\ Len(At) \in Int
        BY <1>0, <1>1, <2>1, <4>1
      <4>4. i = Len(At) + 1
        BY <4>2, <4>3
      <4> QED BY <3>2, <4>4
    <3> QED BY <3>1, <3>2
  <2>4. Len(s) = 2 /\ At'[i + 1] = q
    <3>1. Len(s) = 2 /\ s[2] = q /\ 2 \in 1 .. Len(s)
      BY <2>3
    <3>2. At'[Len(At) + 2] = q
      BY <1>2, <3>1
    <3> QED BY <1>0, <2>3, <3>1, <3>2
  <2>5. i # 1 => At'[i - 1] = At[Len(At)] /\ At[Len(At)] \in Int /\ At[Len(At)] + Step <= Covered
    <3>1. i # 1 => Len(At) \in 1 .. Len(At) /\ i - 1 = Len(At) /\ Len(At) > 0
      BY <1>0, <2>3
    <3> QED BY <1>0, <1>2, <3>1
  <2> QED BY <1>0, <2>3, <2>4, <2>5
<1> QED BY <1>3, <1>4

\* Nothing changes, or a placeholder ends it all.
LEMMA HoleEnds ==
    ASSUME Inv, AllCovered, HoleAt, ~done, done', At' = At \/ At' = At \o <<Zero>>
    PROVE  HoleAt'
<1>1. /\ At \in Seq(Int) /\ Len(At) \in Nat /\ DOMAIN At = 1 .. Len(At) /\ Zero \in Int
  BY AtSlots DEF Inv, Zero
<1>2. CASE At' = At
  BY <1>1, <1>2 DEF HoleAt
<1>3. CASE At' = At \o <<Zero>>
  <2>1. <<Zero>> \in Seq(Int) /\ Len(<<Zero>>) = 1
    BY <1>1
  <2>2. /\ Len(At') = Len(At) + 1 /\ DOMAIN At' = 1 .. (Len(At) + 1)
        /\ \A i \in 1 .. Len(At) : At'[i] = At[i]
    <3>1. DOMAIN At' = 1 .. (Len(At) + Len(<<Zero>>)) /\ \A i \in DOMAIN At : At'[i] = At[i]
      BY <1>1, <1>3, <2>1, ExtendsOld
    <3>2. Len(At') = Len(At) + Len(<<Zero>>)
      BY <1>1, <1>3, <2>1, ConcatProperties
    <3> QED BY <1>1, <2>1, <3>1, <3>2
  <2> SUFFICES ASSUME NEW i \in 1 .. Len(At), At[i] = Zero
               PROVE  /\ i < Len(At) + 1
                      /\ At'[i + 1] # Zero
                      /\ At'[i + 1] > Step + (IF i = 1 THEN 0 ELSE At'[i - 1] + Step)
    <3>1. ASSUME NEW i \in 1 .. (Len(At) + 1), At'[i] = Zero
          PROVE  \/ i = Len(At')
                 \/ /\ i < Len(At')
                    /\ At'[i + 1] # Zero
                    /\ At'[i + 1] > Step + (IF i = 1 THEN 0 ELSE At'[i - 1] + Step)
      <4>1. CASE i = Len(At) + 1
        BY <2>2, <4>1
      <4>2. CASE i # Len(At) + 1
        <5>1. i \in 1 .. Len(At) /\ At[i] = Zero
          BY <1>1, <2>2, <3>1, <4>2
        <5> QED BY <2>2, <5>1
      <4> QED BY <4>1, <4>2
    <3> QED BY <2>2, <3>1 DEF HoleAt
  <2>3. /\ i < Len(At) /\ At[i + 1] # Zero
        /\ At[i + 1] > Step + (IF i = 1 THEN 0 ELSE At[i - 1] + Step)
    BY <1>1 DEF HoleAt
  <2>4. At'[i + 1] = At[i + 1]
    BY <1>1, <2>2, <2>3
  <2>5. i # 1 => At'[i - 1] = At[i - 1]
    <3>1. i # 1 => i - 1 \in 1 .. Len(At)
      BY <1>1
    <3> QED BY <2>2, <3>1
  <2> QED BY <1>1, <2>3, <2>4, <2>5
<1> QED BY <1>2, <1>3

\* A step puts a placeholder only where a slot was missed, or at the end.
LEMMA StepHoleAt ==
    ASSUME Inv, Inv', AllCovered, HoleAt, [NextFrame]_vars
    PROVE  HoleAt'
<1>1. CASE At' = At /\ (done => done')
  BY <1>1 DEF HoleAt
<1>2. ASSUME NEW q \in stream.syncs, ~done,
             At' = At \o <<q>> \/ (q > Covered + Step /\ At' = At \o <<Zero, q>>)
      PROVE  HoleAt'
  <2>1. q \in Nat
    BY StepCases
  <2> QED BY <1>2, <2>1, HoleExtends
<1>3. CASE ~done /\ done' /\ (At' = At \/ At' = At \o <<Zero>>)
  BY <1>3, HoleEnds
<1> QED BY <1>1, <1>2, <1>3, StepCases

\* A placeholder stands in front of a frame that starts more than a slot behind the end of
\* what came before, or at the end of the stream, whatever the reads deliver.
THEOREM PlaceholdersFillHoles == Spec => []PlaceholderFillsHole
<1>1. Init => AllCovered /\ OrderAt /\ HoleAt
  <2> SUFFICES ASSUME Init PROVE DOMAIN At = {}
    BY DEF AllCovered, OrderAt, HoleAt
  <2>1. Slots = <<>>
    BY DEF Init, Slots
  <2> QED BY <2>1 DEF At, Starts
<1>2. /\ AllCovered /\ OrderAt /\ HoleAt /\ Inv /\ Inv' /\ [NextFrame]_vars
      => AllCovered' /\ OrderAt' /\ HoleAt'
  BY StepOrderAt, StepHoleAt
<1>3. Inv /\ HoleAt => PlaceholderFillsHole
  <2> SUFFICES ASSUME Inv, HoleAt PROVE PlaceholderFillsHole
    OBVIOUS
  <2>1. /\ DOMAIN At = 1 .. Len(At) /\ Len(At) \in Nat /\ DOMAIN At = DOMAIN Slots
        /\ \A i \in DOMAIN At : At[i] = Start(Slots[i]) /\ (IsReal(Slots[i]) <=> At[i] # Zero)
    BY AtSlots DEF Inv
  <2>2. Len(Slots) = Len(At)
    <3>1. Slots \in Seq(Frames)
      BY ConcatProperties DEF Inv, TypeOK, Slots
    <3> QED BY <2>1, <3>1, LenProperties
  <2> QED BY <2>1, <2>2 DEF HoleAt, PlaceholderFillsHole
<1> QED BY <1>1, <1>2, <1>3, BufferMirrorsInput, PTL DEF Spec

-----------------------------------------------------------------------------
(* Frames are intact. *)

\* FramesIntact, of one frame.
Intact(f) ==
    IsReal(f) => /\ Start(f) \in stream.syncs
                 /\ \A k \in Offsets : Start(f) + k < stream.len => f[k] = Start(f) + k

AllIntact == \A i \in DOMAIN Slots : Intact(Slots[i])

\* A cut frame is a stretch of the input from a sync word on: in the scan all of it is
\* valid, and in the drain all of it that the input has.
LEMMA CutIsIntact ==
    ASSUME Inv, NEW ret \in Probed, Found(ret),
           eof \/ 2 * FrameSymbols < valid
    PROVE  Intact(FrameAt(ret))
<1>1. /\ TypeOK /\ Mirror /\ ReadAll /\ ret \in Nat /\ FrameSymbols <= valid
      /\ ret + FrameSymbols <= valid \/ ret = Fluct
      /\ taken \in Nat /\ valid \in 0 .. 3 * FrameSymbols /\ stream.len \in Nat
      /\ Covered = taken - valid /\ Covered \in Nat
  BY ProbedInside, StreamsAssumption, Sizes DEF Inv, TypeOK, Mirror, Covered
<1>2. Start(FrameAt(ret)) = Covered + ret /\ Covered + ret \in stream.syncs
  BY <1>1, FrameStart, SearchSeesInput DEF Found, Hits
<1>3. ASSUME NEW k \in Offsets, Covered + ret + k < stream.len
      PROVE  FrameAt(ret)[k] = Covered + ret + k
  <2>1. k \in Nat /\ k < FrameSymbols
    BY Sizes DEF Offsets
  <2>2. ret + k < valid
    <3>1. CASE eof
      BY <1>1, <1>3, <2>1, <3>1 DEF ReadAll
    <3>2. CASE 2 * FrameSymbols < valid
      BY <1>1, <2>1, <3>2, Sizes
    <3> QED BY <3>1, <3>2
  <2>3. ret + k \in Cells
    BY <1>1, <2>1, <2>2, Sizes DEF Cells
  <2>4. rbuf[ret + k] = Covered + (ret + k)
    BY <1>1, <2>2, <2>3 DEF Mirror
  <2> QED BY <1>1, <2>1, <2>4 DEF FrameAt
<1> QED BY <1>2, <1>3 DEF Intact

\* A placeholder is no real frame.
LEMMA PlaceholderIntact == Intact(NO_SIGNAL_FRAME)
  BY Sizes DEF Intact, IsReal, NO_SIGNAL_FRAME, Offsets

\* One more intact frame.
LEMMA AppendIntact ==
    ASSUME NEW s \in Seq(Frames), NEW f \in Frames, Intact(f),
           \A i \in DOMAIN s : Intact(s[i])
    PROVE  Append(s, f) \in Seq(Frames) /\ \A i \in DOMAIN Append(s, f) : Intact(Append(s, f)[i])
<1>1. /\ Append(s, f) \in Seq(Frames) /\ Len(Append(s, f)) = Len(s) + 1 /\ Len(s) \in Nat
      /\ \A i \in 1 .. Len(s) : Append(s, f)[i] = s[i]
      /\ Append(s, f)[Len(s) + 1] = f
      /\ DOMAIN s = 1 .. Len(s) /\ DOMAIN Append(s, f) = 1 .. (Len(s) + 1)
  BY AppendProperties, LenProperties
<1>2. ASSUME NEW i \in 1 .. (Len(s) + 1) PROVE Intact(Append(s, f)[i])
  <2>1. CASE i = Len(s) + 1
    BY <1>1, <2>1
  <2>2. CASE i \in 1 .. Len(s)
    BY <1>1, <2>2
  <2> QED BY <1>1, <2>1, <2>2
<1> QED BY <1>1, <1>2

\* What every step does to the slots.
LEMMA SlotSteps ==
    ASSUME Inv, [NextFrame]_vars
    PROVE  /\ stream' = stream
           /\ \/ Slots' = Slots
              \/ Slots' = Append(Slots, NO_SIGNAL_FRAME)
              \/ \E ret \in Probed :
                    /\ Found(ret) /\ (eof \/ 2 * FrameSymbols < valid)
                    /\ \/ Slots' = Append(Slots, FrameAt(ret))
                       \/ Slots' = Append(Append(Slots, NO_SIGNAL_FRAME), FrameAt(ret))
<1>0. TypeOK /\ out \in Seq(Frames) /\ pending \in Seq(Frames) /\ NO_SIGNAL_FRAME \in Frames
      /\ Append(out, NO_SIGNAL_FRAME) \in Seq(Frames)
  BY PlaceholderType, AppendProperties DEF Inv, TypeOK
<1>1. CASE TakePending
  <2>1. out \o pending \in Seq(Frames)
    BY <1>0, ConcatProperties
  <2>2. (out \o pending) \o <<>> = out \o pending
    BY <2>1, ConcatEmptySeq
  <2> QED BY <1>1, <2>2 DEF TakePending, Slots
<1>2. CASE \/ \E n \in 1 .. FrameSymbols : ReadMore(n)
           \/ ReadEof \/ ReadError \/ SlideForward \/ ReturnNone \/ UNCHANGED vars
  BY <1>2 DEF ReadMore, ReadEof, ReadError, SlideForward, ReturnNone, vars, Slots
<1>3. ASSUME NEW ret \in Probed, ConsumeWithNoSignal(ret)
      PROVE  /\ stream' = stream /\ Found(ret) /\ 2 * FrameSymbols < valid
             /\ \/ Slots' = Append(Slots, FrameAt(ret))
                \/ Slots' = Append(Append(Slots, NO_SIGNAL_FRAME), FrameAt(ret))
  <2>1. /\ pending = <<>> /\ Found(ret) /\ stream' = stream /\ valid > 2 * FrameSymbols
        /\ FrameAt(ret) \in Frames /\ Slots = out
        /\ Append(out, FrameAt(ret)) \in Seq(Frames)
    BY <1>0, <1>3, FrameAtType, NothingPending, AppendProperties
       DEF ConsumeWithNoSignal, Scanning, Searching
  <2>2. CASE ret > Step
    <3>1. Slots' = Append(out, NO_SIGNAL_FRAME) \o <<FrameAt(ret)>>
      BY <1>3, <2>2 DEF ConsumeWithNoSignal, Slots
    <3> QED BY <1>0, <2>1, <3>1, AppendIsConcat
  <2>3. CASE ~(ret > Step)
    <3>1. Slots' = Append(out, FrameAt(ret)) \o <<>>
      BY <1>3, <2>1, <2>3 DEF ConsumeWithNoSignal, Slots
    <3> QED BY <2>1, <3>1, ConcatEmptySeq
  <2>4. 2 * FrameSymbols < valid
    BY <2>1, Sizes DEF TypeOK, Inv
  <2> QED BY <2>1, <2>2, <2>3, <2>4
<1>4. ASSUME NEW ret \in Probed, DrainConsume(ret)
      PROVE  stream' = stream /\ Found(ret) /\ eof /\ Slots' = Append(Slots, FrameAt(ret))
  <2>1. /\ pending = <<>> /\ pending' = <<>> /\ Found(ret) /\ stream' = stream /\ eof
        /\ out' = Append(out, FrameAt(ret)) /\ Slots = out
        /\ Append(out, FrameAt(ret)) \in Seq(Frames)
    BY <1>0, <1>4, FrameAtType, NothingPending, AppendProperties
       DEF DrainConsume, Draining, Searching
  <2> QED BY <2>1, ConcatEmptySeq DEF Slots
<1>5. CASE DrainFinish
  <2>1. /\ pending = <<>> /\ pending' = <<>> /\ stream' = stream /\ Slots = out
        /\ out' = out \/ out' = Append(out, NO_SIGNAL_FRAME)
    BY <1>0, <1>5, NothingPending DEF DrainFinish, Draining, Searching
  <2> QED BY <1>0, <2>1, ConcatEmptySeq DEF Slots
<1> QED BY <1>1, <1>2, <1>3, <1>4, <1>5 DEF NextFrame

\* Steps keep frames intact.
LEMMA StepIntact ==
    ASSUME Inv, AllIntact, [NextFrame]_vars
    PROVE  AllIntact'
<1>1. /\ Slots \in Seq(Frames) /\ NO_SIGNAL_FRAME \in Frames
      /\ \A ret \in Probed : FrameAt(ret) \in Frames
      /\ \A i \in DOMAIN Slots : Intact(Slots[i])
  BY ConcatProperties, PlaceholderType, FrameAtType DEF Inv, TypeOK, Slots, AllIntact
<1>2. stream' = stream
  BY SlotSteps
<1>3. ASSUME NEW s, Slots' = s, \A i \in DOMAIN s : Intact(s[i]) PROVE AllIntact'
  BY <1>2, <1>3 DEF AllIntact, Intact
<1>4. Append(Slots, NO_SIGNAL_FRAME) \in Seq(Frames)
      /\ \A i \in DOMAIN Append(Slots, NO_SIGNAL_FRAME) : Intact(Append(Slots, NO_SIGNAL_FRAME)[i])
  BY <1>1, PlaceholderIntact, AppendIntact
<1>5. ASSUME NEW ret \in Probed, Found(ret), eof \/ 2 * FrameSymbols < valid,
             \/ Slots' = Append(Slots, FrameAt(ret))
             \/ Slots' = Append(Append(Slots, NO_SIGNAL_FRAME), FrameAt(ret))
      PROVE  AllIntact'
  <2>1. FrameAt(ret) \in Frames /\ Intact(FrameAt(ret))
    BY <1>1, <1>5, CutIsIntact
  <2> QED BY <1>1, <1>3, <1>4, <1>5, <2>1, AppendIntact
<1> QED BY <1>1, <1>3, <1>4, <1>5, SlotSteps

\* Every frame returned is a stretch of the input that begins at a sync word, except past
\* the input's end.
THEOREM FramesAreIntact == Spec => []FramesIntact
<1>1. Init => AllIntact
  BY DEF Init, AllIntact, Slots
<1>2. Inv /\ AllIntact /\ [NextFrame]_vars => AllIntact'
  BY StepIntact
<1>3. AllIntact => FramesIntact
  BY DEF AllIntact, Intact, FramesIntact
<1> QED BY <1>1, <1>2, <1>3, BufferMirrorsInput, PTL DEF Spec
-----------------------------------------------------------------------------
(* A synced stream is framed as it was sent. *)

Before(S, p) == {q \in S : q < p}

\* The frames so far are the first sync words, one each, and the next is within reach of a
\* search that has seen a whole frame more.
FramedAt ==
    /\ \A i \in DOMAIN At : At[i] = Zero => i = Len(At) /\ done
    /\ \A i \in DOMAIN At : At[i] # Zero =>
          /\ At[i] \in stream.syncs
          /\ IsFiniteSet(Before(stream.syncs, At[i]))
          /\ Cardinality(Before(stream.syncs, At[i])) = i - 1
    /\ ~done => Covered <= IF Len(At) = 0 THEN Step ELSE At[Len(At)] + FrameSymbols + Fluct

\* Only the scan, which sees more than two frames, passes over a step without a frame or
\* puts two slots in one go.
LEMMA OnlyScanning ==
    ASSUME Inv, [NextFrame]_vars
    PROVE  \/ Covered' = Covered
           \/ Len(At') = Len(At) + 1
           \/ Covered + 2 * FrameSymbols < stream.len
<1>1. /\ TypeOK /\ FrameSymbols \in Nat /\ stream.len \in Nat
      /\ taken \in 0 .. stream.len /\ valid \in Nat
  BY Sizes, StreamsAssumption DEF Inv, TypeOK
<1>2. CASE Scanning
  BY <1>1, <1>2 DEF Scanning, Covered
<1>3. CASE \/ TakePending \/ ReadEof \/ ReadError \/ DrainFinish \/ ReturnNone
           \/ UNCHANGED vars
  BY <1>3 DEF TakePending, ReadEof, ReadError, DrainFinish, ReturnNone, vars, Covered
<1>4. ASSUME NEW n \in 1 .. FrameSymbols, ReadMore(n) PROVE Covered' = Covered
  BY <1>1, <1>4 DEF ReadMore, Covered
<1>5. CASE SlideForward \/ \E ret \in Probed : ConsumeWithNoSignal(ret)
  BY <1>2, <1>5 DEF SlideForward, ConsumeWithNoSignal
<1>6. ASSUME NEW ret \in Probed, DrainConsume(ret) PROVE Len(At') = Len(At) + 1
  <2>1. /\ pending = <<>> /\ pending' = <<>> /\ out \in Seq(Frames) /\ Slots = out
        /\ out' = Append(out, FrameAt(ret)) /\ FrameAt(ret) \in Frames
    BY <1>1, <1>6, FrameAtType, NothingPending
       DEF DrainConsume, Draining, Searching, TypeOK
  <2>2. out' \in Seq(Frames) /\ Len(out') = Len(out) + 1 /\ Slots' = out'
    BY <2>1, AppendProperties, ConcatEmptySeq DEF Slots
  <2>3. At = Starts(out) /\ At' = Starts(out')
    BY <2>1, <2>2 DEF At, Starts
  <2> QED BY <2>1, <2>2, <2>3, StartsType
<1> QED BY <1>2, <1>3, <1>4, <1>5, <1>6 DEF NextFrame
\* What a synced stream and a state before the end give.
Framing == Inv /\ LostAt /\ AllCovered /\ OrderAt /\ FramedAt

\* Sync words are further apart than the drift.
LEMMA SyncFacts ==
    ASSUME Inv, Synced(stream)
    PROVE  /\ stream.syncs \subseteq Nat /\ stream.len \in Nat
           /\ \A p, q \in stream.syncs : p < q => p + Step <= q
           /\ \E p \in stream.syncs : p <= Step
           /\ \A p \in stream.syncs : p + FrameSymbols + Fluct <= stream.len =>
                 \E q \in stream.syncs : p + Step <= q /\ q <= p + FrameSymbols + Fluct
           /\ Step \in Nat /\ Fluct < Step /\ 2 * Fluct <= Step /\ FrameSymbols = Step + Fluct
           /\ FrameSymbols \in Nat /\ Fluct \in Nat
<1>1. /\ stream.syncs \subseteq Nat /\ stream.len \in Nat
      /\ Step \in Nat /\ Fluct < Step /\ 2 * Fluct <= Step /\ FrameSymbols = Step + Fluct
      /\ FrameSymbols \in Nat /\ Fluct \in Nat
  BY Sizes, SizesAssumption, StreamsAssumption DEF Inv, TypeOK
<1>2. ASSUME NEW p \in stream.syncs, p + FrameSymbols + Fluct <= stream.len
      PROVE  \E q \in stream.syncs : p + Step <= q /\ q <= p + FrameSymbols + Fluct
  <2>1. p \in Nat /\ ~(p > stream.len - FrameSymbols - Fluct)
    BY <1>1, <1>2
  <2>2. PICK q \in stream.syncs : q - p \in Step .. FrameSymbols + Fluct
    BY <2>1 DEF Synced
  <2> QED BY <1>1, <2>1, <2>2
<1>3. /\ \A p, q \in stream.syncs : p < q => p + Step <= q
      /\ \E p \in stream.syncs : p <= Step
  BY DEF Synced
<1> QED BY <1>1, <1>2, <1>3

\* The last frame, if any, is a sync word in what is covered, and all before it are cut.
LEMMA LastFramed ==
    ASSUME Framing, Synced(stream), ~done
    PROVE  /\ Covered \in Nat /\ Len(At) \in Nat
           /\ Len(At) > 0 => /\ At[Len(At)] \in stream.syncs
                             /\ At[Len(At)] + Step <= Covered
                             /\ \A p \in stream.syncs : p < Covered => p <= At[Len(At)]
           /\ Len(At) = 0 => \A p \in stream.syncs : ~(p < Covered)
<1>1. /\ Covered \in Nat /\ At \in Seq(Int) /\ Len(At) \in Nat /\ DOMAIN At = 1 .. Len(At)
      /\ \A i \in DOMAIN At : At[i] \in Int
  BY AtSlots, ElementOfSeq, StreamsAssumption DEF Framing, Inv, TypeOK, Mirror, Covered
<1>2. \A i \in DOMAIN At : At[i] # Zero /\ At[i] \in stream.syncs
  BY DEF Framing, FramedAt
<1>3. ASSUME NEW p \in stream.syncs, p < Covered PROVE \E i \in DOMAIN At : At[i] = p
  <2>1. PICK i \in DOMAIN At : Accounts(At[i], p)
    BY <1>3 DEF Framing, LostAt
  <2>2. At[i] \in stream.syncs
    BY <1>2
  <2>3. At[i] \in Nat /\ p \in Nat /\ At[i] - Fluct <= p /\ p < At[i] + Step
    BY <2>1, <2>2, SyncFacts DEF Accounts, Framing
  <2>4. (At[i] < p => At[i] + Step <= p) /\ (p < At[i] => p + Step <= At[i])
    BY <2>2, SyncFacts DEF Framing
  <2>5. At[i] = p
    BY <2>3, <2>4, SyncFacts DEF Framing
  <2> QED BY <2>5
<1>4. CASE Len(At) = 0
  BY <1>1, <1>3, <1>4
<1>5. CASE Len(At) > 0
  <2>1. Len(At) \in DOMAIN At
    BY <1>1, <1>5
  <2>2. At[Len(At)] \in stream.syncs /\ At[Len(At)] + Step <= Covered
    BY <1>2, <2>1 DEF Framing, AllCovered
  <2>3. ASSUME NEW p \in stream.syncs, p < Covered PROVE p <= At[Len(At)]
    <3>1. PICK i \in DOMAIN At : At[i] = p
      BY <1>3, <2>3
    <3>2. CASE i = Len(At)
      BY <1>1, <3>1, <3>2
    <3>3. CASE i < Len(At)
      <4>1. At[i] + Step <= At[Len(At)]
        BY <1>2, <2>1, <3>3 DEF Framing, OrderAt
      <4> QED BY <1>1, <2>1, <3>1, <4>1, SyncFacts DEF Framing
    <3> QED BY <1>1, <3>2, <3>3
  <2> QED BY <1>1, <1>5, <2>2, <2>3
<1> QED BY <1>1, <1>4, <1>5

\* With more than two frames still to come there is a next sync word, within a step.
LEMMA NextInReach ==
    ASSUME Framing, Synced(stream), ~done, Covered + 2 * FrameSymbols < stream.len
    PROVE  \E p \in stream.syncs :
              /\ Covered <= p /\ p <= Covered + Step
              /\ p <= IF Len(At) = 0 THEN Step ELSE At[Len(At)] + FrameSymbols + Fluct
<1>1. Inv
  BY DEF Framing
<1>2. CASE Len(At) = 0
  <2>1. PICK p \in stream.syncs : p <= Step
    BY <1>1, SyncFacts
  <2>2. ~(p < Covered) /\ Covered \in Nat /\ p \in Nat /\ Step \in Nat
    BY <1>1, <1>2, LastFramed, SyncFacts
  <2>3. Covered <= p /\ p <= Covered + Step
    BY <2>1, <2>2
  <2> QED BY <1>2, <2>1, <2>3
<1>3. CASE Len(At) > 0
  <2> DEFINE last == At[Len(At)]
  <2>1. /\ last \in stream.syncs /\ last + Step <= Covered /\ last \in Nat /\ Covered \in Nat
        /\ \A p \in stream.syncs : p < Covered => p <= last
    BY <1>1, <1>3, LastFramed, SyncFacts
  <2> HIDE DEF last
  <2>2. last + FrameSymbols + Fluct <= stream.len
    BY <1>1, <2>1, SyncFacts
  <2>3. PICK p \in stream.syncs : last + Step <= p /\ p <= last + FrameSymbols + Fluct
    BY <1>1, <2>1, <2>2, SyncFacts
  <2>4. Covered <= p /\ p <= Covered + Step
    BY <1>1, <2>1, <2>3, SyncFacts
  <2>5. Len(At) # 0
    BY <1>3
  <2> QED BY <2>3, <2>4, <2>5 DEF last
<1>4. Len(At) \in Nat
  BY LastFramed
<1> QED BY <1>2, <1>3, <1>4

\* The next frame cut is the next sync word.
LEMMA CountsNext ==
    ASSUME Framing, Synced(stream), ~done, NEW q \in stream.syncs, Covered <= q,
           \A p \in stream.syncs : ~(Covered <= p /\ p < q - Fluct)
    PROVE  /\ IsFiniteSet(Before(stream.syncs, q))
           /\ Cardinality(Before(stream.syncs, q)) = Len(At)
<1>1. Inv /\ Covered \in Nat /\ Len(At) \in Nat
  BY LastFramed DEF Framing
<1>2. ASSUME NEW p \in stream.syncs, p < q PROVE p < Covered
  <2>1. p + Step <= q /\ p \in Nat /\ q \in Nat
    BY <1>1, <1>2, SyncFacts
  <2>2. p < q - Fluct
    BY <1>1, <2>1, SyncFacts
  <2> QED BY <1>1, <2>1, <2>2
<1>3. CASE Len(At) = 0
  <2>1. Before(stream.syncs, q) = {}
    BY <1>2, <1>3, LastFramed DEF Before
  <2> QED BY <1>3, <2>1, FS_EmptySet
<1>4. CASE Len(At) > 0
  <2> DEFINE last == At[Len(At)]
  <2>1. /\ last \in stream.syncs /\ last + Step <= Covered /\ last \in Nat /\ q \in Nat
        /\ \A p \in stream.syncs : p < Covered => p <= last
    BY <1>1, <1>4, LastFramed, SyncFacts
  <2>2. Len(At) \in DOMAIN At /\ last # Zero
    BY <1>1, <1>4, <2>1, AtSlots DEF Inv, Zero
  <2>3. IsFiniteSet(Before(stream.syncs, last)) /\ Cardinality(Before(stream.syncs, last)) = Len(At) - 1
    BY <2>2 DEF Framing, FramedAt
  <2> HIDE DEF last
  <2>4. last < q
    BY <1>1, <2>1, SyncFacts
  <2>5. Before(stream.syncs, q) = Before(stream.syncs, last) \cup {last}
    <3>1. ASSUME NEW p \in stream.syncs PROVE p < q <=> p < last \/ p = last
      BY <1>1, <1>2, <2>1, <2>4, SyncFacts
    <3> QED BY <2>1, <3>1 DEF Before
  <2>6. last \notin Before(stream.syncs, last)
    BY <2>1 DEF Before
  <2>7. /\ IsFiniteSet(Before(stream.syncs, q))
        /\ Cardinality(Before(stream.syncs, q)) = Cardinality(Before(stream.syncs, last)) + 1
    BY <2>3, <2>5, <2>6, FS_AddElement
  <2> QED BY <1>1, <2>3, <2>7
<1> QED BY <1>1, <1>3, <1>4

\* A frame more, the next one.
LEMMA FramedExtends ==
    ASSUME Framing, Synced(stream), ~done, stream' = stream, ~done',
           NEW q \in stream.syncs, Covered <= q, Covered' = q + Step,
           \A p \in stream.syncs : ~(Covered <= p /\ p < q - Fluct),
           At' = At \o <<q>>
    PROVE  FramedAt'
<1>1. /\ Inv /\ At \in Seq(Int) /\ Len(At) \in Nat /\ DOMAIN At = 1 .. Len(At)
      /\ q \in Nat /\ <<q>> \in Seq(Int) /\ Len(<<q>>) = 1
  BY AtSlots, SyncFacts DEF Framing, Inv
<1>2. /\ DOMAIN At' = 1 .. (Len(At) + 1) /\ Len(At') = Len(At) + 1
      /\ \A i \in DOMAIN At : At'[i] = At[i]
      /\ At'[Len(At) + 1] = q
  <2>1. /\ DOMAIN At' = 1 .. (Len(At) + Len(<<q>>)) /\ Len(At') = Len(At) + Len(<<q>>)
        /\ \A i \in DOMAIN At : At'[i] = At[i]
    BY <1>1, ExtendsOld, ConcatProperties
  <2>2. 1 \in 1 .. Len(<<q>>) /\ <<q>>[1] = q
    BY <1>1
  <2>3. At'[Len(At) + 1] = q
    BY <1>1, <2>2, ExtendsOld
  <2> QED BY <1>1, <2>1, <2>3
<1>3. ASSUME NEW i \in DOMAIN At'
      PROVE  /\ At'[i] # Zero /\ At'[i] \in stream.syncs
             /\ IsFiniteSet(Before(stream.syncs, At'[i]))
             /\ Cardinality(Before(stream.syncs, At'[i])) = i - 1
  <2>1. CASE i = Len(At) + 1
    BY <1>1, <1>2, <2>1, CountsNext DEF Zero
  <2>2. CASE i # Len(At) + 1
    <3>1. i \in DOMAIN At /\ At'[i] = At[i]
      BY <1>1, <1>2, <2>2
    <3> QED BY <3>1 DEF Framing, FramedAt
  <2> QED BY <2>1, <2>2
<1>4. Covered' <= At'[Len(At')] + FrameSymbols + Fluct /\ Len(At') # 0
  BY <1>1, <1>2, SyncFacts
<1> QED BY <1>3, <1>4 DEF FramedAt

\* In a synced stream a step cuts the next frame, and puts a placeholder only at the end.
LEMMA StepFramedAt ==
    ASSUME Framing, Inv', Synced(stream), [NextFrame]_vars
    PROVE  FramedAt'
<1>0. /\ Inv /\ stream' = stream
      /\ At \in Seq(Int) /\ Len(At) \in Nat /\ DOMAIN At = 1 .. Len(At)
      /\ Covered \in Int /\ Step \in Nat /\ Zero \in Int
      /\ stream.syncs \subseteq Nat /\ stream.len \in Nat /\ 0 < Step
  BY AtSlots, StepCases, SyncFacts DEF Framing, Inv, Zero
<1>1. CASE At' = At /\ Covered' = Covered /\ done' = done
  BY <1>0, <1>1 DEF Framing, FramedAt
<1>2. CASE /\ At' = At /\ Covered' = Covered + Step /\ ~done /\ ~done'
           /\ \A p \in stream.syncs : ~(Covered <= p /\ p < Covered + Step)
  <2>1. Covered + 2 * FrameSymbols < stream.len
    <3>1. At' = At /\ Covered' = Covered + Step
      BY <1>2
    <3>2. Covered' # Covered
      BY <1>0, <3>1
    <3>3. Len(At') = Len(At)
      BY <3>1
    <3>4. Len(At') # Len(At) + 1
      <4>1. Len(At) \in Nat /\ \A k \in Nat : k # k + 1
        BY <1>0
      <4> QED BY <3>3, <4>1
    <3> QED BY <1>0, <3>2, <3>4, OnlyScanning
  <2>2. PICK p \in stream.syncs :
              /\ Covered <= p /\ p <= Covered + Step
              /\ p <= IF Len(At) = 0 THEN Step ELSE At[Len(At)] + FrameSymbols + Fluct
    BY <1>2, <2>1, NextInReach
  <2>3. p = Covered'
    <3>1. p \in Nat /\ Covered <= p /\ p <= Covered + Step /\ Covered' = Covered + Step
      BY <1>0, <1>2, <2>2
    <3>2. ~(p < Covered + Step)
      BY <1>2, <3>1
    <3> QED BY <1>0, <3>1, <3>2
  <2> QED BY <1>0, <1>2, <2>2, <2>3 DEF Framing, FramedAt
<1>3. ASSUME NEW q \in stream.syncs, Covered <= q, Covered' = q + Step, ~done, ~done',
             \A p \in stream.syncs : ~(Covered <= p /\ p < q - Fluct),
             q > Covered + Step /\ At' = At \o <<Zero, q>>
      PROVE  FALSE
  <2>1. q \in Nat /\ <<Zero, q>> \in Seq(Int) /\ Len(<<Zero, q>>) = 2
    BY <1>0
  <2>2. Len(At') = Len(At) + 2
    BY <1>0, <1>3, <2>1, ConcatProperties
  <2>3. Covered + 2 * FrameSymbols < stream.len
    BY <1>0, <1>3, <2>1, <2>2, OnlyScanning
  <2>4. PICK p \in stream.syncs : Covered <= p /\ p <= Covered + Step
    BY <1>3, <2>3, NextInReach
  <2>5. p < q /\ p \in Nat
    <3>1. p \in Nat /\ q > Covered + Step
      BY <1>0, <1>3, <2>4
    <3> QED BY <1>0, <2>1, <2>4, <3>1
  <2>6. p + Step <= q
    BY <1>0, <2>5, SyncFacts
  <2>7. p < q - Fluct
    BY <1>0, <2>1, <2>5, <2>6, SyncFacts
  <2> QED BY <1>3, <2>4, <2>7
<1>4. CASE ~done /\ done' /\ (At' = At \/ At' = At \o <<Zero>>)
  <2>1. \A i \in DOMAIN At : At[i] # Zero
    BY <1>4 DEF Framing, FramedAt
  <2>2. CASE At' = At
    BY <1>0, <1>4, <2>1, <2>2 DEF Framing, FramedAt
  <2>3. CASE At' = At \o <<Zero>>
    <3>1. <<Zero>> \in Seq(Int) /\ Len(<<Zero>>) = 1 /\ <<Zero>>[1] = Zero
      BY <1>0
    <3>2. /\ DOMAIN At' = 1 .. (Len(At) + 1) /\ Len(At') = Len(At) + 1
          /\ \A i \in DOMAIN At : At'[i] = At[i]
      BY <1>0, <2>3, <3>1, ExtendsOld, ConcatProperties
    <3>3. At'[Len(At) + 1] = Zero
      BY <1>0, <2>3, <3>1, ExtendsOld
    <3>4. \A i \in DOMAIN At' : i \in DOMAIN At \/ i = Len(At')
      BY <1>0, <3>2
    <3> QED BY <1>0, <1>4, <2>1, <3>2, <3>3, <3>4 DEF Framing, FramedAt
  <2> QED BY <1>4, <2>2, <2>3
<1>5. ASSUME NEW q \in stream.syncs, Covered <= q, Covered' = q + Step, ~done, ~done',
             \A p \in stream.syncs : ~(Covered <= p /\ p < q - Fluct),
             At' = At \o <<q>>
      PROVE  FramedAt'
  BY <1>0, <1>5, FramedExtends
<1>6. CASE \E q \in stream.syncs :
              /\ Covered <= q /\ Covered' = q + Step /\ ~done /\ ~done'
              /\ \A p \in stream.syncs : ~(Covered <= p /\ p < q - Fluct)
              /\ \/ At' = At \o <<q>>
                 \/ q > Covered + Step /\ At' = At \o <<Zero, q>>
  BY <1>3, <1>5, <1>6
<1> QED BY <1>0, <1>1, <1>2, <1>4, <1>6, StepCases

\* A stream that keeps its sync is framed the same whatever the reads deliver: a frame at each
\* sync word, no placeholder but the last, and none that fits is missing.
THEOREM SyncedStreamsAreFramed == Spec => []SyncedFraming
<1> DEFINE IInv == LostAt /\ AllCovered /\ OrderAt /\ (Synced(stream) => FramedAt)
<1>1. Init => IInv
  <2> SUFFICES ASSUME Init PROVE IInv
    OBVIOUS
  <2>1. /\ Slots = <<>> /\ Covered = 0 /\ ~done /\ stream.syncs \subseteq Nat /\ Step \in Nat
    BY StreamsAssumption, Sizes DEF Init, Slots, Covered
  <2>2. At = <<>> /\ DOMAIN At = {} /\ Len(At) = 0
    BY <2>1 DEF At, Starts
  <2> QED BY <2>1, <2>2 DEF LostAt, AllCovered, OrderAt, FramedAt
<1>2. IInv /\ Inv /\ Inv' /\ [NextFrame]_vars => IInv'
  <2> SUFFICES ASSUME IInv, Inv, Inv', [NextFrame]_vars PROVE IInv'
    OBVIOUS
  <2>1. LostAt' /\ AllCovered' /\ OrderAt' /\ stream' = stream
    BY StepLostAt, StepOrderAt, StepCases
  <2>2. Synced(stream)' => Synced(stream)
    BY <2>1 DEF Synced
  <2>3. Synced(stream) => FramedAt'
    BY StepFramedAt DEF Framing
  <2> QED BY <2>1, <2>2, <2>3
<1>3. Inv /\ IInv => SyncedFraming
  <2> SUFFICES ASSUME Inv, IInv, Synced(stream) PROVE SyncedFraming
    BY DEF SyncedFraming
  <2>1. /\ DOMAIN At = 1 .. Len(At) /\ Len(At) \in Nat /\ DOMAIN At = DOMAIN Slots
        /\ \A i \in DOMAIN At : At[i] = Start(Slots[i]) /\ (IsReal(Slots[i]) <=> At[i] # Zero)
    BY AtSlots DEF Inv
  <2>2. Len(Slots) = Len(At)
    <3>1. Slots \in Seq(Frames)
      BY ConcatProperties DEF Inv, TypeOK, Slots
    <3> QED BY <2>1, <3>1, LenProperties
  <2>3. \A i \in DOMAIN Slots : ~IsReal(Slots[i]) => i = Len(Slots) /\ done
    BY <2>1, <2>2 DEF FramedAt
  <2>4. ASSUME NEW i \in DOMAIN Slots, IsReal(Slots[i])
        PROVE  i = 1 + Cardinality({p \in stream.syncs : p < Start(Slots[i])})
    <3>1. i \in Nat /\ Cardinality(Before(stream.syncs, Start(Slots[i]))) = i - 1
      BY <2>1, <2>4 DEF FramedAt
    <3> QED BY <3>1 DEF Before
  <2>5. ASSUME done, NEW p \in stream.syncs, p + FrameSymbols <= stream.len
        PROVE  \E i \in DOMAIN Slots : Start(Slots[i]) = p
    <3>1. PICK i \in DOMAIN At : At[i] # Zero /\ Accounts(At[i], p)
      BY <2>5 DEF LostAt
    <3>2. At[i] \in stream.syncs
      BY <3>1 DEF FramedAt
    <3>3. At[i] \in Nat /\ p \in Nat /\ At[i] - Fluct <= p /\ p < At[i] + Step
      BY <3>1, <3>2, SyncFacts DEF Accounts
    <3>4. (At[i] < p => At[i] + Step <= p) /\ (p < At[i] => p + Step <= At[i])
      BY <3>2, SyncFacts
    <3>5. At[i] = p
      BY <3>3, <3>4, SyncFacts
    <3> QED BY <2>1, <3>5
  <2> QED BY <2>3, <2>4, <2>5 DEF SyncedFraming
<1> HIDE DEF IInv
<1> QED BY <1>1, <1>2, <1>3, BufferMirrorsInput, PTL DEF Spec
=============================================================================
