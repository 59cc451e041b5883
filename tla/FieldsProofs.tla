----------------------------- MODULE FieldsProofs -----------------------------
(***************************************************************************)
(* Theorems about the parsers of bodies with lengths inside (AcchFields),  *)
(* for units and blocks of every length and whatever bytes they hold,      *)
(* about positions (Gps), for every place a sender can be at, and about    *)
(* reassembled bodies (DataFields), for every layout, length and count.    *)
(*                                                                         *)
(* The argument for the first: while a parser goes on, its count of what   *)
(* is left and the cursor together make up the announced length, and the   *)
(* cursor stands where the lengths read so far end.  For the last: what is *)
(* left of a plan is made of the few kinds of steps all layouts are made   *)
(* of, the cursor is behind every field, and up to its type a body is      *)
(* taken apart at the same places whatever its layout is.  How far the     *)
(* steps in front of a gate take the cursor is known before it is reached, *)
(* wherever what lies behind the gate does not take the rest of the body.  *)
(***************************************************************************)
EXTENDS FieldsMC, SequenceTheorems, TLAPS

-----------------------------------------------------------------------------
(* The cursor. *)

Piece == [at : Nat, n : Nat]
Cursors == [pos : Nat, shown : Seq(Piece), ok : BOOLEAN]

\* Where the last field ends.
EndOf(shown) == IF shown = <<>> THEN 0 ELSE shown[Len(shown)].at + shown[Len(shown)].n

\* The fields reach from the first byte to the cursor.
Tiled(c) == c \in Cursors /\ Contiguous(c.shown) /\ c.pos = EndOf(c.shown)

\* One more field behind those there are.
LEMMA OneMore ==
    ASSUME NEW s \in Seq(Piece), Contiguous(s), NEW n \in Nat
    PROVE  LET t == Append(s, [at |-> EndOf(s), n |-> n])
           IN  t \in Seq(Piece) /\ Contiguous(t) /\ EndOf(t) = EndOf(s) + n
<1> DEFINE p == [at |-> EndOf(s), n |-> n]
           t == Append(s, p)
<1>1. EndOf(s) \in Nat
  <2>1. CASE s = <<>>
    BY <2>1 DEF EndOf
  <2>2. CASE s # <<>>
    <3>1. Len(s) \in 1 .. Len(s)
      BY <2>2, EmptySeq
    <3>2. s[Len(s)] \in Piece
      BY <3>1, ElementOfSeq
    <3> QED BY <2>2, <3>2 DEF EndOf, Piece
  <2> QED BY <2>1, <2>2
<1>2. p \in Piece /\ p.at = EndOf(s) /\ p.n = n
  BY <1>1 DEF Piece
<1> HIDE DEF p
<1>3. /\ t \in Seq(Piece) /\ t # <<>> /\ Len(t) = Len(s) + 1 /\ Len(s) \in Nat
      /\ \A k \in 1 .. Len(s) : t[k] = s[k]
      /\ t[Len(s) + 1] = p
  BY <1>2, AppendProperties
<1> HIDE DEF t
<1>4. EndOf(t) = EndOf(s) + n
  <2>1. EndOf(t) = p.at + p.n
    BY <1>3 DEF EndOf
  <2> QED BY <1>2, <2>1
<1>5. ASSUME NEW k \in 1 .. Len(t)
      PROVE  t[k].at = IF k = 1 THEN 0 ELSE t[k - 1].at + t[k - 1].n
  <2>1. CASE k = Len(s) + 1
    <3>1. CASE s = <<>>
      BY <1>2, <1>3, <2>1, <3>1 DEF EndOf
    <3>2. CASE s # <<>>
      <4>1. Len(s) \in 1 .. Len(s) /\ k - 1 = Len(s) /\ k # 1
        BY <1>3, <2>1, <3>2, EmptySeq
      <4>2. t[k - 1] = s[Len(s)] /\ t[k] = p
        BY <1>3, <2>1, <4>1
      <4>3. p.at = s[Len(s)].at + s[Len(s)].n
        BY <1>2, <3>2 DEF EndOf
      <4> QED BY <4>1, <4>2, <4>3
    <3> QED BY <3>1, <3>2
  <2>2. CASE k # Len(s) + 1
    <3>1. k \in 1 .. Len(s) /\ k \in DOMAIN s
      BY <1>3, <2>2
    <3>2. s[k].at = IF k = 1 THEN 0 ELSE s[k - 1].at + s[k - 1].n
      BY <3>1 DEF Contiguous
    <3>3. k # 1 => k - 1 \in 1 .. Len(s)
      BY <1>3, <3>1
    <3> QED BY <1>3, <3>1, <3>2, <3>3
  <2> QED BY <2>1, <2>2
<1>6. Contiguous(t)
  <2>1. DOMAIN t = 1 .. Len(t)
    BY <1>3
  <2> QED BY <1>5, <2>1 DEF Contiguous
<1> QED BY <1>3, <1>4, <1>6 DEF t, p

\* Taking n bytes works when there are n, and leaves no gap.
LEMMA TookTiled ==
    ASSUME size \in Nat, NEW c, Tiled(c), NEW n \in Int
    PROVE  /\ Tiled(Took(c, n))
           /\ Took(c, n).ok <=> c.ok /\ n >= 0 /\ c.pos + n <= size
           /\ Took(c, n).ok => Took(c, n).pos = c.pos + n
<1> DEFINE d == Took(c, n)
<1>1. c \in Cursors /\ c.pos \in Nat /\ c.shown \in Seq(Piece) /\ c.pos = EndOf(c.shown) /\ Contiguous(c.shown)
  BY DEF Tiled, Cursors
<1>2. CASE c.ok /\ n >= 0 /\ c.pos + n <= size
  <2>1. d = [c EXCEPT !.pos = @ + n, !.shown = Append(@, [at |-> c.pos, n |-> n])]
    BY <1>2 DEF Took
  <2>2. d.pos = c.pos + n /\ d.ok = c.ok /\ d.shown = Append(c.shown, [at |-> EndOf(c.shown), n |-> n])
    BY <1>1, <2>1 DEF Cursors
  <2>3. d.shown \in Seq(Piece) /\ Contiguous(d.shown) /\ EndOf(d.shown) = EndOf(c.shown) + n
    BY <1>1, <1>2, <2>2, OneMore
  <2>4. d \in Cursors
    <3>1. d.pos \in Nat
      BY <1>1, <1>2, <2>2
    <3> QED BY <1>1, <2>1, <2>3, <3>1 DEF Cursors
  <2> QED BY <1>1, <1>2, <2>2, <2>3, <2>4 DEF Tiled
<1>3. CASE ~(c.ok /\ n >= 0 /\ c.pos + n <= size)
  <2>1. d = [c EXCEPT !.ok = FALSE]
    BY <1>3 DEF Took, Panicked
  <2>2. d \in Cursors /\ d.pos = c.pos /\ d.shown = c.shown /\ d.ok = FALSE
    BY <1>1, <2>1 DEF Cursors
  <2> QED BY <1>1, <1>3, <2>2 DEF Tiled
<1> QED BY <1>2, <1>3

LEMMA PanickedTiled ==
    ASSUME NEW c, Tiled(c)
    PROVE  Tiled(Panicked(c)) /\ ~Panicked(c).ok
  BY DEF Tiled, Panicked, Cursors

-----------------------------------------------------------------------------
(* The invariant. *)

Going == {"head", "len1", "len2", "text"}

\* The count, the cursor, and what was announced and asked for.
CountFits ==
    /\ at \in {"unit", "whole"} => cur.pos = 0 /\ claimed = 0
    /\ at \in Going => len + cur.pos = announced /\ claimed = cur.pos
    /\ at = "done" => cur.pos = announced

\* What is left when a length is compared with it.
Left ==
    /\ at = "unit" => size >= 1
    /\ at = "whole" => parser \in {"block", "facch"}
    /\ parser = "acch" /\ at = "head" => len >= 5
    /\ parser = "acch" /\ at = "len1" => len >= 2

AcchInv ==
    /\ size \in Nat /\ Tiled(cur) /\ parser \in Parsers
    /\ len \in Int /\ announced \in Nat /\ claimed \in Nat
    /\ at \in {"unit", "whole", "done", "panic"} \cup Going
    /\ at # "panic" => cur.ok
    /\ CountFits /\ Left
    /\ StopsOnlyOnBadLengths

LEMMA AcchInitInv == AcchInit => AcchInv
<1> SUFFICES ASSUME AcchInit PROVE AcchInv
  OBVIOUS
<1>1. /\ parser \in Parsers /\ cur = NewCursor /\ len = 0 /\ announced = 0 /\ claimed = 0
      /\ at \in {"unit", "whole"} /\ size \in Nat
      /\ at = "unit" => size >= 1
      /\ at = "whole" => parser \in {"block", "facch"}
  <2>1. CASE parser \in {"acch", "last"} /\ at = "unit" /\ \E n \in CellLens : size = 1 + n
    <3>1. PICK n \in CellLens : size = 1 + n
      BY <2>1
    <3>2. n \in Nat
      BY AcchAssumption
    <3> QED BY <2>1, <3>1, <3>2 DEF AcchInit
  <2>2. CASE parser \in {"block", "facch"} /\ at = "whole" /\ size \in Totals
    <3>1. size \in Nat
      BY <2>2, AcchAssumption
    <3> QED BY <2>2, <3>1 DEF AcchInit
  <2> QED BY <2>1, <2>2 DEF AcchInit
<1>2. Tiled(cur) /\ cur.pos = 0 /\ cur.ok
  <2>1. cur = [pos |-> 0, shown |-> <<>>, ok |-> TRUE]
    BY <1>1 DEF NewCursor
  <2>2. <<>> \in Seq(Piece)
    BY EmptySeq
  <2>3. Contiguous(<<>>)
    BY DEF Contiguous
  <2> QED BY <2>1, <2>2, <2>3 DEF Tiled, Cursors, EndOf
<1> QED BY <1>1, <1>2 DEF AcchInv, CountFits, Left, StopsOnlyOnBadLengths, Going

\* The facts about the state a step begins in that the proofs of steps use.
LEMMA Facts ==
    ASSUME AcchInv
    PROVE  /\ size \in Nat /\ Tiled(cur) /\ parser \in Parsers /\ cur.pos \in Nat
           /\ len \in Int /\ announced \in Nat /\ claimed \in Nat
           /\ at # "panic" => cur.ok
  BY DEF AcchInv, Tiled, Cursors

\* A cursor that took two pieces.
LEMMA TookTwice ==
    ASSUME size \in Nat, NEW c, Tiled(c), NEW m \in Nat, NEW n \in Int
    PROVE  LET d == Took(Took(c, m), n)
           IN  /\ Tiled(d)
               /\ d.ok <=> c.ok /\ n >= 0 /\ c.pos + m <= size /\ c.pos + m + n <= size
               /\ d.ok => d.pos = c.pos + m + n
<1>1. /\ Tiled(Took(c, m))
      /\ Took(c, m).ok <=> c.ok /\ c.pos + m <= size
      /\ Took(c, m).ok => Took(c, m).pos = c.pos + m
  BY TookTiled
<1>2. c.pos \in Nat
  BY DEF Tiled, Cursors
<1> DEFINE b == Took(c, m)
<1>3. /\ Tiled(Took(b, n))
      /\ Took(b, n).ok <=> b.ok /\ n >= 0 /\ b.pos + n <= size
      /\ Took(b, n).ok => Took(b, n).pos = b.pos + n
  BY <1>1, TookTiled
<1> HIDE DEF b
<1>4. /\ b.ok <=> c.ok /\ c.pos + m <= size
      /\ b.ok => b.pos = c.pos + m
  BY <1>1 DEF b
<1>5. /\ Tiled(Took(b, n))
      /\ Took(b, n).ok <=> c.ok /\ n >= 0 /\ c.pos + m <= size /\ c.pos + m + n <= size
      /\ Took(b, n).ok => Took(b, n).pos = c.pos + m + n
  BY <1>2, <1>3, <1>4
<1> QED BY <1>5 DEF b

-----------------------------------------------------------------------------
(* Steps. *)

LEMMA UnitLenKeepsInv ==
    ASSUME AcchInv, NEW n \in Lens, UnitLen(n)
    PROVE  AcchInv'
<1>1. n \in Nat /\ size \in Nat /\ size >= 1 /\ cur.ok /\ cur.pos = 0 /\ Tiled(cur)
  BY AcchAssumption, Facts DEF AcchInv, UnitLen, CountFits, Left
<1>2. /\ announced' = 1 + n /\ len' = n /\ claimed' = 1 /\ size' = size /\ parser' = parser
      /\ parser \in Parsers
  BY DEF UnitLen, AcchInv
<1>3. CASE parser = "last" \/ (parser = "acch" /\ n <= 4)
  <2> DEFINE d == Took(Took(cur, 1), n)
  <2>1. cur' = d /\ at' = IF d.ok THEN "done" ELSE "panic"
    BY <1>3 DEF UnitLen, Continue
  <2>2. Tiled(d) /\ (d.ok <=> 1 + n <= size) /\ (d.ok => d.pos = 1 + n)
    <3>1. /\ Tiled(d) /\ (d.ok <=> cur.ok /\ n >= 0 /\ cur.pos + 1 <= size /\ cur.pos + 1 + n <= size)
          /\ d.ok => d.pos = cur.pos + 1 + n
      <4>1. 1 \in Nat /\ n \in Int
        BY <1>1
      <4> QED BY <1>1, <4>1, TookTwice
    <3> HIDE DEF d
    <3> QED BY <1>1, <3>1
  <2> HIDE DEF d
  <2> QED BY <1>1, <1>2, <2>1, <2>2 DEF AcchInv, CountFits, Left, StopsOnlyOnBadLengths, Going
<1>4. CASE ~(parser = "last" \/ (parser = "acch" /\ n <= 4))
  <2> DEFINE d == Took(cur, 1)
  <2>1. cur' = d /\ at' = IF d.ok THEN "head" ELSE "panic"
    <3>1. ~(parser = "last") /\ ~(parser = "acch" /\ n <= 4)
      BY <1>4
    <3> HIDE DEF d
    <3>2. Continue(Took(cur, 1), "head")
      <4>1. CASE parser # "acch"
        BY <3>1, <4>1 DEF UnitLen
      <4>2. CASE parser = "acch" /\ n > 4
        BY <1>1, <4>2 DEF UnitLen
      <4> QED BY <1>1, <3>1, <4>1, <4>2
    <3> QED BY <3>2 DEF Continue, d
  <2>2. Tiled(d) /\ d.ok /\ d.pos = 1
    <3>1. /\ Tiled(d) /\ (d.ok <=> cur.ok /\ 1 >= 0 /\ cur.pos + 1 <= size)
          /\ d.ok => d.pos = cur.pos + 1
      <4>1. 1 \in Int /\ size \in Nat /\ Tiled(cur)
        BY <1>1
      <4> QED BY <4>1, TookTiled
    <3> HIDE DEF d
    <3> QED BY <1>1, <3>1
  <2> HIDE DEF d
  <2> QED BY <1>1, <1>2, <1>4, <2>1, <2>2 DEF AcchInv, CountFits, Left, StopsOnlyOnBadLengths, Going
<1> QED BY <1>3, <1>4

LEMMA WholeLenKeepsInv ==
    ASSUME AcchInv, WholeLen
    PROVE  AcchInv'
<1>1. /\ size \in Nat /\ cur.ok /\ cur.pos = 0 /\ Tiled(cur) /\ claimed = 0
      /\ parser \in {"block", "facch"}
  BY Facts DEF AcchInv, WholeLen, CountFits, Left
<1>2. announced' = size /\ len' = size /\ claimed' = claimed /\ size' = size /\ parser' = parser
  BY DEF WholeLen
<1>3. CASE parser = "block" /\ size = 0
  <2>1. cur' = cur /\ at' = "done"
    BY <1>1, <1>3 DEF WholeLen, Continue
  <2> QED BY <1>1, <1>2, <1>3, <2>1 DEF AcchInv, CountFits, Left, StopsOnlyOnBadLengths, Going
<1>4. CASE parser = "block" /\ size \in 1 .. 4
  <2> DEFINE d == Took(cur, size)
  <2>1. cur' = d /\ at' = IF d.ok THEN "done" ELSE "panic"
    BY <1>4 DEF WholeLen, Continue
  <2>2. Tiled(d) /\ d.ok /\ d.pos = size
    BY <1>1, TookTiled
  <2> HIDE DEF d
  <2> QED BY <1>1, <1>2, <1>4, <2>1, <2>2 DEF AcchInv, CountFits, Left, StopsOnlyOnBadLengths, Going
<1>5. CASE ~(parser = "block" /\ size = 0) /\ ~(parser = "block" /\ size \in 1 .. 4)
  <2>1. cur' = cur /\ at' = "head"
    BY <1>1, <1>5 DEF WholeLen, Continue
  <2> QED BY <1>1, <1>2, <2>1 DEF AcchInv, CountFits, Left, StopsOnlyOnBadLengths, Going, Parsers
<1> QED BY <1>3, <1>4, <1>5

LEMMA AcchHeadKeepsInv ==
    ASSUME AcchInv, NEW b \in Bytes, AcchHead(b)
    PROVE  AcchInv'
<1> DEFINE h == HeadLen(b)
           d == Took(cur, h)
<1>1. h \in {2, 3}
  BY DEF HeadLen
<1> HIDE DEF h
<1>2. /\ size \in Nat /\ cur.ok /\ cur.pos \in Nat /\ Tiled(cur) /\ parser \in Parsers
      /\ len \in Int /\ announced \in Nat /\ len + cur.pos = announced /\ claimed = cur.pos
      /\ parser = "acch" => len >= 5
  BY Facts DEF AcchInv, AcchHead, CountFits, Left, Going
<1>3. /\ len' = len - h /\ claimed' = claimed + h
      /\ size' = size /\ parser' = parser /\ announced' = announced
  BY DEF AcchHead, h
<1>4. Tiled(d) /\ (d.ok <=> cur.pos + h <= size) /\ (d.ok => d.pos = cur.pos + h)
  <2>1. /\ Tiled(d) /\ (d.ok <=> cur.ok /\ h >= 0 /\ cur.pos + h <= size)
        /\ d.ok => d.pos = cur.pos + h
    <3>1. h \in Int /\ size \in Nat /\ Tiled(cur)
      BY <1>1, <1>2
    <3> QED BY <3>1, TookTiled
  <2> HIDE DEF d
  <2> QED BY <1>1, <1>2, <2>1
<1>5. CASE Peekable(cur)
  <2>1. cur' = d /\ at' = IF d.ok THEN "len1" ELSE "panic"
    BY <1>5 DEF AcchHead, Continue, h
  <2> HIDE DEF d
  <2> QED BY <1>1, <1>2, <1>3, <1>4, <2>1 DEF AcchInv, CountFits, Left, StopsOnlyOnBadLengths, Going
<1>6. CASE ~Peekable(cur)
  <2>1. cur' = Panicked(cur) /\ Tiled(cur') /\ ~cur'.ok
    BY <1>2, <1>6, PanickedTiled DEF AcchHead, Continue
  <2>2. at' = "panic"
    BY <1>6, <2>1 DEF AcchHead, Continue
  <2>3. cur.pos >= size
    BY <1>2, <1>6 DEF Peekable
  <2> QED BY <1>1, <1>2, <1>3, <2>1, <2>2, <2>3
          DEF AcchInv, CountFits, Left, StopsOnlyOnBadLengths, Going
<1> QED BY <1>5, <1>6

\* A signal: its length is at least 5, so the rest of subcommand 8 is never less than nothing.
LEMMA SignalKeepsInv ==
    ASSUME AcchInv, NEW b \in Bytes, Signal(b)
    PROVE  AcchInv'
<1> DEFINE c == Took(Took(cur, 1), 1)
<1>1. /\ size \in Nat /\ cur.ok /\ cur.pos \in Nat /\ Tiled(cur) /\ parser = "acch" /\ parser \in Parsers
      /\ len \in Int /\ announced \in Nat /\ len + cur.pos = announced /\ claimed = cur.pos
      /\ len >= 5
  BY Facts DEF AcchInv, Signal, CountFits, Left, Going
<1>2. size' = size /\ parser' = parser /\ announced' = announced
  BY DEF Signal
<1>3. Tiled(c) /\ (c.ok <=> cur.pos + 2 <= size) /\ (c.ok => c.pos = cur.pos + 2)
  <2>1. /\ Tiled(c) /\ (c.ok <=> cur.ok /\ 1 >= 0 /\ cur.pos + 1 <= size /\ cur.pos + 1 + 1 <= size)
        /\ c.ok => c.pos = cur.pos + 1 + 1
    <3>1. 1 \in Nat /\ 1 \in Int /\ size \in Nat /\ Tiled(cur)
      BY <1>1
    <3> QED BY <3>1, TookTwice
  <2> HIDE DEF c
  <2> QED BY <1>1, <2>1
<1>4. CASE b = 8
  <2> DEFINE d == Took(c, len - 2)
  <2>1. cur' = d /\ at' = (IF d.ok THEN "done" ELSE "panic") /\ len' = len /\ claimed' = announced
    BY <1>4 DEF Signal, Continue
  <2>2. /\ Tiled(d) /\ (d.ok <=> c.ok /\ len - 2 >= 0 /\ c.pos + (len - 2) <= size)
        /\ d.ok => d.pos = c.pos + (len - 2)
    <3>1. len - 2 \in Int
      BY <1>1
    <3> HIDE DEF c
    <3> QED BY <1>1, <1>3, <3>1, TookTiled
  <2> HIDE DEF c, d
  <2> QED BY <1>1, <1>2, <1>3, <2>1, <2>2 DEF AcchInv, CountFits, Left, StopsOnlyOnBadLengths, Going
<1>5. CASE b # 8
  <2> DEFINE d == Took(c, 1)
  <2>1. /\ cur' = d /\ at' = IF d.ok THEN "len1" ELSE "panic"
        /\ len' = len - 3 /\ claimed' = claimed + 3
    BY <1>5 DEF Signal, Continue
  <2>2. Tiled(d) /\ (d.ok <=> c.ok /\ c.pos + 1 <= size) /\ (d.ok => d.pos = c.pos + 1)
    <3> HIDE DEF c
    <3>1. /\ Tiled(d) /\ (d.ok <=> c.ok /\ 1 >= 0 /\ c.pos + 1 <= size)
          /\ d.ok => d.pos = c.pos + 1
      <4>1. 1 \in Int /\ size \in Nat /\ Tiled(c)
        BY <1>1, <1>3
      <4> QED BY <4>1, TookTiled
    <3> HIDE DEF d
    <3> QED BY <3>1
  <2> HIDE DEF c, d
  <2> QED BY <1>1, <1>2, <1>3, <2>1, <2>2 DEF AcchInv, CountFits, Left, StopsOnlyOnBadLengths, Going
<1> QED BY <1>4, <1>5

\* The byte of a length and the bytes it asks for.
TookSized(l) == IF l = 0 THEN Took(cur, 1) ELSE Took(Took(cur, 1), l)

LEMMA TookSizedTiled ==
    ASSUME size \in Nat, Tiled(cur), NEW l \in Nat
    PROVE  /\ Tiled(TookSized(l))
           /\ TookSized(l).ok <=> cur.ok /\ cur.pos + 1 + l <= size
           /\ TookSized(l).ok => TookSized(l).pos = cur.pos + 1 + l
<1>0. cur.pos \in Nat
  BY DEF Tiled, Cursors
<1>1. CASE l = 0
  <2>1. /\ Tiled(Took(cur, 1)) /\ (Took(cur, 1).ok <=> cur.ok /\ cur.pos + 1 <= size)
        /\ Took(cur, 1).ok => Took(cur, 1).pos = cur.pos + 1
    BY TookTiled
  <2> QED BY <1>0, <1>1, <2>1 DEF TookSized
<1>2. CASE l # 0
  <2> DEFINE d == Took(Took(cur, 1), l)
  <2>1. /\ Tiled(d) /\ (d.ok <=> cur.ok /\ l >= 0 /\ cur.pos + 1 <= size /\ cur.pos + 1 + l <= size)
        /\ d.ok => d.pos = cur.pos + 1 + l
    BY TookTwice
  <2>2. TookSized(l) = d
    BY <1>2 DEF TookSized
  <2> HIDE DEF d
  <2> QED BY <1>0, <2>1, <2>2
<1> QED BY <1>1, <1>2

LEMMA LengthKeepsInv ==
    ASSUME AcchInv, NEW l \in Bytes, Length1(l) \/ Length2(l)
    PROVE  AcchInv'
<1> DEFINE d == TookSized(l)
<1>1. /\ l \in Nat /\ size \in Nat /\ cur.ok /\ cur.pos \in Nat /\ Tiled(cur) /\ parser \in Parsers
      /\ len \in Int /\ announced \in Nat /\ len + cur.pos = announced /\ claimed = cur.pos
  BY AcchAssumption, Facts DEF AcchInv, Length1, Length2, CountFits, Going
<1>2. /\ len' = len - 1 - l /\ claimed' = claimed + 1 + l
      /\ size' = size /\ parser' = parser /\ announced' = announced
  BY DEF Length1, Length2
<1>3. /\ cur' = d
      /\ at' \in (IF d.ok THEN {"len2", "text"} ELSE {"panic"})
  BY DEF Length1, Length2, Continue, TookSized
<1>4. Tiled(d) /\ (d.ok <=> cur.pos + 1 + l <= size) /\ (d.ok => d.pos = cur.pos + 1 + l)
  BY <1>1, TookSizedTiled
<1> HIDE DEF d
<1> QED BY <1>1, <1>2, <1>3, <1>4 DEF AcchInv, CountFits, Left, StopsOnlyOnBadLengths, Going

LEMMA TooGreatKeepsInv ==
    ASSUME AcchInv, NEW l \in Bytes, Length1TooGreat(l)
    PROVE  AcchInv'
<1> DEFINE d == Took(cur, len)
<1>1. /\ size \in Nat /\ cur.ok /\ cur.pos \in Nat /\ Tiled(cur) /\ parser \in Parsers
      /\ len \in Int /\ announced \in Nat /\ len + cur.pos = announced /\ claimed = cur.pos
      /\ len >= 2
  BY Facts DEF AcchInv, Length1TooGreat, CountFits, Left, Going
<1>2. claimed' = announced /\ UNCHANGED <<size, parser, len, announced>>
  BY DEF Length1TooGreat
<1>3. Tiled(d) /\ (d.ok <=> cur.pos + len <= size) /\ (d.ok => d.pos = cur.pos + len)
  <2>1. /\ Tiled(d) /\ (d.ok <=> cur.ok /\ len >= 0 /\ cur.pos + len <= size)
        /\ d.ok => d.pos = cur.pos + len
    BY <1>1, TookTiled
  <2> HIDE DEF d
  <2> QED BY <1>1, <2>1
<1>4. CASE Peekable(cur)
  <2>1. cur' = d /\ at' = IF d.ok THEN "done" ELSE "panic"
    BY <1>4 DEF Length1TooGreat, Continue
  <2> HIDE DEF d
  <2> QED BY <1>1, <1>2, <1>3, <2>1 DEF AcchInv, CountFits, Left, StopsOnlyOnBadLengths, Going
<1>5. CASE ~Peekable(cur)
  <2>1. cur' = Panicked(cur) /\ Tiled(cur') /\ ~cur'.ok
    BY <1>1, <1>5, PanickedTiled DEF Length1TooGreat, Continue
  <2>2. at' = "panic"
    BY <1>5, <2>1 DEF Length1TooGreat, Continue
  <2>3. cur.pos >= size
    BY <1>1, <1>5 DEF Peekable
  <2> QED BY <1>1, <1>2, <2>1, <2>2, <2>3 DEF AcchInv, CountFits, Left, StopsOnlyOnBadLengths, Going
<1> QED BY <1>4, <1>5

LEMMA TextKeepsInv ==
    ASSUME AcchInv, Text
    PROVE  AcchInv'
<1> DEFINE d == IF len = 0 THEN cur ELSE Took(cur, len)
<1>1. /\ size \in Nat /\ cur.ok /\ cur.pos \in Nat /\ Tiled(cur) /\ parser \in Parsers
      /\ len \in Int /\ announced \in Nat /\ len + cur.pos = announced /\ claimed = cur.pos
  BY Facts DEF AcchInv, Text, CountFits, Going
<1>2. UNCHANGED <<size, parser, len, announced, claimed>> /\ cur' = d /\ at' = IF d.ok THEN "done" ELSE "panic"
  BY DEF Text, Continue
<1>3. Tiled(d) /\ (d.ok \/ len < 0 \/ cur.pos + len > size) /\ (d.ok => d.pos = cur.pos + len)
  <2>1. CASE len = 0
    BY <1>1, <2>1
  <2>2. CASE len # 0
    <3>1. /\ Tiled(Took(cur, len)) /\ (Took(cur, len).ok <=> cur.ok /\ len >= 0 /\ cur.pos + len <= size)
          /\ Took(cur, len).ok => Took(cur, len).pos = cur.pos + len
      BY <1>1, TookTiled
    <3>2. d = Took(cur, len)
      BY <2>2
    <3> HIDE DEF d
    <3> QED BY <1>1, <3>1, <3>2
  <2> QED BY <2>1, <2>2
<1> HIDE DEF d
<1> QED BY <1>1, <1>2, <1>3 DEF AcchInv, CountFits, Left, StopsOnlyOnBadLengths, Going

LEMMA AcchNextInv == AcchInv /\ [AcchNext]_acchvars => AcchInv'
<1> SUFFICES ASSUME AcchInv, [AcchNext]_acchvars PROVE AcchInv'
  OBVIOUS
<1>1. CASE \E n \in Lens : UnitLen(n)
  BY <1>1, UnitLenKeepsInv
<1>2. CASE WholeLen
  BY <1>2, WholeLenKeepsInv
<1>3. CASE \E b \in Bytes : AcchHead(b) \/ Signal(b) \/ Length1(b) \/ Length1TooGreat(b) \/ Length2(b)
  BY <1>3, AcchHeadKeepsInv, SignalKeepsInv, LengthKeepsInv, TooGreatKeepsInv
<1>4. CASE Text
  BY <1>4, TextKeepsInv
<1>5. CASE UNCHANGED acchvars
  BY <1>5 DEF acchvars, AcchInv, CountFits, Left, StopsOnlyOnBadLengths, Tiled, Contiguous, EndOf
<1> QED BY <1>1, <1>2, <1>3, <1>4, <1>5 DEF AcchNext, AcchReturned

\* The invariant of the four parsers, for all lengths and all bytes.
THEOREM CountFollowsCursor == AcchSpec => []AcchInv
<1> QED BY AcchInitInv, AcchNextInv, PTL DEF AcchSpec

\* The state of a parser stays within its types.
THEOREM AcchTypeCorrect == AcchSpec => []AcchTypeOK
<1>1. AcchInv => AcchTypeOK
  BY DEF AcchInv, AcchTypeOK, Tiled, Cursors, Piece, Going
<1> QED BY CountFollowsCursor, <1>1, PTL

\* A record that comes out of emit_acch_fields, emit_sacch_block_fields or
\* proc_l2block_facch shows every byte of its body once, in its place.
THEOREM RecordsTileBodies == AcchSpec => []RecordTilesBody
<1>1. AcchInv => RecordTilesBody
  BY DEF AcchInv, CountFits, RecordTilesBody, Tiled
<1> QED BY CountFollowsCursor, <1>1, PTL

\* These parsers stop the program only on bodies whose lengths contradict one another.
THEOREM OnlyBadLengthsStop == AcchSpec => []StopsOnlyOnBadLengths
<1>1. AcchInv => StopsOnlyOnBadLengths
  BY DEF AcchInv
<1> QED BY CountFollowsCursor, <1>1, PTL

-----------------------------------------------------------------------------
(* Positions. *)

\* Places in and around Japan, in hundredths of a second.
InJapan(la, lo) ==
    /\ la \in Nat /\ 20 * Degree <= la /\ la <= 46 * Degree
    /\ lo \in Nat /\ 122 * Degree <= lo /\ lo <= 154 * Degree

\* Nine digits stand for whole degrees and what is left of them.
LEMMA DigitsValue ==
    ASSUME NEW s \in Nat
    PROVE  LET d == Digits(s)
           IN  /\ d[1] * 100 + d[2] * 10 + d[3] = s \div Degree
               /\ d[4] * 60000 + d[5] * 6000 + d[6] * 1000 + d[7] * 100 + d[8] * 10 + d[9] = s % Degree
<1> DEFINE deg == s \div 360000
           min == (s % 360000) \div 6000
           sec == s % 6000
           d == Digits(s)
<1>0. d = <<deg \div 100, (deg \div 10) % 10, deg % 10, min \div 10, min % 10,
            sec \div 1000, (sec \div 100) % 10, (sec \div 10) % 10, sec % 10>>
  BY DEF Digits, Degree
<1>1. deg \in Nat /\ min \in Nat /\ sec \in Nat
  OBVIOUS
<1>2. s % 360000 = 6000 * min + sec
  OBVIOUS
<1> HIDE DEF deg, min, sec, d
<1>3. (deg \div 100) * 100 + ((deg \div 10) % 10) * 10 + (deg % 10) = deg
  BY <1>1
<1>4. (min \div 10) * 60000 + (min % 10) * 6000 = 6000 * min
  BY <1>1
<1>5. (sec \div 1000) * 1000 + ((sec \div 100) % 10) * 100 + ((sec \div 10) % 10) * 10 + (sec % 10) = sec
  BY <1>1
<1>6. /\ d[1] = deg \div 100 /\ d[2] = (deg \div 10) % 10 /\ d[3] = deg % 10
      /\ d[4] = min \div 10 /\ d[5] = min % 10
      /\ d[6] = sec \div 1000 /\ d[7] = (sec \div 100) % 10 /\ d[8] = (sec \div 10) % 10 /\ d[9] = sec % 10
  BY <1>0
<1>7. d[1] * 100 + d[2] * 10 + d[3] = deg
  BY <1>1, <1>3, <1>6
<1>8. d[4] * 60000 + d[5] * 6000 + d[6] * 1000 + d[7] * 100 + d[8] * 10 + d[9] = 6000 * min + sec
  BY <1>1, <1>4, <1>5, <1>6
<1> QED BY <1>2, <1>7, <1>8 DEF deg, d, Degree

\* 18 steps of the fraction are 50 millionths, 9 hundredths of a second 25.
LEMMA FractionRounded ==
    ASSUME NEW s \in Nat
    PROVE  /\ (s \div Degree) * Million + (((s % Degree) * 50 + 9) \div 18) = Millionths(s)
           /\ (((s % Degree) * 50 + 9) \div 2) \div 9 = ((s % Degree) * 50 + 9) \div 18
<1> DEFINE deg == s \div 360000
           f == s % 360000
<1>1. deg \in Nat /\ f \in Nat /\ s = 360000 * deg + f
  OBVIOUS
<1> HIDE DEF deg, f
<1>2. (f * 50 + 9) \div 18 = (25 * f + 4) \div 9
  BY <1>1
<1>3. (25 * s + 4) \div 9 = 1000000 * deg + (25 * f + 4) \div 9
  BY <1>1
<1>4. ((f * 50 + 9) \div 2) \div 9 = (f * 50 + 9) \div 18
  BY <1>1
<1> QED BY <1>1, <1>2, <1>3, <1>4 DEF deg, f, Degree, Million, Millionths

\* decode_degree_bcd gives the nearest millionth, for every place a degree or more from 0.
THEOREM BcdDecodesToNearest ==
    ASSUME NEW s \in Nat, s >= Degree
    PROVE  DecodeDegreeBcd(Digits(s)) = Millionths(s)
<1> DEFINE d == Digits(s)
           deg == d[1] * 100 + d[2] * 10 + d[3]
           frac == d[4] * 60000 + d[5] * 6000 + d[6] * 1000 + d[7] * 100 + d[8] * 10 + d[9]
<1>1. deg = s \div Degree /\ frac = s % Degree
  BY DigitsValue
<1>2. s \div Degree # 0 /\ s \div Degree \in Nat
  BY DEF Degree
<1>3. DecodeDegreeBcd(d) = IF deg = 0 THEN 0 ELSE deg * Million + ((frac * 50 + 9) \div 2) \div 9
  BY DEF DecodeDegreeBcd
<1> HIDE DEF d, deg, frac
<1>4. DecodeDegreeBcd(d) = (s \div Degree) * Million + ((((s % Degree) * 50 + 9) \div 2) \div 9)
  BY <1>1, <1>2, <1>3
<1> QED BY <1>4, FractionRounded DEF d

\* decode_latitude_24 and decode_longitude_24 give the nearest millionth, for every place
\* but their origins, 10 N and 110 E.
THEOREM RawDecodesToNearest ==
    ASSUME NEW s \in Nat, NEW origin \in {10, 110}, s > origin * Degree
    PROVE  DecodeRaw24(origin, Raw24(origin, s)) = Millionths(s)
<1> DEFINE l == s - origin * 360000
<1>1. l \in Nat /\ l # 0 /\ l \div 360000 + origin = s \div 360000 /\ l % 360000 = s % 360000
  <2>1. CASE origin = 10
    BY <2>1 DEF Degree
  <2>2. CASE origin = 110
    BY <2>2 DEF Degree
  <2> QED BY <2>1, <2>2
<1>2. Raw24(origin, s) = l
  BY DEF Raw24, Degree
<1> HIDE DEF l
<1>3. DecodeRaw24(origin, l) = (l \div 360000 + origin) * Million + (((l % 360000) * 50 + 9) \div 18)
  BY <1>1 DEF DecodeRaw24, Degree
<1>4. DecodeRaw24(origin, l) = (s \div Degree) * Million + (((s % Degree) * 50 + 9) \div 18)
  BY <1>1, <1>3 DEF Degree
<1> QED BY <1>2, <1>4, FractionRounded

\* 9 hundredths of a second are 25 millionths: no other millionth is as near.
LEMMA MillionthIsNearest ==
    ASSUME NEW s \in Nat
    PROVE  Millionths(s) \in Nat /\ 9 * Millionths(s) - 25 * s \in -4 .. 4
  BY SMT DEF Millionths

\* The code's datum shift is the documented one, and moves no place in Japan below 1.
LEMMA Shifted ==
    ASSUME NEW a \in Int, NEW o \in Int, 20000000 <= a, a <= 46000000, 122000000 <= o, o <= 154000000
    PROVE  FromTky(a, o) = Wgs84(a, o) /\ Wgs84(a, o) \in [lat : Nat, lon : Nat]
<1> DEFINE wa == a + 4602 - a \div 9350 + o \div 57261
           wo == o + 10040 - a \div 21721 - o \div 12042
<1>1. TkyToWgs84Lat(a, o) = wa /\ TkyToWgs84Lon(a, o) = wo
  BY SMT DEF TkyToWgs84Lat, TkyToWgs84Lon
<1>2. /\ wa \in Int /\ wo \in Int
      /\ a + 1800 <= wa /\ o <= wo + 4900
  BY SMT
<1> HIDE DEF wa, wo
<1>3. wa \in Nat /\ wo \in Nat /\ wa # 0 /\ wo # 0
  BY <1>2, SMT
<1>4. FromTky(a, o) = [lat |-> wa, lon |-> wo]
  BY <1>1, <1>3 DEF FromTky, InsertWgs84
<1>5. Wgs84(a, o) = [lat |-> wa, lon |-> wo]
  BY DEF Wgs84, wa, wo
<1> QED BY <1>3, <1>4, <1>5

\* Every place in Japan, to the hundredth of a second, comes out of each of the three
\* formats as the nearest millionth of a degree, out of two of them moved to WGS84 by the
\* documented formula.
THEOREM EveryPlaceAsSent ==
    ASSUME NEW la, NEW lo, InJapan(la, lo)
    PROVE  LET a == Millionths(la)
               o == Millionths(lo)
           IN  /\ EmitBcd(Digits(la), Digits(lo)) = Wgs84(a, o)
               /\ EmitRaw(Raw24(10, la), Raw24(110, lo)) = Wgs84(a, o)
               /\ EmitSendai(Digits(la), Digits(lo)) = [lat |-> a, lon |-> o]
               /\ \A form \in {"bcd", "raw", "sendai"} : Emitted(form, la, lo) \in [lat : Nat, lon : Nat]
<1> DEFINE a == Millionths(la)
           o == Millionths(lo)
<1>1. /\ la \in Nat /\ lo \in Nat /\ la >= Degree /\ lo >= Degree
      /\ la > 10 * Degree /\ lo > 110 * Degree
  BY SMT DEF InJapan, Degree
<1>2. /\ a \in Int /\ o \in Int
      /\ 20000000 <= a /\ a <= 46000000 /\ 122000000 <= o /\ o <= 154000000
  <2>1. 7200000 <= la /\ la <= 16560000 /\ 43920000 <= lo /\ lo <= 55440000
    BY SMT DEF InJapan, Degree
  <2>2. a = (25 * la + 4) \div 9 /\ o = (25 * lo + 4) \div 9
    BY DEF Millionths
  <2> HIDE DEF a, o
  <2> QED BY <1>1, <2>1, <2>2, SMT
<1>3. DecodeDegreeBcd(Digits(la)) = a /\ DecodeDegreeBcd(Digits(lo)) = o
  BY <1>1, BcdDecodesToNearest
<1>4. DecodeRaw24(10, Raw24(10, la)) = a /\ DecodeRaw24(110, Raw24(110, lo)) = o
  BY <1>1, RawDecodesToNearest
<1> HIDE DEF a, o
<1>5. FromTky(a, o) = Wgs84(a, o) /\ Wgs84(a, o) \in [lat : Nat, lon : Nat]
  BY <1>2, Shifted, SMT
<1>6. EmitSendai(Digits(la), Digits(lo)) = [lat |-> a, lon |-> o]
  <2>1. a # 0 /\ o # 0
    BY <1>2, SMT
  <2> QED BY <1>3, <2>1 DEF EmitSendai, InsertWgs84
<1>7. EmitBcd(Digits(la), Digits(lo)) = Wgs84(a, o)
  BY <1>3, <1>5 DEF EmitBcd
<1>8. EmitRaw(Raw24(10, la), Raw24(110, lo)) = Wgs84(a, o)
  BY <1>4, <1>5 DEF EmitRaw
<1>9. ASSUME NEW form \in {"bcd", "raw", "sendai"}
      PROVE  Emitted(form, la, lo) \in [lat : Nat, lon : Nat]
  <2>1. [lat |-> a, lon |-> o] \in [lat : Nat, lon : Nat]
    BY <1>2, SMT
  <2> QED BY <1>5, <1>6, <1>7, <1>8, <2>1 DEF Emitted
<1> QED BY <1>6, <1>7, <1>8, <1>9 DEF a, o

-----------------------------------------------------------------------------
(* Layouts of DATA bodies: what they are made of. *)

Forms(k) == IF k = "sendai" THEN {"sendai"} ELSE {"bcd", "raw"}

\* Steps that decide nothing, and steps that choose between sequences of others.
Plain(k, again) ==
    [op : {"take"}, n : Nat, again : again] \cup [op : {"skip"}, n : Nat] \cup [op : {"rest"}]
        \cup [op : {"position"}, form : Forms(k), n : Nat, again : again]
Deciding(S) ==
    [op : {"gate"}, lens : SUBSET Nat, then : Seq(S)]
        \cup [op : {"branch"}, peeks : BOOLEAN, then : Seq(S), else : Seq(S)]
        \cup [op : {"count"}, n : Nat, item : Seq(S)] \cup [op : {"sized"}, n : Nat]

Inner(k) == Plain(k, {FALSE}) \cup Deciding(Plain(k, {FALSE}))
Steps(k, again) == Plain(k, again) \cup Deciding(Inner(k))

\* A layout of a kind of body, before anything is read.
Layouts(k) == Seq(Steps(k, {FALSE}))

LEMMA SeqMono == ASSUME NEW S, NEW T, S \subseteq T PROVE Seq(S) \subseteq Seq(T)
  OBVIOUS

LEMMA DecidingMono ==
    ASSUME NEW S, NEW T, S \subseteq T
    PROVE  Deciding(S) \subseteq Deciding(T)
<1>1. Seq(S) \subseteq Seq(T)
  BY SeqMono
<1> HIDE DEF Deciding
<1> DEFINE SS == Seq(S)
           TT == Seq(T)
<1>2. SS \subseteq TT
  BY <1>1
<1>3. Deciding(S) = [op : {"gate"}, lens : SUBSET Nat, then : SS]
        \cup [op : {"branch"}, peeks : BOOLEAN, then : SS, else : SS]
        \cup [op : {"count"}, n : Nat, item : SS] \cup [op : {"sized"}, n : Nat]
  BY DEF Deciding
<1>4. Deciding(T) = [op : {"gate"}, lens : SUBSET Nat, then : TT]
        \cup [op : {"branch"}, peeks : BOOLEAN, then : TT, else : TT]
        \cup [op : {"count"}, n : Nat, item : TT] \cup [op : {"sized"}, n : Nat]
  BY DEF Deciding
<1> HIDE DEF SS, TT
<1> QED BY <1>2, <1>3, <1>4

\* What is in a layout is in larger ones.
LEMMA StepsMono ==
    ASSUME NEW k
    PROVE  /\ Seq(Plain(k, {FALSE})) \subseteq Seq(Inner(k))
           /\ Seq(Inner(k)) \subseteq Layouts(k)
           /\ Steps(k, {FALSE}) \subseteq Steps(k, BOOLEAN)
           /\ Layouts(k) \subseteq Seq(Steps(k, BOOLEAN))
<1>1. Plain(k, {FALSE}) \subseteq Inner(k)
  BY DEF Inner
<1>2. Inner(k) \subseteq Steps(k, {FALSE})
  BY <1>1, DecidingMono DEF Inner, Steps
<1>3. Plain(k, {FALSE}) \subseteq Plain(k, BOOLEAN)
  BY DEF Plain
<1>4. Steps(k, {FALSE}) \subseteq Steps(k, BOOLEAN)
  BY <1>3 DEF Steps
<1> QED BY <1>1, <1>2, <1>4, SeqMono DEF Layouts

LEMMA PiecesPlain ==
    ASSUME NEW k, NEW s \in Seq(Int)
    PROVE  Pieces(s) \in Seq(Plain(k, {FALSE}))
<1>1. DOMAIN s = 1 .. Len(s) /\ Len(s) \in Nat /\ \A j \in 1 .. Len(s) : s[j] \in Int
  BY LenProperties, ElementOfSeq
<1>2. ASSUME NEW j \in 1 .. Len(s)
      PROVE  (IF s[j] >= 0 THEN [op |-> "take", n |-> s[j], again |-> FALSE]
                           ELSE [op |-> "skip", n |-> -s[j]]) \in Plain(k, {FALSE})
  <2>1. CASE s[j] >= 0
    <3>1. s[j] \in Nat
      BY <1>1, <2>1
    <3>2. [op |-> "take", n |-> s[j], again |-> FALSE] \in Plain(k, {FALSE})
      BY <3>1 DEF Plain
    <3> QED BY <2>1, <3>2
  <2>2. CASE ~(s[j] >= 0)
    <3>1. -s[j] \in Nat
      BY <1>1, <2>2
    <3>2. [op |-> "skip", n |-> -s[j]] \in Plain(k, {FALSE})
      BY <3>1 DEF Plain
    <3> QED BY <2>2, <3>2
  <2> QED BY <2>1, <2>2
<1> QED BY <1>1, <1>2 DEF Pieces

\* What layouts are made of.
LEMMA Building ==
    ASSUME NEW k
    PROVE  /\ \A a, b \in Layouts(k) : a \o b \in Layouts(k)
           /\ \A s \in Seq(Int) : Pieces(s) \in Layouts(k)
           /\ <<>> \in Layouts(k) /\ <<Rest>> \in Seq(Plain(k, {FALSE})) /\ <<Rest>> \in Layouts(k)
           /\ k # "sendai" => /\ <<Bcd>> \in Layouts(k) /\ <<Raw>> \in Layouts(k)
                              /\ <<Raw, Nav, Rest>> \in Seq(Plain(k, {FALSE}))
                              /\ <<Raw, Nav, Rest>> \in Layouts(k) /\ <<Raw, Nav>> \in Layouts(k)
           /\ k = "sendai" => <<Separated>> \in Layouts(k)
           /\ \A lens \in SUBSET Nat, then \in Seq(Inner(k)) : <<Gate(lens, then)>> \in Layouts(k)
           /\ \A w \in Nat : <<Sized(w)>> \in Layouts(k)
           /\ \A w \in Nat, item \in Seq(Inner(k)) : <<Count(w, item)>> \in Layouts(k)
           /\ \A a, b \in Seq(Plain(k, {FALSE})) : /\ <<Peek(a, b)>> \in Layouts(k)
                                                   /\ <<Branch(a, b)>> \in Seq(Inner(k))
<1>0. Plain(k, {FALSE}) \subseteq Steps(k, {FALSE}) /\ Deciding(Inner(k)) \subseteq Steps(k, {FALSE})
  BY DEF Steps
<1>1. \A a, b \in Layouts(k) : a \o b \in Layouts(k)
  BY ConcatProperties DEF Layouts
<1>2. \A s \in Seq(Int) : Pieces(s) \in Layouts(k)
  BY PiecesPlain, StepsMono
<1>3. Rest \in Plain(k, {FALSE}) /\ Nav \in Plain(k, {FALSE})
  BY DEF Plain, Rest, Nav
<1>4. k # "sendai" => Bcd \in Plain(k, {FALSE}) /\ Raw \in Plain(k, {FALSE})
  BY DEF Plain, Bcd, Raw, Forms
<1>5. k = "sendai" => Separated \in Plain(k, {FALSE})
  BY DEF Plain, Separated, Forms
<1> HIDE DEF Rest, Nav, Bcd, Raw, Separated
<1>6. \A lens \in SUBSET Nat, then \in Seq(Inner(k)) : Gate(lens, then) \in Deciding(Inner(k))
  BY DEF Gate, Deciding
<1>7. \A w \in Nat : Sized(w) \in Deciding(Inner(k))
  BY DEF Sized, Deciding
<1>8. \A w \in Nat, item \in Seq(Inner(k)) : Count(w, item) \in Deciding(Inner(k))
  BY DEF Count, Deciding
<1>9. \A a, b \in Seq(Plain(k, {FALSE})) :
         Branch(a, b) \in Deciding(Plain(k, {FALSE})) /\ Peek(a, b) \in Deciding(Plain(k, {FALSE}))
  BY DEF Branch, Peek, Deciding
<1>10. Deciding(Plain(k, {FALSE})) \subseteq Inner(k) /\ Inner(k) \subseteq Steps(k, {FALSE})
  <2>1. Plain(k, {FALSE}) \subseteq Inner(k) /\ Deciding(Plain(k, {FALSE})) \subseteq Inner(k)
    BY DEF Inner
  <2> QED BY <2>1, DecidingMono DEF Inner, Steps
<1> DEFINE P == Plain(k, {FALSE})
           D == Deciding(Inner(k))
           I == Inner(k)
           S == Steps(k, {FALSE})
<1> HIDE DEF P, D, I, S
<1>11. \A x \in S : <<x>> \in Seq(S)
  OBVIOUS
<1>12. /\ <<>> \in Seq(S) /\ <<Rest>> \in Seq(P) /\ <<Rest>> \in Seq(S)
       /\ k # "sendai" => /\ <<Bcd>> \in Seq(S) /\ <<Raw>> \in Seq(S) /\ <<Raw, Nav, Rest>> \in Seq(P)
                          /\ <<Raw, Nav, Rest>> \in Seq(S) /\ <<Raw, Nav>> \in Seq(S)
       /\ k = "sendai" => <<Separated>> \in Seq(S)
  BY <1>0, <1>3, <1>4, <1>5 DEF P, S
<1>13. \A a, b \in Seq(P) : <<Peek(a, b)>> \in Seq(S) /\ <<Branch(a, b)>> \in Seq(I)
  BY <1>9, <1>10, <1>11 DEF P, S, I
<1>14. /\ \A lens \in SUBSET Nat, then \in Seq(I) : <<Gate(lens, then)>> \in Seq(S)
       /\ \A w \in Nat : <<Sized(w)>> \in Seq(S)
       /\ \A w \in Nat, item \in Seq(I) : <<Count(w, item)>> \in Seq(S)
  BY <1>0, <1>6, <1>7, <1>8, <1>11 DEF I, S, D
<1> QED BY <1>1, <1>2, <1>12, <1>13, <1>14 DEF P, S, I, Layouts

LEMMA TwoSteps ==
    ASSUME NEW k, NEW x, NEW y, <<x>> \in Layouts(k), <<y>> \in Layouts(k)
    PROVE  <<x, y>> \in Layouts(k)
<1> DEFINE S == Steps(k, {FALSE})
<1> HIDE DEF S
<1>1. <<x>> \in Seq(S) /\ <<y>> \in Seq(S)
  BY DEF Layouts, S
<1>2. x \in S /\ y \in S
  <2>1. <<x>>[1] \in S /\ <<y>>[1] \in S
    BY <1>1
  <2> QED BY <2>1
<1>3. <<x, y>> \in Seq(S)
  BY <1>2
<1> QED BY <1>3 DEF Layouts, S

LEMMA TimeTypes == Time \in Seq(Int) /\ Clock \in Seq(Int)
  BY DEF Time, Clock

LEMMA HeaderLayout == ASSUME NEW k PROVE Header \in Layouts(k)
<1>1. <<1, 4, -4, 4, -4, 7, 3, 2, -4, 4>> \in Seq(Int)
  OBVIOUS
<1> QED BY <1>1, Building DEF Header

\* A plan, of steps that decide nothing, that goes to the end of the body.
ToEnd(k, p) == p \in Seq(Plain(k, {FALSE})) /\ p # <<>> /\ p[Len(p)] = Rest

\* Pieces and then the rest go to the end.
LEMMA PiecesToEnd ==
    ASSUME NEW k, NEW s \in Seq(Int)
    PROVE  ToEnd(k, Pieces(s) \o <<Rest>>) /\ ToEnd(k, <<Rest>>)
<1> DEFINE P == Plain(k, {FALSE})
           r == <<Rest>>
           p == Pieces(s)
<1>1. p \in Seq(P) /\ r \in Seq(P) /\ Len(r) = 1 /\ r[1] = Rest
  BY PiecesPlain, Building
<1> HIDE DEF P, r, p
<1>2. Len(p) \in Nat
  BY <1>1, LenProperties
<1>3. /\ p \o r \in Seq(P) /\ Len(p \o r) = Len(p) + 1
      /\ \A i \in 1 .. (Len(p) + 1) : (p \o r)[i] = IF i <= Len(p) THEN p[i] ELSE r[i - Len(p)]
  <2>1. /\ p \o r \in Seq(P) /\ Len(p \o r) = Len(p) + Len(r)
        /\ \A i \in 1 .. (Len(p) + Len(r)) : (p \o r)[i] = IF i <= Len(p) THEN p[i] ELSE r[i - Len(p)]
    BY <1>1, ConcatProperties
  <2> QED BY <1>1, <2>1
<1>4. (p \o r)[Len(p) + 1] = Rest
  <2>1. Len(p) + 1 \in 1 .. (Len(p) + 1) /\ ~(Len(p) + 1 <= Len(p)) /\ (Len(p) + 1) - Len(p) = 1
    BY <1>2
  <2> QED BY <1>1, <1>3, <2>1
<1>5. p \o r # <<>> /\ r # <<>>
  <2>1. Len(p) + 1 # 0
    BY <1>2
  <2> QED BY <1>1, <1>3, <2>1
<1>6. ToEnd(k, p \o r) /\ ToEnd(k, r)
  BY <1>1, <1>3, <1>4, <1>5 DEF ToEnd, P
<1> QED BY <1>6 DEF p, r

\* What is common to all plans and to those of free steps.
Builds(k, T) ==
    /\ \A a, b \in T : a \o b \in T
    /\ \A s \in Seq(Int) : Pieces(s) \in T
    /\ <<Rest>> \in T
    /\ k # "sendai" => /\ <<Bcd>> \in T /\ <<Raw>> \in T /\ <<Raw, Nav>> \in T
                       /\ <<Raw, Nav, Rest>> \in T
    /\ k = "sendai" => <<Separated>> \in T
    /\ \A w \in Nat : <<Sized(w)>> \in T
    /\ \A w \in Nat, item \in Seq(Plain(k, {FALSE})) : <<Count(w, item)>> \in T
    /\ \A a, b \in Seq(Plain(k, {FALSE})) : <<Peek(a, b)>> \in T
    /\ \A lens \in SUBSET Nat : \A then : ToEnd(k, then) => <<Gate(lens, then)>> \in T

LEMMA LayoutsBuild == ASSUME NEW k PROVE Builds(k, Layouts(k))
<1>1. Seq(Plain(k, {FALSE})) \subseteq Seq(Inner(k))
  BY StepsMono
<1>2. \A w \in Nat, item \in Seq(Plain(k, {FALSE})) : <<Count(w, item)>> \in Layouts(k)
  BY <1>1, Building
<1>3. \A lens \in SUBSET Nat : \A then : ToEnd(k, then) => <<Gate(lens, then)>> \in Layouts(k)
  BY <1>1, Building DEF ToEnd
<1>4. \A a, b \in Seq(Plain(k, {FALSE})) : <<Peek(a, b)>> \in Layouts(k)
  BY Building
<1>5. /\ \A a, b \in Layouts(k) : a \o b \in Layouts(k)
      /\ \A s \in Seq(Int) : Pieces(s) \in Layouts(k)
      /\ <<Rest>> \in Layouts(k)
      /\ k # "sendai" => /\ <<Bcd>> \in Layouts(k) /\ <<Raw>> \in Layouts(k) /\ <<Raw, Nav>> \in Layouts(k)
                         /\ <<Raw, Nav, Rest>> \in Layouts(k)
      /\ k = "sendai" => <<Separated>> \in Layouts(k)
      /\ \A w \in Nat : <<Sized(w)>> \in Layouts(k)
  BY Building
<1> HIDE DEF Layouts
<1> QED BY <1>2, <1>3, <1>4, <1>5 DEF Builds

\* Layouts of text bodies.
LEMMA IncidentBuilt ==
    ASSUME NEW T, Builds("text", T), NEW times \in Seq(Int)
    PROVE  Incident(times) \in T
<1>1. /\ <<6, 6, 6>> \o times \o <<8, 16, 16, 80, 3>> \in Seq(Int)
      /\ <<58, 30, 7, 3>> \in Seq(Int) /\ <<5>> \in Seq(Int)
  <2>1. <<6, 6, 6>> \in Seq(Int) /\ <<8, 16, 16, 80, 3>> \in Seq(Int)
    OBVIOUS
  <2> QED BY <2>1, ConcatProperties
<1>2. Pieces(<<5>>) \in Seq(Plain("text", {FALSE}))
  BY <1>1, PiecesPlain
<1> QED BY <1>1, <1>2 DEF Incident, Builds

LEMMA SiteBuilt ==
    ASSUME NEW T, Builds("text", T), NEW first \in Int
    PROVE  Site(first) \in T
<1>1. <<first>> \o Time \o <<1, 40, 30, 14>> \in Seq(Int)
  <2>1. <<first>> \in Seq(Int) /\ <<1, 40, 30, 14>> \in Seq(Int)
    OBVIOUS
  <2> QED BY <2>1, TimeTypes, ConcatProperties
<1>2. <<30, 8, 4>> \in Seq(Int)
  OBVIOUS
<1> QED BY <1>1, <1>2 DEF Site, Builds

\* All of them but one look at no length.
LEMMA ReportBuilt ==
    ASSUME NEW T, Builds("text", T), NEW t, t # \h60
    PROVE  Report(t) \in T
<1>1. /\ <<13>> \o Time \o Time \in Seq(Int)
      /\ <<2, -1>> \in Seq(Int) /\ <<1>> \in Seq(Int) /\ <<-22>> \in Seq(Int) /\ <<-3>> \in Seq(Int)
      /\ Time \o <<2, -2, 2, -2, 30, 16, 6, 8>> \in Seq(Int)
      /\ <<50, 40, 40, 12, 10, 24, 20>> \in Seq(Int) /\ <<51, 3>> \in Seq(Int)
      /\ <<5, 4, 12>> \o Time \in Seq(Int) /\ <<4>> \in Seq(Int) /\ <<2>> \in Seq(Int)
  <2>1. /\ <<13>> \in Seq(Int) /\ <<2, -2, 2, -2, 30, 16, 6, 8>> \in Seq(Int)
        /\ <<5, 4, 12>> \in Seq(Int)
    OBVIOUS
  <2>2. <<13>> \o Time \o Time \in Seq(Int)
    BY <2>1, TimeTypes, ConcatProperties
  <2>3. Time \o <<2, -2, 2, -2, 30, 16, 6, 8>> \in Seq(Int) /\ <<5, 4, 12>> \o Time \in Seq(Int)
    BY <2>1, TimeTypes, ConcatProperties
  <2> QED BY <2>2, <2>3
<1>2. Pieces(<<-22>>) \o <<Bcd>> \o Pieces(<<-3>>) \in Seq(Plain("text", {FALSE}))
  <2>1. <<Bcd>> \in Seq(Plain("text", {FALSE}))
    BY DEF Plain, Bcd, Forms
  <2>2. Pieces(<<-22>>) \in Seq(Plain("text", {FALSE})) /\ Pieces(<<-3>>) \in Seq(Plain("text", {FALSE}))
    BY <1>1, PiecesPlain
  <2> QED BY <2>1, <2>2, ConcatProperties
<1>3. /\ \A a, b \in T : a \o b \in T
      /\ \A s \in Seq(Int) : Pieces(s) \in T
      /\ <<Bcd>> \in T /\ <<Rest>> \in T /\ <<Sized(3)>> \in T
      /\ Site(61) \in T /\ Site(63) \in T
      /\ <<Count(1, Pieces(<<-22>>) \o <<Bcd>> \o Pieces(<<-3>>))>> \in T
  <2>1. Site(61) \in T /\ Site(63) \in T
    BY SiteBuilt
  <2> DEFINE item == Pieces(<<-22>>) \o <<Bcd>> \o Pieces(<<-3>>)
  <2> HIDE DEF item
  <2>2. <<Count(1, item)>> \in T
    BY <1>2 DEF Builds, item
  <2>3. /\ \A a, b \in T : a \o b \in T
        /\ \A s \in Seq(Int) : Pieces(s) \in T
        /\ <<Bcd>> \in T /\ <<Rest>> \in T /\ <<Sized(3)>> \in T
    BY DEF Builds
  <2> QED BY <2>1, <2>2, <2>3 DEF item
<1>4. <<Sized(3), Bcd>> \in T
  <2>1. <<Sized(3), Bcd>> = <<Sized(3)>> \o <<Bcd>>
    OBVIOUS
  <2> QED BY <1>3, <2>1
<1>5. /\ Pieces(<<13>> \o Time \o Time) \o <<Bcd>> \o Pieces(<<2, -1>>) \in T
      /\ Pieces(<<1>>) \o <<Bcd>> \o Pieces(<<2, -1>>) \in T
      /\ Site(61) \o Pieces(Time \o <<2, -2, 2, -2, 30, 16, 6, 8>>) \o <<Rest>> \in T
      /\ Site(63) \o Pieces(<<50, 40, 40, 12, 10, 24, 20>>) \o <<Rest>> \in T
  BY <1>1, <1>3
<1>6. /\ Pieces(<<51, 3>>) \o <<Rest>> \in T
      /\ Pieces(<<5, 4, 12>> \o Time) \o <<Rest>> \in T
      /\ Pieces(<<2>>) \o <<Sized(3), Bcd>> \o Pieces(<<2, -1>>) \in T
      /\ Pieces(<<4>>) \o <<Bcd>> \o Pieces(<<2, -1>>) \in T
  BY <1>1, <1>3, <1>4
<1> QED BY <1>3, <1>5, <1>6 DEF Report

LEMMA ReportLayout ==
    ASSUME NEW t
    PROVE  Report(t) \in Layouts("text")
<1>1. CASE t # \h60
  BY <1>1, LayoutsBuild, ReportBuilt
<1>2. CASE t = \h60
  <2> DEFINE T == Layouts("text")
             g == Gate(0 .. 60, <<>>)
  <2>1. <<4>> \in Seq(Int) /\ <<2, -1>> \in Seq(Int)
    OBVIOUS
  <2>2. <<Bcd>> \in T /\ <<g>> \in T
    <3>1. <<>> \in Seq(Inner("text")) /\ 0 .. 60 \in SUBSET Nat
      OBVIOUS
    <3> QED BY <3>1, Building
  <2> HIDE DEF g
  <2>3. <<g, Bcd>> \in T
    BY <2>2, TwoSteps
  <2>4. Pieces(<<4>>) \o <<g, Bcd>> \o Pieces(<<2, -1>>) \in T
    BY <2>1, <2>3, Building
  <2> QED BY <1>2, <2>4 DEF Report, g
<1> QED BY <1>1, <1>2

LEMMA VehicleLayout ==
    ASSUME NEW t
    PROVE  Vehicle(t) \in Layouts("text")
<1> DEFINE T == Layouts("text")
<1>1. /\ <<4, 2, 3>> \in Seq(Int) /\ <<2, -1, 1>> \o Time \in Seq(Int)
      /\ Time \o <<2, -4, 2, -2>> \in Seq(Int)
  <2>1. <<4, 2, 3>> \in Seq(Int) /\ <<2, -1, 1>> \in Seq(Int) /\ <<2, -4, 2, -2>> \in Seq(Int)
    OBVIOUS
  <2> QED BY <2>1, TimeTypes, ConcatProperties
<1>2. <<Gate(0 .. 56, <<>>)>> \in T
  <2>1. <<>> \in Seq(Inner("text")) /\ 0 .. 56 \in SUBSET Nat
    OBVIOUS
  <2> QED BY <2>1, Building
<1>3. /\ \A a, b \in T : a \o b \in T
      /\ \A s \in Seq(Int) : Pieces(s) \in T
      /\ <<Rest>> \in T /\ <<Bcd>> \in T /\ Report(t) \in T
      /\ Incident(Time \o <<2, -4, 2, -2>>) \in T
  BY <1>1, Building, ReportLayout, LayoutsBuild, IncidentBuilt
<1> HIDE DEF T
<1>4. /\ Pieces(<<4, 2, 3>>) \o <<Bcd>> \o Pieces(<<2, -1, 1>> \o Time) \in T
      /\ Pieces(Time) \o <<Gate(0 .. 56, <<>>)>> \o Report(t) \in T
  BY <1>1, <1>2, <1>3, TimeTypes
<1> QED BY <1>3, <1>4 DEF Vehicle, T

LEMMA TextLayout ==
    ASSUME NEW t
    PROVE  /\ TextInfo(t) \in Layouts("text")
           /\ \E gate, more \in Layouts("text") :
                TextInfo(t) = Pieces(<<3>>) \o <<Gate({40}, <<>>)>> \o Pieces(<<2>>) \o gate \o more
<1> DEFINE T == Layouts("text")
           inside == IF t = \h02 THEN Incident(<<4, -4, 2, -2, 4, -4, 2, -2>>)
                     ELSE Pieces(<<2>>) \o <<Gate(0 .. 44, <<>>)>> \o Vehicle(t)
<1>1. <<3>> \in Seq(Int) /\ <<2>> \in Seq(Int) /\ <<4, -4, 2, -2, 4, -4, 2, -2>> \in Seq(Int)
  OBVIOUS
<1>2. <<Gate({40}, <<>>)>> \in T /\ <<Gate({44}, Pieces(<<2>>))>> \in T /\ <<Gate(0 .. 44, <<>>)>> \in T
  <2>1. /\ <<>> \in Seq(Inner("text")) /\ {40} \in SUBSET Nat /\ {44} \in SUBSET Nat
        /\ 0 .. 44 \in SUBSET Nat
    OBVIOUS
  <2>2. Pieces(<<2>>) \in Seq(Inner("text"))
    BY <1>1, PiecesPlain, StepsMono
  <2> QED BY <2>1, <2>2, Building
<1>3. /\ \A a, b \in T : a \o b \in T
      /\ Pieces(<<3>>) \in T /\ Pieces(<<2>>) \in T /\ Vehicle(t) \in T
      /\ Incident(<<4, -4, 2, -2, 4, -4, 2, -2>>) \in T
  BY <1>1, Building, VehicleLayout, LayoutsBuild, IncidentBuilt
<1> HIDE DEF T
<1>4. inside \in T
  BY <1>2, <1>3
<1> HIDE DEF inside
<1>5. Pieces(<<3>>) \o <<Gate({40}, <<>>)>> \o Pieces(<<2>>) \o <<Gate({44}, Pieces(<<2>>))>> \o inside \in T
  BY <1>2, <1>3, <1>4
<1>6. TextInfo(t) = Pieces(<<3>>) \o <<Gate({40}, <<>>)>> \o Pieces(<<2>>)
                       \o <<Gate({44}, Pieces(<<2>>))>> \o inside
  BY DEF TextInfo, inside
<1> QED BY <1>2, <1>4, <1>5, <1>6 DEF T

\* Layouts of SENDAI bodies.
LEMMA SendaiBuilt ==
    ASSUME NEW T, Builds("sendai", T), NEW t
    PROVE  \E more \in T : Sendai(t) = Pieces(<<2, 1, 2, 3, 4, 4, 3>>) \o more
<1> DEFINE long == <<11, 8, 11, 8, 6, 5>> \o Time \o <<12, 12, 12, 48, 24, 24, 4>>
           g63 == Gate({63}, Pieces(<<11, 8, 6>>) \o <<Rest>>)
<1>1. /\ <<11, 8, 6>> \in Seq(Int) /\ <<4>> \in Seq(Int) /\ <<11, 8, 1>> \in Seq(Int)
      /\ <<11, 8, 6, 9>> \in Seq(Int) /\ <<31, 31>> \in Seq(Int) /\ long \in Seq(Int)
  <2>1. /\ <<11, 8, 6>> \in Seq(Int) /\ <<4>> \in Seq(Int) /\ <<11, 8, 1>> \in Seq(Int)
        /\ <<11, 8, 6, 9>> \in Seq(Int) /\ <<31, 31>> \in Seq(Int)
    OBVIOUS
  <2>2. <<11, 8, 11, 8, 6, 5>> \in Seq(Int) /\ <<12, 12, 12, 48, 24, 24, 4>> \in Seq(Int)
    OBVIOUS
  <2>3. long \in Seq(Int)
    BY <2>2, TimeTypes, ConcatProperties
  <2> QED BY <2>1, <2>3
<1>2. /\ \A a, b \in T : a \o b \in T
      /\ \A s \in Seq(Int) : Pieces(s) \in T
      /\ <<Rest>> \in T /\ <<Separated>> \in T
  BY DEF Builds
<1>3. <<g63>> \in T
  <2>1. ToEnd("sendai", Pieces(<<11, 8, 6>>) \o <<Rest>>)
    BY <1>1, PiecesToEnd
  <2>2. {63} \in SUBSET Nat
    OBVIOUS
  <2> QED BY <2>1, <2>2 DEF Builds
<1>4. <<g63, Rest>> \in T
  <2>1. <<g63, Rest>> = <<g63>> \o <<Rest>>
    OBVIOUS
  <2> HIDE DEF g63
  <2> QED BY <1>2, <1>3, <2>1
<1> HIDE DEF long, g63
<1>5. /\ Pieces(<<11, 8, 6>>) \o <<Rest>> \in T
      /\ Pieces(<<4>>) \o <<Rest>> \in T
      /\ Pieces(<<11, 8, 1>>) \o <<Rest>> \in T
      /\ Pieces(<<31, 31>>) \o <<Rest>> \in T
  BY <1>1, <1>2
<1>6. Pieces(<<11, 8, 6, 9>>) \o <<Separated>> \o Pieces(long) \o <<Rest>> \in T
  BY <1>1, <1>2
<1> DEFINE inside ==
      CASE t \in Dated -> Pieces(<<11, 8, 6>>) \o <<Rest>>
        [] t = \h04 -> Pieces(<<4>>) \o <<Rest>>
        [] t \in {\h2c, \h2d} -> Pieces(<<11, 8, 1>>) \o <<Rest>>
        [] t \in {\h1b, \h1d} -> Pieces(<<11, 8, 6, 9>>) \o <<Separated>> \o Pieces(long) \o <<Rest>>
        [] t \in {\hdd, \heb} -> Pieces(<<31, 31>>) \o <<Rest>>
        [] OTHER -> <<g63, Rest>>
<1>7. inside \in T
  BY <1>2, <1>4, <1>5, <1>6
<1>8. Sendai(t) = Pieces(<<2, 1, 2, 3, 4, 4, 3>>) \o inside
  BY DEF Sendai, long, g63
<1> HIDE DEF inside
<1> QED BY <1>7, <1>8

LEMMA SendaiLayout ==
    ASSUME NEW t
    PROVE  /\ Sendai(t) \in Layouts("sendai")
           /\ \E more \in Layouts("sendai") : Sendai(t) = Pieces(<<2, 1, 2, 3, 4, 4, 3>>) \o more
<1>1. PICK more \in Layouts("sendai") : Sendai(t) = Pieces(<<2, 1, 2, 3, 4, 4, 3>>) \o more
  BY LayoutsBuild, SendaiBuilt
<1>2. Pieces(<<2, 1, 2, 3, 4, 4, 3>>) \in Layouts("sendai")
  <2>1. <<2, 1, 2, 3, 4, 4, 3>> \in Seq(Int)
    OBVIOUS
  <2> QED BY <2>1, Building
<1>3. Pieces(<<2, 1, 2, 3, 4, 4, 3>>) \o more \in Layouts("sendai")
  <2> DEFINE p == Pieces(<<2, 1, 2, 3, 4, 4, 3>>)
  <2> HIDE DEF p
  <2>1. p \in Layouts("sendai")
    BY <1>2 DEF p
  <2>2. p \o more \in Layouts("sendai")
    BY <2>1, Building
  <2> QED BY <2>2 DEF p
<1> QED BY <1>1, <1>3

\* Layouts of the other bodies.
\* What a binary body has behind its first gate.
LEMMA BinaryBuilt ==
    ASSUME NEW T, Builds("binary", T), NEW t, t \notin {\h10, \h15}
    PROVE  \E more \in T :
             Binary(t) = Pieces(<<2, 1>>) \o <<Gate({44}, Pieces(<<2, 1, 1>>))>> \o more
<1> DEFINE g63 == Gate(0 .. 63, Pieces(<<3>>) \o <<Rest>>)
           c2 == Count(2, Pieces(<<2>>))
           peek == Peek(<<Raw, Nav, Rest>>, <<Rest>>)
<1>1. /\ <<2, 1>> \in Seq(Int) /\ <<2, 1, 1>> \in Seq(Int) /\ <<3>> \in Seq(Int) /\ <<1>> \in Seq(Int)
      /\ <<25, 2, -8, 2, -8, 30, 16, 19, 19, 80>> \in Seq(Int) /\ <<2, 1, 1, 3, 1>> \in Seq(Int)
      /\ <<3, 12, 12, 48, 24, 24>> \in Seq(Int) /\ <<2>> \in Seq(Int) /\ <<2, 2, 2>> \in Seq(Int)
  OBVIOUS
<1>2. /\ <<2, 1, 1>> \o Clock \o <<1, 1>> \in Seq(Int)
      /\ <<2, 1, 1>> \o Clock \o <<2>> \in Seq(Int)
      /\ <<2, 1, 1>> \o Clock \o <<1, 1, 3>> \in Seq(Int)
      /\ <<2, 1, 1>> \o Clock \in Seq(Int)
  <2>1. <<2, 1, 1>> \in Seq(Int) /\ <<1, 1>> \in Seq(Int) /\ <<2>> \in Seq(Int) /\ <<1, 1, 3>> \in Seq(Int)
    OBVIOUS
  <2> QED BY <2>1, TimeTypes, ConcatProperties
<1>3. <<g63>> \in T
  <2>1. ToEnd("binary", Pieces(<<3>>) \o <<Rest>>)
    BY <1>1, PiecesToEnd
  <2>2. 0 .. 63 \in SUBSET Nat
    OBVIOUS
  <2> QED BY <2>1, <2>2 DEF Builds
<1>4. <<c2>> \in T /\ <<peek>> \in T
  <2>1. /\ Pieces(<<2>>) \in Seq(Plain("binary", {FALSE}))
        /\ <<Rest>> \in Seq(Plain("binary", {FALSE})) /\ <<Raw, Nav, Rest>> \in Seq(Plain("binary", {FALSE}))
    BY <1>1, PiecesPlain, Building
  <2> QED BY <2>1 DEF Builds
<1>5. /\ \A a, b \in T : a \o b \in T
      /\ \A s \in Seq(Int) : Pieces(s) \in T
      /\ <<Rest>> \in T /\ <<Raw>> \in T /\ <<Raw, Nav, Rest>> \in T /\ <<Raw, Nav>> \in T
      /\ <<Sized(1)>> \in T
  BY DEF Builds
<1> HIDE DEF g63, c2, peek
<1>6. /\ Pieces(<<25, 2, -8, 2, -8, 30, 16, 19, 19, 80>>) \o <<Rest>> \in T
      /\ Pieces(<<2, 1, 1>> \o Clock \o <<2>>) \o <<Rest>> \in T
      /\ Pieces(<<2, 1, 1, 3, 1>>) \o <<Rest>> \in T
      /\ Pieces(<<2, 1, 1>> \o Clock \o <<1, 1, 3>>) \o <<peek>> \in T
  BY <1>1, <1>2, <1>4, <1>5
<1>7. Pieces(<<2, 1, 1>> \o Clock \o <<1, 1>>) \o <<g63>>
          \o Pieces(<<3>>) \o <<Raw, Nav>> \o Pieces(<<1>>) \o <<Rest>> \in T
  BY <1>1, <1>2, <1>3, <1>5
<1>8. Pieces(<<2, 1, 1>> \o Clock) \o <<Raw>> \o Pieces(<<3, 12, 12, 48, 24, 24>>) \o <<c2>> \in T
  BY <1>1, <1>2, <1>4, <1>5
<1>9. Pieces(<<2, 2, 2>>) \o <<Sized(1)>> \o Pieces(<<1>>) \in T /\ Pieces(<<2, 1>>) \in T
  BY <1>1, <1>5
<1> DEFINE inside ==
      CASE t = \h20 -> Pieces(<<25, 2, -8, 2, -8, 30, 16, 19, 19, 80>>) \o <<Rest>>
        [] t = \h01 -> Pieces(<<2, 1, 1>> \o Clock \o <<1, 1>>) \o <<g63>>
                          \o Pieces(<<3>>) \o <<Raw, Nav>> \o Pieces(<<1>>) \o <<Rest>>
        [] t = \h11 -> Pieces(<<2, 1, 1>> \o Clock \o <<2>>) \o <<Rest>>
        [] t = \h0e -> Pieces(<<2, 1, 1, 3, 1>>) \o <<Rest>>
        [] t \in {\h08, \h0a} -> <<Raw, Nav, Rest>>
        [] t \in {\h00, \h04} -> Pieces(<<2, 1, 1>> \o Clock \o <<1, 1, 3>>) \o <<peek>>
        [] t = \h80 -> Pieces(<<2, 1, 1>> \o Clock) \o <<Raw>>
                          \o Pieces(<<3, 12, 12, 48, 24, 24>>) \o <<c2>>
        [] t = \h83 -> Pieces(<<2, 1>>)
        [] t \in {\h12, \h13, \h14} -> Pieces(<<2, 2, 2>>) \o <<Sized(1)>> \o Pieces(<<1>>)
        [] OTHER -> <<Rest>>
<1>10. inside \in T
  BY <1>5, <1>6, <1>7, <1>8, <1>9
<1>11. Binary(t) = Pieces(<<2, 1>>) \o <<Gate({44}, Pieces(<<2, 1, 1>>))>> \o inside
  BY DEF Binary, g63, c2, peek
<1> HIDE DEF inside
<1> QED BY <1>10, <1>11

\* The two types of binary bodies with gates there.
LEMMA BinaryGated ==
    ASSUME NEW t \in {\h10, \h15}
    PROVE  Binary(t) =
             Pieces(<<2, 1>>) \o <<Gate({44}, Pieces(<<2, 1, 1>>))>> \o
               (Pieces(<<2, 1, 1>>)
                    \o <<Gate({48}, Pieces(<<4>>)),
                         Gate({55, 60}, <<Branch(<<Rest>>, <<Raw, Nav, Rest>>)>>)>>
                    \o Pieces(<<2>>) \o <<Sized(1)>> \o Pieces(<<1>>))
<1> DEFINE p21 == Pieces(<<2, 1>>)
           g44 == <<Gate({44}, Pieces(<<2, 1, 1>>))>>
           q == Pieces(<<2, 1, 1>>)
                    \o <<Gate({48}, Pieces(<<4>>)),
                         Gate({55, 60}, <<Branch(<<Rest>>, <<Raw, Nav, Rest>>)>>)>>
                    \o Pieces(<<2>>) \o <<Sized(1)>> \o Pieces(<<1>>)
           r1 == Pieces(<<25, 2, -8, 2, -8, 30, 16, 19, 19, 80>>) \o <<Rest>>
           r2 == Pieces(<<2, 1, 1>> \o Clock \o <<1, 1>>) \o <<Gate(0 .. 63, Pieces(<<1>>) \o <<Rest>>)>>
                    \o Pieces(<<1>>) \o <<Raw, Nav>> \o Pieces(<<1>>) \o <<Rest>>
           r3 == Pieces(<<2, 1, 1>> \o Clock \o <<2>>) \o <<Rest>>
           r4 == Pieces(<<2, 1, 1, 3, 1>>) \o <<Rest>>
           r5 == <<Raw, Nav, Rest>>
           r6 == Pieces(<<2, 1, 1>> \o Clock \o <<1, 1, 3>>) \o <<Peek(<<Raw, Nav, Rest>>, <<Rest>>)>>
           r7 == Pieces(<<2, 1, 1>> \o Clock) \o <<Raw>> \o Pieces(<<3, 12, 12, 48, 24, 24>>)
                    \o <<Count(2, Pieces(<<2>>))>>
           r8 == Pieces(<<2, 1>>)
           r9 == Pieces(<<2, 2, 2>>) \o <<Sized(1)>> \o Pieces(<<1>>)
           inside ==
             CASE t = \h20 -> r1 [] t = \h01 -> r2 [] t = \h11 -> r3 [] t = \h0e -> r4
               [] t \in {\h08, \h0a} -> r5 [] t \in {\h00, \h04} -> r6 [] t = \h80 -> r7
               [] t \in {\h10, \h15} -> q [] t = \h83 -> r8 [] t \in {\h12, \h13, \h14} -> r9
               [] OTHER -> <<Rest>>
<1>1. Binary(t) = p21 \o g44 \o inside
  BY DEF Binary
<1> HIDE DEF r1, r2, r3, r4, r5, r6, r7, r8, r9, q, p21, g44
<1>2. inside = q
  OBVIOUS
<1> QED BY <1>1, <1>2 DEF p21, g44, q

LEMMA BinaryLayout ==
    ASSUME NEW t
    PROVE  /\ Binary(t) \in Layouts("binary")
           /\ \E gate, more \in Layouts("binary") : Binary(t) = Pieces(<<2, 1>>) \o gate \o more
<1> DEFINE T == Layouts("binary")
           g44 == Gate({44}, Pieces(<<2, 1, 1>>))
           g48 == Gate({48}, Pieces(<<4>>))
           g55 == Gate({55, 60}, <<Branch(<<Rest>>, <<Raw, Nav, Rest>>)>>)
<1>1. /\ <<2, 1>> \in Seq(Int) /\ <<2, 1, 1>> \in Seq(Int) /\ <<4>> \in Seq(Int)
      /\ <<2>> \in Seq(Int) /\ <<1>> \in Seq(Int)
  OBVIOUS
<1>2. <<g44>> \in T /\ <<g48>> \in T /\ <<g55>> \in T
  <2>1. {44} \in SUBSET Nat /\ {48} \in SUBSET Nat /\ {55, 60} \in SUBSET Nat
    OBVIOUS
  <2>2. Pieces(<<2, 1, 1>>) \in Seq(Inner("binary")) /\ Pieces(<<4>>) \in Seq(Inner("binary"))
    BY <1>1, PiecesPlain, StepsMono
  <2>3. <<Branch(<<Rest>>, <<Raw, Nav, Rest>>)>> \in Seq(Inner("binary"))
    BY Building
  <2> QED BY <2>1, <2>2, <2>3, Building
<1> HIDE DEF g44, g48, g55
<1>3. <<g48, g55>> \in T
  BY <1>2, TwoSteps
<1>4. /\ \A a, b \in T : a \o b \in T
      /\ \A s \in Seq(Int) : Pieces(s) \in T
      /\ <<Sized(1)>> \in T
  BY Building
<1> HIDE DEF T
<1>5. Pieces(<<2, 1, 1>>) \o <<g48, g55>> \o Pieces(<<2>>) \o <<Sized(1)>> \o Pieces(<<1>>) \in T
  BY <1>1, <1>3, <1>4
<1>6. PICK more \in T : Binary(t) = Pieces(<<2, 1>>) \o <<g44>> \o more
  <2>1. CASE t \notin {\h10, \h15}
    BY <2>1, LayoutsBuild, BinaryBuilt DEF T, g44
  <2>2. CASE t \in {\h10, \h15}
    <3> DEFINE q == Pieces(<<2, 1, 1>>) \o <<g48, g55>> \o Pieces(<<2>>) \o <<Sized(1)>> \o Pieces(<<1>>)
    <3>1. Binary(t) = Pieces(<<2, 1>>) \o <<g44>> \o q
      BY <2>2, BinaryGated DEF g44, g48, g55
    <3>2. q \in T
      BY <1>5
    <3> QED BY <3>1, <3>2
  <2> QED BY <2>1, <2>2
<1>7. Pieces(<<2, 1>>) \o <<g44>> \o more \in T
  BY <1>1, <1>2, <1>4
<1> QED BY <1>2, <1>6, <1>7 DEF T

\* Every body has a layout, made of these steps.
LEMMA BodyLayout ==
    ASSUME NEW k \in {"text", "sendai", "binary"}, NEW t
    PROVE  Body(k, t) \in Layouts(k)
<1> DEFINE inside == CASE k = "text" -> TextInfo(t)
                       [] k = "sendai" -> Sendai(t)
                       [] OTHER -> Binary(t)
<1>1. inside \in Layouts(k)
  BY TextLayout, SendaiLayout, BinaryLayout
<1>2. <<Gate(0 .. 41, <<Rest>>)>> \in Layouts(k)
  <2>1. <<Rest>> \in Seq(Inner(k))
    BY Building, StepsMono
  <2>2. 0 .. 41 \in SUBSET Nat
    OBVIOUS
  <2> QED BY <2>1, <2>2, Building
<1>3. Body(k, t) = Header \o <<Gate(0 .. 41, <<Rest>>)>> \o inside
  BY DEF Body
<1> HIDE DEF inside
<1> QED BY <1>1, <1>2, <1>3, HeaderLayout, Building

-----------------------------------------------------------------------------
(* The cursor of a DATA body, which skips and replaces. *)

\* The fields come in order and the cursor is behind the last.
Ordered(c) ==
    /\ c \in Cursors
    /\ InOrder(c.shown)
    /\ \A k \in DOMAIN c.shown : c.shown[k].at + c.shown[k].n <= c.pos

\* A field from the cursor on, behind the first m of those there are.
LEMMA NewLast ==
    ASSUME size \in Nat, NEW c, Ordered(c), NEW n \in Nat, c.pos + n <= size,
           NEW t, NEW m \in 0 .. Len(c.shown), t \in Seq(Piece), Len(t) = m + 1,
           \A k \in 1 .. m : t[k] = c.shown[k],
           t[m + 1] = [at |-> c.pos, n |-> n]
    PROVE  InOrder(t) /\ \A k \in DOMAIN t : t[k].at + t[k].n <= c.pos + n
<1> DEFINE s == c.shown
           p == c.pos
<1>1. /\ s \in Seq(Piece) /\ p \in Nat /\ Len(s) \in Nat /\ m \in Nat
      /\ DOMAIN s = 1 .. Len(s) /\ DOMAIN t = 1 .. (m + 1)
      /\ \A k \in 1 .. Len(s) : s[k] \in Piece
  BY LenProperties, ElementOfSeq DEF Ordered, Cursors
<1>2. \A k \in 1 .. m : /\ t[k] \in Piece /\ t[k].at + t[k].n <= p
                        /\ \A j \in 1 .. (k - 1) : t[j].at + t[j].n <= t[k].at
  <2> SUFFICES ASSUME NEW k \in 1 .. m
               PROVE  /\ t[k] \in Piece /\ t[k].at + t[k].n <= p
                      /\ \A j \in 1 .. (k - 1) : t[j].at + t[j].n <= t[k].at
    OBVIOUS
  <2>1. k \in DOMAIN s /\ t[k] = s[k] /\ s[k] \in Piece
    BY <1>1
  <2>2. s[k].at + s[k].n <= p /\ \A j \in 1 .. (k - 1) : s[j].at + s[j].n <= s[k].at
    BY <2>1 DEF Ordered, InOrder
  <2>3. \A j \in 1 .. (k - 1) : j \in 1 .. m
    BY <1>1
  <2>4. \A j \in 1 .. (k - 1) : t[j] = s[j]
    BY <2>3
  <2> QED BY <2>1, <2>2, <2>4
<1>3. t[m + 1].at = p /\ t[m + 1].n = n
  OBVIOUS
<1>4. \A k \in 1 .. m : t[k].at \in Nat /\ t[k].n \in Nat
  BY <1>2 DEF Piece
<1> HIDE DEF s, p
<1>5. p + n <= size /\ p <= p + n /\ p \in Nat
  BY <1>1 DEF p
<1>6. ASSUME NEW k \in 1 .. (m + 1)
      PROVE  /\ t[k].n >= 0 /\ t[k].at + t[k].n <= p + n
             /\ \A j \in 1 .. (k - 1) : t[j].at + t[j].n <= t[k].at
  <2>1. CASE k = m + 1
    <3>1. k - 1 = m
      BY <1>1, <2>1
    <3>2. \A j \in 1 .. m : t[j].at + t[j].n <= p
      BY <1>2
    <3> QED BY <1>3, <1>5, <2>1, <3>1, <3>2
  <2>2. CASE k # m + 1
    <3>1. k \in 1 .. m
      BY <1>1, <2>2
    <3>2. t[k].at + t[k].n <= p /\ t[k].at \in Nat /\ t[k].n \in Nat
      BY <1>2, <1>4, <3>1
    <3>3. \A j \in 1 .. (k - 1) : t[j].at + t[j].n <= t[k].at
      BY <1>2, <3>1
    <3>4. t[k].at + t[k].n <= p + n
      BY <1>5, <3>2
    <3> QED BY <3>2, <3>3, <3>4
  <2> QED BY <2>1, <2>2
<1>7. \A k \in 1 .. (m + 1) : t[k].at \in Nat /\ t[k].n \in Nat
  <2> SUFFICES ASSUME NEW k \in 1 .. (m + 1) PROVE t[k].at \in Nat /\ t[k].n \in Nat
    OBVIOUS
  <2>1. k \in 1 .. m \/ k = m + 1
    BY <1>1
  <2> QED BY <1>3, <1>4, <1>5, <2>1
<1>8. \A k \in 1 .. (m + 1) : t[k].at + t[k].n <= size
  <2> SUFFICES ASSUME NEW k \in 1 .. (m + 1) PROVE t[k].at + t[k].n <= size
    OBVIOUS
  <2>1. t[k].at + t[k].n <= p + n /\ t[k].at \in Nat /\ t[k].n \in Nat
    BY <1>6, <1>7
  <2> QED BY <1>5, <2>1
<1>9. InOrder(t)
  BY <1>1, <1>6, <1>8 DEF InOrder
<1> QED BY <1>1, <1>6, <1>9 DEF p

\* Taking, with the fields there were before.
LEMMA TookOrdered ==
    ASSUME size \in Nat, NEW c, Ordered(c), NEW n \in Int
    PROVE  LET d == Took(c, n)
           IN  /\ Ordered(d)
               /\ d.ok => /\ c.ok /\ n \in Nat /\ d.pos = c.pos + n
                          /\ d.shown = Append(c.shown, [at |-> c.pos, n |-> n])
<1> DEFINE d == Took(c, n)
<1>1. c \in Cursors /\ c.pos \in Nat /\ c.shown \in Seq(Piece) /\ Len(c.shown) \in Nat
  BY LenProperties DEF Ordered, Cursors
<1>2. CASE c.ok /\ n >= 0 /\ c.pos + n <= size
  <2>1. d = [c EXCEPT !.pos = @ + n, !.shown = Append(@, [at |-> c.pos, n |-> n])]
    BY <1>2 DEF Took
  <2>2. d.pos = c.pos + n /\ d.ok = c.ok /\ d.shown = Append(c.shown, [at |-> c.pos, n |-> n])
    BY <1>1, <2>1 DEF Cursors
  <2>3. n \in Nat /\ [at |-> c.pos, n |-> n] \in Piece /\ c.pos + n \in Nat
    BY <1>1, <1>2 DEF Piece
  <2> DEFINE t == Append(c.shown, [at |-> c.pos, n |-> n])
  <2>4. /\ t \in Seq(Piece) /\ Len(t) = Len(c.shown) + 1
        /\ \A k \in 1 .. Len(c.shown) : t[k] = c.shown[k]
        /\ t[Len(c.shown) + 1] = [at |-> c.pos, n |-> n]
    BY <1>1, <2>3, AppendProperties
  <2> HIDE DEF t
  <2>5. InOrder(t) /\ \A k \in DOMAIN t : t[k].at + t[k].n <= c.pos + n
    <3>1. Len(c.shown) \in 0 .. Len(c.shown)
      BY <1>1
    <3> QED BY <1>2, <2>3, <2>4, <3>1, NewLast
  <2>6. d \in Cursors
    BY <1>1, <2>1, <2>2, <2>3, <2>4 DEF Cursors, t
  <2> QED BY <1>2, <2>2, <2>3, <2>5, <2>6 DEF Ordered, t
<1>3. CASE ~(c.ok /\ n >= 0 /\ c.pos + n <= size)
  <2>1. d = [c EXCEPT !.ok = FALSE]
    BY <1>3 DEF Took, Panicked
  <2>2. d \in Cursors /\ d.pos = c.pos /\ d.shown = c.shown /\ d.ok = FALSE
    BY <1>1, <2>1 DEF Cursors
  <2> QED BY <2>2 DEF Ordered
<1> QED BY <1>2, <1>3

\* Replacing: all but the last field stay.
LEMMA TookAgainOrdered ==
    ASSUME size \in Nat, NEW c, Ordered(c), c.shown # <<>>, NEW n \in Int
    PROVE  LET d == TookAgain(c, n)
           IN  /\ Ordered(d)
               /\ d.ok => /\ c.ok /\ n \in Nat /\ d.pos = c.pos + n /\ Len(d.shown) = Len(c.shown)
                          /\ \A k \in 1 .. (Len(c.shown) - 1) : d.shown[k] = c.shown[k]
<1> DEFINE d == TookAgain(c, n)
           L == Len(c.shown)
           q == [at |-> c.pos, n |-> n]
<1>1. /\ c \in Cursors /\ c.pos \in Nat /\ c.shown \in Seq(Piece) /\ L \in Nat
      /\ DOMAIN c.shown = 1 .. L /\ L - 1 \in 0 .. L /\ L \in 1 .. L
  BY LenProperties, EmptySeq DEF Ordered, Cursors
<1>2. CASE c.ok /\ n >= 0 /\ c.pos + n <= size
  <2> DEFINE t == [c.shown EXCEPT ![L] = q]
  <2>1. d = [c EXCEPT !.pos = @ + n, !.shown = t]
    BY <1>2 DEF TookAgain
  <2>2. d.pos = c.pos + n /\ d.ok = c.ok /\ d.shown = t
    BY <1>1, <2>1 DEF Cursors
  <2>3. n \in Nat /\ q \in Piece /\ c.pos + n \in Nat
    BY <1>1, <1>2 DEF Piece
  <2>4. /\ t \in Seq(Piece) /\ Len(t) = L
        /\ \A k \in 1 .. (L - 1) : t[k] = c.shown[k]
        /\ t[L] = q
    <3>1. t \in Seq(Piece) /\ Len(t) = L
      BY <1>1, <2>3, ExceptSeq
    <3> HIDE DEF q
    <3>2. \A k \in 1 .. L : t[k] = IF k = L THEN q ELSE c.shown[k]
      BY <1>1
    <3>3. \A k \in 1 .. (L - 1) : k \in 1 .. L /\ k # L
      BY <1>1
    <3> HIDE DEF t, L
    <3> QED BY <1>1, <3>1, <3>2, <3>3
  <2> HIDE DEF t
  <2>5. InOrder(t) /\ \A k \in DOMAIN t : t[k].at + t[k].n <= c.pos + n
    <3> DEFINE m == L - 1
    <3>1. m \in 0 .. Len(c.shown) /\ Len(t) = m + 1 /\ t[m + 1] = [at |-> c.pos, n |-> n]
          /\ \A k \in 1 .. m : t[k] = c.shown[k]
      BY <1>1, <2>4
    <3> HIDE DEF m
    <3> QED BY <1>2, <2>3, <2>4, <3>1, NewLast
  <2>6. d \in Cursors
    BY <1>1, <2>1, <2>2, <2>3, <2>4 DEF Cursors
  <2> QED BY <1>2, <2>2, <2>3, <2>4, <2>5, <2>6 DEF Ordered
<1>3. CASE ~(c.ok /\ n >= 0 /\ c.pos + n <= size)
  <2>1. d = [c EXCEPT !.ok = FALSE]
    BY <1>3 DEF TookAgain, Panicked
  <2>2. d \in Cursors /\ d.pos = c.pos /\ d.shown = c.shown /\ d.ok = FALSE
    BY <1>1, <2>1 DEF Cursors
  <2> QED BY <2>2 DEF Ordered
<1> QED BY <1>2, <1>3

LEMMA SkippedOrdered ==
    ASSUME NEW c, Ordered(c), NEW n \in Nat
    PROVE  /\ Ordered(Skipped(c, n))
           /\ Skipped(c, n).shown = c.shown /\ Skipped(c, n).ok = c.ok
           /\ Skipped(c, n).pos = c.pos + n
<1>1. c.pos \in Nat /\ c \in Cursors /\ c.shown \in Seq(Piece)
  BY DEF Ordered, Cursors
<1> DEFINE d == Skipped(c, n)
<1>2. d \in Cursors /\ d.shown = c.shown /\ d.ok = c.ok /\ d.pos = c.pos + n
  BY <1>1 DEF Skipped, Cursors
<1> HIDE DEF d
<1>3. ASSUME NEW k \in DOMAIN c.shown
      PROVE  c.shown[k].at + c.shown[k].n <= c.pos + n
  <2>1. c.shown[k] \in Piece /\ c.shown[k].at + c.shown[k].n <= c.pos
    BY <1>1, ElementOfSeq, LenProperties DEF Ordered
  <2>2. c.shown[k].at \in Nat /\ c.shown[k].n \in Nat
    BY <2>1 DEF Piece
  <2> QED BY <1>1, <2>1, <2>2
<1> QED BY <1>2, <1>3 DEF Ordered, d

\* The same for a cursor that goes on without a field.
LEMMA NoFieldOrdered ==
    ASSUME size \in Nat, NEW c, Ordered(c), NEW n \in Nat
    PROVE  LET d == [Took(c, n) EXCEPT !.shown = c.shown]
           IN  Ordered(d) /\ d.shown = c.shown /\ (d.ok => c.ok /\ d.pos = c.pos + n)
<1> DEFINE b == Took(c, n)
           d == [b EXCEPT !.shown = c.shown]
<1>1. /\ b \in Cursors /\ c \in Cursors /\ c.pos \in Nat /\ c.shown \in Seq(Piece)
      /\ b.pos \in {c.pos, c.pos + n} /\ (b.ok => c.ok /\ b.pos = c.pos + n)
  <2>1. c \in Cursors /\ c.pos \in Nat /\ c.shown \in Seq(Piece)
    BY DEF Ordered, Cursors
  <2>2. b \in Cursors /\ (b.ok => c.ok /\ b.pos = c.pos + n)
    <3>1. Ordered(b) /\ (b.ok => c.ok /\ b.pos = c.pos + n)
      <4>1. n \in Int
        OBVIOUS
      <4> QED BY <4>1, TookOrdered
    <3> QED BY <3>1 DEF Ordered
  <2>3. b.pos \in {c.pos, c.pos + n}
    BY <2>1 DEF Took, Panicked, Cursors
  <2> QED BY <2>1, <2>2, <2>3
<1> HIDE DEF b
<1>2. d \in Cursors /\ d.shown = c.shown /\ d.ok = b.ok /\ d.pos = b.pos
  BY <1>1 DEF Cursors
<1> HIDE DEF d
<1>3. \A k \in DOMAIN c.shown : c.shown[k].at + c.shown[k].n <= b.pos
  <2>1. \A k \in DOMAIN c.shown : c.shown[k].at + c.shown[k].n <= c.pos
    BY DEF Ordered
  <2>2. \A k \in DOMAIN c.shown : c.shown[k].at + c.shown[k].n <= c.pos + n
    <3>1. Skipped(c, n).shown = c.shown /\ Skipped(c, n).pos = c.pos + n /\ Ordered(Skipped(c, n))
      BY SkippedOrdered
    <3> QED BY <3>1 DEF Ordered
  <2> QED BY <1>1, <2>1, <2>2
<1> QED BY <1>1, <1>2, <1>3 DEF Ordered, d, b

-----------------------------------------------------------------------------
(* The invariant of a DATA body, and the steps of its layouts. *)

DataInv ==
    /\ size \in Nat /\ Ordered(cur)
    /\ kind \in {"text", "sendai", "binary"} /\ info \in Nat
    /\ plan \in Seq(Steps(kind, BOOLEAN))
    /\ gated \in BOOLEAN /\ counted \in [at : Nat, n : Nat]
    /\ gps \in [lat : Nat, lon : Nat]
    /\ PositionAsSent

\* What a step holds, by what it does.
LEMMA StepHolds ==
    ASSUME NEW k, NEW again \in {{FALSE}, BOOLEAN}, NEW s \in Steps(k, again)
    PROVE  /\ s.op \in Ops
           /\ s.op \in {"take", "position"} => s.n \in Nat /\ s.again \in again
           /\ s.op = "position" => s.form \in Forms(k)
           /\ s.op \in {"skip", "count", "sized"} => s.n \in Nat
           /\ s.op = "gate" => s.lens \subseteq Nat /\ s.then \in Seq(Inner(k))
           /\ s.op = "branch" => s.then \in Seq(Inner(k)) /\ s.else \in Seq(Inner(k))
           /\ s.op = "count" => s.item \in Seq(Inner(k))
<1>1. CASE s \in Plain(k, again)
  BY <1>1 DEF Plain, Ops
<1>2. CASE s \in Deciding(Inner(k))
  <2> DEFINE I == Seq(Inner(k))
  <2>1. \/ s \in [op : {"gate"}, lens : SUBSET Nat, then : I]
        \/ s \in [op : {"branch"}, peeks : BOOLEAN, then : I, else : I]
        \/ s \in [op : {"count"}, n : Nat, item : I]
        \/ s \in [op : {"sized"}, n : Nat]
    BY <1>2 DEF Deciding
  <2> HIDE DEF I
  <2>2. CASE s \in [op : {"gate"}, lens : SUBSET Nat, then : I]
    BY <2>2 DEF Ops, I
  <2>3. CASE s \in [op : {"branch"}, peeks : BOOLEAN, then : I, else : I]
    BY <2>3 DEF Ops, I
  <2>4. CASE s \in [op : {"count"}, n : Nat, item : I]
    BY <2>4 DEF Ops, I
  <2>5. CASE s \in [op : {"sized"}, n : Nat]
    BY <2>5 DEF Ops, I
  <2> QED BY <2>1, <2>2, <2>3, <2>4, <2>5
<1> QED BY <1>1, <1>2 DEF Steps

\* The plan's first step, and what is left behind it.
LEMMA PlanStep ==
    ASSUME NEW S, plan \in Seq(S), plan # <<>>
    PROVE  Step \in S /\ Tail(plan) \in Seq(S)
  BY HeadTailProperties DEF Step

\* A part of a step is a plan.
LEMMA PartsArePlans ==
    ASSUME NEW k, NEW again \in {{FALSE}, BOOLEAN}
    PROVE  Seq(Inner(k)) \subseteq Seq(Steps(k, again))
<1>1. Seq(Inner(k)) \subseteq Seq(Steps(k, {FALSE})) /\ Seq(Steps(k, {FALSE})) \subseteq Seq(Steps(k, BOOLEAN))
  BY StepsMono DEF Layouts
<1> QED BY <1>1

\* The items of a list are steps of the layout.
LEMMA ItemsArePlans ==
    ASSUME NEW k, NEW item \in Seq(Inner(k)), NEW n \in Nat
    PROVE  Items(item, n) \in Seq(Steps(k, BOOLEAN))
<1> DEFINE L == Len(item)
           S == Steps(k, BOOLEAN)
           Mark(j, step) == IF j > L /\ step.op \in {"take", "position"}
                            THEN [step EXCEPT !.again = TRUE] ELSE step
<1>1. L \in Nat /\ (\A i \in 1 .. L : item[i] \in Inner(k))
  BY LenProperties, ElementOfSeq
<1>2. \A j, step : step \in Inner(k) => Mark(j, step) \in S
  <2> SUFFICES ASSUME NEW j, NEW step \in Inner(k) PROVE Mark(j, step) \in S
    OBVIOUS
  <2>1. Inner(k) \subseteq Steps(k, {FALSE}) /\ Steps(k, {FALSE}) \subseteq S
    <3>1. Plain(k, {FALSE}) \subseteq Inner(k)
      BY DEF Inner
    <3>2. Inner(k) \subseteq Steps(k, {FALSE})
      BY <3>1, DecidingMono DEF Inner, Steps
    <3> QED BY <3>2, StepsMono
  <2>2. CASE step.op \in {"take", "position"}
    <3>1. step \in Plain(k, {FALSE})
      <4>1. CASE step \in Deciding(Plain(k, {FALSE}))
        BY <2>2, <4>1 DEF Deciding
      <4> QED BY <4>1 DEF Inner
    <3>2. [step EXCEPT !.again = TRUE] \in Plain(k, BOOLEAN)
      <4>1. CASE step.op = "take"
        <5>1. step \in [op : {"take"}, n : Nat, again : {FALSE}]
          BY <3>1, <4>1 DEF Plain
        <5> QED BY <5>1 DEF Plain
      <4>2. CASE step.op = "position"
        <5>1. step \in [op : {"position"}, form : Forms(k), n : Nat, again : {FALSE}]
          BY <3>1, <4>2 DEF Plain
        <5> QED BY <5>1 DEF Plain
      <4> QED BY <2>2, <4>1, <4>2
    <3> QED BY <2>1, <3>2 DEF Steps
  <2>3. CASE ~(step.op \in {"take", "position"})
    BY <2>1, <2>3
  <2> QED BY <2>2, <2>3
<1> DEFINE m == n * L
<1>3. m \in Nat
  BY <1>1
<1>4. \A j \in 1 .. m : ((j - 1) % L) + 1 \in 1 .. L
  <2>1. CASE L = 0
    <3>1. m = 0
      BY <2>1
    <3> QED BY <3>1
  <2>2. CASE L # 0
    <3> HIDE DEF L, m
    <3> QED BY <1>1, <1>3, <2>2
  <2> QED BY <2>1, <2>2
<1> DEFINE it(j) == Mark(j, item[((j - 1) % L) + 1])
<1>5. Items(item, n) = [j \in 1 .. m |-> it(j)]
  BY DEF Items
<1>6. \A j \in 1 .. m : it(j) \in S
  BY <1>1, <1>2, <1>4
<1> HIDE DEF it, S, m
<1> QED BY <1>3, <1>5, <1>6 DEF S

LEMMA DataInitInv == DataInit => DataInv
<1> SUFFICES ASSUME DataInit PROVE DataInv
  OBVIOUS
<1>1. /\ size \in Nat /\ kind \in {"text", "sendai", "binary"} /\ info \in Nat
      /\ counted = [at |-> 0, n |-> 0] /\ gated = FALSE /\ gps = NoPosition /\ cur = NewCursor
  <2>1. info \in InfoTypes \/ info \in InfoBytes
    BY DEF DataInit
  <2>2. info \in Nat
    <3>1. InfoBytes \subseteq (0 .. 255) \ (48 .. 57)
      BY DataAssumption
    <3>2. (0 .. 255) \ (48 .. 57) \subseteq Nat
      OBVIOUS
    <3>3. InfoBytes \subseteq Nat
      BY <3>1, <3>2
    <3>4. InfoTypes \subseteq Nat
      BY DataAssumption
    <3>5. CASE info \in InfoTypes
      BY <3>4, <3>5
    <3>6. CASE info \in InfoBytes
      BY <3>3, <3>6
    <3> QED BY <2>1, <3>5, <3>6
  <2> QED BY <2>2, DataAssumption DEF DataInit
<1>2. plan \in Seq(Steps(kind, BOOLEAN))
  <2>1. plan \in {<<Rest>>, Body(kind, info)}
    BY DEF DataInit
  <2>2. <<Rest>> \in Layouts(kind) /\ Body(kind, info) \in Layouts(kind)
    BY <1>1, Building, BodyLayout
  <2> QED BY <2>1, <2>2, StepsMono
<1>3. Ordered(cur)
  <2>1. cur = [pos |-> 0, shown |-> <<>>, ok |-> TRUE]
    BY <1>1 DEF NewCursor
  <2>2. <<>> \in Seq(Piece) /\ DOMAIN <<>> = {}
    BY EmptySeq
  <2> QED BY <2>1, <2>2 DEF Ordered, Cursors, InOrder
<1>4. gps \in [lat : Nat, lon : Nat] /\ PositionAsSent
  <2>1. place = <<>> /\ gps = NoPosition
    BY DEF DataInit
  <2> QED BY <2>1 DEF NoPosition, PositionAsSent
<1> QED BY <1>1, <1>2, <1>3, <1>4 DEF DataInv

\* The facts about the step that is next.
LEMMA NextStep ==
    ASSUME DataInv, NEW op, Do(op)
    PROVE  /\ Step \in Steps(kind, BOOLEAN) /\ Tail(plan) \in Seq(Steps(kind, BOOLEAN))
           /\ Step.op = op /\ cur.ok
  BY PlanStep DEF DataInv, Do

\* Taking a field, in the place of the last one or behind it.
LEMMA FieldOrdered ==
    ASSUME DataInv, NEW n \in Nat, cur' = IF Replaces THEN TookAgain(cur, n) ELSE Took(cur, n)
    PROVE  Ordered(cur')
<1>1. size \in Nat /\ Ordered(cur) /\ n \in Int
  BY DEF DataInv
<1>2. Replaces => cur.shown # <<>>
  BY EmptySeq DEF Replaces
<1> QED BY <1>1, <1>2, TookOrdered, TookAgainOrdered

LEMMA PlainKeepsInv ==
    ASSUME DataInv, TakeField \/ SkipBytes \/ TakeRest \/ NoFix
    PROVE  DataInv'
<1>1. /\ UNCHANGED <<size, kind, info, gated, counted, place, gps>> /\ plan' = Tail(plan)
      /\ plan' \in Seq(Steps(kind, BOOLEAN))
  BY NextStep DEF TakeField, SkipBytes, TakeRest, NoFix
<1>2. size \in Nat /\ Ordered(cur) /\ cur.pos \in Nat
  BY DEF DataInv, Ordered, Cursors
<1>3. Ordered(cur')
  <2>1. CASE TakeField
    <3>1. Step.n \in Nat
      BY <2>1, NextStep, StepHolds DEF TakeField
    <3> QED BY <2>1, <3>1, FieldOrdered DEF TakeField
  <2>2. CASE SkipBytes
    <3>1. Step.n \in Nat
      BY <2>2, NextStep, StepHolds DEF SkipBytes
    <3> QED BY <1>2, <2>2, <3>1, SkippedOrdered DEF SkipBytes
  <2>3. CASE TakeRest
    <3>1. size - cur.pos \in Int
      BY <1>2
    <3> QED BY <1>2, <2>3, <3>1, TookOrdered DEF TakeRest, TookRest
  <2>4. CASE NoFix
    <3>1. Step.n \in Nat
      BY <2>4, NextStep, StepHolds DEF NoFix
    <3> QED BY <1>2, <2>4, <3>1, NoFieldOrdered DEF NoFix
  <2> QED BY <2>1, <2>2, <2>3, <2>4
<1> QED BY <1>1, <1>3 DEF DataInv, PositionAsSent, Ordered, InOrder

LEMMA Between == ASSUME NEW a \in Nat, NEW b \in Nat, NEW x \in a .. b PROVE x \in Nat /\ a <= x /\ x <= b
  OBVIOUS

LEMMA PlacesInJapan ==
    ASSUME NEW la \in Latitudes, NEW lo \in Longitudes
    PROVE  InJapan(la, lo)
<1>1. la \in 20 * Degree .. 46 * Degree /\ lo \in 122 * Degree .. 154 * Degree
  BY DataAssumption
<1> DEFINE south == 20 * Degree
           north == 46 * Degree
           west == 122 * Degree
           east == 154 * Degree
<1>2. south \in Nat /\ north \in Nat /\ west \in Nat /\ east \in Nat
  BY DEF Degree
<1>3. la \in south .. north /\ lo \in west .. east
  BY <1>1
<1> HIDE DEF south, north, west, east
<1>4. la \in Nat /\ south <= la /\ la <= north /\ lo \in Nat /\ west <= lo /\ lo <= east
  BY <1>2, <1>3, Between
<1> QED BY <1>4 DEF InJapan, south, north, west, east

LEMMA PositionKeepsInv ==
    ASSUME DataInv, NEW la \in Latitudes, NEW lo \in Longitudes, Position(la, lo)
    PROVE  DataInv'
<1>1. /\ UNCHANGED <<size, kind, info, gated, counted>> /\ plan' = Tail(plan)
      /\ plan' \in Seq(Steps(kind, BOOLEAN))
      /\ place' = <<la, lo>> /\ gps' = Emitted(Step.form, la, lo)
      /\ Step.form \in Forms(kind) /\ Step.n \in Nat
      /\ cur' = IF Replaces THEN TookAgain(cur, Step.n) ELSE Took(cur, Step.n)
  BY NextStep, StepHolds DEF Position
<1>2. Ordered(cur')
  BY <1>1, FieldOrdered
<1> DEFINE a == Millionths(la)
           o == Millionths(lo)
<1>3. /\ gps' \in [lat : Nat, lon : Nat]
      /\ gps' = IF kind = "sendai" THEN [lat |-> a, lon |-> o] ELSE Wgs84(a, o)
  <2>1. InJapan(la, lo)
    BY PlacesInJapan
  <2>2. /\ Emitted("bcd", la, lo) = Wgs84(a, o)
        /\ Emitted("raw", la, lo) = Wgs84(a, o)
        /\ Emitted("sendai", la, lo) = [lat |-> a, lon |-> o]
        /\ \A form \in {"bcd", "raw", "sendai"} : Emitted(form, la, lo) \in [lat : Nat, lon : Nat]
    <3>1. /\ Emitted("bcd", la, lo) = EmitBcd(Digits(la), Digits(lo))
          /\ Emitted("raw", la, lo) = EmitRaw(Raw24(10, la), Raw24(110, lo))
          /\ Emitted("sendai", la, lo) = EmitSendai(Digits(la), Digits(lo))
      BY DEF Emitted
    <3> QED BY <2>1, <3>1, EveryPlaceAsSent
  <2> HIDE DEF a, o
  <2> QED BY <1>1, <2>2 DEF Forms
<1>4. PositionAsSent'
  <2>1. place'[1] = la /\ place'[2] = lo
    BY <1>1
  <2> QED BY <1>1, <1>3, <2>1 DEF PositionAsSent
<1> QED BY <1>1, <1>2, <1>3, <1>4 DEF DataInv, Ordered, InOrder

LEMMA DecidingKeepsInv ==
    ASSUME DataInv, LengthGate \/ ByteBranch
    PROVE  DataInv'
<1>1. UNCHANGED <<size, kind, info, counted, place, gps>>
  BY DEF LengthGate, ByteBranch
<1>2. plan' \in Seq(Steps(kind, BOOLEAN))
  <2>1. CASE LengthGate
    <3>1. Step.then \in Seq(Inner(kind)) /\ Tail(plan) \in Seq(Steps(kind, BOOLEAN))
      BY <2>1, NextStep, StepHolds DEF LengthGate
    <3>2. plan' \in {Step.then, Tail(plan)}
      BY <2>1 DEF LengthGate
    <3> QED BY <3>1, <3>2, PartsArePlans
  <2>2. CASE ByteBranch
    <3>1. Step.then \in Seq(Inner(kind)) /\ Step.else \in Seq(Inner(kind))
      BY <2>2, NextStep, StepHolds DEF ByteBranch
    <3>2. plan' \in {Step.then, Step.else}
      BY <2>2 DEF ByteBranch
    <3> QED BY <3>1, <3>2, PartsArePlans
  <2> QED BY <2>1, <2>2
<1>3. Ordered(cur') /\ gated' \in BOOLEAN
  <2>1. cur' \in {cur, Panicked(cur)} /\ gated' \in BOOLEAN
    BY DEF LengthGate, ByteBranch, DataInv
  <2>2. Ordered(cur) /\ Ordered(Panicked(cur))
    <3>1. Ordered(cur)
      BY DEF DataInv
    <3> QED BY <3>1 DEF Ordered, Panicked, Cursors
  <2> QED BY <2>1, <2>2
<1> QED BY <1>1, <1>2, <1>3 DEF DataInv, PositionAsSent, Ordered, InOrder

LEMMA ReadingKeepsInv ==
    ASSUME DataInv, NEW n \in Counts, ReadCount(n) \/ ReadSized(n)
    PROVE  DataInv'
<1>1. /\ UNCHANGED <<size, kind, info, gated, place, gps>>
      /\ n \in Nat /\ size \in Nat /\ Ordered(cur) /\ cur.pos \in Nat
      /\ Step.n \in Nat /\ Tail(plan) \in Seq(Steps(kind, BOOLEAN))
  <2>1. Step.n \in Nat /\ Tail(plan) \in Seq(Steps(kind, BOOLEAN))
    BY NextStep, StepHolds DEF ReadCount, ReadSized
  <2> QED BY <2>1, DataAssumption DEF ReadCount, ReadSized, DataInv, Ordered, Cursors
<1>2. Ordered(Took(cur, Step.n))
  <2>1. Step.n \in Int
    BY <1>1
  <2> QED BY <1>1, <2>1, TookOrdered
<1>3. CASE ReadCount(n)
  <2>1. Items(Step.item, n) \in Seq(Steps(kind, BOOLEAN))
    <3>1. Step.item \in Seq(Inner(kind))
      BY <1>3, NextStep, StepHolds DEF ReadCount
    <3> QED BY <1>1, <3>1, ItemsArePlans
  <2>2. plan' \in Seq(Steps(kind, BOOLEAN))
    BY <1>1, <1>3, <2>1, ConcatProperties DEF ReadCount
  <2>3. cur' = Took(cur, Step.n) /\ counted' \in [at : Nat, n : Nat]
    BY <1>1, <1>3 DEF ReadCount
  <2> QED BY <1>1, <1>2, <2>2, <2>3 DEF DataInv, PositionAsSent, Ordered, InOrder
<1>4. CASE ReadSized(n)
  <2>1. Ordered(cur')
    <3>1. cur' = Took(Took(cur, Step.n), n) /\ n \in Int
      BY <1>1, <1>4 DEF ReadSized
    <3> QED BY <1>1, <1>2, <3>1, TookOrdered
  <2>2. plan' = Tail(plan) /\ UNCHANGED counted
    BY <1>4 DEF ReadSized
  <2> QED BY <1>1, <2>1, <2>2 DEF DataInv, PositionAsSent, Ordered, InOrder
<1> QED BY <1>3, <1>4

LEMMA DataNextInv == DataInv /\ [DataNext]_datavars => DataInv'
<1> SUFFICES ASSUME DataInv, [DataNext]_datavars PROVE DataInv'
  OBVIOUS
<1>1. CASE TakeField \/ SkipBytes \/ TakeRest \/ NoFix
  BY <1>1, PlainKeepsInv
<1>2. CASE LengthGate \/ ByteBranch
  BY <1>2, DecidingKeepsInv
<1>3. CASE \E la \in Latitudes, lo \in Longitudes : Position(la, lo)
  BY <1>3, PositionKeepsInv
<1>4. CASE \E n \in Counts : ReadCount(n) \/ ReadSized(n)
  BY <1>4, ReadingKeepsInv
<1>5. CASE UNCHANGED datavars
  BY <1>5 DEF datavars, DataInv, PositionAsSent, Ordered, InOrder
<1> QED BY <1>1, <1>2, <1>3, <1>4, <1>5 DEF DataNext, DataReturned

\* The invariant of the parser of DATA bodies, for all lengths, types and counts.
THEOREM DataInvariant == DataSpec => []DataInv
<1> QED BY DataInitInv, DataNextInv, PTL DEF DataSpec

LEMMA DataTypes == DataInv => DataTypeOK
<1> SUFFICES ASSUME DataInv PROVE DataTypeOK
  OBVIOUS
<1>1. \A k \in DOMAIN plan : plan[k].op \in Ops
  <2>1. \A k \in DOMAIN plan : plan[k] \in Steps(kind, BOOLEAN)
    BY ElementOfSeq, LenProperties DEF DataInv
  <2> QED BY <2>1, StepHolds
<1> QED BY <1>1 DEF DataInv, DataTypeOK, Ordered, Cursors, Piece

\* The state of the parser of DATA bodies stays within its types.
THEOREM DataTypeCorrect == DataSpec => []DataTypeOK
<1> QED BY DataInvariant, DataTypes, PTL

\* The fields of a record are pieces of the body, one behind the other, for every layout,
\* all lengths of bodies and all counts in them.
THEOREM FieldsStayInOrder == DataSpec => []FieldsInOrder
<1>1. DataInv => FieldsInOrder
  BY DEF DataInv, FieldsInOrder, Ordered
<1> QED BY DataInvariant, <1>1, PTL

\* Whatever layout a position is in, it is where the sender was.
THEOREM PositionsAsSent == DataSpec => []PositionAsSent
<1>1. DataInv => PositionAsSent
  BY DEF DataInv
<1> QED BY DataInvariant, <1>1, PTL

\* Either kind of body: the types hold in a program that parses both.
THEOREM TypeCorrect == Spec => []TypeOK
<1> DEFINE Both == (NoData /\ AcchInv) \/ (NoAcch /\ DataInv)
<1>1. Init => Both
  BY AcchInitInv, DataInitInv DEF Init
<1>2. Both /\ [Next]_vars => Both'
  <2> SUFFICES ASSUME Both, [Next]_vars PROVE Both'
    OBVIOUS
  <2>1. CASE NoData /\ AcchInv
    <3>1. kind = "none" /\ parser # "none"
      BY <2>1 DEF NoData, AcchInv, Parsers
    <3>2. UNCHANGED dataonly /\ [AcchNext]_acchvars
      BY <3>1 DEF Next, vars, dataonly, acchonly, acchvars
    <3>3. NoData'
      BY <2>1, <3>2 DEF NoData, dataonly
    <3> QED BY <2>1, <3>2, <3>3, AcchNextInv
  <2>2. CASE NoAcch /\ DataInv
    <3>1. kind # "none" /\ parser = "none"
      BY <2>2 DEF NoAcch, DataInv
    <3>2. UNCHANGED acchonly /\ [DataNext]_datavars
      BY <3>1 DEF Next, vars, dataonly, acchonly, datavars
    <3>3. NoAcch'
      BY <2>2, <3>2 DEF NoAcch, acchonly
    <3> QED BY <2>2, <3>2, <3>3, DataNextInv
  <2> QED BY <2>1, <2>2
<1>3. Both => TypeOK
  <2>1. NoData /\ AcchInv => TypeOK
    BY DEF TypeOK, NoData, AcchInv, AcchTypeOK, Tiled, Cursors, Piece, Going
  <2>2. NoAcch /\ DataInv => TypeOK
    BY DataTypes DEF TypeOK, DataInv
  <2> QED BY <2>1, <2>2
<1> QED BY <1>1, <1>2, <1>3, PTL DEF Spec

-----------------------------------------------------------------------------
(* The type a layout is chosen by. *)

\* Where a body has its type, and how many bytes the cursor has come by before each of
\* the steps up to that field and behind it.
InfoField(k) == IF k = "text" THEN [at |-> 40, n |-> 2] ELSE [at |-> 39, n |-> 1]
InfoStep(k) == IF k = "text" THEN 14 ELSE 13
Offsets(k) == IF k = "text" THEN <<0, 1, 5, 9, 13, 17, 24, 27, 29, 33, 37, 37, 40, 40, 42>>
                            ELSE <<0, 1, 5, 9, 13, 17, 24, 27, 29, 33, 37, 37, 39, 40>>

\* A step goes on to the next offset.
Leads(k, i, s) ==
    \/ /\ s.op = "gate" /\ i < InfoStep(k) /\ Offsets(k)[i + 1] = Offsets(k)[i]
       /\ \A l \in s.lens : l < 42
    \/ s.op = "take" /\ s.n = Offsets(k)[i + 1] - Offsets(k)[i]
    \/ s.op = "skip" /\ i < InfoStep(k) /\ s.n = Offsets(k)[i + 1] - Offsets(k)[i]

Take(n) == [op |-> "take", n |-> n, again |-> FALSE]
Skip(n) == [op |-> "skip", n |-> n]

\* Two layouts, one behind the other, and their steps.
Joint(a, b) == a \o b

LEMMA JointSteps ==
    ASSUME NEW k, NEW a \in Layouts(k), NEW b \in Layouts(k)
    PROVE  /\ Joint(a, b) \in Layouts(k) /\ Len(Joint(a, b)) = Len(a) + Len(b)
           /\ Len(a) \in Nat /\ Len(b) \in Nat
           /\ \A i \in 1 .. Len(a) : Joint(a, b)[i] = a[i]
           /\ \A i \in 1 .. Len(b) : Joint(a, b)[Len(a) + i] = b[i]
<1> DEFINE S == Steps(k, {FALSE})
           c == a \o b
<1>1. /\ c \in Seq(S) /\ Len(c) = Len(a) + Len(b) /\ Len(a) \in Nat /\ Len(b) \in Nat
      /\ \A i \in 1 .. (Len(a) + Len(b)) : c[i] = IF i <= Len(a) THEN a[i] ELSE b[i - Len(a)]
  <2> HIDE DEF S, c
  <2>1. a \in Seq(S) /\ b \in Seq(S)
    BY DEF Layouts, S
  <2> QED BY <2>1, ConcatProperties, LenProperties DEF c
<1> DEFINE m == Len(a)
           n == Len(b)
<1> HIDE DEF S, c, m, n
<1>2. m \in Nat /\ n \in Nat
  BY <1>1 DEF m, n
<1>3. /\ \A i \in 1 .. m : i \in 1 .. (m + n) /\ i <= m
      /\ \A i \in 1 .. n : m + i \in 1 .. (m + n) /\ ~(m + i <= m) /\ (m + i) - m = i
  BY <1>2
<1>4. /\ \A i \in 1 .. m : c[i] = a[i]
      /\ \A i \in 1 .. n : c[m + i] = b[i]
  BY <1>1, <1>3 DEF m, n
<1>5. Joint(a, b) = c
  BY DEF Joint, c
<1> QED BY <1>1, <1>4, <1>5 DEF m, n, S, Layouts

LEMMA PieceAt ==
    ASSUME NEW s \in Seq(Int)
    PROVE  /\ Len(Pieces(s)) = Len(s)
           /\ \A i \in 1 .. Len(s) : Pieces(s)[i] = IF s[i] >= 0 THEN Take(s[i]) ELSE Skip(-s[i])
<1>1. DOMAIN s = 1 .. Len(s) /\ Len(s) \in Nat
  BY LenProperties
<1>2. DOMAIN Pieces(s) = 1 .. Len(s)
  BY <1>1 DEF Pieces
<1>3. \A i \in 1 .. Len(s) : Pieces(s)[i] = IF s[i] >= 0 THEN Take(s[i]) ELSE Skip(-s[i])
  BY <1>1 DEF Pieces, Take, Skip
<1>4. Pieces(s) \in Seq(Plain("text", {FALSE}))
  BY PiecesPlain
<1> QED BY <1>1, <1>2, <1>3, <1>4, LenProperties

LEMMA HeaderSteps ==
    /\ Len(Header) = 10
    /\ Header[1] = Take(1) /\ Header[2] = Take(4) /\ Header[3] = Skip(4) /\ Header[4] = Take(4)
    /\ Header[5] = Skip(4) /\ Header[6] = Take(7) /\ Header[7] = Take(3) /\ Header[8] = Take(2)
    /\ Header[9] = Skip(4) /\ Header[10] = Take(4)
<1> DEFINE h == <<1, 4, -4, 4, -4, 7, 3, 2, -4, 4>>
<1>1. h \in Seq(Int) /\ Len(h) = 10
  OBVIOUS
<1>2. /\ h[1] = 1 /\ h[2] = 4 /\ h[3] = -4 /\ h[4] = 4 /\ h[5] = -4
      /\ h[6] = 7 /\ h[7] = 3 /\ h[8] = 2 /\ h[9] = -4 /\ h[10] = 4
  OBVIOUS
<1>3. Header = Pieces(h)
  BY DEF Header
<1> HIDE DEF h
<1>4. \A i \in 1 .. 10 : Header[i] = IF h[i] >= 0 THEN Take(h[i]) ELSE Skip(-h[i])
  BY <1>1, <1>3, PieceAt
<1>5. Len(Header) = 10
  BY <1>1, <1>3, PieceAt
<1> QED BY <1>2, <1>4, <1>5

LEMMA SomePieces ==
    /\ Len(Pieces(<<3>>)) = 1 /\ Pieces(<<3>>)[1] = Take(3)
    /\ Len(Pieces(<<2>>)) = 1 /\ Pieces(<<2>>)[1] = Take(2)
    /\ Len(Pieces(<<2, 1>>)) = 2 /\ Pieces(<<2, 1>>)[1] = Take(2) /\ Pieces(<<2, 1>>)[2] = Take(1)
    /\ Len(Pieces(<<2, 1, 2, 3, 4, 4, 3>>)) = 7
    /\ Pieces(<<2, 1, 2, 3, 4, 4, 3>>)[1] = Take(2) /\ Pieces(<<2, 1, 2, 3, 4, 4, 3>>)[2] = Take(1)
<1> DEFINE a == <<3>>
           b == <<2>>
           c == <<2, 1>>
           d == <<2, 1, 2, 3, 4, 4, 3>>
<1>1. /\ a \in Seq(Int) /\ b \in Seq(Int) /\ c \in Seq(Int) /\ d \in Seq(Int)
      /\ Len(a) = 1 /\ Len(b) = 1 /\ Len(c) = 2 /\ Len(d) = 7
      /\ a[1] = 3 /\ b[1] = 2 /\ c[1] = 2 /\ c[2] = 1 /\ d[1] = 2 /\ d[2] = 1
  OBVIOUS
<1> HIDE DEF a, b, c, d
<1>2. /\ Len(Pieces(a)) = 1 /\ Pieces(a)[1] = Take(3)
      /\ Len(Pieces(b)) = 1 /\ Pieces(b)[1] = Take(2)
  BY <1>1, PieceAt
<1>3. Len(Pieces(c)) = 2 /\ Pieces(c)[1] = Take(2) /\ Pieces(c)[2] = Take(1)
  <2>1. /\ Len(Pieces(c)) = Len(c)
        /\ \A i \in 1 .. Len(c) : Pieces(c)[i] = IF c[i] >= 0 THEN Take(c[i]) ELSE Skip(-c[i])
    BY <1>1, PieceAt
  <2>2. 1 \in 1 .. Len(c) /\ 2 \in 1 .. Len(c) /\ c[1] >= 0 /\ c[2] >= 0
    BY <1>1
  <2> QED BY <1>1, <2>1, <2>2
<1>4. Len(Pieces(d)) = 7 /\ Pieces(d)[1] = Take(2) /\ Pieces(d)[2] = Take(1)
  <2>1. /\ Len(Pieces(d)) = Len(d)
        /\ \A i \in 1 .. Len(d) : Pieces(d)[i] = IF d[i] >= 0 THEN Take(d[i]) ELSE Skip(-d[i])
    BY <1>1, PieceAt
  <2>2. 1 \in 1 .. Len(d) /\ 2 \in 1 .. Len(d) /\ d[1] >= 0 /\ d[2] >= 0
    BY <1>1
  <2> QED BY <1>1, <2>1, <2>2
<1> QED BY <1>2, <1>3, <1>4 DEF a, b, c, d

\* A text body's part up to its type.
LEMMA TextStart ==
    ASSUME NEW t
    PROVE  /\ Len(TextInfo(t)) >= 3 /\ TextInfo(t)[1] = Take(3)
           /\ TextInfo(t)[2] = Gate({40}, <<>>) /\ TextInfo(t)[3] = Take(2)
<1> DEFINE g40 == <<Gate({40}, <<>>)>>
           p3 == Pieces(<<3>>)
           p2 == Pieces(<<2>>)
<1>0. PICK g44 \in Layouts("text"), inside \in Layouts("text") :
          TextInfo(t) = p3 \o g40 \o p2 \o g44 \o inside
  BY TextLayout
<1>1. p3 \in Layouts("text") /\ p2 \in Layouts("text") /\ g40 \in Layouts("text")
  <2>1. <<3>> \in Seq(Int) /\ <<2>> \in Seq(Int) /\ <<>> \in Seq(Inner("text")) /\ {40} \in SUBSET Nat
    OBVIOUS
  <2> QED BY <2>1, Building
<1>2. /\ Len(p3) = 1 /\ p3[1] = Take(3) /\ Len(p2) = 1 /\ p2[1] = Take(2)
      /\ Len(g40) = 1 /\ g40[1] = Gate({40}, <<>>)
  BY SomePieces
<1> HIDE DEF p3, g40, p2
<1> DEFINE two == Joint(p3, g40)
           three == Joint(two, p2)
           four == Joint(three, g44)
<1>4. two \in Layouts("text") /\ Len(two) = 2 /\ two[1] = Take(3) /\ two[2] = Gate({40}, <<>>)
  <2>1. /\ two \in Layouts("text") /\ Len(two) = Len(p3) + Len(g40)
        /\ \A i \in 1 .. Len(p3) : two[i] = p3[i]
        /\ \A i \in 1 .. Len(g40) : two[Len(p3) + i] = g40[i]
    BY <1>1, JointSteps
  <2> HIDE DEF two
  <2>2. 1 \in 1 .. Len(p3) /\ 1 \in 1 .. Len(g40)
    BY <1>2
  <2>3. two[1] = p3[1] /\ two[Len(p3) + 1] = g40[1]
    BY <2>1, <2>2
  <2> QED BY <1>2, <2>1, <2>3
<1> HIDE DEF two
<1>5. /\ three \in Layouts("text") /\ Len(three) = 3 /\ three[1] = Take(3)
      /\ three[2] = Gate({40}, <<>>) /\ three[3] = Take(2)
  <2>1. /\ three \in Layouts("text") /\ Len(three) = Len(two) + Len(p2)
        /\ \A i \in 1 .. Len(two) : three[i] = two[i]
        /\ \A i \in 1 .. Len(p2) : three[Len(two) + i] = p2[i]
    <3>1. two \in Layouts("text") /\ p2 \in Layouts("text")
      BY <1>1, <1>4
    <3> QED BY <3>1, JointSteps
  <2> HIDE DEF three
  <2>2. 1 \in 1 .. Len(two) /\ 2 \in 1 .. Len(two) /\ 1 \in 1 .. Len(p2)
    BY <1>2, <1>4
  <2>3. three[1] = two[1] /\ three[2] = two[2] /\ three[Len(two) + 1] = p2[1]
    BY <2>1, <2>2
  <2> QED BY <1>2, <1>4, <2>1, <2>3
<1> HIDE DEF three
<1>6. four \in Layouts("text") /\ Len(four) >= 3 /\ Len(four) \in Nat /\ \A i \in 1 .. 3 : four[i] = three[i]
  <2>1. /\ four \in Layouts("text") /\ Len(four) = Len(three) + Len(g44)
        /\ Len(g44) \in Nat
        /\ \A i \in 1 .. Len(three) : four[i] = three[i]
    BY <1>5, JointSteps
  <2> HIDE DEF four
  <2> QED BY <1>5, <2>1
<1> HIDE DEF four
<1>7. Len(Joint(four, inside)) >= 3 /\ \A i \in 1 .. 3 : Joint(four, inside)[i] = three[i]
  <2>1. /\ Len(Joint(four, inside)) = Len(four) + Len(inside) /\ Len(inside) \in Nat
        /\ \A i \in 1 .. Len(four) : Joint(four, inside)[i] = four[i]
    <3>1. four \in Layouts("text") /\ inside \in Layouts("text")
      BY <1>6
    <3> QED BY <3>1, JointSteps
  <2>2. \A i \in 1 .. 3 : i \in 1 .. Len(four)
    BY <1>6
  <2> QED BY <1>6, <2>1, <2>2
<1>8. TextInfo(t) = Joint(four, inside)
  BY <1>0 DEF two, three, four, Joint
<1> QED BY <1>5, <1>7, <1>8

\* The part of the other bodies up to their type.
LEMMA OtherStart ==
    ASSUME NEW t
    PROVE  /\ Len(Sendai(t)) >= 2 /\ Sendai(t)[1] = Take(2) /\ Sendai(t)[2] = Take(1)
           /\ Len(Binary(t)) >= 2 /\ Binary(t)[1] = Take(2) /\ Binary(t)[2] = Take(1)
<1> DEFINE p == Pieces(<<2, 1, 2, 3, 4, 4, 3>>)
           q == Pieces(<<2, 1>>)
<1>1. /\ p \in Layouts("sendai") /\ Len(p) = 7 /\ p[1] = Take(2) /\ p[2] = Take(1)
      /\ q \in Layouts("binary") /\ Len(q) = 2 /\ q[1] = Take(2) /\ q[2] = Take(1)
  <2>1. <<2, 1, 2, 3, 4, 4, 3>> \in Seq(Int) /\ <<2, 1>> \in Seq(Int)
    OBVIOUS
  <2> QED BY <2>1, SomePieces, Building
<1>2. PICK m \in Layouts("sendai") : Sendai(t) = p \o m
  BY SendaiLayout
<1>3. PICK g \in Layouts("binary"), n \in Layouts("binary") : Binary(t) = q \o g \o n
  BY BinaryLayout
<1> HIDE DEF p, q
<1>4. /\ Len(Joint(p, m)) = Len(p) + Len(m) /\ Len(m) \in Nat
      /\ \A i \in 1 .. Len(p) : Joint(p, m)[i] = p[i]
  <2>1. p \in Layouts("sendai")
    BY <1>1
  <2> QED BY <2>1, JointSteps
<1> DEFINE r == Joint(q, g)
<1>5. /\ r \in Layouts("binary") /\ Len(r) = Len(q) + Len(g) /\ Len(g) \in Nat
      /\ \A i \in 1 .. Len(q) : r[i] = q[i]
  <2>1. q \in Layouts("binary")
    BY <1>1
  <2> QED BY <2>1, JointSteps
<1> HIDE DEF r
<1>6. /\ Len(Joint(r, n)) = Len(r) + Len(n) /\ Len(n) \in Nat
      /\ \A i \in 1 .. Len(r) : Joint(r, n)[i] = r[i]
  <2>1. r \in Layouts("binary")
    BY <1>5
  <2> QED BY <2>1, JointSteps
<1> DEFINE x == Joint(p, m)
           y == Joint(r, n)
<1>7. Sendai(t) = x /\ Binary(t) = y
  BY <1>2, <1>3 DEF r, Joint
<1> HIDE DEF x, y
<1>8. Len(x) >= 2 /\ x[1] = Take(2) /\ x[2] = Take(1)
  <2>1. 1 \in 1 .. Len(p) /\ 2 \in 1 .. Len(p)
    BY <1>1
  <2>2. x[1] = p[1] /\ x[2] = p[2] /\ Len(x) = Len(p) + Len(m)
    BY <1>4, <2>1 DEF x
  <2> QED BY <1>1, <1>4, <2>2
<1>9. Len(y) >= 2 /\ y[1] = Take(2) /\ y[2] = Take(1)
  <2>1. 1 \in 1 .. Len(q) /\ 2 \in 1 .. Len(q) /\ 1 \in 1 .. Len(r) /\ 2 \in 1 .. Len(r)
    BY <1>1, <1>5
  <2>2. y[1] = r[1] /\ y[2] = r[2] /\ Len(y) = Len(r) + Len(n) /\ r[1] = q[1] /\ r[2] = q[2]
    BY <1>5, <1>6, <2>1 DEF y
  <2> QED BY <1>1, <1>5, <1>6, <2>2
<1> QED BY <1>7, <1>8, <1>9

\* Up to its type every body is taken apart at the same places.
LEMMA BodyStart ==
    ASSUME NEW k \in {"text", "sendai", "binary"}, NEW t
    PROVE  /\ Len(Body(k, t)) \in Nat /\ Len(Body(k, t)) >= InfoStep(k)
           /\ \A i \in 1 .. InfoStep(k) : Leads(k, i, Body(k, t)[i])
<1> DEFINE inside == CASE k = "text" -> TextInfo(t)
                       [] k = "sendai" -> Sendai(t)
                       [] OTHER -> Binary(t)
           gate == <<Gate(0 .. 41, <<Rest>>)>>
<1>1. inside \in Layouts(k) /\ gate \in Layouts(k) /\ Header \in Layouts(k)
  <2>1. inside \in Layouts(k)
    BY TextLayout, SendaiLayout, BinaryLayout
  <2>2. <<Rest>> \in Seq(Inner(k)) /\ 0 .. 41 \in SUBSET Nat
    <3>1. <<Rest>> \in Seq(Inner(k))
      BY Building, StepsMono
    <3> QED BY <3>1
  <2>3. gate \in Layouts(k)
    BY <2>2, Building
  <2> QED BY <2>1, <2>3, HeaderLayout
<1>2. /\ k = "text" => /\ Len(inside) >= 3 /\ inside[1] = Take(3)
                       /\ inside[2] = Gate({40}, <<>>) /\ inside[3] = Take(2)
      /\ k # "text" => Len(inside) >= 2 /\ inside[1] = Take(2) /\ inside[2] = Take(1)
  BY TextStart, OtherStart
<1>3. Len(gate) = 1 /\ gate[1] = Gate(0 .. 41, <<Rest>>)
  OBVIOUS
<1>4. Body(k, t) = Joint(Joint(Header, gate), inside)
  BY DEF Body, Joint
<1> HIDE DEF inside, gate
<1> DEFINE front == Joint(Header, gate)
           body == Joint(front, inside)
<1>5. /\ front \in Layouts(k) /\ Len(front) = Len(Header) + Len(gate)
      /\ \A i \in 1 .. Len(Header) : front[i] = Header[i]
      /\ \A i \in 1 .. Len(gate) : front[Len(Header) + i] = gate[i]
  <2>1. Header \in Layouts(k) /\ gate \in Layouts(k)
    BY <1>1
  <2> QED BY <2>1, JointSteps
<1> HIDE DEF front
<1>6. /\ Len(body) = Len(front) + Len(inside) /\ Len(inside) \in Nat
      /\ \A i \in 1 .. Len(front) : body[i] = front[i]
      /\ \A i \in 1 .. Len(inside) : body[Len(front) + i] = inside[i]
  <2>1. front \in Layouts(k) /\ inside \in Layouts(k)
    BY <1>1, <1>5
  <2> QED BY <2>1, JointSteps
<1> HIDE DEF body
<1>7. /\ Len(front) = 11 /\ (\A i \in 1 .. 10 : front[i] = Header[i])
      /\ front[11] = Gate(0 .. 41, <<Rest>>)
  <2>1. Len(Header) = 10
    BY HeaderSteps
  <2>2. 1 \in 1 .. Len(gate)
    BY <1>3
  <2>3. front[Len(Header) + 1] = gate[1]
    BY <1>5, <2>2
  <2>4. \A i \in 1 .. 10 : front[i] = Header[i]
    BY <1>5, <2>1
  <2> QED BY <1>3, <1>5, <2>1, <2>3, <2>4
<1>8. /\ \A i \in 1 .. 10 : body[i] = Header[i]
      /\ body[11] = Gate(0 .. 41, <<Rest>>)
      /\ \A i \in 1 .. Len(inside) : body[11 + i] = inside[i]
  <2>1. /\ \A i \in 1 .. 11 : body[i] = front[i]
        /\ \A i \in 1 .. Len(inside) : body[11 + i] = inside[i]
    BY <1>6, <1>7
  <2>2. 11 \in 1 .. 11 /\ \A i \in 1 .. 10 : i \in 1 .. 11
    OBVIOUS
  <2>3. \A i \in 1 .. 10 : body[i] = front[i]
    BY <2>1, <2>2
  <2> QED BY <1>7, <2>1, <2>2, <2>3
<1>9. /\ Len(body) \in Nat /\ Len(body) >= InfoStep(k)
      /\ IF k = "text" THEN body[12] = Take(3) /\ body[13] = Gate({40}, <<>>) /\ body[14] = Take(2)
                       ELSE body[12] = Take(2) /\ body[13] = Take(1)
  <2>1. Len(body) = 11 + Len(inside) /\ Len(inside) \in Nat
    BY <1>6, <1>7
  <2>2. CASE k = "text"
    <3>1. Len(inside) >= 3 /\ 1 \in 1 .. Len(inside) /\ 2 \in 1 .. Len(inside) /\ 3 \in 1 .. Len(inside)
      BY <1>2, <2>1, <2>2
    <3>2. body[11 + 1] = inside[1] /\ body[11 + 2] = inside[2] /\ body[11 + 3] = inside[3]
      BY <1>8, <3>1
    <3> QED BY <1>2, <2>1, <2>2, <3>1, <3>2 DEF InfoStep
  <2>3. CASE k # "text"
    <3>1. Len(inside) >= 2 /\ 1 \in 1 .. Len(inside) /\ 2 \in 1 .. Len(inside)
      BY <1>2, <2>1, <2>3
    <3>2. body[11 + 1] = inside[1] /\ body[11 + 2] = inside[2]
      BY <1>8, <3>1
    <3> QED BY <1>2, <2>1, <2>3, <3>1, <3>2 DEF InfoStep
  <2> QED BY <2>2, <2>3
<1>10. \A i \in 1 .. InfoStep(k) : Leads(k, i, body[i])
  <2>1. /\ body[1] = Take(1) /\ body[2] = Take(4) /\ body[3] = Skip(4) /\ body[4] = Take(4)
        /\ body[5] = Skip(4) /\ body[6] = Take(7) /\ body[7] = Take(3) /\ body[8] = Take(2)
        /\ body[9] = Skip(4) /\ body[10] = Take(4)
    BY <1>8, HeaderSteps
  <2>2. \A n : Take(n).op = "take" /\ Take(n).n = n /\ Skip(n).op = "skip" /\ Skip(n).n = n
    BY DEF Take, Skip
  <2>3. /\ Gate(0 .. 41, <<Rest>>).op = "gate" /\ \A l \in Gate(0 .. 41, <<Rest>>).lens : l < 42
        /\ Gate({40}, <<>>).op = "gate" /\ \A l \in Gate({40}, <<>>).lens : l < 42
    BY DEF Gate
  <2>4. CASE k = "text"
    <3> DEFINE o == Offsets(k)
    <3>1. /\ o[1] = 0 /\ o[2] = 1 /\ o[3] = 5 /\ o[4] = 9 /\ o[5] = 13 /\ o[6] = 17 /\ o[7] = 24
          /\ o[8] = 27 /\ o[9] = 29 /\ o[10] = 33 /\ o[11] = 37 /\ o[12] = 37 /\ o[13] = 40
          /\ o[14] = 40 /\ o[15] = 42 /\ InfoStep(k) = 14
      BY <2>4 DEF Offsets, InfoStep
    <3> HIDE DEF o
    <3> SUFFICES ASSUME NEW i \in 1 .. 14 PROVE Leads(k, i, body[i])
      BY <3>1
    <3>2. i \in {1, 2, 3, 4, 5, 6, 7, 8, 9, 10, 11, 12, 13, 14}
      OBVIOUS
    <3>3. body[12] = Take(3) /\ body[13] = Gate({40}, <<>>) /\ body[14] = Take(2)
      BY <1>9, <2>4
    <3>4. CASE i \in {1, 2, 4, 6, 7, 8, 10, 12, 14}
      <4>1. CASE i \in {1, 2, 4, 6, 7}
        BY <2>1, <2>2, <3>1, <4>1 DEF Leads, o
      <4>2. CASE i \in {8, 10}
        BY <2>1, <2>2, <3>1, <4>2 DEF Leads, o
      <4>3. CASE i \in {12, 14}
        BY <2>2, <3>1, <3>3, <4>3 DEF Leads, o
      <4> QED BY <3>4, <4>1, <4>2, <4>3
    <3>5. CASE i \in {3, 5, 9}
      <4>1. body[i] = Skip(o[i + 1] - o[i]) /\ i < 14
        BY <2>1, <3>1, <3>5
      <4> QED BY <2>2, <3>1, <4>1 DEF Leads, o
    <3>6. CASE i \in {11, 13}
      <4>1. o[i + 1] = o[i] /\ i < 14 /\ body[i] \in {Gate(0 .. 41, <<Rest>>), Gate({40}, <<>>)}
        BY <1>8, <3>1, <3>3, <3>6
      <4> QED BY <2>3, <3>1, <4>1 DEF Leads, o
    <3> QED BY <3>2, <3>4, <3>5, <3>6
  <2>5. CASE k # "text"
    <3> DEFINE o == Offsets(k)
    <3>1. /\ o[1] = 0 /\ o[2] = 1 /\ o[3] = 5 /\ o[4] = 9 /\ o[5] = 13 /\ o[6] = 17 /\ o[7] = 24
          /\ o[8] = 27 /\ o[9] = 29 /\ o[10] = 33 /\ o[11] = 37 /\ o[12] = 37 /\ o[13] = 39
          /\ o[14] = 40 /\ InfoStep(k) = 13
      BY <2>5 DEF Offsets, InfoStep
    <3> HIDE DEF o
    <3> SUFFICES ASSUME NEW i \in 1 .. 13 PROVE Leads(k, i, body[i])
      BY <3>1
    <3>2. i \in {1, 2, 3, 4, 5, 6, 7, 8, 9, 10, 11, 12, 13}
      OBVIOUS
    <3>3. body[12] = Take(2) /\ body[13] = Take(1)
      BY <1>9, <2>5
    <3>4. CASE i \in {1, 2, 4, 6, 7, 8, 10, 12, 13}
      <4>1. body[i] = Take(o[i + 1] - o[i])
        BY <2>1, <3>1, <3>3, <3>4
      <4> QED BY <2>2, <4>1 DEF Leads, o
    <3>5. CASE i \in {3, 5, 9}
      <4>1. body[i] = Skip(o[i + 1] - o[i]) /\ i < 13
        BY <2>1, <3>1, <3>5
      <4> QED BY <2>2, <3>1, <4>1 DEF Leads, o
    <3>6. CASE i = 11
      <4>1. o[i + 1] = o[i] /\ i < 13 /\ body[i] = Gate(0 .. 41, <<Rest>>)
        BY <1>8, <3>1, <3>6
      <4> QED BY <2>3, <3>1, <4>1 DEF Leads, o
    <3> QED BY <3>2, <3>4, <3>5, <3>6
  <2> QED BY <2>4, <2>5
<1> QED BY <1>4, <1>9, <1>10 DEF body, front

\* The cursor stands before one of the steps up to the type.
Approaching ==
    \E i \in 1 .. InfoStep(kind) :
        /\ cur.pos = Offsets(kind)[i]
        /\ Len(plan) = Len(Body(kind, info)) - (i - 1)
        /\ \A j \in 1 .. Len(plan) : plan[j] = Body(kind, info)[j + (i - 1)]

\* The field is in the record, and no list that began before it can take its place.
Shown ==
    /\ \E k \in DOMAIN cur.shown : cur.shown[k] = InfoField(kind)
    /\ plan \in Layouts(kind) \/ counted.at > InfoField(kind).at

InfoInv == cur.ok /\ size >= 42 => (plan \in Layouts(kind) /\ Approaching) \/ Shown

LEMMA OffsetsTypes ==
    ASSUME NEW k
    PROVE  /\ InfoStep(k) \in Nat /\ InfoStep(k) > 0
           /\ \A i \in 1 .. (InfoStep(k) + 1) : Offsets(k)[i] \in Nat
           /\ Offsets(k)[1] = 0
           /\ InfoField(k) = [at |-> Offsets(k)[InfoStep(k)],
                              n |-> Offsets(k)[InfoStep(k) + 1] - Offsets(k)[InfoStep(k)]]
           /\ InfoField(k).at \in Nat /\ InfoField(k).n \in Nat /\ InfoField(k).n > 0
<1>1. CASE k = "text"
  BY <1>1 DEF InfoStep, Offsets, InfoField
<1>2. CASE k # "text"
  BY <1>2 DEF InfoStep, Offsets, InfoField
<1> QED BY <1>1, <1>2

LEMMA InfoInit == DataInit => InfoInv
<1> SUFFICES ASSUME DataInit, size >= 42 PROVE plan \in Layouts(kind) /\ Approaching
  BY DEF InfoInv
<1>0. DataInv
  BY DataInitInv
<1>1. size \in Nat /\ kind \in {"text", "sendai", "binary"} /\ cur.pos = 0
  BY <1>0 DEF DataInv, DataInit, NewCursor
<1>2. plan = Body(kind, info)
  BY <1>1 DEF DataInit
<1>3. Len(plan) \in Nat /\ plan \in Layouts(kind)
  BY <1>1, <1>2, BodyStart, BodyLayout
<1>4. 1 \in 1 .. InfoStep(kind) /\ Offsets(kind)[1] = 0
  BY OffsetsTypes
<1>5. \A j \in 1 .. Len(plan) : j + (1 - 1) = j
  BY <1>3
<1>6. Len(plan) = Len(plan) - (1 - 1)
  BY <1>3
<1>7. Approaching
  <2>1. /\ cur.pos = Offsets(kind)[1]
        /\ Len(plan) = Len(Body(kind, info)) - (1 - 1)
        /\ \A j \in 1 .. Len(plan) : plan[j] = Body(kind, info)[j + (1 - 1)]
    <3>1. cur.pos = Offsets(kind)[1] /\ Len(plan) = Len(Body(kind, info)) - (1 - 1)
      BY <1>1, <1>2, <1>4, <1>6
    <3>2. ASSUME NEW j \in 1 .. Len(plan)
          PROVE  plan[j] = Body(kind, info)[j + (1 - 1)]
      <4>1. plan[j] = plan[j + (1 - 1)]
        BY <1>5
      <4> QED BY <1>2, <4>1
    <3> QED BY <3>1, <3>2
  <2> QED BY <1>4, <2>1 DEF Approaching
<1> QED BY <1>3, <1>7

\* The step an approaching cursor is before, and what is left when it is taken.
LEMMA NextOfApproach ==
    ASSUME DataInv, plan \in Layouts(kind), Approaching
    PROVE  /\ plan # <<>> /\ Step \in Steps(kind, {FALSE}) /\ Tail(plan) \in Layouts(kind)
           /\ \E i \in 1 .. InfoStep(kind) :
                /\ cur.pos = Offsets(kind)[i] /\ Leads(kind, i, Step)
                /\ i < InfoStep(kind) /\ plan' = Tail(plan) /\ cur'.pos = Offsets(kind)[i + 1]
                      /\ UNCHANGED <<kind, info>> => Approaching'
<1>1. PICK i \in 1 .. InfoStep(kind) :
        /\ cur.pos = Offsets(kind)[i]
        /\ Len(plan) = Len(Body(kind, info)) - (i - 1)
        /\ \A j \in 1 .. Len(plan) : plan[j] = Body(kind, info)[j + (i - 1)]
  BY DEF Approaching
<1> DEFINE B == Body(kind, info)
           S == Steps(kind, {FALSE})
           L == InfoStep(kind)
<1>2. /\ Len(B) \in Nat /\ Len(B) >= L /\ \A j \in 1 .. L : Leads(kind, j, B[j])
      /\ L \in Nat
  BY BodyStart, OffsetsTypes DEF DataInv
<1>3. plan \in Seq(S)
  BY DEF Layouts
<1> HIDE DEF B, S, L
<1>4. /\ i \in 1 .. L /\ Len(plan) = Len(B) - (i - 1)
      /\ \A j \in 1 .. Len(plan) : plan[j] = B[j + (i - 1)]
  BY <1>1 DEF B, L
<1>5. Len(plan) \in Nat /\ Len(plan) >= 1
  BY <1>2, <1>4
<1>6. plan # <<>>
  BY <1>5
<1>7. Step \in S /\ Tail(plan) \in Seq(S)
  BY <1>3, <1>6, PlanStep
<1>8. Step = B[i]
  <2>1. plan[1] = B[1 + (i - 1)]
    BY <1>4, <1>5
  <2>2. 1 + (i - 1) = i
    BY <1>2, <1>4
  <2>3. Step = plan[1]
    BY <1>3, <1>6 DEF Step
  <2> QED BY <2>1, <2>2, <2>3
<1>9. Leads(kind, i, Step)
  BY <1>2, <1>4, <1>8
<1>10. ASSUME i < L, plan' = Tail(plan), cur'.pos = Offsets(kind)[i + 1], UNCHANGED <<kind, info>>
       PROVE  Approaching'
  <2>1. i + 1 \in 1 .. L
    BY <1>2, <1>4, <1>10
  <2>2. Len(plan') = Len(B) - ((i + 1) - 1)
    <3>1. Len(Tail(plan)) = Len(plan) - 1
      BY <1>3, <1>6, HeadTailProperties
    <3> QED BY <1>2, <1>4, <1>5, <1>10, <3>1
  <2>3. ASSUME NEW j \in 1 .. Len(plan')
        PROVE  plan'[j] = B[j + ((i + 1) - 1)]
    <3>1. Len(plan') = Len(plan) - 1 /\ plan'[j] = plan[j + 1]
      <4>1. Len(Tail(plan)) = Len(plan) - 1 /\ \A q \in 1 .. Len(Tail(plan)) : Tail(plan)[q] = plan[q + 1]
        BY <1>3, <1>6, HeadTailProperties
      <4> QED BY <1>10, <2>3, <4>1
    <3>2. j + 1 \in 1 .. Len(plan)
      BY <1>5, <3>1
    <3>3. (j + 1) + (i - 1) = j + ((i + 1) - 1)
      BY <1>2, <1>4, <3>1
    <3>4. plan[j + 1] = B[(j + 1) + (i - 1)]
      BY <1>4, <3>2
    <3> QED BY <3>1, <3>3, <3>4
  <2>4. B = Body(kind', info') /\ L = InfoStep(kind') /\ cur'.pos = Offsets(kind')[i + 1]
    BY <1>10 DEF B, L
  <2>5. \E h \in 1 .. InfoStep(kind') :
            /\ cur'.pos = Offsets(kind')[h]
            /\ Len(plan') = Len(Body(kind', info')) - (h - 1)
            /\ \A j \in 1 .. Len(plan') : plan'[j] = Body(kind', info')[j + (h - 1)]
    BY <2>1, <2>2, <2>3, <2>4
  <2> QED BY <2>5 DEF Approaching
<1>11. Tail(plan) \in Layouts(kind) /\ Step \in Steps(kind, {FALSE})
  BY <1>7 DEF S, Layouts
<1> QED BY <1>1, <1>6, <1>9, <1>10, <1>11 DEF L

\* Up to the type: a field or a gap, or a gate that a body of 42 bytes does not take.
LEMMA ApproachSteps ==
    ASSUME DataInv, plan \in Layouts(kind), Approaching, [DataNext]_datavars, cur'.ok, size >= 42
    PROVE  (plan' \in Layouts(kind') /\ Approaching') \/ Shown'
<1>1. /\ plan # <<>> /\ Step \in Steps(kind, {FALSE}) /\ Tail(plan) \in Layouts(kind)
      /\ size \in Nat /\ Ordered(cur) /\ cur.pos \in Nat
  BY NextOfApproach DEF DataInv, Ordered, Cursors
<1>2. PICK i \in 1 .. InfoStep(kind) :
        /\ cur.pos = Offsets(kind)[i] /\ Leads(kind, i, Step)
        /\ i < InfoStep(kind) /\ plan' = Tail(plan) /\ cur'.pos = Offsets(kind)[i + 1]
              /\ UNCHANGED <<kind, info>> => Approaching'
  BY NextOfApproach
<1>3. /\ Offsets(kind)[i] \in Nat /\ Offsets(kind)[i + 1] \in Nat
      /\ i < InfoStep(kind) \/ i = InfoStep(kind)
  <2>1. i \in 1 .. (InfoStep(kind) + 1) /\ i + 1 \in 1 .. (InfoStep(kind) + 1)
    BY OffsetsTypes
  <2> QED BY <2>1, OffsetsTypes
<1>4. CASE UNCHANGED datavars
  <2>1. Approaching' /\ plan' \in Layouts(kind')
    BY <1>4 DEF datavars, Approaching
  <2> QED BY <2>1
<1>5. CASE TakeField
  <2>1. /\ Step.op = "take" /\ Step.n \in Nat /\ ~Step.again /\ plan' = Tail(plan)
        /\ UNCHANGED <<size, kind, info, counted>>
    <3>1. Step.op = "take"
      BY <1>5 DEF TakeField, Do
    <3>2. Step.n \in Nat /\ Step.again \in {FALSE}
      BY <1>1, <3>1, StepHolds
    <3> QED BY <1>5, <3>1, <3>2 DEF TakeField
  <2>2. cur' = Took(cur, Step.n)
    BY <1>5, <2>1 DEF TakeField, Replaces
  <2>3. /\ cur'.pos = cur.pos + Step.n
        /\ cur'.shown = Append(cur.shown, [at |-> cur.pos, n |-> Step.n])
    <3>1. Step.n \in Int
      BY <2>1
    <3> QED BY <1>1, <2>2, <3>1, TookOrdered
  <2>4. Step.n = Offsets(kind)[i + 1] - Offsets(kind)[i]
    BY <1>2, <2>1 DEF Leads
  <2>5. cur'.pos = Offsets(kind)[i + 1]
    BY <1>2, <1>3, <2>3, <2>4
  <2>6. CASE i < InfoStep(kind)
    BY <1>1, <1>2, <2>1, <2>5, <2>6
  <2>7. CASE i = InfoStep(kind)
    <3>1. InfoField(kind) = [at |-> cur.pos, n |-> Step.n]
      BY <1>2, <2>4, <2>7, OffsetsTypes
    <3>2. cur.shown \in Seq(Piece) /\ [at |-> cur.pos, n |-> Step.n] \in Piece
      BY <1>1, <2>1 DEF Ordered, Cursors, Piece
    <3>3. \E k \in DOMAIN cur'.shown : cur'.shown[k] = InfoField(kind)
      <4>1. /\ cur'.shown \in Seq(Piece) /\ Len(cur'.shown) = Len(cur.shown) + 1
            /\ cur'.shown[Len(cur.shown) + 1] = InfoField(kind)
        BY <2>3, <3>1, <3>2, AppendProperties
      <4>2. Len(cur.shown) + 1 \in DOMAIN cur'.shown
        BY <3>2, <4>1, LenProperties
      <4> QED BY <4>1, <4>2
    <3>4. kind' = kind /\ plan' \in Layouts(kind')
      BY <1>1, <2>1
    <3>5. Shown'
      BY <3>3, <3>4 DEF Shown
    <3> QED BY <3>5
  <2> QED BY <1>3, <2>6, <2>7
<1>6. CASE SkipBytes
  <2>1. /\ Step.op = "skip" /\ Step.n \in Nat /\ plan' = Tail(plan)
        /\ UNCHANGED <<size, kind, info, counted>> /\ cur' = Skipped(cur, Step.n)
    <3>1. Step.op = "skip"
      BY <1>6 DEF SkipBytes, Do
    <3> QED BY <1>1, <1>6, <3>1, StepHolds DEF SkipBytes
  <2>2. cur'.pos = cur.pos + Step.n
    BY <1>1, <2>1, SkippedOrdered
  <2>3. i < InfoStep(kind) /\ Step.n = Offsets(kind)[i + 1] - Offsets(kind)[i]
    BY <1>2, <2>1 DEF Leads
  <2>4. cur'.pos = Offsets(kind)[i + 1]
    BY <1>2, <1>3, <2>2, <2>3
  <2> QED BY <1>1, <1>2, <2>1, <2>3, <2>4
<1>7. CASE LengthGate
  <2>1. Step.op = "gate" /\ UNCHANGED <<size, cur, kind, info, counted>>
    BY <1>7 DEF LengthGate, Do
  <2>2. i < InfoStep(kind) /\ Offsets(kind)[i + 1] = Offsets(kind)[i] /\ \A l \in Step.lens : l < 42
    BY <1>2, <2>1 DEF Leads
  <2>3. size \notin Step.lens
    BY <1>1, <2>2
  <2>4. plan' = Tail(plan)
    BY <1>7, <2>3 DEF LengthGate
  <2> QED BY <1>1, <1>2, <2>1, <2>2, <2>4
<1>8. CASE \/ TakeRest \/ NoFix \/ ByteBranch \/ \E la \in Latitudes, lo \in Longitudes : Position(la, lo)
           \/ \E n \in Counts : ReadCount(n) \/ ReadSized(n)
  <2>1. Step.op \in {"rest", "position", "branch", "count", "sized"}
    BY <1>8 DEF TakeRest, NoFix, ByteBranch, Position, ReadCount, ReadSized, Do
  <2>2. Step.op \in {"gate", "take", "skip"}
    BY <1>2 DEF Leads
  <2> QED BY <2>1, <2>2
<1> QED BY <1>4, <1>5, <1>6, <1>7, <1>8 DEF DataNext, DataReturned

\* What is shown stays: a field may be replaced only when one at least as late as the
\* list's count is there, and then the last of all fields is.
LEMMA ShownStays ==
    ASSUME DataInv, Shown, [DataNext]_datavars, cur'.ok
    PROVE  Shown'
<1> DEFINE F == InfoField(kind)
<1>1. PICK k \in DOMAIN cur.shown : cur.shown[k] = F
  BY DEF Shown
<1>2. /\ size \in Nat /\ Ordered(cur) /\ cur.pos \in Nat /\ cur.shown \in Seq(Piece)
      /\ DOMAIN cur.shown = 1 .. Len(cur.shown) /\ Len(cur.shown) \in Nat
      /\ F.at \in Nat /\ F.n \in Nat /\ F.n > 0 /\ F.at + F.n <= cur.pos
      /\ counted.at \in Nat
  <2>1. /\ size \in Nat /\ Ordered(cur) /\ cur.pos \in Nat /\ cur.shown \in Seq(Piece)
        /\ counted.at \in Nat
    BY DEF DataInv, Ordered, Cursors
  <2>2. DOMAIN cur.shown = 1 .. Len(cur.shown) /\ Len(cur.shown) \in Nat
    BY <2>1, LenProperties
  <2>3. F.at \in Nat /\ F.n \in Nat /\ F.n > 0
    BY OffsetsTypes
  <2>4. F.at + F.n <= cur.pos
    BY <1>1, <2>1 DEF Ordered
  <2> QED BY <2>1, <2>2, <2>3, <2>4
<1>3. CASE UNCHANGED datavars
  BY <1>3 DEF datavars, Shown
<1>4. CASE ~UNCHANGED datavars
  <2>1. kind' = kind /\ cur.ok /\ plan # <<>>
    BY <1>4 DEF DataNext, DataReturned, TakeField, SkipBytes, TakeRest, LengthGate, ByteBranch, Position,
                NoFix, ReadCount, ReadSized, Do
  <2>2. k \in DOMAIN cur'.shown /\ cur'.shown[k] = F
    <3>1. ASSUME NEW n \in Int, NEW c, Ordered(c), k \in DOMAIN c.shown, c.shown[k] = F, Took(c, n).ok
          PROVE  k \in DOMAIN Took(c, n).shown /\ Took(c, n).shown[k] = F
      <4>1. n \in Nat /\ Took(c, n).shown = Append(c.shown, [at |-> c.pos, n |-> n])
        BY <1>2, <3>1, TookOrdered
      <4>2. c.shown \in Seq(Piece) /\ [at |-> c.pos, n |-> n] \in Piece /\ c.pos \in Nat
        BY <3>1, <4>1 DEF Ordered, Cursors, Piece
      <4> DEFINE t == Append(c.shown, [at |-> c.pos, n |-> n])
      <4>3. /\ t \in Seq(Piece) /\ Len(t) = Len(c.shown) + 1
            /\ \A j \in 1 .. Len(c.shown) : t[j] = c.shown[j]
        BY <4>2, AppendProperties
      <4> HIDE DEF t
      <4>4. DOMAIN c.shown = 1 .. Len(c.shown) /\ Len(c.shown) \in Nat /\ DOMAIN t = 1 .. Len(t)
        BY <4>2, <4>3, LenProperties
      <4>5. k \in DOMAIN t /\ t[k] = F
        BY <3>1, <4>3, <4>4
      <4> QED BY <4>1, <4>5 DEF t
    <3>2. ASSUME NEW n \in Nat, Step.op \in {"take", "position"},
                 cur' = IF Replaces THEN TookAgain(cur, n) ELSE Took(cur, n)
          PROVE  k \in DOMAIN cur'.shown /\ cur'.shown[k] = F
      <4>1. CASE Replaces
        <5>1. PICK j \in DOMAIN cur.shown : cur.shown[j].at >= counted.at
          BY <4>1 DEF Replaces
        <5>2. counted.at > F.at
          <6>1. ~(plan \in Layouts(kind))
            <7>1. ASSUME plan \in Layouts(kind) PROVE Step \in Steps(kind, {FALSE})
              BY <2>1, <7>1, PlanStep DEF Layouts
            <7>2. Step \in Steps(kind, {FALSE}) => Step.again \in {FALSE}
              BY <3>2, StepHolds
            <7>3. Step.again
              BY <4>1 DEF Replaces
            <7> QED BY <7>1, <7>2, <7>3
          <6> QED BY <6>1 DEF Shown
        <5>3. k # Len(cur.shown)
          <6> SUFFICES ASSUME k = Len(cur.shown) PROVE FALSE
            OBVIOUS
          <6>1. cur.shown[j] \in Piece
            BY <1>2, ElementOfSeq
          <6>2. j # k
            BY <1>1, <1>2, <5>1, <5>2
          <6>3. j \in 1 .. (k - 1)
            BY <1>2, <6>2
          <6>4. cur.shown[j].at + cur.shown[j].n <= F.at
            BY <1>1, <1>2, <6>3 DEF Ordered, InOrder
          <6>5. cur.shown[j].at \in Nat /\ cur.shown[j].n \in Nat
            BY <6>1 DEF Piece
          <6> HIDE DEF F
          <6> QED BY <1>2, <5>1, <5>2, <6>4, <6>5
        <5>4. cur' = TookAgain(cur, n) /\ cur.shown # <<>> /\ n \in Int
          BY <3>2, <4>1, <5>1, EmptySeq
        <5>5. /\ Ordered(cur') /\ Len(cur'.shown) = Len(cur.shown)
              /\ \A q \in 1 .. (Len(cur.shown) - 1) : cur'.shown[q] = cur.shown[q]
          BY <1>2, <5>4, TookAgainOrdered
        <5>6. k \in 1 .. (Len(cur.shown) - 1) /\ k \in 1 .. Len(cur'.shown)
          BY <1>1, <1>2, <5>3, <5>5
        <5>7. DOMAIN cur'.shown = 1 .. Len(cur'.shown)
          BY <5>5, LenProperties DEF Ordered, Cursors
        <5> QED BY <1>1, <5>5, <5>6, <5>7
      <4>2. CASE ~Replaces
        <5>1. cur' = Took(cur, n) /\ n \in Int
          BY <3>2, <4>2
        <5> QED BY <1>1, <1>2, <3>1, <5>1
      <4> QED BY <4>1, <4>2
    <3>3. CASE TakeField \/ \E la \in Latitudes, lo \in Longitudes : Position(la, lo)
      <4>1. Step.n \in Nat
        BY <3>3, NextStep, StepHolds DEF TakeField, Position
      <4>2. /\ Step.op \in {"take", "position"}
            /\ cur' = IF Replaces THEN TookAgain(cur, Step.n) ELSE Took(cur, Step.n)
        BY <3>3 DEF TakeField, Position, Do
      <4> QED BY <3>2, <4>1, <4>2
    <3>4. CASE SkipBytes \/ NoFix
      <4>1. Step.n \in Nat
        BY <3>4, NextStep, StepHolds DEF SkipBytes, NoFix
      <4>2. cur'.shown = cur.shown
        <5>1. CASE SkipBytes
          <6>1. cur' = Skipped(cur, Step.n)
            BY <5>1 DEF SkipBytes
          <6> QED BY <1>2, <4>1, <6>1, SkippedOrdered
        <5>2. CASE NoFix
          <6>1. cur' = [Took(cur, Step.n) EXCEPT !.shown = cur.shown]
            BY <5>2 DEF NoFix
          <6> QED BY <1>2, <4>1, <6>1, NoFieldOrdered
        <5> QED BY <3>4, <5>1, <5>2
      <4> QED BY <1>1, <4>2
    <3>5. CASE TakeRest
      <4>1. size - cur.pos \in Int /\ cur' = Took(cur, size - cur.pos)
        BY <1>2, <3>5 DEF TakeRest, TookRest
      <4> QED BY <1>1, <1>2, <3>1, <4>1
    <3>6. CASE LengthGate \/ ByteBranch
      <4>1. cur'.shown = cur.shown
        BY <1>2, <3>6 DEF LengthGate, ByteBranch, Panicked, Ordered, Cursors
      <4> QED BY <1>1, <4>1
    <3>7. CASE \E n \in Counts : ReadCount(n) \/ ReadSized(n)
      <4>1. PICK n \in Counts : ReadCount(n) \/ ReadSized(n)
        BY <3>7
      <4>2. Step.n \in Int /\ n \in Int
        <5>1. Step.n \in Nat
          BY <4>1, NextStep, StepHolds DEF ReadCount, ReadSized
        <5> QED BY <5>1, DataAssumption
      <4>3. CASE ReadCount(n)
        BY <1>1, <1>2, <3>1, <4>2, <4>3 DEF ReadCount
      <4>4. CASE ReadSized(n)
        <5> DEFINE b == Took(cur, Step.n)
        <5>1. cur' = Took(b, n)
          BY <4>4 DEF ReadSized
        <5>2. Ordered(b)
          BY <1>2, <4>2, TookOrdered
        <5>3. b.ok
          <6> HIDE DEF b
          <6> QED BY <1>2, <4>2, <5>1, <5>2, TookOrdered
        <5>4. k \in DOMAIN b.shown /\ b.shown[k] = F
          BY <1>1, <1>2, <3>1, <4>2, <5>3
        <5> HIDE DEF b
        <5> QED BY <3>1, <4>2, <5>1, <5>2, <5>4
      <4> QED BY <4>1, <4>3, <4>4
    <3> QED BY <1>4, <3>3, <3>4, <3>5, <3>6, <3>7 DEF DataNext, DataReturned
  <2>3. plan' \in Layouts(kind) \/ counted'.at > F.at
    <3>1. CASE \E n \in Counts : ReadCount(n)
      <4>1. PICK n \in Counts : ReadCount(n)
        BY <3>1
      <4>2. Step.n \in Nat /\ counted'.at = cur.pos + Step.n
        BY <4>1, NextStep, StepHolds DEF ReadCount
      <4> QED BY <1>2, <4>2
    <3>2. CASE ~\E n \in Counts : ReadCount(n)
      <4>1. counted' = counted
        BY <1>4, <3>2 DEF DataNext, DataReturned, TakeField, SkipBytes, TakeRest, LengthGate, ByteBranch,
                    Position, NoFix, ReadSized
      <4>2. CASE plan \in Layouts(kind)
        <5>1. Step \in Steps(kind, {FALSE}) /\ Tail(plan) \in Layouts(kind)
          BY <2>1, <4>2, PlanStep DEF Layouts
        <5>2. CASE LengthGate \/ ByteBranch
          <6>1. Step.op \in {"gate", "branch"}
            BY <5>2 DEF LengthGate, ByteBranch, Do
          <6>2. Step.op = "gate" => Step.then \in Seq(Inner(kind))
            BY <5>1, StepHolds
          <6>3. Step.op = "branch" => Step.then \in Seq(Inner(kind)) /\ Step.else \in Seq(Inner(kind))
            BY <5>1, StepHolds
          <6>4. Seq(Inner(kind)) \subseteq Layouts(kind)
            BY StepsMono
          <6>5. \/ plan' = Tail(plan) \/ plan' = Step.then
                \/ Step.op = "branch" /\ plan' = Step.else
            BY <5>2 DEF LengthGate, ByteBranch, Do
          <6> QED BY <5>1, <6>1, <6>2, <6>3, <6>4, <6>5
        <5>3. CASE ~(LengthGate \/ ByteBranch)
          <6>1. plan' = Tail(plan)
            BY <1>4, <3>2, <5>3 DEF DataNext, DataReturned, TakeField, SkipBytes, TakeRest, Position,
                        NoFix, ReadSized
          <6> QED BY <5>1, <6>1
        <5> QED BY <5>2, <5>3
      <4>3. CASE counted.at > F.at
        BY <4>1, <4>3
      <4> QED BY <4>2, <4>3 DEF Shown
    <3> QED BY <3>1, <3>2
  <2> QED BY <2>1, <2>2, <2>3 DEF Shown
<1> QED BY <1>3, <1>4

LEMMA InfoNext == DataInv /\ InfoInv /\ [DataNext]_datavars => InfoInv'
<1> SUFFICES ASSUME DataInv, InfoInv, [DataNext]_datavars, cur'.ok, size' >= 42
             PROVE  (plan' \in Layouts(kind') /\ Approaching') \/ Shown'
  BY DEF InfoInv
<1>1. size' = size /\ cur.ok
  BY DEF DataNext, DataReturned, datavars, TakeField, SkipBytes, TakeRest, LengthGate, ByteBranch, Position,
         NoFix, ReadCount, ReadSized, Do
<1> QED BY <1>1, ApproachSteps, ShownStays DEF InfoInv

\* The bytes that choose a layout are the ones its record calls info_type, for every
\* layout and all lengths and counts, as long as there is a type to choose it by.
THEOREM TypeIsShown == DataSpec => []InfoTypeIsShown
<1>1. DataInv /\ InfoInv => InfoTypeIsShown
  <2> SUFFICES ASSUME DataInv, InfoInv, Answered, size >= 42
               PROVE  \E k \in DOMAIN cur.shown :
                        cur.shown[k] = IF kind = "text" THEN [at |-> 40, n |-> 2] ELSE [at |-> 39, n |-> 1]
    BY DEF InfoTypeIsShown
  <2>1. Shown
    BY NextOfApproach DEF InfoInv, Answered
  <2> QED BY <2>1 DEF Shown, InfoField
<1> QED BY DataInvariant, InfoInit, InfoNext, <1>1, PTL DEF DataSpec

-----------------------------------------------------------------------------
(* Gates: where they stand, and what is left of a body behind one that is taken. *)

\* A step that takes the cursor from y to z, and a plan of such steps.
Moves(s, y, z) == s.op \in {"take", "skip", "position"} /\ s.n \in Nat /\ z = y + s.n
Paced(p, x, y) ==
    \E o \in [1 .. (Len(p) + 1) -> Nat] :
        /\ o[1] = x /\ o[Len(p) + 1] = y
        /\ \A j \in 1 .. Len(p) : Moves(p[j], o[j], o[j + 1])

\* From x on, a plan leaves nothing of a body of n bytes.
Closes(k, n, p, x) ==
    \/ ToEnd(k, p)
    \/ \E a, b : p = <<Branch(a, b)>> /\ ToEnd(k, a) /\ ToEnd(k, b)
    \/ p \in Seq(Plain(k, {FALSE})) /\ \E y : y >= n /\ Paced(p, x, y)

\* Up to the last gate that counts on the cursor's place: how far every step takes it, and
\* what it finds where it gets to.
Metes(k, n, s, y, z) ==
    \/ Moves(s, y, z)
    \/ s.op = "gate" /\ z = y /\ (n \in s.lens => Closes(k, n, s.then, y))
Metered(k, n, p, x, y) ==
    \E o \in [1 .. (Len(p) + 1) -> Nat] :
        /\ o[1] = x /\ o[Len(p) + 1] = y
        /\ \A j \in 1 .. Len(p) : Metes(k, n, p[j], o[j], o[j + 1])

\* Behind it, wherever the cursor is: no gate, or one behind which the rest is taken.
Free(k) ==
    Plain(k, BOOLEAN) \cup {s \in Deciding(Plain(k, {FALSE})) : s.op = "gate" => ToEnd(k, s.then)}

Measured(k, n, p, x) ==
    \E a \in Layouts(k), b \in Seq(Free(k)) : \E y : p = a \o b /\ Metered(k, n, a, x, y)

GateInv ==
    cur.ok => IF gated THEN Closes(kind, size, plan, cur.pos)
                       ELSE Measured(kind, size, plan, cur.pos)

\* The places behind the first step of a plan.
Onward(p, o, q) ==
    /\ q \in [1 .. (Len(Tail(p)) + 1) -> Nat]
    /\ q[1] = o[2] /\ q[Len(Tail(p)) + 1] = o[Len(p) + 1]
    /\ Head(p) = p[1] /\ 1 \in 1 .. Len(p)
    /\ o[1 + 1] = o[2] /\ o[1] \in Nat
    /\ \A j \in 1 .. Len(Tail(p)) : /\ j + 1 \in 1 .. Len(p) /\ Tail(p)[j] = p[j + 1]
                                    /\ q[j] = o[j + 1] /\ q[j + 1] = o[(j + 1) + 1]

LEMMA Behind ==
    ASSUME NEW S, NEW p \in Seq(S), p # <<>>, NEW o \in [1 .. (Len(p) + 1) -> Nat]
    PROVE  \E q : Onward(p, o, q)
<1> DEFINE t == Tail(p)
           L == Len(p)
           q == [j \in 1 .. (Len(t) + 1) |-> o[j + 1]]
<1>1. /\ Len(t) = L - 1 /\ L \in Nat /\ L >= 1 /\ Head(p) = p[1]
      /\ \A j \in 1 .. Len(t) : t[j] = p[j + 1]
  BY HeadTailProperties, LenProperties, EmptySeq
<1> HIDE DEF t, L
<1>2. o \in [1 .. (L + 1) -> Nat]
  BY DEF L
<1>3. \A j \in 1 .. (Len(t) + 1) : j + 1 \in 1 .. (L + 1)
  BY <1>1
<1>4. q \in [1 .. (Len(t) + 1) -> Nat]
  BY <1>2, <1>3
<1>5. 1 \in 1 .. (Len(t) + 1) /\ Len(t) + 1 \in 1 .. (Len(t) + 1) /\ (Len(t) + 1) + 1 = L + 1
  BY <1>1
<1>6. q[1] = o[1 + 1] /\ q[Len(t) + 1] = o[L + 1]
  BY <1>5
<1>7. o[1] \in Nat /\ 1 \in 1 .. L /\ o[1 + 1] = o[2]
  BY <1>1, <1>2
<1>8. ASSUME NEW j \in 1 .. Len(t)
      PROVE  /\ j + 1 \in 1 .. L
             /\ q[j] = o[j + 1] /\ q[j + 1] = o[(j + 1) + 1]
  <2>1. j \in 1 .. (Len(t) + 1) /\ j + 1 \in 1 .. (Len(t) + 1) /\ j + 1 \in 1 .. L
    BY <1>1
  <2> QED BY <2>1
<1> HIDE DEF q
<1> QED BY <1>1, <1>4, <1>6, <1>7, <1>8 DEF t, L, Onward

LEMMA PacedStep ==
    ASSUME NEW S, NEW p \in Seq(S), p # <<>>, NEW x, NEW y, Paced(p, x, y)
    PROVE  \E z : Moves(Head(p), x, z) /\ Paced(Tail(p), z, y)
<1>1. PICK o \in [1 .. (Len(p) + 1) -> Nat] :
        /\ o[1] = x /\ o[Len(p) + 1] = y
        /\ \A j \in 1 .. Len(p) : Moves(p[j], o[j], o[j + 1])
  BY DEF Paced
<1>2. PICK q : Onward(p, o, q)
  BY Behind
<1>3. Moves(Head(p), x, o[2])
  BY <1>1, <1>2 DEF Onward
<1>4. ASSUME NEW j \in 1 .. Len(Tail(p))
      PROVE  Moves(Tail(p)[j], q[j], q[j + 1])
  <2>1. Moves(p[j + 1], o[j + 1], o[(j + 1) + 1])
    BY <1>1, <1>2 DEF Onward
  <2> QED BY <1>2, <2>1 DEF Onward
<1>5. Paced(Tail(p), o[2], y)
  BY <1>1, <1>2, <1>4 DEF Paced, Onward
<1> QED BY <1>3, <1>5

LEMMA MeteredStep ==
    ASSUME NEW k, NEW n, NEW S, NEW p \in Seq(S), p # <<>>, NEW x, NEW y, Metered(k, n, p, x, y)
    PROVE  \E z : Metes(k, n, Head(p), x, z) /\ Metered(k, n, Tail(p), z, y)
<1>1. PICK o \in [1 .. (Len(p) + 1) -> Nat] :
        /\ o[1] = x /\ o[Len(p) + 1] = y
        /\ \A j \in 1 .. Len(p) : Metes(k, n, p[j], o[j], o[j + 1])
  BY DEF Metered
<1>2. PICK q : Onward(p, o, q)
  BY Behind
<1>3. Metes(k, n, Head(p), x, o[2])
  BY <1>1, <1>2 DEF Onward
<1>4. ASSUME NEW j \in 1 .. Len(Tail(p))
      PROVE  Metes(k, n, Tail(p)[j], q[j], q[j + 1])
  <2>1. Metes(k, n, p[j + 1], o[j + 1], o[(j + 1) + 1])
    BY <1>1, <1>2 DEF Onward
  <2> QED BY <1>2, <2>1 DEF Onward
<1>5. Metered(k, n, Tail(p), o[2], y)
  BY <1>1, <1>2, <1>4 DEF Metered, Onward
<1> QED BY <1>3, <1>5

\* Pieces of a body, by the places between them.
LEMMA PiecesPaced ==
    ASSUME NEW s \in Seq(Int), NEW o \in Seq(Nat), Len(o) = Len(s) + 1,
           \A j \in 1 .. Len(s) : o[j + 1] = o[j] + (IF s[j] >= 0 THEN s[j] ELSE -s[j])
    PROVE  Paced(Pieces(s), o[1], o[Len(s) + 1])
<1>1. /\ Len(s) \in Nat /\ \A j \in 1 .. Len(s) : s[j] \in Int
  BY LenProperties, ElementOfSeq
<1>2. /\ Len(Pieces(s)) = Len(s)
      /\ \A j \in 1 .. Len(s) : Pieces(s)[j] = IF s[j] >= 0 THEN Take(s[j]) ELSE Skip(-s[j])
  BY PieceAt
<1>3. o \in [1 .. (Len(s) + 1) -> Nat]
  BY LenProperties
<1>4. ASSUME NEW j \in 1 .. Len(s)
      PROVE  Moves(Pieces(s)[j], o[j], o[j + 1])
  <2>1. s[j] \in Int /\ o[j + 1] = o[j] + (IF s[j] >= 0 THEN s[j] ELSE -s[j])
    BY <1>1
  <2>2. CASE s[j] >= 0
    <3>1. Pieces(s)[j] = Take(s[j])
      BY <1>2, <2>2
    <3> QED BY <2>1, <2>2, <3>1 DEF Moves, Take
  <2>3. CASE ~(s[j] >= 0)
    <3>1. Pieces(s)[j] = Skip(-s[j])
      BY <1>2, <2>3
    <3> QED BY <2>1, <2>3, <3>1 DEF Moves, Skip
  <2> QED BY <2>2, <2>3
<1> QED BY <1>2, <1>3, <1>4 DEF Paced

LEMMA PacedIsMetered ==
    ASSUME NEW k, NEW n, NEW p, NEW x, NEW y, Paced(p, x, y)
    PROVE  Metered(k, n, p, x, y)
  BY DEF Paced, Metered, Metes

\* One step, that moves the cursor or is a gate.
LEMMA OneMetered ==
    ASSUME NEW k, NEW n, NEW s, NEW x \in Nat, NEW y \in Nat, Metes(k, n, s, x, y)
    PROVE  Metered(k, n, <<s>>, x, y)
<1> DEFINE o == [j \in 1 .. 2 |-> IF j = 1 THEN x ELSE y]
           p == <<s>>
<1>1. Len(p) = 1 /\ p[1] = s
  OBVIOUS
<1>2. o \in [1 .. 2 -> Nat] /\ o[1] = x /\ o[2] = y
  OBVIOUS
<1> HIDE DEF o, p
<1>3. o \in [1 .. (Len(p) + 1) -> Nat] /\ o[Len(p) + 1] = y
  BY <1>1, <1>2
<1>4. ASSUME NEW j \in 1 .. Len(p)
      PROVE  Metes(k, n, p[j], o[j], o[j + 1])
  <2>1. j = 1 /\ j + 1 = 2
    BY <1>1
  <2> QED BY <1>1, <1>2, <2>1
<1>5. Metered(k, n, p, x, y)
  BY <1>2, <1>3, <1>4 DEF Metered
<1> QED BY <1>5 DEF p

\* One layout behind another.
LEMMA JoinMetered ==
    ASSUME NEW k, NEW n, NEW a \in Layouts(k), NEW b \in Layouts(k), NEW x, NEW y, NEW z,
           Metered(k, n, a, x, y), Metered(k, n, b, y, z)
    PROVE  Metered(k, n, Joint(a, b), x, z)
<1>0. /\ Len(Joint(a, b)) = Len(a) + Len(b) /\ Len(a) \in Nat /\ Len(b) \in Nat
      /\ \A i \in 1 .. Len(a) : Joint(a, b)[i] = a[i]
      /\ \A i \in 1 .. Len(b) : Joint(a, b)[Len(a) + i] = b[i]
  <2>1. a \in Layouts(k) /\ b \in Layouts(k)
    OBVIOUS
  <2>2. Len(Joint(a, b)) = Len(a) + Len(b)
    BY <2>1, JointSteps
  <2>3. Len(a) \in Nat /\ Len(b) \in Nat
    BY <2>1, JointSteps
  <2>4. \A i \in 1 .. Len(a) : Joint(a, b)[i] = a[i]
    BY <2>1, JointSteps
  <2>5. \A i \in 1 .. Len(b) : Joint(a, b)[Len(a) + i] = b[i]
    BY <2>1, JointSteps
  <2> QED BY <2>2, <2>3, <2>4, <2>5
<1>1. PICK o \in [1 .. (Len(a) + 1) -> Nat] :
        /\ o[1] = x /\ o[Len(a) + 1] = y
        /\ \A j \in 1 .. Len(a) : Metes(k, n, a[j], o[j], o[j + 1])
  BY DEF Metered
<1>2. PICK q \in [1 .. (Len(b) + 1) -> Nat] :
        /\ q[1] = y /\ q[Len(b) + 1] = z
        /\ \A j \in 1 .. Len(b) : Metes(k, n, b[j], q[j], q[j + 1])
  BY DEF Metered
<1> DEFINE c == Joint(a, b)
           m == Len(a)
           l == Len(b)
           r == [j \in 1 .. (Len(c) + 1) |-> IF j <= m THEN o[j] ELSE q[j - m]]
<1>3. /\ m \in Nat /\ l \in Nat /\ Len(c) = m + l
      /\ \A i \in 1 .. m : c[i] = a[i]
      /\ \A i \in 1 .. l : c[m + i] = b[i]
  BY <1>0 DEF c, m, l
<1> HIDE DEF m, l, c
<1>4. r \in [1 .. (Len(c) + 1) -> Nat]
  <2>1. ASSUME NEW j \in 1 .. (Len(c) + 1)
        PROVE  (IF j <= m THEN o[j] ELSE q[j - m]) \in Nat
    <3>1. CASE j <= m
      <4>1. j \in 1 .. (m + 1)
        BY <1>3, <3>1
      <4> QED BY <1>1, <3>1, <4>1 DEF m
    <3>2. CASE ~(j <= m)
      <4>1. j - m \in 1 .. (l + 1)
        BY <1>3, <3>2
      <4> QED BY <1>2, <3>2, <4>1 DEF l
    <3> QED BY <3>1, <3>2
  <2> QED BY <2>1
<1>5. /\ \A j \in 1 .. (m + 1) : r[j] = o[j]
      /\ \A j \in 1 .. (l + 1) : r[m + j] = q[j]
  <2>1. ASSUME NEW j \in 1 .. (m + 1)
        PROVE  r[j] = o[j]
    <3>1. CASE j <= m
      <4>1. j \in 1 .. (Len(c) + 1)
        BY <1>3
      <4> QED BY <3>1, <4>1
    <3>2. CASE ~(j <= m)
      <4>1. j = m + 1 /\ j - m = 1 /\ j \in 1 .. (Len(c) + 1)
        BY <1>3, <3>2
      <4>2. r[j] = q[1]
        BY <3>2, <4>1
      <4> QED BY <1>1, <1>2, <4>1, <4>2 DEF m
    <3> QED BY <3>1, <3>2
  <2>2. ASSUME NEW j \in 1 .. (l + 1)
        PROVE  r[m + j] = q[j]
    <3>1. m + j \in 1 .. (Len(c) + 1) /\ ~(m + j <= m) /\ (m + j) - m = j
      BY <1>3
    <3> QED BY <3>1
  <2> QED BY <2>1, <2>2
<1> HIDE DEF r
<1>6. r[1] = x /\ r[Len(c) + 1] = z
  <2>1. 1 \in 1 .. (m + 1) /\ l + 1 \in 1 .. (l + 1) /\ Len(c) + 1 = m + (l + 1)
    BY <1>3
  <2> QED BY <1>1, <1>2, <1>5, <2>1 DEF l
<1>7. ASSUME NEW j \in 1 .. Len(c)
      PROVE  Metes(k, n, c[j], r[j], r[j + 1])
  <2>1. CASE j <= m
    <3>1. j \in 1 .. m /\ j \in 1 .. (m + 1) /\ j + 1 \in 1 .. (m + 1)
      BY <1>3, <2>1
    <3>2. c[j] = a[j] /\ r[j] = o[j] /\ r[j + 1] = o[j + 1]
      BY <1>3, <1>5, <3>1
    <3> QED BY <1>1, <3>1, <3>2 DEF m
  <2>2. CASE ~(j <= m)
    <3> DEFINE i == j - m
    <3>1. /\ i \in 1 .. l /\ i \in 1 .. (l + 1) /\ i + 1 \in 1 .. (l + 1)
          /\ j = m + i /\ j + 1 = m + (i + 1)
      BY <1>3, <2>2
    <3> HIDE DEF i
    <3>2. c[j] = b[i] /\ r[j] = q[i] /\ r[j + 1] = q[i + 1]
      BY <1>3, <1>5, <3>1
    <3> QED BY <1>2, <3>1, <3>2 DEF l
  <2> QED BY <2>1, <2>2
<1>8. Metered(k, n, c, x, z)
  BY <1>4, <1>6, <1>7 DEF Metered
<1> QED BY <1>8 DEF c

LEMMA JoinMeasured ==
    ASSUME NEW k, NEW n, NEW a \in Layouts(k), NEW x, NEW y, Metered(k, n, a, x, y),
           NEW q, Measured(k, n, q, y)
    PROVE  Measured(k, n, a \o q, x)
<1>0. PICK b \in Layouts(k), f \in Seq(Free(k)) : \E z : q = b \o f /\ Metered(k, n, b, y, z)
  BY DEF Measured
<1>1. PICK z : q = b \o f /\ Metered(k, n, b, y, z)
  BY <1>0
<1>2. Metered(k, n, Joint(a, b), x, z) /\ Joint(a, b) \in Layouts(k)
  BY <1>1, JoinMetered, JointSteps
<1>3. a \o q = Joint(a, b) \o f
  <2> DEFINE S == Steps(k, {FALSE}) \cup Free(k)
  <2>1. Layouts(k) \subseteq Seq(S) /\ Seq(Free(k)) \subseteq Seq(S)
    <3>1. Steps(k, {FALSE}) \subseteq S /\ Free(k) \subseteq S
      OBVIOUS
    <3> HIDE DEF S
    <3> QED BY <3>1, SeqMono DEF Layouts
  <2> HIDE DEF S
  <2>2. a \in Seq(S) /\ b \in Seq(S) /\ f \in Seq(S)
    BY <2>1
  <2>3. (a \o b) \o f = a \o (b \o f)
    BY <2>2, ConcatAssociative
  <2> QED BY <1>1, <2>3 DEF Joint
<1> QED BY <1>1, <1>2, <1>3 DEF Measured

LEMMA FreeMeasured ==
    ASSUME NEW k, NEW n, NEW f \in Seq(Free(k)), NEW x \in Nat
    PROVE  Measured(k, n, f, x)
<1> DEFINE o == [j \in 1 .. 1 |-> x]
           e == <<>>
<1>1. e \in Layouts(k) /\ Len(e) = 0 /\ e \o f = f
  BY Building, EmptySeq, ConcatEmptySeq
<1>2. o \in [1 .. 1 -> Nat] /\ o[1] = x
  OBVIOUS
<1> HIDE DEF o, e
<1>3. o \in [1 .. (Len(e) + 1) -> Nat] /\ o[Len(e) + 1] = x /\ \A j \in 1 .. Len(e) : FALSE
  BY <1>1, <1>2
<1>4. Metered(k, n, e, x, x)
  BY <1>2, <1>3 DEF Metered
<1>5. f = e \o f
  BY <1>1
<1> QED BY <1>1, <1>4, <1>5 DEF Measured

-----------------------------------------------------------------------------
LEMMA FreeBuilds == ASSUME NEW k PROVE Builds(k, Seq(Free(k)))
<1> DEFINE P == Plain(k, {FALSE})
           F == Free(k)
<1>1. P \subseteq F
  <2>1. P \subseteq Plain(k, BOOLEAN)
    BY DEF Plain
  <2> QED BY <2>1 DEF Free
<1>2. Rest \in P /\ Nav \in P /\ (k # "sendai" => Bcd \in P /\ Raw \in P)
      /\ (k = "sendai" => Separated \in P)
  BY DEF Plain, Rest, Nav, Bcd, Raw, Separated, Forms
<1>3. \A w \in Nat : Sized(w) \in F
  BY DEF Sized, Deciding, Free
<1>4. \A w \in Nat, item \in Seq(P) : Count(w, item) \in F
  <2> SUFFICES ASSUME NEW w \in Nat, NEW item \in Seq(P) PROVE Count(w, item) \in F
    OBVIOUS
  <2>1. Count(w, item) \in Deciding(P)
    BY DEF Count, Deciding
  <2>2. Count(w, item).op = "count"
    BY DEF Count
  <2> QED BY <2>1, <2>2 DEF Free
<1>5. \A a, b \in Seq(P) : Peek(a, b) \in F
  <2> SUFFICES ASSUME NEW a \in Seq(P), NEW b \in Seq(P) PROVE Peek(a, b) \in F
    OBVIOUS
  <2>1. Peek(a, b) \in Deciding(P)
    BY DEF Peek, Deciding
  <2>2. Peek(a, b).op = "branch"
    BY DEF Peek
  <2> QED BY <2>1, <2>2 DEF Free
<1>6. \A lens \in SUBSET Nat : \A then : ToEnd(k, then) => Gate(lens, then) \in F
  <2> SUFFICES ASSUME NEW lens \in SUBSET Nat, NEW then, ToEnd(k, then) PROVE Gate(lens, then) \in F
    OBVIOUS
  <2>1. Gate(lens, then) \in Deciding(P)
    BY DEF Gate, Deciding, ToEnd
  <2>2. Gate(lens, then).then = then
    BY DEF Gate
  <2> QED BY <2>1, <2>2 DEF Free
<1>7. \A s \in Seq(Int) : Pieces(s) \in Seq(F)
  <2>1. Seq(P) \subseteq Seq(F)
    BY <1>1, SeqMono
  <2> QED BY <2>1, PiecesPlain
<1> HIDE DEF Rest, Nav, Bcd, Raw, Separated, F
<1>8. \A a, b \in Seq(F) : a \o b \in Seq(F)
  BY ConcatProperties
<1>9. \A x \in F : <<x>> \in Seq(F)
  OBVIOUS
<1>10. Rest \in F /\ Nav \in F /\ (k # "sendai" => Bcd \in F /\ Raw \in F)
      /\ (k = "sendai" => Separated \in F)
  BY <1>1, <1>2
<1> HIDE DEF P
<1>11. /\ <<Rest>> \in Seq(F)
       /\ k # "sendai" => /\ <<Bcd>> \in Seq(F) /\ <<Raw>> \in Seq(F) /\ <<Raw, Nav>> \in Seq(F)
                          /\ <<Raw, Nav, Rest>> \in Seq(F)
       /\ k = "sendai" => <<Separated>> \in Seq(F)
  BY <1>10
<1>12. /\ \A w \in Nat : <<Sized(w)>> \in Seq(F)
       /\ \A w \in Nat, item \in Seq(P) : <<Count(w, item)>> \in Seq(F)
       /\ \A a, b \in Seq(P) : <<Peek(a, b)>> \in Seq(F)
       /\ \A lens \in SUBSET Nat : \A then : ToEnd(k, then) => <<Gate(lens, then)>> \in Seq(F)
  BY <1>3, <1>4, <1>5, <1>6, <1>9
<1> QED BY <1>7, <1>8, <1>11, <1>12 DEF Builds, F, P

-----------------------------------------------------------------------------
\* Where pieces of the layouts take the cursor.
LEMMA PiecesFrom ==
    /\ \A n, x \in Nat : Paced(Pieces(<<n>>), x, x + n)
    /\ Paced(Header, 0, 37)
    /\ Paced(Pieces(<<2, 1>>), 37, 40) /\ Paced(Pieces(<<2, 1, 1>>), 40, 44)
    /\ Paced(Pieces(Time), 44, 56)
<1>1. ASSUME NEW n \in Nat, NEW x \in Nat
      PROVE  Paced(Pieces(<<n>>), x, x + n)
  <2> DEFINE s == <<n>>
             o == <<x, x + n>>
  <2>1. /\ s \in Seq(Int) /\ o \in Seq(Nat) /\ Len(s) = 1 /\ Len(o) = 2
        /\ s[1] = n /\ o[1] = x /\ o[2] = x + n
    OBVIOUS
  <2> HIDE DEF s, o
  <2>2. ASSUME NEW j \in 1 .. Len(s)
        PROVE  o[j + 1] = o[j] + (IF s[j] >= 0 THEN s[j] ELSE -s[j])
    <3>1. j = 1 /\ j + 1 = 2
      BY <2>1
    <3> QED BY <2>1, <3>1
  <2>3. Paced(Pieces(s), o[1], o[Len(s) + 1])
    <3>1. Len(o) = Len(s) + 1
      BY <2>1
    <3> QED BY <2>1, <2>2, <3>1, PiecesPaced
  <2> QED BY <2>1, <2>3 DEF s
<1>2. Paced(Header, 0, 37)
  <2> DEFINE s == <<1, 4, -4, 4, -4, 7, 3, 2, -4, 4>>
             o == <<0, 1, 5, 9, 13, 17, 24, 27, 29, 33, 37>>
  <2>1. s \in Seq(Int) /\ o \in Seq(Nat) /\ Len(s) = 10 /\ Len(o) = 11
    OBVIOUS
  <2>2. /\ o[1] = 0 /\ o[2] = 1 /\ o[3] = 5 /\ o[4] = 9 /\ o[5] = 13 /\ o[6] = 17
        /\ o[7] = 24 /\ o[8] = 27 /\ o[9] = 29 /\ o[10] = 33 /\ o[11] = 37
    OBVIOUS
  <2>3. /\ s[1] = 1 /\ s[2] = 4 /\ s[3] = -4 /\ s[4] = 4 /\ s[5] = -4
        /\ s[6] = 7 /\ s[7] = 3 /\ s[8] = 2 /\ s[9] = -4 /\ s[10] = 4
    OBVIOUS
  <2>4. Header = Pieces(s)
    BY DEF Header
  <2> HIDE DEF s, o
  <2>5. ASSUME NEW j \in 1 .. Len(s)
        PROVE  o[j + 1] = o[j] + (IF s[j] >= 0 THEN s[j] ELSE -s[j])
    <3>1. j \in 1 .. 10
      BY <2>1
    <3>2. CASE j = 1 \/ j = 2
      BY <2>2, <2>3, <3>2
    <3>5. CASE j = 3 \/ j = 4
      BY <2>2, <2>3, <3>5
    <3>3. CASE j = 5 \/ j = 6 \/ j = 7
      BY <2>2, <2>3, <3>3
    <3>4. CASE j = 8 \/ j = 9 \/ j = 10
      BY <2>2, <2>3, <3>4
    <3> QED BY <3>1, <3>2, <3>3, <3>4, <3>5
  <2>6. Paced(Pieces(s), o[1], o[Len(s) + 1])
    <3>1. Len(o) = Len(s) + 1
      BY <2>1
    <3> QED BY <2>1, <2>5, <3>1, PiecesPaced
  <2> QED BY <2>1, <2>2, <2>4, <2>6
<1>3. Paced(Pieces(<<2, 1>>), 37, 40)
  <2> DEFINE s == <<2, 1>>
             o == <<37, 39, 40>>
  <2>1. /\ s \in Seq(Int) /\ o \in Seq(Nat) /\ Len(s) = 2 /\ Len(o) = 3
        /\ s[1] = 2 /\ s[2] = 1 /\ o[1] = 37 /\ o[2] = 39 /\ o[3] = 40
    OBVIOUS
  <2> HIDE DEF s, o
  <2>2. ASSUME NEW j \in 1 .. Len(s)
        PROVE  o[j + 1] = o[j] + (IF s[j] >= 0 THEN s[j] ELSE -s[j])
    <3>1. j = 1 \/ j = 2
      BY <2>1
    <3> QED BY <2>1, <3>1
  <2>3. Paced(Pieces(s), o[1], o[Len(s) + 1])
    <3>1. Len(o) = Len(s) + 1
      BY <2>1
    <3> QED BY <2>1, <2>2, <3>1, PiecesPaced
  <2> QED BY <2>1, <2>3 DEF s
<1>4. Paced(Pieces(<<2, 1, 1>>), 40, 44)
  <2> DEFINE s == <<2, 1, 1>>
             o == <<40, 42, 43, 44>>
  <2>1. /\ s \in Seq(Int) /\ o \in Seq(Nat) /\ Len(s) = 3 /\ Len(o) = 4
        /\ s[1] = 2 /\ s[2] = 1 /\ s[3] = 1 /\ o[1] = 40 /\ o[2] = 42 /\ o[3] = 43 /\ o[4] = 44
    OBVIOUS
  <2> HIDE DEF s, o
  <2>2. ASSUME NEW j \in 1 .. Len(s)
        PROVE  o[j + 1] = o[j] + (IF s[j] >= 0 THEN s[j] ELSE -s[j])
    <3>1. j = 1 \/ j = 2 \/ j = 3
      BY <2>1
    <3> QED BY <2>1, <3>1
  <2>3. Paced(Pieces(s), o[1], o[Len(s) + 1])
    <3>1. Len(o) = Len(s) + 1
      BY <2>1
    <3> QED BY <2>1, <2>2, <3>1, PiecesPaced
  <2> QED BY <2>1, <2>3 DEF s
<1>5. Paced(Pieces(Time), 44, 56)
  <2> DEFINE o == <<44, 46, 50, 52, 56>>
  <2>1. /\ Time \in Seq(Int) /\ o \in Seq(Nat) /\ Len(Time) = 4 /\ Len(o) = 5
        /\ Time[1] = 2 /\ Time[2] = -4 /\ Time[3] = 2 /\ Time[4] = -4
        /\ o[1] = 44 /\ o[2] = 46 /\ o[3] = 50 /\ o[4] = 52 /\ o[5] = 56
    BY DEF Time
  <2> HIDE DEF o
  <2>2. ASSUME NEW j \in 1 .. Len(Time)
        PROVE  o[j + 1] = o[j] + (IF Time[j] >= 0 THEN Time[j] ELSE -Time[j])
    <3>1. j = 1 \/ j = 2 \/ j = 3 \/ j = 4
      BY <2>1
    <3> QED BY <2>1, <3>1
  <2>3. Paced(Pieces(Time), o[1], o[Len(Time) + 1])
    <3>1. Len(o) = Len(Time) + 1
      BY <2>1
    <3> QED BY <2>1, <2>2, <3>1, PiecesPaced
  <2> QED BY <2>1, <2>3
<1> QED BY <1>1, <1>2, <1>3, <1>4, <1>5

\* A gate, and the plans gates lead to.
LEMMA GateMetered ==
    ASSUME NEW k, NEW n, NEW x \in Nat, NEW lens, NEW then, n \in lens => Closes(k, n, then, x)
    PROVE  Metered(k, n, <<Gate(lens, then)>>, x, x)
<1>1. Metes(k, n, Gate(lens, then), x, x)
  BY DEF Metes, Gate
<1> QED BY <1>1, OneMetered

LEMMA PacedCloses ==
    ASSUME NEW k, NEW n, NEW s \in Seq(Int), NEW x, NEW y, Paced(Pieces(s), x, y), y >= n
    PROVE  Closes(k, n, Pieces(s), x)
  BY PiecesPlain DEF Closes

LEMMA NothingCloses ==
    ASSUME NEW k, NEW n \in Nat, NEW x \in Nat, n <= x
    PROVE  Closes(k, n, <<>>, x)
<1> DEFINE o == [j \in 1 .. 1 |-> x]
           e == <<>>
<1>1. e \in Seq(Plain(k, {FALSE})) /\ Len(e) = 0
  BY EmptySeq
<1>2. o \in [1 .. 1 -> Nat] /\ o[1] = x
  OBVIOUS
<1> HIDE DEF o, e
<1>3. o \in [1 .. (Len(e) + 1) -> Nat] /\ o[Len(e) + 1] = x /\ \A j \in 1 .. Len(e) : FALSE
  BY <1>1, <1>2
<1>4. Paced(e, x, x)
  BY <1>2, <1>3 DEF Paced
<1>5. x >= n
  OBVIOUS
<1>6. Closes(k, n, e, x)
  BY <1>1, <1>4, <1>5 DEF Closes
<1> QED BY <1>6 DEF e

\* A body no longer than where the gate is.
LEMMA EndGate ==
    ASSUME NEW k, NEW n \in Nat, NEW x \in Nat, NEW lens \in SUBSET (0 .. x)
    PROVE  Metered(k, n, <<Gate(lens, <<>>)>>, x, x) /\ <<Gate(lens, <<>>)>> \in Layouts(k)
<1>1. n \in lens => Closes(k, n, <<>>, x)
  BY NothingCloses
<1>2. lens \in SUBSET Nat /\ <<>> \in Seq(Inner(k))
  OBVIOUS
<1> QED BY <1>1, <1>2, GateMetered, Building

-----------------------------------------------------------------------------
\* From where it is reached on, every layout is measured.
LEMMA ReportMeasured ==
    ASSUME NEW n \in Nat, NEW t
    PROVE  Measured("text", n, Report(t), 56)
<1>1. CASE t # \h60
  <2>1. Report(t) \in Seq(Free("text"))
    BY <1>1, FreeBuilds, ReportBuilt
  <2> QED BY <2>1, FreeMeasured
<1>2. CASE t = \h60
  <2> DEFINE p4 == Pieces(<<4>>)
             g == <<Gate(0 .. 60, <<>>)>>
             b == <<Bcd>>
             end == Pieces(<<2, -1>>)
             two == <<Gate(0 .. 60, <<>>), Bcd>>
  <2>1. <<4>> \in Seq(Int) /\ <<2, -1>> \in Seq(Int)
    OBVIOUS
  <2>2. p4 \in Layouts("text") /\ b \in Layouts("text")
    BY <2>1, Building
  <2>3. Metered("text", n, p4, 56, 60)
    <3>1. Paced(Pieces(<<4>>), 56, 56 + 4)
      BY PiecesFrom
    <3>2. 56 + 4 = 60
      OBVIOUS
    <3> QED BY <3>1, <3>2, PacedIsMetered
  <2>4. Metered("text", n, g, 60, 60) /\ g \in Layouts("text")
    BY EndGate
  <2>5. Metered("text", n, b, 60, 78)
    <3>1. Metes("text", n, Bcd, 60, 78)
      BY DEF Metes, Moves, Bcd
    <3> QED BY <3>1, OneMetered
  <2>6. end \in Seq(Free("text"))
    BY <2>1, FreeBuilds DEF Builds
  <2>7. two = Joint(g, b)
    BY DEF Joint
  <2>8. Report(t) = (p4 \o two) \o end
    BY <1>2 DEF Report
  <2> HIDE DEF p4, g, b, end, two
  <2>9. Metered("text", n, two, 60, 78) /\ two \in Layouts("text")
    BY <2>2, <2>4, <2>5, <2>7, JoinMetered, JointSteps
  <2>10. Metered("text", n, Joint(p4, two), 56, 78) /\ Joint(p4, two) \in Layouts("text")
    BY <2>2, <2>3, <2>9, JoinMetered, JointSteps
  <2>11. Measured("text", n, Joint(p4, two) \o end, 56)
    BY <2>6, <2>10 DEF Measured
  <2> QED BY <2>8, <2>11 DEF Joint
<1> QED BY <1>1, <1>2

LEMMA VehicleMeasured ==
    ASSUME NEW n \in Nat, NEW t
    PROVE  Measured("text", n, Vehicle(t), 44)
<1> DEFINE F == Seq(Free("text"))
<1>1. /\ <<4, 2, 3>> \in Seq(Int) /\ <<2, -1, 1>> \o Time \in Seq(Int)
      /\ Time \o <<2, -4, 2, -2>> \in Seq(Int)
  <2>1. <<4, 2, 3>> \in Seq(Int) /\ <<2, -1, 1>> \in Seq(Int) /\ <<2, -4, 2, -2>> \in Seq(Int)
    OBVIOUS
  <2> QED BY <2>1, TimeTypes, ConcatProperties
<1>2. /\ \A a, b \in F : a \o b \in F
      /\ \A s \in Seq(Int) : Pieces(s) \in F
      /\ <<Rest>> \in F /\ <<Bcd>> \in F
  BY FreeBuilds DEF Builds
<1>3. Incident(Time \o <<2, -4, 2, -2>>) \in F
  BY <1>1, FreeBuilds, IncidentBuilt
<1> HIDE DEF F
<1>4. Pieces(<<4, 2, 3>>) \o <<Bcd>> \o Pieces(<<2, -1, 1>> \o Time) \in F
  BY <1>1, <1>2
<1>5. CASE t \in {\h10, \h11, \h40, \h01}
  <2>1. Vehicle(t) \in F
    BY <1>2, <1>3, <1>4, <1>5 DEF Vehicle
  <2> QED BY <2>1, FreeMeasured DEF F
<1>6. CASE t \notin {\h10, \h11, \h40, \h01}
  <2> DEFINE p == Pieces(Time)
             g == <<Gate(0 .. 56, <<>>)>>
  <2>1. Metered("text", n, p, 44, 56) /\ p \in Layouts("text")
    BY PiecesFrom, PacedIsMetered, TimeTypes, Building
  <2>2. Metered("text", n, g, 56, 56) /\ g \in Layouts("text")
    BY EndGate
  <2>3. Vehicle(t) = p \o g \o Report(t)
    BY <1>6 DEF Vehicle
  <2> HIDE DEF p, g
  <2>4. Metered("text", n, Joint(p, g), 44, 56) /\ Joint(p, g) \in Layouts("text")
    BY <2>1, <2>2, JoinMetered, JointSteps
  <2>5. Measured("text", n, Joint(p, g) \o Report(t), 44)
    BY <2>4, ReportMeasured, JoinMeasured
  <2> QED BY <2>3, <2>5 DEF Joint
<1> QED BY <1>5, <1>6

LEMMA TextMeasured ==
    ASSUME NEW n \in Nat, NEW t
    PROVE  Measured("text", n, TextInfo(t), 37)
<1> DEFINE p3 == Pieces(<<3>>)
           g40 == <<Gate({40}, <<>>)>>
           p2 == Pieces(<<2>>)
           g44 == <<Gate({44}, Pieces(<<2>>))>>
           g == <<Gate(0 .. 44, <<>>)>>
           T == Layouts("text")
           more == IF t = \h02 THEN Incident(<<4, -4, 2, -2, 4, -4, 2, -2>>)
                   ELSE p2 \o g \o Vehicle(t)
<1>1. <<3>> \in Seq(Int) /\ <<2>> \in Seq(Int) /\ <<4, -4, 2, -2, 4, -4, 2, -2>> \in Seq(Int)
  OBVIOUS
<1>2. p3 \in T /\ p2 \in T
  BY <1>1, Building
<1>3. /\ Paced(p3, 37, 40) /\ Paced(p2, 40, 42) /\ Paced(p2, 42, 44)
  <2>1. Paced(p3, 37, 37 + 3) /\ Paced(p2, 40, 40 + 2) /\ Paced(p2, 42, 42 + 2)
    BY PiecesFrom
  <2>2. 37 + 3 = 40 /\ 40 + 2 = 42 /\ 42 + 2 = 44
    OBVIOUS
  <2> QED BY <2>1, <2>2
<1>4. Metered("text", n, g40, 40, 40) /\ g40 \in T
  <2>1. {40} \in SUBSET (0 .. 40)
    OBVIOUS
  <2> QED BY <2>1, EndGate
<1>5. Metered("text", n, g44, 42, 42) /\ g44 \in T
  <2>1. n \in {44} => Closes("text", n, p2, 42)
    <3>1. ASSUME n = 44 PROVE Closes("text", n, p2, 42)
      <4>1. 44 >= n
        BY <3>1
      <4> QED BY <1>1, <1>3, <4>1, PacedCloses
    <3> QED BY <3>1
  <2>2. {44} \in SUBSET Nat /\ p2 \in Seq(Inner("text"))
    <3>1. p2 \in Seq(Plain("text", {FALSE}))
      BY <1>1, PiecesPlain
    <3> QED BY <3>1, StepsMono
  <2> QED BY <2>1, <2>2, GateMetered, Building
<1>6. Metered("text", n, g, 44, 44) /\ g \in T
  BY EndGate
<1>7. Incident(<<4, -4, 2, -2, 4, -4, 2, -2>>) \in Seq(Free("text"))
  BY <1>1, FreeBuilds, IncidentBuilt
<1>8. TextInfo(t) = p3 \o g40 \o p2 \o g44 \o more
  BY DEF TextInfo
<1> HIDE DEF p3, g40, p2, g44, g, T
<1>9. /\ Metered("text", n, p3, 37, 40) /\ Metered("text", n, p2, 40, 42)
      /\ Metered("text", n, p2, 42, 44)
  BY <1>3, PacedIsMetered
<1>10. Measured("text", n, more, 42)
  <2>1. CASE t = \h02
    BY <1>7, <2>1, FreeMeasured
  <2>2. CASE t # \h02
    <3>1. Metered("text", n, Joint(p2, g), 42, 44) /\ Joint(p2, g) \in T
      BY <1>2, <1>6, <1>9, JoinMetered, JointSteps DEF T
    <3>2. Measured("text", n, Joint(p2, g) \o Vehicle(t), 42)
      BY <3>1, VehicleMeasured, JoinMeasured DEF T
    <3> QED BY <2>2, <3>2 DEF Joint
  <2> QED BY <2>1, <2>2
<1> HIDE DEF more
<1> DEFINE a == Joint(p3, g40)
           b == Joint(a, p2)
           c == Joint(b, g44)
<1>11. Metered("text", n, a, 37, 40) /\ a \in T
  BY <1>2, <1>4, <1>9, JoinMetered, JointSteps DEF T
<1> HIDE DEF a
<1>12. Metered("text", n, b, 37, 42) /\ b \in T
  BY <1>2, <1>9, <1>11, JoinMetered, JointSteps DEF T
<1> HIDE DEF b
<1>13. Metered("text", n, c, 37, 42) /\ c \in T
  BY <1>5, <1>12, JoinMetered, JointSteps DEF T
<1> HIDE DEF c
<1>14. Measured("text", n, c \o more, 37)
  BY <1>10, <1>13, JoinMeasured DEF T
<1>15. TextInfo(t) = c \o more
  BY <1>8 DEF a, b, c, Joint
<1> QED BY <1>14, <1>15

LEMMA SendaiMeasured ==
    ASSUME NEW n \in Nat, NEW t
    PROVE  Measured("sendai", n, Sendai(t), 37)
<1> DEFINE F == Seq(Free("sendai"))
<1>1. /\ \A a, b \in F : a \o b \in F
      /\ Pieces(<<2, 1, 2, 3, 4, 4, 3>>) \in F
  <2>1. <<2, 1, 2, 3, 4, 4, 3>> \in Seq(Int)
    OBVIOUS
  <2> QED BY <2>1, FreeBuilds DEF Builds
<1>2. Sendai(t) \in F
  <2>1. PICK more \in F : Sendai(t) = Pieces(<<2, 1, 2, 3, 4, 4, 3>>) \o more
    BY FreeBuilds, SendaiBuilt
  <2> QED BY <1>1, <2>1
<1> QED BY <1>2, FreeMeasured

\* Steps that are free, behind it.
LEMMA JoinFree ==
    ASSUME NEW k, NEW n, NEW p, NEW x, Measured(k, n, p, x), NEW f \in Seq(Free(k))
    PROVE  Measured(k, n, p \o f, x)
<1>0. PICK a \in Layouts(k), b \in Seq(Free(k)) : \E y : p = a \o b /\ Metered(k, n, a, x, y)
  BY DEF Measured
<1>1. PICK y : p = a \o b /\ Metered(k, n, a, x, y)
  BY <1>0
<1> DEFINE S == Steps(k, {FALSE}) \cup Free(k)
<1>2. Layouts(k) \subseteq Seq(S) /\ Seq(Free(k)) \subseteq Seq(S)
  <2>1. Steps(k, {FALSE}) \subseteq S /\ Free(k) \subseteq S
    OBVIOUS
  <2> HIDE DEF S
  <2> QED BY <2>1, SeqMono DEF Layouts
<1> HIDE DEF S
<1>3. a \in Seq(S) /\ b \in Seq(S) /\ f \in Seq(S)
  BY <1>2
<1>4. (a \o b) \o f = a \o (b \o f)
  BY <1>3, ConcatAssociative
<1>5. b \o f \in Seq(Free(k))
  BY ConcatProperties
<1> QED BY <1>1, <1>4, <1>5 DEF Measured

LEMMA BinaryMeasured ==
    ASSUME NEW n \in Nat, NEW t
    PROVE  Measured("binary", n, Binary(t), 37)
<1> DEFINE T == Layouts("binary")
           F == Seq(Free("binary"))
           P == Seq(Plain("binary", {FALSE}))
           I == Seq(Inner("binary"))
           p21 == Pieces(<<2, 1>>)
           p211 == Pieces(<<2, 1, 1>>)
           p4 == Pieces(<<4>>)
           branch == <<Branch(<<Rest>>, <<Raw, Nav, Rest>>)>>
           g44 == <<Gate({44}, p211)>>
           g48 == <<Gate({48}, p4)>>
           g55 == <<Gate({55, 60}, branch)>>
           two == <<Gate({48}, p4), Gate({55, 60}, branch)>>
           end == <<Sized(1)>>
<1>1. /\ <<2, 1>> \in Seq(Int) /\ <<2, 1, 1>> \in Seq(Int) /\ <<4>> \in Seq(Int)
      /\ <<2>> \in Seq(Int) /\ <<1>> \in Seq(Int)
  OBVIOUS
<1>2. /\ p21 \in T /\ p211 \in T /\ p4 \in P /\ p211 \in P
      /\ Pieces(<<2>>) \in F /\ Pieces(<<1>>) \in F /\ end \in F
      /\ \A a, b \in F : a \o b \in F
  <2>1. p4 \in P /\ p211 \in P
    BY <1>1, PiecesPlain
  <2>2. p21 \in T /\ p211 \in T
    BY <1>1, Building
  <2> QED BY <1>1, <2>1, <2>2, FreeBuilds DEF Builds
<1>3. Paced(p21, 37, 40) /\ Paced(p211, 40, 44) /\ Paced(p4, 44, 48)
  <2>1. Paced(p4, 44, 44 + 4)
    BY PiecesFrom
  <2>2. 44 + 4 = 48
    OBVIOUS
  <2> QED BY <2>1, <2>2, PiecesFrom
<1>4. p4 \in I /\ p211 \in I /\ branch \in I
  <2>1. <<Rest>> \in P /\ <<Raw, Nav, Rest>> \in P
    BY Building
  <2>2. branch \in I
    BY <2>1, Building
  <2> QED BY <1>2, <2>2, StepsMono
<1>5. Metered("binary", n, g44, 40, 40) /\ g44 \in T
  <2>1. n \in {44} => Closes("binary", n, p211, 40)
    <3>1. ASSUME n = 44 PROVE Closes("binary", n, p211, 40)
      <4>1. 44 >= n
        BY <3>1
      <4> QED BY <1>1, <1>3, <4>1, PacedCloses
    <3> QED BY <3>1
  <2>2. {44} \in SUBSET Nat
    OBVIOUS
  <2> QED BY <1>4, <2>1, <2>2, GateMetered, Building
<1>6. Metered("binary", n, g48, 44, 44) /\ g48 \in T
  <2>1. n \in {48} => Closes("binary", n, p4, 44)
    <3>1. ASSUME n = 48 PROVE Closes("binary", n, p4, 44)
      <4>1. 48 >= n
        BY <3>1
      <4> QED BY <1>1, <1>3, <4>1, PacedCloses
    <3> QED BY <3>1
  <2>2. {48} \in SUBSET Nat
    OBVIOUS
  <2> QED BY <1>4, <2>1, <2>2, GateMetered, Building
<1>7. Metered("binary", n, g55, 44, 44) /\ g55 \in T
  <2>1. Closes("binary", n, branch, 44)
    <3>1. ToEnd("binary", <<Rest>>)
      BY <1>1, PiecesToEnd
    <3>2. ToEnd("binary", <<Raw, Nav, Rest>>)
      <4> DEFINE r == <<Raw, Nav, Rest>>
      <4>1. r \in P
        BY Building
      <4>2. r # <<>> /\ Len(r) = 3 /\ r[3] = Rest
        OBVIOUS
      <4> HIDE DEF r
      <4>3. ToEnd("binary", r)
        BY <4>1, <4>2 DEF ToEnd
      <4> QED BY <4>3 DEF r
    <3> QED BY <3>1, <3>2 DEF Closes
  <2>2. {55, 60} \in SUBSET Nat
    OBVIOUS
  <2> QED BY <1>4, <2>1, <2>2, GateMetered, Building
<1>8. Metered("binary", n, Joint(p21, g44), 37, 40) /\ Joint(p21, g44) \in T
  <2>1. Metered("binary", n, p21, 37, 40)
    BY <1>3, PacedIsMetered
  <2> HIDE DEF p21, g44
  <2> QED BY <1>2, <1>5, <2>1, JoinMetered, JointSteps
<1>9. CASE t \notin {\h10, \h15}
  <2>1. PICK more \in F : Binary(t) = p21 \o g44 \o more
    BY <1>9, FreeBuilds, BinaryBuilt
  <2>2. Measured("binary", n, more, 40)
    BY FreeMeasured
  <2> HIDE DEF p21, g44, T
  <2>3. Measured("binary", n, Joint(p21, g44) \o more, 37)
    BY <1>8, <2>2, JoinMeasured DEF T
  <2> QED BY <2>1, <2>3 DEF Joint
<1>10. CASE t \in {\h10, \h15}
  <2> DEFINE p2 == Pieces(<<2>>)
             p1 == Pieces(<<1>>)
             q == p211 \o two \o p2 \o end \o p1
  <2>1. Binary(t) = p21 \o g44 \o q
    BY <1>10, BinaryGated
  <2>2. two = Joint(g48, g55)
    BY DEF Joint
  <2>3. Metered("binary", n, p211, 40, 44)
    BY <1>3, PacedIsMetered
  <2>4. p2 \in F /\ end \in F /\ p1 \in F
    BY <1>2
  <2> HIDE DEF two, p211, g48, g55, p21, g44, p2, end, p1, T, F
  <2>5. Metered("binary", n, two, 44, 44) /\ two \in T
    BY <1>6, <1>7, <2>2, JoinMetered, JointSteps DEF T
  <2> DEFINE a == p211 \o two
  <2>6. Metered("binary", n, a, 40, 44) /\ a \in T
    BY <1>2, <2>3, <2>5, JoinMetered, JointSteps DEF T, Joint
  <2> HIDE DEF a
  <2>7. Measured("binary", n, a \o p2, 40)
    BY <2>4, <2>6 DEF Measured, T, F
  <2>8. Measured("binary", n, (a \o p2) \o end, 40)
    BY <2>4, <2>7, JoinFree DEF F
  <2>9. Measured("binary", n, ((a \o p2) \o end) \o p1, 40)
    BY <2>4, <2>8, JoinFree DEF F
  <2>10. Measured("binary", n, q, 40)
    BY <2>9 DEF a
  <2> HIDE DEF q
  <2>11. Measured("binary", n, Joint(p21, g44) \o q, 37)
    BY <1>8, <2>10, JoinMeasured DEF T
  <2> QED BY <2>1, <2>11 DEF Joint
<1> QED BY <1>9, <1>10

LEMMA BodyMeasured ==
    ASSUME NEW k \in {"text", "sendai", "binary"}, NEW n \in Nat, NEW t
    PROVE  Measured(k, n, Body(k, t), 0)
<1> DEFINE inside == CASE k = "text" -> TextInfo(t)
                       [] k = "sendai" -> Sendai(t)
                       [] OTHER -> Binary(t)
           g == <<Gate(0 .. 41, <<Rest>>)>>
<1>1. Measured(k, n, inside, 37)
  BY TextMeasured, SendaiMeasured, BinaryMeasured
<1>2. Metered(k, n, g, 37, 37) /\ g \in Layouts(k)
  <2>1. Closes(k, n, <<Rest>>, 37)
    <3>1. <<1>> \in Seq(Int)
      OBVIOUS
    <3> QED BY <3>1, PiecesToEnd DEF Closes
  <2>2. 0 .. 41 \in SUBSET Nat
    OBVIOUS
  <2>3. <<Rest>> \in Seq(Inner(k))
    BY Building, StepsMono
  <2> QED BY <2>1, <2>2, <2>3, GateMetered, Building
<1>3. Metered(k, n, Header, 0, 37) /\ Header \in Layouts(k)
  BY PiecesFrom, PacedIsMetered, HeaderLayout
<1>4. Body(k, t) = Header \o g \o inside
  BY DEF Body
<1> HIDE DEF inside, g
<1>5. Metered(k, n, Joint(Header, g), 0, 37) /\ Joint(Header, g) \in Layouts(k)
  BY <1>2, <1>3, JoinMetered, JointSteps
<1>6. Measured(k, n, Joint(Header, g) \o inside, 0)
  BY <1>1, <1>5, JoinMeasured
<1> QED BY <1>4, <1>6 DEF Joint

-----------------------------------------------------------------------------
(* Running a layout: what the invariant of the gates gives the step that is next. *)

LEMMA PlainHolds ==
    ASSUME NEW k, NEW again, NEW s \in Plain(k, again)
    PROVE  /\ s.op \in {"take", "skip", "rest", "position"}
           /\ s.op # "rest" => s.n \in Nat
  BY DEF Plain

LEMMA FreeHolds ==
    ASSUME NEW k, NEW s \in Free(k)
    PROVE  /\ s.op = "gate" => ToEnd(k, s.then)
           /\ s.op = "branch" => /\ s.then \in Seq(Plain(k, {FALSE}))
                                 /\ s.else \in Seq(Plain(k, {FALSE}))
           /\ s.op = "count" => s.item \in Seq(Plain(k, {FALSE}))
<1>1. CASE s \in Plain(k, BOOLEAN)
  BY <1>1, PlainHolds
<1>2. CASE s \in Deciding(Plain(k, {FALSE})) /\ (s.op = "gate" => ToEnd(k, s.then))
  <2> DEFINE P == Seq(Plain(k, {FALSE}))
  <2>1. \/ s \in [op : {"gate"}, lens : SUBSET Nat, then : P]
        \/ s \in [op : {"branch"}, peeks : BOOLEAN, then : P, else : P]
        \/ s \in [op : {"count"}, n : Nat, item : P]
        \/ s \in [op : {"sized"}, n : Nat]
    BY <1>2 DEF Deciding
  <2> HIDE DEF P
  <2>2. /\ s.op = "branch" => s.then \in P /\ s.else \in P
        /\ s.op = "count" => s.item \in P
    BY <2>1
  <2> QED BY <1>2, <2>2 DEF P
<1> QED BY <1>1, <1>2 DEF Free

LEMMA PlainIsFree ==
    ASSUME NEW k
    PROVE  /\ Seq(Plain(k, {FALSE})) \subseteq Seq(Free(k))
           /\ Seq(Plain(k, BOOLEAN)) \subseteq Seq(Free(k))
<1>1. Plain(k, {FALSE}) \subseteq Plain(k, BOOLEAN)
  BY DEF Plain
<1>2. Plain(k, BOOLEAN) \subseteq Free(k)
  BY DEF Free
<1> QED BY <1>1, <1>2, SeqMono

\* The items of a list are free.
LEMMA ItemsFree ==
    ASSUME NEW k, NEW item \in Seq(Plain(k, {FALSE})), NEW n \in Nat
    PROVE  Items(item, n) \in Seq(Free(k))
<1> DEFINE L == Len(item)
           S == Plain(k, BOOLEAN)
           Mark(j, step) == IF j > L /\ step.op \in {"take", "position"}
                            THEN [step EXCEPT !.again = TRUE] ELSE step
<1>1. L \in Nat /\ (\A i \in 1 .. L : item[i] \in Plain(k, {FALSE}))
  BY LenProperties, ElementOfSeq
<1>2. \A j, step : step \in Plain(k, {FALSE}) => Mark(j, step) \in S
  <2> SUFFICES ASSUME NEW j, NEW step \in Plain(k, {FALSE}) PROVE Mark(j, step) \in S
    OBVIOUS
  <2>1. CASE step.op = "take"
    <3>1. step \in [op : {"take"}, n : Nat, again : {FALSE}]
      BY <2>1 DEF Plain
    <3> QED BY <3>1 DEF Plain
  <2>2. CASE step.op = "position"
    <3>1. step \in [op : {"position"}, form : Forms(k), n : Nat, again : {FALSE}]
      BY <2>2 DEF Plain
    <3> QED BY <3>1 DEF Plain
  <2>3. CASE ~(step.op \in {"take", "position"})
    BY <2>3 DEF Plain
  <2> QED BY <2>1, <2>2, <2>3
<1> DEFINE m == n * L
<1>3. m \in Nat
  BY <1>1
<1>4. \A j \in 1 .. m : ((j - 1) % L) + 1 \in 1 .. L
  <2>1. CASE L = 0
    <3>1. m = 0
      BY <2>1
    <3> QED BY <3>1
  <2>2. CASE L # 0
    <3> HIDE DEF L, m
    <3> QED BY <1>1, <1>3, <2>2
  <2> QED BY <2>1, <2>2
<1> DEFINE it(j) == Mark(j, item[((j - 1) % L) + 1])
<1>5. Items(item, n) = [j \in 1 .. m |-> it(j)]
  BY DEF Items
<1>6. \A j \in 1 .. m : it(j) \in S
  BY <1>1, <1>2, <1>4
<1> HIDE DEF it, S, m
<1>7. Items(item, n) \in Seq(S)
  BY <1>3, <1>5, <1>6
<1> QED BY <1>7, PlainIsFree DEF S

\* The first step of two layouts is that of the first one.
LEMMA HeadOfJoint ==
    ASSUME NEW S, NEW a \in Seq(S), NEW b \in Seq(S), a # <<>>
    PROVE  Head(a \o b) = Head(a) /\ Tail(a \o b) = Tail(a) \o b
  OBVIOUS

LEMMA OpenPlan ==
    ASSUME NEW k, NEW n, NEW p, NEW x, Measured(k, n, p, x), p # <<>>
    PROVE  \/ \E z : Metes(k, n, Head(p), x, z) /\ Measured(k, n, Tail(p), z)
           \/ Head(p) \in Free(k) /\ Tail(p) \in Seq(Free(k))
<1>0. PICK a \in Layouts(k), b \in Seq(Free(k)) : \E y : p = a \o b /\ Metered(k, n, a, x, y)
  BY DEF Measured
<1>1. PICK y : p = a \o b /\ Metered(k, n, a, x, y)
  BY <1>0
<1>2. CASE a = <<>>
  <2>1. p = b
    BY <1>1, <1>2
  <2>2. Head(b) \in Free(k) /\ Tail(b) \in Seq(Free(k))
    BY <2>1, HeadTailProperties
  <2> QED BY <2>1, <2>2
<1>3. CASE a # <<>>
  <2> DEFINE S == Steps(k, {FALSE}) \cup Free(k)
  <2>1. a \in Seq(S) /\ b \in Seq(S)
    <3>1. Layouts(k) \subseteq Seq(S) /\ Seq(Free(k)) \subseteq Seq(S)
      <4>1. Steps(k, {FALSE}) \subseteq S /\ Free(k) \subseteq S
        OBVIOUS
      <4> HIDE DEF S
      <4> QED BY <4>1, SeqMono DEF Layouts
    <3> QED BY <3>1
  <2> HIDE DEF S
  <2>2. Head(p) = Head(a) /\ Tail(p) = Tail(a) \o b
    BY <1>1, <1>3, <2>1, HeadOfJoint
  <2>3. PICK z : Metes(k, n, Head(a), x, z) /\ Metered(k, n, Tail(a), z, y)
    BY <1>1, <1>3, <2>1, MeteredStep
  <2>4. Tail(a) \in Layouts(k)
    BY <1>3, HeadTailProperties DEF Layouts
  <2>5. Measured(k, n, Tail(p), z)
    BY <2>2, <2>3, <2>4 DEF Measured
  <2> QED BY <2>2, <2>3, <2>5
<1> QED BY <1>2, <1>3

LEMMA ClosingPlan ==
    ASSUME NEW k, NEW n, NEW p, NEW x, Closes(k, n, p, x), p # <<>>
    PROVE  \/ Head(p) = Rest /\ Tail(p) = <<>>
           \/ Head(p) \in Plain(k, {FALSE}) /\ ToEnd(k, Tail(p))
           \/ \E a, b : Head(p) = Branch(a, b) /\ ToEnd(k, a) /\ ToEnd(k, b)
           \/ \E z : Moves(Head(p), x, z) /\ Closes(k, n, Tail(p), z)
<1> DEFINE P == Plain(k, {FALSE})
<1>1. CASE ToEnd(k, p)
  <2>1. p \in Seq(P) /\ p[Len(p)] = Rest
    BY <1>1 DEF ToEnd
  <2> HIDE DEF P
  <2>2. /\ Head(p) \in P /\ Tail(p) \in Seq(P) /\ Head(p) = p[1]
        /\ Len(p) \in Nat /\ Len(p) >= 1 /\ Len(Tail(p)) = Len(p) - 1
        /\ \A j \in 1 .. Len(Tail(p)) : Tail(p)[j] = p[j + 1]
    BY <2>1, HeadTailProperties, LenProperties, EmptySeq
  <2>3. CASE Len(p) = 1
    <3>1. Len(Tail(p)) = 0
      BY <2>2, <2>3
    <3>2. Tail(p) = <<>>
      BY <2>2, <3>1, EmptySeq
    <3> QED BY <2>1, <2>2, <2>3, <3>2
  <2>4. CASE Len(p) # 1
    <3> DEFINE t == Tail(p)
    <3>1. Len(t) \in 1 .. Len(t) /\ Len(t) + 1 = Len(p)
      BY <2>2, <2>4
    <3>2. t[Len(t)] = Rest
      BY <2>1, <2>2, <3>1
    <3>3. t # <<>>
      BY <3>1, EmptySeq
    <3> HIDE DEF t
    <3>4. ToEnd(k, t)
      BY <2>2, <3>2, <3>3 DEF ToEnd, P, t
    <3> QED BY <2>2, <3>4 DEF t, P
  <2> QED BY <2>3, <2>4
<1>2. CASE \E a, b : p = <<Branch(a, b)>> /\ ToEnd(k, a) /\ ToEnd(k, b)
  <2>1. PICK a, b : p = <<Branch(a, b)>> /\ ToEnd(k, a) /\ ToEnd(k, b)
    BY <1>2
  <2>2. Head(p) = Branch(a, b)
    BY <2>1
  <2> QED BY <2>1, <2>2
<1>3. CASE p \in Seq(P) /\ \E y : y >= n /\ Paced(p, x, y)
  <2> HIDE DEF P
  <2>1. PICK y : y >= n /\ Paced(p, x, y)
    BY <1>3
  <2>2. PICK z : Moves(Head(p), x, z) /\ Paced(Tail(p), z, y)
    BY <1>3, <2>1, PacedStep
  <2>3. Tail(p) \in Seq(P)
    BY <1>3, HeadTailProperties
  <2>4. Closes(k, n, Tail(p), z)
    BY <2>1, <2>2, <2>3 DEF Closes, P
  <2> QED BY <2>2, <2>4
<1> QED BY <1>1, <1>2, <1>3 DEF Closes

-----------------------------------------------------------------------------
(* No step loses what a gate has found. *)

\* Where a step takes the cursor.
Forward(s, x, y) ==
    \/ s.op = "rest" /\ y = size
    \/ s.op \in {"take", "skip", "position"} /\ y = x + s.n

LEMMA GateInit == DataInit => GateInv
<1> SUFFICES ASSUME DataInit PROVE GateInv
  OBVIOUS
<1>1. size \in Nat /\ kind \in {"text", "sendai", "binary"}
  BY DataInitInv DEF DataInv
<1>2. cur.pos = 0 /\ ~gated /\ plan = IF size < 40 THEN <<Rest>> ELSE Body(kind, info)
  BY DEF DataInit, NewCursor
<1>3. Measured(kind, size, <<Rest>>, 0)
  <2>1. <<Rest>> \in Seq(Free(kind))
    BY FreeBuilds DEF Builds
  <2> QED BY <2>1, FreeMeasured
<1>4. Measured(kind, size, Body(kind, info), 0)
  BY <1>1, BodyMeasured
<1> QED BY <1>2, <1>3, <1>4 DEF GateInv

LEMMA TakingMoves ==
    ASSUME DataInv, \/ TakeField \/ SkipBytes \/ TakeRest \/ NoFix
                    \/ \E la \in Latitudes, lo \in Longitudes : Position(la, lo)
    PROVE  /\ UNCHANGED <<size, kind, gated>> /\ plan' = Tail(plan) /\ plan # <<>> /\ cur.ok
           /\ cur'.ok => Forward(Step, cur.pos, cur'.pos)
<1>1. UNCHANGED <<size, kind, gated>> /\ plan' = Tail(plan) /\ plan # <<>> /\ cur.ok
  BY DEF TakeField, SkipBytes, TakeRest, NoFix, Position, Do
<1>2. size \in Nat /\ Ordered(cur) /\ cur.pos \in Nat
  BY DEF DataInv, Ordered, Cursors
<1>3. ASSUME Step.op \in {"take", "position"}, Step.n \in Nat,
             cur' = IF Replaces THEN TookAgain(cur, Step.n) ELSE Took(cur, Step.n)
      PROVE  cur'.ok => cur'.pos = cur.pos + Step.n
  <2>1. Replaces => cur.shown # <<>>
    BY EmptySeq DEF Replaces
  <2>2. Step.n \in Int
    BY <1>3
  <2>3. CASE Replaces
    BY <1>2, <1>3, <2>1, <2>2, <2>3, TookAgainOrdered
  <2>4. CASE ~Replaces
    BY <1>2, <1>3, <2>2, <2>4, TookOrdered
  <2> QED BY <2>3, <2>4
<1>4. CASE TakeField
  <2>1. Step.op = "take" /\ Step.n \in Nat
    BY <1>4, NextStep, StepHolds DEF TakeField
  <2>2. cur' = IF Replaces THEN TookAgain(cur, Step.n) ELSE Took(cur, Step.n)
    BY <1>4 DEF TakeField
  <2> QED BY <1>1, <1>3, <2>1, <2>2 DEF Forward
<1>5. CASE SkipBytes
  <2>1. Step.op = "skip" /\ Step.n \in Nat
    BY <1>5, NextStep, StepHolds DEF SkipBytes
  <2>2. cur' = Skipped(cur, Step.n)
    BY <1>5 DEF SkipBytes
  <2> QED BY <1>1, <1>2, <2>1, <2>2, SkippedOrdered DEF Forward
<1>6. CASE TakeRest
  <2>1. Step.op = "rest" /\ size - cur.pos \in Int
    BY <1>2, <1>6 DEF TakeRest, Do
  <2>2. cur' = Took(cur, size - cur.pos)
    BY <1>6 DEF TakeRest, TookRest
  <2>3. cur'.ok => cur'.pos = cur.pos + (size - cur.pos)
    BY <1>2, <2>1, <2>2, TookOrdered
  <2>4. cur.pos + (size - cur.pos) = size
    BY <1>2
  <2> QED BY <1>1, <2>1, <2>3, <2>4 DEF Forward
<1>7. CASE NoFix
  <2>1. Step.op = "position" /\ Step.n \in Nat
    BY <1>7, NextStep, StepHolds DEF NoFix
  <2>2. cur' = [Took(cur, Step.n) EXCEPT !.shown = cur.shown]
    BY <1>7 DEF NoFix
  <2>3. cur'.ok => cur'.pos = cur.pos + Step.n
    BY <1>2, <2>1, <2>2, NoFieldOrdered
  <2> QED BY <1>1, <2>1, <2>3 DEF Forward
<1>8. CASE \E la \in Latitudes, lo \in Longitudes : Position(la, lo)
  <2>1. PICK la \in Latitudes, lo \in Longitudes : Position(la, lo)
    BY <1>8
  <2>2. Step.op = "position" /\ Step.n \in Nat
    BY <2>1, NextStep, StepHolds DEF Position
  <2>3. cur' = IF Replaces THEN TookAgain(cur, Step.n) ELSE Took(cur, Step.n)
    BY <2>1 DEF Position
  <2> QED BY <1>1, <1>3, <2>2, <2>3 DEF Forward
<1> QED BY <1>4, <1>5, <1>6, <1>7, <1>8

LEMMA TakingKeepsGates ==
    ASSUME DataInv, GateInv, DataInv',
           \/ TakeField \/ SkipBytes \/ TakeRest \/ NoFix
           \/ \E la \in Latitudes, lo \in Longitudes : Position(la, lo)
    PROVE  GateInv'
<1> SUFFICES ASSUME cur'.ok
             PROVE  IF gated' THEN Closes(kind', size', plan', cur'.pos)
                              ELSE Measured(kind', size', plan', cur'.pos)
  BY DEF GateInv
<1>1. /\ size' = size /\ kind' = kind /\ gated' = gated
      /\ plan' = Tail(plan) /\ plan # <<>> /\ cur.ok
      /\ Forward(Step, cur.pos, cur'.pos)
  BY TakingMoves
<1>2. size \in Nat /\ cur.pos \in Nat /\ cur'.pos \in Nat /\ gated \in BOOLEAN
  BY DEF DataInv, Ordered, Cursors
<1>3. Step = Head(plan)
  BY DEF Step
<1>4. ASSUME gated
      PROVE  Closes(kind, size, Tail(plan), cur'.pos)
  <2>1. Closes(kind, size, plan, cur.pos)
    BY <1>1, <1>4 DEF GateInv
  <2>2. CASE Step = Rest /\ Tail(plan) = <<>>
    <3>1. cur'.pos = size
      BY <1>1, <2>2 DEF Forward, Rest
    <3>2. size <= cur'.pos
      BY <1>2, <3>1
    <3> QED BY <1>2, <2>2, <3>2, NothingCloses
  <2>3. CASE ToEnd(kind, Tail(plan))
    BY <2>3 DEF Closes
  <2>4. CASE \E a, b : Step = Branch(a, b)
    <3>1. Step.op = "branch"
      BY <2>4 DEF Branch
    <3> QED BY <1>1, <3>1 DEF Forward
  <2>5. CASE \E z : Moves(Step, cur.pos, z) /\ Closes(kind, size, Tail(plan), z)
    <3>1. PICK z : Moves(Step, cur.pos, z) /\ Closes(kind, size, Tail(plan), z)
      BY <2>5
    <3>2. z = cur'.pos
      BY <1>1, <3>1 DEF Moves, Forward
    <3> QED BY <3>1, <3>2
  <2> QED BY <1>1, <1>3, <2>1, <2>2, <2>3, <2>4, <2>5, ClosingPlan
<1>5. ASSUME ~gated
      PROVE  Measured(kind, size, Tail(plan), cur'.pos)
  <2>1. Measured(kind, size, plan, cur.pos)
    BY <1>1, <1>5 DEF GateInv
  <2>2. CASE \E z : Metes(kind, size, Step, cur.pos, z) /\ Measured(kind, size, Tail(plan), z)
    <3>1. PICK z : Metes(kind, size, Step, cur.pos, z) /\ Measured(kind, size, Tail(plan), z)
      BY <2>2
    <3>2. z = cur'.pos
      BY <1>1, <3>1 DEF Metes, Moves, Forward
    <3> QED BY <3>1, <3>2
  <2>3. CASE Step \in Free(kind) /\ Tail(plan) \in Seq(Free(kind))
    BY <1>2, <2>3, FreeMeasured
  <2> QED BY <1>1, <1>3, <2>1, <2>2, <2>3, OpenPlan
<1> QED BY <1>1, <1>2, <1>4, <1>5

LEMMA GateKeepsGates ==
    ASSUME DataInv, GateInv, LengthGate
    PROVE  GateInv'
<1> SUFFICES ASSUME cur'.ok
             PROVE  IF gated' THEN Closes(kind', size', plan', cur'.pos)
                              ELSE Measured(kind', size', plan', cur'.pos)
  BY DEF GateInv
<1>1. /\ size' = size /\ kind' = kind /\ cur' = cur
      /\ plan # <<>> /\ cur.ok /\ Step.op = "gate" /\ Step = Head(plan)
      /\ IF size \in Step.lens THEN plan' = Step.then /\ gated' = TRUE
                               ELSE plan' = Tail(plan) /\ gated' = gated
  BY DEF LengthGate, Do, Step
<1>2. cur.pos \in Nat /\ gated \in BOOLEAN
  BY DEF DataInv, Ordered, Cursors
<1>3. ~gated
  <2> SUFFICES ASSUME gated PROVE FALSE
    BY <1>2
  <2>1. Closes(kind, size, plan, cur.pos)
    BY <1>1 DEF GateInv
  <2>2. CASE Step = Rest
    BY <1>1, <2>2 DEF Rest
  <2>3. CASE Step \in Plain(kind, {FALSE})
    BY <1>1, <2>3, PlainHolds
  <2>4. CASE \E a, b : Step = Branch(a, b)
    BY <1>1, <2>4 DEF Branch
  <2>5. CASE \E z : Moves(Step, cur.pos, z)
    BY <1>1, <2>5 DEF Moves
  <2> QED BY <1>1, <2>1, <2>2, <2>3, <2>4, <2>5, ClosingPlan
<1>4. Measured(kind, size, plan, cur.pos)
  BY <1>1, <1>3 DEF GateInv
<1>5. ASSUME size \in Step.lens => Closes(kind, size, Step.then, cur.pos),
             Measured(kind, size, Tail(plan), cur.pos)
      PROVE  IF gated' THEN Closes(kind', size', plan', cur'.pos)
                       ELSE Measured(kind', size', plan', cur'.pos)
  <2>1. CASE size \in Step.lens
    <3>1. size' = size /\ kind' = kind /\ cur' = cur /\ plan' = Step.then /\ gated'
      BY <1>1, <2>1
    <3>2. Closes(kind, size, Step.then, cur.pos)
      BY <1>5, <2>1
    <3> QED BY <3>1, <3>2
  <2>2. CASE size \notin Step.lens
    <3>1. size' = size /\ kind' = kind /\ cur' = cur /\ plan' = Tail(plan) /\ ~gated'
      BY <1>1, <1>3, <2>2
    <3> QED BY <1>5, <3>1
  <2> QED BY <2>1, <2>2
<1>6. CASE \E z : Metes(kind, size, Step, cur.pos, z) /\ Measured(kind, size, Tail(plan), z)
  <2>1. PICK z : Metes(kind, size, Step, cur.pos, z) /\ Measured(kind, size, Tail(plan), z)
    BY <1>6
  <2>2. z = cur.pos /\ (size \in Step.lens => Closes(kind, size, Step.then, cur.pos))
    BY <1>1, <2>1 DEF Metes, Moves
  <2>3. size \in Step.lens => Closes(kind, size, Step.then, cur.pos)
    BY <2>2
  <2>4. Measured(kind, size, Tail(plan), cur.pos)
    BY <2>1, <2>2
  <2> QED BY <1>5, <2>3, <2>4
<1>7. CASE Step \in Free(kind) /\ Tail(plan) \in Seq(Free(kind))
  <2>1. Measured(kind, size, Tail(plan), cur.pos)
    BY <1>2, <1>7, FreeMeasured
  <2>2. Closes(kind, size, Step.then, cur.pos)
    BY <1>1, <1>7, FreeHolds DEF Closes
  <2> QED BY <1>5, <2>1, <2>2
<1> QED BY <1>1, <1>4, <1>6, <1>7, OpenPlan

LEMMA BranchKeepsGates ==
    ASSUME DataInv, GateInv, DataInv', ByteBranch
    PROVE  GateInv'
<1> SUFFICES ASSUME cur'.ok
             PROVE  IF gated' THEN Closes(kind', size', plan', cur'.pos)
                              ELSE Measured(kind', size', plan', cur'.pos)
  BY DEF GateInv
<1>1. /\ size' = size /\ kind' = kind /\ gated' = gated
      /\ plan # <<>> /\ cur.ok /\ Step.op = "branch" /\ Step = Head(plan)
      /\ plan' \in {Step.then, Step.else}
  BY DEF ByteBranch, Do, Step
<1>2. cur.pos \in Nat /\ cur'.pos \in Nat /\ gated \in BOOLEAN
  BY DEF DataInv, Ordered, Cursors
<1>3. ASSUME gated PROVE Closes(kind, size, plan', cur'.pos)
  <2>1. Closes(kind, size, plan, cur.pos)
    BY <1>1, <1>3 DEF GateInv
  <2>2. CASE Step = Rest
    BY <1>1, <2>2 DEF Rest
  <2>3. CASE Step \in Plain(kind, {FALSE})
    BY <1>1, <2>3, PlainHolds
  <2>4. CASE \E a, b : Step = Branch(a, b) /\ ToEnd(kind, a) /\ ToEnd(kind, b)
    <3>1. PICK a, b : Step = Branch(a, b) /\ ToEnd(kind, a) /\ ToEnd(kind, b)
      BY <2>4
    <3>2. Step.then = a /\ Step.else = b
      BY <3>1 DEF Branch
    <3>3. ToEnd(kind, plan')
      BY <1>1, <3>1, <3>2
    <3> QED BY <3>3 DEF Closes
  <2>5. CASE \E z : Moves(Step, cur.pos, z)
    BY <1>1, <2>5 DEF Moves
  <2> QED BY <1>1, <2>1, <2>2, <2>3, <2>4, <2>5, ClosingPlan
<1>4. ASSUME ~gated PROVE Measured(kind, size, plan', cur'.pos)
  <2>1. Measured(kind, size, plan, cur.pos)
    BY <1>1, <1>4 DEF GateInv
  <2>2. ~\E z : Metes(kind, size, Step, cur.pos, z)
    BY <1>1 DEF Metes, Moves
  <2>3. Step \in Free(kind)
    BY <1>1, <2>1, <2>2, OpenPlan
  <2>4. plan' \in Seq(Plain(kind, {FALSE}))
    BY <1>1, <2>3, FreeHolds
  <2> QED BY <1>2, <2>4, PlainIsFree, FreeMeasured
<1> QED BY <1>1, <1>2, <1>3, <1>4

LEMMA ReadingKeepsGates ==
    ASSUME DataInv, GateInv, DataInv', NEW n \in Counts, ReadCount(n) \/ ReadSized(n)
    PROVE  GateInv'
<1> SUFFICES ASSUME cur'.ok
             PROVE  IF gated' THEN Closes(kind', size', plan', cur'.pos)
                              ELSE Measured(kind', size', plan', cur'.pos)
  BY DEF GateInv
<1>1. /\ size' = size /\ kind' = kind /\ gated' = gated
      /\ plan # <<>> /\ cur.ok /\ Step.op \in {"count", "sized"} /\ Step = Head(plan)
      /\ plan' = IF Step.op = "count" THEN Items(Step.item, n) \o Tail(plan) ELSE Tail(plan)
  BY DEF ReadCount, ReadSized, Do, Step
<1>2. cur.pos \in Nat /\ cur'.pos \in Nat /\ gated \in BOOLEAN /\ n \in Nat
  BY DataAssumption DEF DataInv, Ordered, Cursors
<1>3. ~gated
  <2> SUFFICES ASSUME gated PROVE FALSE
    BY <1>2
  <2>1. Closes(kind, size, plan, cur.pos)
    BY <1>1 DEF GateInv
  <2>2. CASE Step = Rest
    BY <1>1, <2>2 DEF Rest
  <2>3. CASE Step \in Plain(kind, {FALSE})
    BY <1>1, <2>3, PlainHolds
  <2>4. CASE \E a, b : Step = Branch(a, b)
    BY <1>1, <2>4 DEF Branch
  <2>5. CASE \E z : Moves(Step, cur.pos, z)
    BY <1>1, <2>5 DEF Moves
  <2> QED BY <1>1, <2>1, <2>2, <2>3, <2>4, <2>5, ClosingPlan
<1>4. Measured(kind, size, plan, cur.pos)
  BY <1>1, <1>3 DEF GateInv
<1>5. ~\E z : Metes(kind, size, Step, cur.pos, z)
  BY <1>1 DEF Metes, Moves
<1>6. Step \in Free(kind) /\ Tail(plan) \in Seq(Free(kind))
  BY <1>1, <1>4, <1>5, OpenPlan
<1>7. plan' \in Seq(Free(kind))
  <2>1. CASE Step.op = "count"
    <3>1. Items(Step.item, n) \in Seq(Free(kind))
      BY <1>2, <1>6, <2>1, FreeHolds, ItemsFree
    <3> QED BY <1>1, <1>6, <2>1, <3>1, ConcatProperties
  <2>2. CASE Step.op # "count"
    BY <1>1, <1>6, <2>2
  <2> QED BY <2>1, <2>2
<1> QED BY <1>1, <1>2, <1>3, <1>7, FreeMeasured

LEMMA GateNext == DataInv /\ GateInv /\ [DataNext]_datavars => GateInv'
<1> SUFFICES ASSUME DataInv, GateInv, [DataNext]_datavars PROVE GateInv'
  OBVIOUS
<1>1. DataInv'
  BY DataNextInv
<1>2. CASE \/ TakeField \/ SkipBytes \/ TakeRest \/ NoFix
           \/ \E la \in Latitudes, lo \in Longitudes : Position(la, lo)
  BY <1>1, <1>2, TakingKeepsGates
<1>3. CASE LengthGate
  BY <1>3, GateKeepsGates
<1>4. CASE ByteBranch
  BY <1>1, <1>4, BranchKeepsGates
<1>5. CASE \E n \in Counts : ReadCount(n) \/ ReadSized(n)
  BY <1>1, <1>5, ReadingKeepsGates
<1>6. CASE UNCHANGED datavars
  <2>1. cur' = cur /\ gated' = gated /\ kind' = kind /\ size' = size /\ plan' = plan
    BY <1>6 DEF datavars
  <2> QED BY <2>1 DEF GateInv
<1> QED BY <1>2, <1>3, <1>4, <1>5, <1>6 DEF DataNext, DataReturned

LEMMA NothingLeft == DataInv /\ GateInv => GatesLoseNothing
<1> SUFFICES ASSUME DataInv, GateInv, cur.ok, plan = <<>>, gated PROVE cur.pos >= size
  BY DEF GatesLoseNothing, Answered
<1>1. Closes(kind, size, plan, cur.pos)
  BY DEF GateInv
<1>2. ~ToEnd(kind, plan)
  BY DEF ToEnd
<1>3. ~\E a, b : plan = <<Branch(a, b)>>
  OBVIOUS
<1>4. PICK y : y >= size /\ Paced(plan, cur.pos, y)
  BY <1>1, <1>2, <1>3 DEF Closes
<1>5. Len(plan) + 1 = 1
  OBVIOUS
<1>6. y = cur.pos
  BY <1>4, <1>5 DEF Paced
<1> QED BY <1>4, <1>6

\* A layout that ends early because of the body's length has by then been over all of it,
\* wherever it is chosen by a length: for all lengths, types and counts.
THEOREM NothingIsLost == DataSpec => []GatesLoseNothing
<1>1. DataSpec => [](DataInv /\ GateInv)
  <2>1. DataInit => DataInv /\ GateInv
    BY DataInitInv, GateInit
  <2>2. DataInv /\ GateInv /\ [DataNext]_datavars => (DataInv /\ GateInv)'
    BY DataNextInv, GateNext
  <2> QED BY <2>1, <2>2, PTL DEF DataSpec
<1> QED BY <1>1, NothingLeft, PTL
=============================================================================
