------------------------------ MODULE AcchFields ------------------------------
(***************************************************************************)
(* The parsers of bodies that carry their own lengths: emit_acch_fields    *)
(* for a message of one unit, emit_sacch_block_fields and                  *)
(* proc_l2block_facch for a reassembled one, and the cut of the last       *)
(* unit's body in proc_layer2 and proc_sacch (src/decoder/acch.rs,         *)
(* l2_block.rs).  Each keeps a signed count of what is left next to the    *)
(* cursor, and subtracts from it what the received bytes say.              *)
(*                                                                         *)
(* A byte is chosen when it is read: nothing reads one twice but with a    *)
(* peek in front of the take, and both are in one action.                  *)
(***************************************************************************)
EXTENDS Cursor

CONSTANTS
    CellLens,       \* bytes in a unit's body: 12 for Layer 2, 6 for SACCH
    Lens,           \* length fields of a unit, 6 bits
    Totals,         \* lengths of a reassembled block
    Bytes           \* values of a received byte

ASSUME AcchAssumption ==
    CellLens \subseteq Nat /\ Lens \subseteq 0 .. 63 /\ Totals \subseteq Nat /\ Bytes \subseteq 0 .. 255

VARIABLES
    parser,     \* which of the four
    len,        \* what the parser thinks is left
    announced,  \* how many bytes the body is said to have, the cursor's first ones included
    claimed,    \* how many of them the lengths read so far ask for
    at          \* where in its code the parser is

acchvars == <<size, cur, parser, len, announced, claimed, at>>

Parsers == {"acch", "block", "facch", "last"}

AcchInit ==
    /\ parser \in Parsers
    /\ cur = NewCursor
    /\ len = 0 /\ announced = 0 /\ claimed = 0
    /\ \/ parser \in {"acch", "last"} /\ at = "unit" /\ \E n \in CellLens : size = 1 + n
       \/ parser = "block" /\ at = "whole" /\ size \in Totals
       \/ parser = "facch" /\ at = "whole" /\ size \in Totals

-----------------------------------------------------------------------------
(***************************************************************************)
(* The steps.  Each is what one parser does up to the next length it       *)
(* reads; `left' is the remaining length behind the step.                  *)
(***************************************************************************)

\* The parser goes on, or has returned, or is gone with the program.
Continue(c, where) == cur' = c /\ at' = IF c.ok THEN where ELSE "panic"

\* The length field.  A last unit's body is cut to it, whatever the unit can hold; a
\* message of one unit with up to four bytes has no lengths inside.
UnitLen(n) ==
    /\ at = "unit"
    /\ announced' = 1 + n
    /\ len' = n
    /\ CASE parser = "last" -> Continue(Took(Took(cur, 1), n), "done")
         [] parser = "acch" /\ n <= 4 -> Continue(Took(Took(cur, 1), n), "done")
         [] OTHER -> Continue(Took(cur, 1), "head")
    /\ claimed' = 1
    /\ UNCHANGED <<size, parser>>

\* A block's length is that of its buffer.  FACCH has no case for a short one.
WholeLen ==
    /\ at = "whole"
    /\ announced' = size
    /\ len' = size
    /\ CASE parser = "block" /\ size = 0 -> Continue(cur, "done")
         [] parser = "block" /\ size \in 1 .. 4 -> Continue(Took(cur, size), "done")
         [] OTHER -> Continue(cur, "head")
    /\ UNCHANGED <<size, parser, claimed>>

\* Bytes in front of the first length, and how many a first byte announces.
HeadLen(b) ==
    CASE parser = "block" -> IF b = 1 THEN 2 ELSE 3
      [] OTHER -> IF b \in {1, 2} THEN 2 ELSE 3

\* Defective variant: the head is counted as three bytes whatever it is.
AcchHeadMiscounted(b) ==
    /\ at = "head" /\ (parser = "acch" => b # 4)
    /\ Continue(IF Peekable(cur) THEN Took(cur, HeadLen(b)) ELSE Panicked(cur), "len1")
    /\ len' = len - 3
    /\ claimed' = claimed + HeadLen(b)
    /\ UNCHANGED <<size, parser, announced>>

\* The head, of which a command of its own length is one kind.
AcchHead(b) ==
    /\ at = "head" /\ (parser = "acch" => b # 4)
    /\ Continue(IF Peekable(cur) THEN Took(cur, HeadLen(b)) ELSE Panicked(cur), "len1")
    /\ len' = len - HeadLen(b)
    /\ claimed' = claimed + HeadLen(b)
    /\ UNCHANGED <<size, parser, announced>>

\* Command 4, a signal: its subcommand 8 has the rest of the body to itself.
Signal(subcommand) ==
    /\ at = "head" /\ parser = "acch"
    /\ LET c == Took(Took(cur, 1), 1)
       IN  IF subcommand = 8
           THEN Continue(Took(c, len - 2), "done") /\ len' = len /\ claimed' = announced
           ELSE Continue(Took(c, 1), "len1") /\ len' = len - 3 /\ claimed' = claimed + 3
    /\ UNCHANGED <<size, parser, announced>>

\* Defective variant: the length's own byte is not counted.
Length1Free(l) ==
    /\ at = "len1"
    /\ ~(parser = "acch" /\ l > len)
    /\ LET c == Took(cur, 1)
       IN  Continue(IF l = 0 THEN c ELSE Took(c, l), "len2")
    /\ len' = len - l
    /\ claimed' = claimed + 1 + l
    /\ UNCHANGED <<size, parser, announced>>

\* The first length.  The ACCH parser alone asks whether that many bytes are left; it
\* asks before it has counted the byte it asks about.
Length1(l) ==
    /\ at = "len1"
    /\ ~(parser = "acch" /\ l > len)
    /\ LET c == Took(cur, 1)
       IN  Continue(IF l = 0 THEN c ELSE Took(c, l), "len2")
    /\ len' = len - 1 - l
    /\ claimed' = claimed + 1 + l
    /\ UNCHANGED <<size, parser, announced>>

\* A first length that is too great: what is left is shown as it is.
Length1TooGreat(l) ==
    /\ at = "len1" /\ parser = "acch" /\ l > len
    /\ Continue(IF Peekable(cur) THEN Took(cur, len) ELSE Panicked(cur), "done")
    /\ claimed' = announced
    /\ UNCHANGED <<size, parser, len, announced>>

\* The second length, which nobody compares with anything.
Length2(l) ==
    /\ at = "len2"
    /\ LET c == Took(cur, 1)
       IN  Continue(IF l = 0 THEN c ELSE Took(c, l), "text")
    /\ len' = len - 1 - l
    /\ claimed' = claimed + 1 + l
    /\ UNCHANGED <<size, parser, announced>>

Text ==
    /\ at = "text"
    /\ Continue(IF len = 0 THEN cur ELSE Took(cur, len), "done")
    /\ UNCHANGED <<size, parser, len, announced, claimed>>

AcchReturned == at \in {"done", "panic"} /\ UNCHANGED acchvars

AcchNext ==
    \/ \E n \in Lens : UnitLen(n)
    \/ WholeLen
    \/ \E b \in Bytes : AcchHead(b) \/ Signal(b) \/ Length1(b) \/ Length1TooGreat(b) \/ Length2(b)
    \/ Text
    \/ AcchReturned

AcchSpec == AcchInit /\ [][AcchNext]_acchvars

-----------------------------------------------------------------------------
(***************************************************************************)
(* Properties.                                                             *)
(***************************************************************************)

AcchTypeOK ==
    /\ size \in Nat
    /\ cur \in [pos : Nat, shown : Seq([at : Nat, n : Nat]), ok : BOOLEAN]
    /\ parser \in Parsers
    /\ len \in Int /\ announced \in Nat /\ claimed \in Nat
    /\ at \in {"unit", "whole", "head", "len1", "len2", "text", "done", "panic"}

\* A record that comes out shows every byte the body is said to have, each once and in
\* its place, and no other: a count that has drifted from the cursor never gets that far.
RecordTilesBody ==
    at = "done" => /\ Contiguous(cur.shown)
                   /\ cur.pos = announced

\* The program stops in these parsers only on a body that contradicts itself: said to be
\* longer than it is, or with lengths inside that ask for more than it is said to have.
StopsOnlyOnBadLengths ==
    at = "panic" => announced > size \/ claimed > announced
=============================================================================
