------------------------------- MODULE Cursor --------------------------------
(***************************************************************************)
(* The slice walker of src/primitives.rs and the FieldEmitter built on it  *)
(* (src/json.rs).  A parser takes bytes off the front of a body and puts   *)
(* each piece into the record; taking more than is there, or a negative    *)
(* number of bytes, is a panic and ends the program.  What the bytes are   *)
(* is left out: a field is where it begins and how long it is.             *)
(***************************************************************************)
EXTENDS Integers, Sequences

VARIABLES
    size,       \* buf.len()
    cur         \* pos, the fields put into the record so far, and whether all went well

\* Cursor::new.
NewCursor == [pos |-> 0, shown |-> <<>>, ok |-> TRUE]

Panicked(c) == [c EXCEPT !.ok = FALSE]

\* Defective variant: the piece ends one byte late.
TookLate(c, n) ==
    IF c.ok /\ n >= 0 /\ c.pos + n <= size
    THEN [c EXCEPT !.pos = @ + n, !.shown = Append(@, [at |-> c.pos + 1, n |-> n])]
    ELSE Panicked(c)

\* take, take_u8, and with them FieldEmitter::text and hex.
Took(c, n) ==
    IF c.ok /\ n >= 0 /\ c.pos + n <= size
    THEN [c EXCEPT !.pos = @ + n, !.shown = Append(@, [at |-> c.pos, n |-> n])]
    ELSE Panicked(c)

\* A record has one value to a key: a field of the same name takes the place of the last.
TookAgain(c, n) ==
    IF c.ok /\ n >= 0 /\ c.pos + n <= size
    THEN [c EXCEPT !.pos = @ + n, !.shown = [@ EXCEPT ![Len(c.shown)] = [at |-> c.pos, n |-> n]]]
    ELSE Panicked(c)

\* skip looks at nothing: only the next take finds out that it is past the end.
Skipped(c, n) == [c EXCEPT !.pos = @ + n]

\* rest, rest_text, rest_hex.
TookRest(c) == Took(c, size - c.pos)

\* peek_u8.
Peekable(c) == c.ok /\ c.pos < size

-----------------------------------------------------------------------------
\* The fields follow one another without a gap, from the first byte of the buffer on.
Contiguous(shown) ==
    \A k \in DOMAIN shown :
        shown[k].at = IF k = 1 THEN 0 ELSE shown[k - 1].at + shown[k - 1].n

\* No field begins before the one in front of it has ended, none reaches past the end.
InOrder(shown) ==
    \A k \in DOMAIN shown :
        /\ shown[k].n >= 0 /\ shown[k].at + shown[k].n <= size
        /\ \A j \in 1 .. (k - 1) : shown[j].at + shown[j].n <= shown[k].at
=============================================================================
