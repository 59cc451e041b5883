---------------------------- MODULE BlockAssembly ----------------------------
(***************************************************************************)
(* Reassembly of a message from the units it is sent in (src/state.rs and  *)
(* the ends of proc_layer2 and proc_sacch).  The decoder keeps two blocks: *)
(* one of 12-byte cells for Layer 2, one of 6-byte cells for SACCH.  The   *)
(* length field of a unit says how many units follow it, that of the last  *)
(* unit its own length.  A body is abstracted to the piece it carries.     *)
(***************************************************************************)
EXTENDS Integers, Sequences

CONSTANTS
    CellLen,        \* bytes in a cell: 12 or 6
    MaxCells,       \* cells in a block: 64
    Pieces,         \* what a unit can carry
    Zeroes          \* the content of a cell never written, or cleared

ASSUME BlockAssumption ==
    CellLen \in Nat \ {0} /\ MaxCells \in Nat \ {0} /\ Zeroes \notin Pieces

\* A unit the channel decoder accepted.  The length field has 6 bits; a sender puts no
\* more into the last unit than it holds.
Fragments ==
    {u \in [first : BOOLEAN, last : BOOLEAN, len : 0 .. (MaxCells - 1), piece : Pieces] :
       u.last => u.len <= CellLen}

Blocks == [count : 0 .. MaxCells,
           cells : [1 .. MaxCells -> Pieces \cup {Zeroes}],
           last_len : 0 .. CellLen]

NoCells == [i \in 1 .. MaxCells |-> Zeroes]

NewBlock == [count |-> 0, cells |-> NoCells, last_len |-> 0]

\* init_l2block, init_sacch_block: the cells keep what they hold.
InitBlock(b) == [b EXCEPT !.count = 0, !.last_len = 0]

\* Defective variant: a cell too many.
AllocL2Extra(b, n) == [b EXCEPT !.count = n + 1, !.cells = NoCells]

\* alloc_l2block clears the cells, alloc_sacch_block does not.
AllocL2(b, n) == [b EXCEPT !.count = n, !.cells = NoCells]
AllocSacch(b, n) == [b EXCEPT !.count = n]

\* How many units are behind u, and how much of its body counts.
FPos(u) == IF u.last THEN 0 ELSE u.len
BodyLen(u) == IF u.last THEN u.len ELSE CellLen

\* With more units behind it than the message has, the cell's index underflows.
Misplaced(b, u) == b.count # 0 /\ FPos(u) >= b.count

\* assemble_l2block, assemble_sacch_block.  Without a message under way u is ignored.
Assemble(b, u) ==
    IF b.count = 0 THEN b
    ELSE [b EXCEPT !.cells[b.count - FPos(u)] = u.piece, !.last_len = BodyLen(u)]

TotalLen(b) == IF b.count = 0 THEN 0 ELSE (b.count - 1) * CellLen + b.last_len

\* What a reader of the block gets: the cells, up to the total length.
Message(b) == [pieces |-> SubSeq(b.cells, 1, b.count), len |-> TotalLen(b)]
=============================================================================
