----------------------------- MODULE DecoderMC -----------------------------
(***************************************************************************)
(* A small instance of Decoder: super-frames of one RCH slot and two       *)
(* one-slot SACCH units, two voice frames, and a Layer-2 message of two    *)
(* units, in frames that may come in any order.                            *)
(***************************************************************************)
EXTENDS Decoder

Unit(first, n) == [first |-> first, last |-> ~first, len |-> 1, piece |-> n]
Voice(n) == [voice |-> n]

SlotR == [rch |-> 1, part |-> 1]
SlotU == [unit |-> Unit(TRUE, 1), part |-> 1]

Frame(sync, rich, slot, begins, ends) ==
    [zero17 |-> FALSE, sync |-> sync, rich |-> rich, pich_ok |-> TRUE, slot |-> slot,
     tch |-> [begins |-> begins, ends |-> ends]]

SomeFrames == {
    Placeholder,
    [Frame("S6", "IDLE", SlotU, Nothing, Nothing) EXCEPT !.zero17 = TRUE],
    Frame("SS1", "IDLE", Garbled, Nothing, Nothing),
    [Frame("SS1", "IDLE", Garbled, Nothing, Nothing) EXCEPT !.pich_ok = FALSE],
    Frame("SS1", "error", Garbled, Nothing, Nothing),
    Frame("none", "IDLE", SlotU, Nothing, Nothing),
    Frame("S6", "error", SlotU, Voice(1), Nothing),
    Frame("S2", "error", SlotR, Nothing, Nothing),
    Frame("S2", "VOICE", SlotR, Voice(1), Nothing),
    Frame("S6", "VOICE", SlotU, Voice(2), Voice(1)),
    Frame("S2", "DATA", SlotR, Unit(TRUE, 1), Nothing),
    Frame("S6", "FACCH", SlotU, Unit(FALSE, 2), Unit(TRUE, 1)),
    Frame("S6", "FREE", SlotU, Nothing, Unit(FALSE, 2))}

SomeVoices == {Voice(1), Voice(2)}
=============================================================================
