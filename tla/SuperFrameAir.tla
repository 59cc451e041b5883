---------------------------- MODULE SuperFrameAir ----------------------------
(***************************************************************************)
(* The super-frame side of the decoder at the end of a radio channel.  The *)
(* sender transmits a plan of units, two to a super-frame, and an RCH in   *)
(* each; on the way a frame may                                            *)
(*   gone         vanish without a trace (the slicer slid past it),        *)
(*   placeholder  be replaced by a placeholder or an unreadable sync word, *)
(*   header       lose its RICH,                                           *)
(*   garbled      lose its SACCH slot.                                     *)
(***************************************************************************)
EXTENDS SuperFrame

CONSTANTS
    Plans,          \* the transmissions: sequences of [message, unit, units]
    LastLen,        \* the length field of a last unit
    MaxFaults       \* bound: how many frames are damaged

\* A plan is message after message, each unit after unit, of no more units than a block
\* has cells; its units and RCHs are what the channel can carry.
ASSUME PlansAssumption ==
    /\ LastLen \in 0 .. CellLen /\ LastLen < MaxCells /\ MaxFaults \in Nat
    /\ \A p \in Plans :
         /\ p \in Seq([message : Nat, unit : Nat \ {0}, units : 1 .. MaxCells])
         /\ \A x \in 1 .. Len(p) :
              /\ p[x].unit <= p[x].units /\ <<p[x].message, p[x].unit>> \in Pieces
              /\ x = 1 => p[x].unit = 1
              /\ x < Len(p) =>
                    IF p[x].unit < p[x].units
                    THEN /\ p[x + 1].message = p[x].message /\ p[x + 1].units = p[x].units
                         /\ p[x + 1].unit = p[x].unit + 1
                    ELSE p[x + 1].message > p[x].message /\ p[x + 1].unit = 1
         /\ \A n \in 1 .. Len(p) : 2 * n - 1 <= Len(p) => n \in RchIds

VARIABLES
    plan,           \* the transmission
    super, pos,     \* the next frame on air: its super-frame, from 1, and its place there
    damage,         \* the kinds of damage so far
    faults,         \* how many frames were damaged
    hurt,           \* the last super-frame with a damaged frame
    heard,          \* the SACCH messages reported
    rch_heard       \* the RCHs reported

airvars == <<plan, super, pos, damage, faults, hurt, heard, rch_heard>>

-----------------------------------------------------------------------------
(* The sender. *)

UnitOf(m) ==
    [first |-> m.unit = 1, last |-> m.unit = m.units,
     len |-> IF m.unit = m.units THEN LastLen ELSE m.units - m.unit,
     piece |-> <<m.message, m.unit>>]

UnitAt(p, x) == IF x <= Len(p) THEN UnitOf(p[x]) ELSE IdleUnit

\* The message m is of, as its receiver should get it.
Sent(m) == [pieces |-> [k \in 1 .. m.units |-> <<m.message, k>>],
            len |-> (m.units - 1) * CellLen + LastLen]

SlotAt(p, n, c) ==
    IF c < RchEnd THEN [rch |-> n, part |-> c + 1]
    ELSE IF c < Sacch0End THEN [unit |-> UnitAt(p, 2 * n - 1), part |-> c - RchEnd + 1]
    ELSE [unit |-> UnitAt(p, 2 * n), part |-> c - Sacch0End + 1]

-----------------------------------------------------------------------------
Init ==
    /\ SFInit
    /\ plan \in Plans
    /\ super = 1 /\ pos = 0
    /\ damage = {} /\ faults = 0 /\ hurt = 0
    /\ heard = <<>> /\ rch_heard = <<>>

Decoded ==
    /\ heard' = heard \o sacch_record'.message
    /\ rch_heard' = rch_heard \o sacch_record'.rch

Sending == 2 * super - 1 <= Len(plan)

OnAir ==
    /\ ~sacch_panic /\ Sending
    /\ IF pos + 1 < Sacch1End THEN pos' = pos + 1 /\ super' = super
                              ELSE pos' = 0 /\ super' = super + 1
    /\ UNCHANGED plan

PscFrame(slot) ==
    IF pos = 0 THEN TopFrame(slot) ELSE MidFrame(slot) \/ MidFrameUncounted

Undamaged ==
    /\ OnAir
    /\ PscFrame(SlotAt(plan, super, pos))
    /\ Decoded
    /\ UNCHANGED <<damage, faults, hurt>>

Damaged(kind) ==
    /\ OnAir
    /\ faults < MaxFaults
    /\ faults' = faults + 1
    /\ damage' = damage \cup {kind}
    /\ hurt' = super

Gone == Damaged("gone") /\ UNCHANGED <<sfvars, heard, rch_heard>>
Placeholder == Damaged("placeholder") /\ ResetIdle /\ Decoded
Header == Damaged("header") /\ RichError /\ Decoded
GarbledSlot == Damaged("garbled") /\ PscFrame(Garbled) /\ Decoded

Over == (sacch_panic \/ ~Sending) /\ UNCHANGED <<sfvars, airvars>>

Next == Undamaged \/ Gone \/ Placeholder \/ Header \/ GarbledSlot \/ Over

Spec == Init /\ [][Next]_<<sfvars, airvars>>

-----------------------------------------------------------------------------
(* Properties. *)

\* The decoder notices: the damage leaves a mark the reassembly reacts to.
Noticed == damage \subseteq {"placeholder", "garbled"}

\* Damage the decoder can see never makes it report a message nobody sent: neither parts
\* of two messages, nor one twice, nor one out of order; nor does it stop the program.
\* (proc_psc_sacch's counting, the resets of reset_idle and of a failed unit, and the
\* block that is not reset at its end, together.)
GenuineMessages ==
    Noticed =>
        /\ ~sacch_panic
        /\ \A k \in DOMAIN heard : \E x \in DOMAIN plan :
              plan[x].unit = plan[x].units /\ heard[k] = Sent(plan[x])
        /\ \A j, k \in DOMAIN heard :
              j < k => heard[j].pieces[1][1] < heard[k].pieces[1][1]

\* Whatever was lost, up to a program that stopped, the next super-frame sets it right:
\* a message all of whose units are sent in super-frames after the damage, two in each,
\* is reported when the super-frame of the last one is over.
Resynchronised ==
    \A x \in DOMAIN plan :
        /\ plan[x].unit = plan[x].units
        /\ x - plan[x].units >= 2 * hurt /\ x <= 2 * (super - 1) /\ ~sacch_panic
        => \E k \in DOMAIN heard : heard[k] = Sent(plan[x])

\* Unless a header was lost, each super-frame's RCH is reported at most once, in order,
\* however many frames vanish.
RchInOrder ==
    "header" \notin damage =>
        \A j, k \in DOMAIN rch_heard : j < k => rch_heard[j] < rch_heard[k]

\* What the documentation promises and the code does not keep.

\* "The decoder consumes 48-byte FDMA frames and emits one record per frame": every frame,
\* whatever was lost before it.
RecordForEveryFrame == ~sacch_panic
=============================================================================
