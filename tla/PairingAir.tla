----------------------------- MODULE PairingAir -----------------------------
(***************************************************************************)
(* The traffic side of the decoder at the end of a radio channel.  The     *)
(* sender transmits a plan of runs of frames: messages of Layer-2 units,   *)
(* voice, idle and SS1 frames.  On the way a frame may                     *)
(*   gone         vanish without a trace (the slicer slid past it),        *)
(*   placeholder  be replaced by a placeholder or an unreadable sync word, *)
(*   header       lose its RICH,                                           *)
(*   garbled      lose its TCH.                                            *)
(***************************************************************************)
EXTENDS PscPairing

CONSTANTS
    Plans,          \* the transmissions: sequences of runs [m, n]
    LastLen,        \* the length field of a last unit
    MaxFaults       \* bound: how many frames are damaged

\* A message has no more units than a block has cells, and the frame behind its last one
\* has room for the half that is left; its units, and the frames of a voice run, are what
\* the channel can carry.
ASSUME PlansAssumption ==
    /\ LastLen \in 0 .. CellLen /\ LastLen < MaxCells /\ MaxFaults \in Nat
    /\ \A p \in Plans :
         /\ p \in Seq([m : MFields \cup {"SS1"}, n : Nat \ {0}])
         /\ \A i \in DOMAIN p :
              /\ p[i].m \in Layer2 =>
                    /\ p[i].n <= MaxCells /\ \A k \in 1 .. p[i].n : <<i, k>> \in Pieces
                    /\ i < Len(p) => p[i + 1].m # "SS1"
              /\ p[i].m = "VOICE" =>
                    \A k \in 1 .. p[i].n : [run |-> i, frame |-> k] \in Voices

VARIABLES
    plan,           \* the transmission
    run, frame,     \* the next frame on air: the frame of a run, both from 1
    damage,         \* the kinds of damage so far
    faults,         \* how many frames were damaged
    hurt,           \* the last damaged frame: <<run, frame>>
    heard,          \* the Layer-2 messages reported
    voice_heard     \* the voice frames reported with a matching hash

airvars == <<plan, run, frame, damage, faults, hurt, heard, voice_heard>>

-----------------------------------------------------------------------------
(* The sender. *)

\* Unit k of message i, of n units.
UnitOf(i, n, k) ==
    [first |-> k = 1, last |-> k = n, len |-> IF k = n THEN LastLen ELSE n - k,
     piece |-> <<i, k>>]

\* What frame k of run i begins.
Begun(p, i, k) ==
    CASE p[i].m \in Layer2 -> UnitOf(i, p[i].n, k)
      [] p[i].m = "VOICE" -> [run |-> i, frame |-> k]
      [] OTHER -> Nothing

\* The first frame of a run, behind one of another kind.
Follows(p, i, k, ms) == k = 1 /\ i > 1 /\ p[i - 1].m \in ms

\* The frame before it on air, and what that one began.
FrameBefore(p, i, k) ==
    IF k > 1 THEN <<i, k - 1>> ELSE IF i > 1 THEN <<i - 1, p[i - 1].n>> ELSE <<0, 1>>

BegunBefore(p, i, k) ==
    LET b == FrameBefore(p, i, k) IN IF b[1] = 0 THEN Nothing ELSE Begun(p, b[1], b[2])

\* The bits of a Layer-2 unit's second half leave none for voice, and the other way round.
TchAt(p, i, k) ==
    [begins |-> IF p[i].m = "VOICE" /\ Follows(p, i, k, Layer2) THEN Nothing
                ELSE Begun(p, i, k),
     ends |-> IF p[i].m \in Layer2 /\ Follows(p, i, k, {"VOICE"}) THEN Nothing
              ELSE BegunBefore(p, i, k)]

\* Message i, as its receiver should get it.
Sent(p, i) ==
    [ty |-> IF p[i].n = 1 THEN "ACCH" ELSE p[i].m,
     pieces |-> [k \in 1 .. p[i].n |-> <<i, k>>],
     len |-> (p[i].n - 1) * CellLen + LastLen]

\* Frame a is on air before frame b.
Earlier(a, b) == a[1] < b[1] \/ (a[1] = b[1] /\ a[2] < b[2])

-----------------------------------------------------------------------------
Init ==
    /\ PPInit
    /\ plan \in Plans
    /\ run = 1 /\ frame = 1
    /\ damage = {} /\ faults = 0 /\ hurt = <<0, 0>>
    /\ heard = <<>> /\ voice_heard = <<>>

\* The voice frames of a record that its hash confirms.
Confirmed(voice) ==
    IF voice # <<>> /\ voice[1] # Failed /\ voice[1] # [celp |-> Nothing, hash_ok |-> FALSE]
    THEN voice ELSE <<>>

Decoded ==
    /\ heard' = heard \o tch_record'.message
    /\ voice_heard' = voice_heard \o Confirmed(tch_record'.voice)

Sending == run <= Len(plan)

OnAir ==
    /\ ~l2_panic /\ Sending
    /\ IF frame < plan[run].n THEN frame' = frame + 1 /\ run' = run
                              ELSE frame' = 1 /\ run' = run + 1
    /\ UNCHANGED plan

Receive(tch) ==
    IF plan[run].m = "SS1" THEN PscSs1 ELSE PscFrame(plan[run].m, tch)

Undamaged ==
    /\ OnAir
    /\ Receive(TchAt(plan, run, frame))
    /\ Decoded
    /\ UNCHANGED <<damage, faults, hurt>>

Damaged(kind) ==
    /\ OnAir
    /\ faults < MaxFaults
    /\ faults' = faults + 1
    /\ damage' = damage \cup {kind}
    /\ hurt' = <<run, frame>>

Gone == Damaged("gone") /\ UNCHANGED <<ppvars, heard, voice_heard>>
Placeholder == Damaged("placeholder") /\ PscReset /\ Decoded
Header == Damaged("header") /\ PscRichError /\ Decoded
GarbledTch == Damaged("garbled") /\ Receive(BlankTch) /\ Decoded

Over == (l2_panic \/ ~Sending) /\ UNCHANGED <<ppvars, airvars>>

Next == Undamaged \/ Gone \/ Placeholder \/ Header \/ GarbledTch \/ Over

Spec == Init /\ [][Next]_<<ppvars, airvars>>

-----------------------------------------------------------------------------
(* Properties. *)

\* As long as no header is lost, frames that vanish, are replaced or garbled never make
\* the decoder report a message nobody sent or under the wrong kind, nor one twice or out
\* of order; nor do they stop the program.  (Every unit that fails, and every frame that
\* is neither Layer 2 nor voice, resets the block; what a lost first unit leaves behind
\* is ignored.)
GenuineMessages ==
    "header" \notin damage =>
        /\ ~l2_panic
        /\ \A k \in DOMAIN heard : \E i \in DOMAIN plan :
              plan[i].m \in Layer2 /\ heard[k] = Sent(plan, i)
        /\ \A j, k \in DOMAIN heard :
              j < k => heard[j].pieces[1][1] < heard[k].pieces[1][1]

\* The same for what the decoder holds between messages: outside a Layer-2 run there is
\* no message under way that a later unit could be put into.
NoBlockOutsideLayer2 ==
    "header" \notin damage /\ psc_m \notin Layer2 => l2block.count = 0

\* Whatever was lost, up to a program that stopped, a message that starts after the damage
\* is reported when the frame that ends its last unit is in.
MessagesResynchronised ==
    \A i \in DOMAIN plan :
        plan[i].m \in Layer2 /\ hurt[1] < i /\ Earlier(<<i + 1, 1>>, <<run, frame>>)
            => \E k \in DOMAIN heard : heard[k] = Sent(plan, i)

\* So is a voice frame before which one frame more came undamaged, unless it is the first behind a
\* Layer-2 run, which has no room for its first half.
VoiceResynchronised ==
    \A i \in DOMAIN plan : plan[i].m = "VOICE" =>
        \A k \in 1 .. (plan[i].n - 1) :
           \/ ~Earlier(hurt, FrameBefore(plan, i, k))
           \/ ~Earlier(<<i, k + 1>>, <<run, frame>>)
           \/ TchAt(plan, i, k).begins = Nothing
           \/ \E j \in DOMAIN voice_heard :
                voice_heard[j] = [celp |-> Begun(plan, i, k), hash_ok |-> TRUE]

Resynchronised == ~l2_panic => MessagesResynchronised /\ VoiceResynchronised

\* Nothing is reported twice and voice never out of order, whatever the damage: every
\* pair of frames is used once.
NothingTwice ==
    /\ \A j, k \in DOMAIN voice_heard : j < k =>
          LET a == voice_heard[j].celp
              b == voice_heard[k].celp
          IN a.run < b.run \/ (a.run = b.run /\ a.frame < b.frame)
    /\ \A j, k \in DOMAIN heard : j # k =>
          heard[j].pieces[Len(heard[j].pieces)] # heard[k].pieces[Len(heard[k].pieces)]
=============================================================================
