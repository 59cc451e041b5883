------------------------------ MODULE DataFields ------------------------------
(***************************************************************************)
(* Reassembled DATA bodies (src/decoder/l2_block.rs, l2_text.rs and        *)
(* l2_binary.rs): a common header, then one of three dozen layouts, chosen *)
(* by bytes at fixed places and by the body's length.                      *)
(*                                                                         *)
(* A layout is the sequence of its steps, and the machine takes one at a   *)
(* time.  Nearly all steps are a field of n bytes or n bytes skipped,      *)
(* written n and -n.  Lengths and counts that are in the body are chosen   *)
(* when they are read.                                                     *)
(***************************************************************************)
EXTENDS Cursor, Gps

CONSTANTS
    BodyLens,       \* lengths of a reassembled body
    InfoTypes,      \* infotypes of text bodies, and
    InfoBytes,      \* type bytes of the others
    Counts,         \* what a count or a length in a body may say
    Latitudes,      \* places a sender may be at, in hundredths of a second
    Longitudes

ASSUME DataAssumption ==
    /\ BodyLens \subseteq Nat /\ Counts \subseteq Nat
    /\ InfoTypes \subseteq Nat /\ InfoBytes \subseteq (0 .. 255) \ (48 .. 57)
    /\ Latitudes \subseteq 20 * Degree .. 46 * Degree
    /\ Longitudes \subseteq 122 * Degree .. 154 * Degree

VARIABLES
    kind,       \* text, sendai or binary
    info,       \* the type its layout is chosen by
    plan,       \* the steps that are left
    gated,      \* some length the layout looks for was the body's
    counted,    \* the last count read: where its items begin, and how many there are
    place,      \* where the sender of the position in the record was
    gps         \* that position

datavars == <<size, cur, kind, info, plan, gated, counted, place, gps>>

-----------------------------------------------------------------------------
(***************************************************************************)
(* Steps.                                                                  *)
(***************************************************************************)

Pieces(s) == [k \in DOMAIN s |-> IF s[k] >= 0 THEN [op |-> "take", n |-> s[k], again |-> FALSE]
                                              ELSE [op |-> "skip", n |-> -s[k]]]
Rest == [op |-> "rest"]

\* emit_gps_lat_lon_bcd, emit_gps_lat_lon_raw and the SENDAI layout's own: how the two
\* coordinates are written, in how many bytes, and what is made of them.
Bcd == [op |-> "position", form |-> "bcd", n |-> 18, again |-> FALSE]
Raw == [op |-> "position", form |-> "raw", n |-> 6, again |-> FALSE]
Separated == [op |-> "position", form |-> "sendai", n |-> 22, again |-> FALSE]
\* emit_gps_speed_dir_status: two bytes, whose values all have a name or none.
Nav == [op |-> "take", n |-> 2, again |-> FALSE]

\* For a body of one of these lengths the layout goes on with `then' alone.
Gate(lens, then) == [op |-> "gate", lens |-> lens, then |-> then]
\* A byte decides: one at a fixed place, or the one the cursor is at.
Branch(then, else) == [op |-> "branch", peeks |-> FALSE, then |-> then, else |-> else]
Peek(then, else) == [op |-> "branch", peeks |-> TRUE, then |-> then, else |-> else]
\* A count of w bytes and its items, and a length of w bytes and that many bytes.
Count(w, item) == [op |-> "count", n |-> w, item |-> item]
Sized(w) == [op |-> "sized", n |-> w]

\* n items: the fields of each have the names of those of the one before.
Items(item, n) ==
    [k \in 1 .. (n * Len(item)) |->
        LET step == item[((k - 1) % Len(item)) + 1]
        IN  IF k > Len(item) /\ step.op \in {"take", "position"}
            THEN [step EXCEPT !.again = TRUE] ELSE step]

-----------------------------------------------------------------------------
(***************************************************************************)
(* The layouts.                                                            *)
(***************************************************************************)

\* Dates and times whose separators are skipped: year and hour only.
Time == <<2, -4, 2, -4>>
Clock == <<1, -2, 1, -2>>

\* Defective variant: one separator of four bytes is forgotten.
HeaderShort == Pieces(<<1, 4, -4, 4, -4, 7, 3, 2, 4>>)

\* text00, from, to, text01, info_len, time and message_id.
Header == Pieces(<<1, 4, -4, 4, -4, 7, 3, 2, -4, 4>>)

\* The infotypes 0x01 and 0x02, with their dates and times.
Incident(times) ==
    Pieces(<<6, 6, 6>> \o times \o <<8, 16, 16, 80, 3>>) \o <<Bcd>>
        \o Pieces(<<58, 30, 7, 3>>) \o <<Count(2, Pieces(<<5>>))>>

Site(first) ==
    Pieces(<<first>> \o Time \o <<1, 40, 30, 14>>) \o <<Bcd>> \o Pieces(<<30, 8, 4>>)

\* Infotypes with a date and time in front.
Report(t) ==
    CASE t = \h69 -> Pieces(<<13>> \o Time \o Time) \o <<Bcd>> \o Pieces(<<2, -1>>)
      [] t = \h25 -> Pieces(<<1>>) \o <<Bcd>> \o Pieces(<<2, -1>>)
      [] t = \h32 -> <<Count(1, Pieces(<<-22>>) \o <<Bcd>> \o Pieces(<<-3>>))>>
      [] t = \h33 -> Site(61) \o Pieces(Time \o <<2, -2, 2, -2, 30, 16, 6, 8>>) \o <<Rest>>
      [] t = \h38 -> Site(63) \o Pieces(<<50, 40, 40, 12, 10, 24, 20>>) \o <<Rest>>
      [] t = \h3d -> Pieces(<<51, 3>>) \o <<Rest>>
      [] t = \h3f -> Pieces(<<5, 4, 12>> \o Time) \o <<Rest>>
      [] t = \h60 -> Pieces(<<4>>) \o <<Gate(0 .. 60, <<>>), Bcd>> \o Pieces(<<2, -1>>)
      [] t = \h6d -> Pieces(<<2>>) \o <<Sized(3), Bcd>> \o Pieces(<<2, -1>>)
      [] t = \ha0 -> Pieces(<<4>>) \o <<Bcd>> \o Pieces(<<2, -1>>)
      [] OTHER -> <<Rest>>

\* Defective variant: a body that ends four bytes behind the time is cut short there.
VehicleWide(t) ==
    CASE t \in {\h10, \h11} -> <<Rest>>
      [] t = \h40 -> Pieces(<<4, 2, 3>>) \o <<Bcd>> \o Pieces(<<2, -1, 1>> \o Time)
      [] t = \h01 -> Incident(Time \o <<2, -4, 2, -2>>)
      [] OTHER -> Pieces(Time) \o <<Gate(0 .. 60, <<>>)>> \o Report(t)

\* Infotypes with a vehicle in front.
Vehicle(t) ==
    CASE t \in {\h10, \h11} -> <<Rest>>
      [] t = \h40 -> Pieces(<<4, 2, 3>>) \o <<Bcd>> \o Pieces(<<2, -1, 1>> \o Time)
      [] t = \h01 -> Incident(Time \o <<2, -4, 2, -2>>)
      [] OTHER -> Pieces(Time) \o <<Gate(0 .. 56, <<>>)>> \o Report(t)

\* proc_l2block_data_textinfo: info_inner_len and info_type, then the vehicle.
TextInfo(t) ==
    Pieces(<<3>>) \o <<Gate({40}, <<>>)>> \o Pieces(<<2>>) \o <<Gate({44}, Pieces(<<2>>))>>
        \o IF t = \h02 THEN Incident(<<4, -4, 2, -2, 4, -4, 2, -2>>)
           ELSE Pieces(<<2>>) \o <<Gate(0 .. 44, <<>>)>> \o Vehicle(t)

\* proc_l2block_sendai: source_id, info_type, destination_id and four fields of digits.
Dated == {\h10, \h11, \h13, \h14, \h15, \h18, \h1c, \h21, \h23, \h24, \h25, \h27, \h2a, \h2b, \h2e}

Sendai(t) ==
    Pieces(<<2, 1, 2, 3, 4, 4, 3>>) \o
    CASE t \in Dated -> Pieces(<<11, 8, 6>>) \o <<Rest>>
      [] t = \h04 -> Pieces(<<4>>) \o <<Rest>>
      [] t \in {\h2c, \h2d} -> Pieces(<<11, 8, 1>>) \o <<Rest>>
      [] t \in {\h1b, \h1d} ->
            Pieces(<<11, 8, 6, 9>>) \o <<Separated>>
                \o Pieces(<<11, 8, 11, 8, 6, 5>> \o Time \o <<12, 12, 12, 48, 24, 24, 4>>) \o <<Rest>>
      [] t \in {\hdd, \heb} -> Pieces(<<31, 31>>) \o <<Rest>>
      [] OTHER -> <<Gate({63}, Pieces(<<11, 8, 6>>) \o <<Rest>>), Rest>>

\* proc_l2block_binary: source_id, info_type, then mostly a destination_id and two bytes.
Binary(t) ==
    Pieces(<<2, 1>>) \o <<Gate({44}, Pieces(<<2, 1, 1>>))>> \o
    CASE t = \h20 -> Pieces(<<25, 2, -8, 2, -8, 30, 16, 19, 19, 80>>) \o <<Rest>>
      [] t = \h01 -> Pieces(<<2, 1, 1>> \o Clock \o <<1, 1>>)
                        \o <<Gate(0 .. 63, Pieces(<<3>>) \o <<Rest>>)>>
                        \o Pieces(<<3>>) \o <<Raw, Nav>> \o Pieces(<<1>>) \o <<Rest>>
      [] t = \h11 -> Pieces(<<2, 1, 1>> \o Clock \o <<2>>) \o <<Rest>>
      [] t = \h0e -> Pieces(<<2, 1, 1, 3, 1>>) \o <<Rest>>
      [] t \in {\h08, \h0a} -> <<Raw, Nav, Rest>>
      [] t \in {\h00, \h04} -> Pieces(<<2, 1, 1>> \o Clock \o <<1, 1, 3>>)
                        \o <<Peek(<<Raw, Nav, Rest>>, <<Rest>>)>>
      [] t = \h80 -> Pieces(<<2, 1, 1>> \o Clock) \o <<Raw>>
                        \o Pieces(<<3, 12, 12, 48, 24, 24>>) \o <<Count(2, Pieces(<<2>>))>>
      [] t \in {\h10, \h15} -> Pieces(<<2, 1, 1>>)
                        \o <<Gate({48}, Pieces(<<4>>)),
                             Gate({55, 60}, <<Branch(<<Rest>>, <<Raw, Nav, Rest>>)>>)>>
                        \o Pieces(<<2>>) \o <<Sized(1)>> \o Pieces(<<1>>)
      [] t = \h83 -> Pieces(<<2, 1>>)
      [] t \in {\h12, \h13, \h14} -> Pieces(<<2, 2, 2>>) \o <<Sized(1)>> \o Pieces(<<1>>)
      [] OTHER -> <<Rest>>

\* proc_l2block_inner and proc_l2block_data.
SendaiLens == {63, 79, 84, 121, 312}
Body(k, t) ==
    Header \o <<Gate(0 .. 41, <<Rest>>)>> \o
        CASE k = "text" -> TextInfo(t)
          [] k = "sendai" -> Sendai(t)
          [] OTHER -> Binary(t)

DataInit ==
    /\ size \in BodyLens
    /\ cur = NewCursor
    /\ \/ kind = "text" /\ info \in InfoTypes
       \/ kind = "sendai" /\ size \in SendaiLens /\ info \in InfoBytes
       \/ kind = "binary" /\ info \in InfoBytes
    /\ plan = IF size < 40 THEN <<Rest>> ELSE Body(kind, info)
    /\ gated = FALSE
    /\ counted = [at |-> 0, n |-> 0]
    /\ place = <<>>
    /\ gps = NoPosition

-----------------------------------------------------------------------------
(***************************************************************************)
(* Running a layout.                                                       *)
(***************************************************************************)

Step == Head(plan)
Do(op) == cur.ok /\ plan # <<>> /\ Step.op = op

\* A field of a list, behind an item that has shown its own.
Replaces == Step.again /\ \E k \in DOMAIN cur.shown : cur.shown[k].at >= counted.at

TakeField ==
    /\ Do("take")
    /\ cur' = IF Replaces THEN TookAgain(cur, Step.n) ELSE Took(cur, Step.n)
    /\ plan' = Tail(plan)
    /\ UNCHANGED <<size, kind, info, gated, counted, place, gps>>

SkipBytes ==
    /\ Do("skip")
    /\ cur' = Skipped(cur, Step.n)
    /\ plan' = Tail(plan)
    /\ UNCHANGED <<size, kind, info, gated, counted, place, gps>>

TakeRest ==
    /\ Do("rest")
    /\ cur' = TookRest(cur)
    /\ plan' = Tail(plan)
    /\ UNCHANGED <<size, kind, info, gated, counted, place, gps>>

\* What comes out of a position sent from a place.
Emitted(form, la, lo) ==
    CASE form = "bcd" -> EmitBcd(Digits(la), Digits(lo))
      [] form = "raw" -> EmitRaw(Raw24(10, la), Raw24(110, lo))
      [] OTHER -> EmitSendai(Digits(la), Digits(lo))

Position(la, lo) ==
    /\ Do("position")
    /\ cur' = IF Replaces THEN TookAgain(cur, Step.n) ELSE Took(cur, Step.n)
    /\ place' = <<la, lo>>
    /\ gps' = Emitted(Step.form, la, lo)
    /\ plan' = Tail(plan)
    /\ UNCHANGED <<size, kind, info, gated, counted>>

\* Zeroes where a position would be: the record has none, or keeps the one before.
NoFix ==
    /\ Do("position")
    /\ cur' = [Took(cur, Step.n) EXCEPT !.shown = cur.shown]
    /\ plan' = Tail(plan)
    /\ UNCHANGED <<size, kind, info, gated, counted, place, gps>>

LengthGate ==
    /\ Do("gate")
    /\ IF size \in Step.lens THEN plan' = Step.then /\ gated' = TRUE
                             ELSE plan' = Tail(plan) /\ UNCHANGED gated
    /\ UNCHANGED <<size, cur, kind, info, counted, place, gps>>

ByteBranch ==
    /\ Do("branch")
    /\ cur' = IF Step.peeks /\ ~Peekable(cur) THEN Panicked(cur) ELSE cur
    /\ plan' \in {Step.then, Step.else}
    /\ UNCHANGED <<size, kind, info, gated, counted, place, gps>>

ReadCount(n) ==
    /\ Do("count")
    /\ cur' = Took(cur, Step.n)
    /\ counted' = [at |-> cur.pos + Step.n, n |-> n]
    /\ plan' = Items(Step.item, n) \o Tail(plan)
    /\ UNCHANGED <<size, kind, info, gated, place, gps>>

ReadSized(n) ==
    /\ Do("sized")
    /\ cur' = Took(Took(cur, Step.n), n)
    /\ plan' = Tail(plan)
    /\ UNCHANGED <<size, kind, info, gated, counted, place, gps>>

Answered == cur.ok /\ plan = <<>>
DataReturned == (~cur.ok \/ plan = <<>>) /\ UNCHANGED datavars

DataNext ==
    \/ TakeField \/ SkipBytes \/ TakeRest \/ LengthGate \/ ByteBranch
    \/ \E la \in Latitudes, lo \in Longitudes : Position(la, lo)
    \/ NoFix
    \/ \E n \in Counts : ReadCount(n) \/ ReadSized(n)
    \/ DataReturned

DataSpec == DataInit /\ [][DataNext]_datavars

-----------------------------------------------------------------------------
(***************************************************************************)
(* Properties.                                                             *)
(***************************************************************************)

Ops == {"take", "skip", "rest", "position", "gate", "branch", "count", "sized"}

DataTypeOK ==
    /\ size \in Nat
    /\ cur \in [pos : Nat, shown : Seq([at : Nat, n : Nat]), ok : BOOLEAN]
    /\ kind \in {"text", "sendai", "binary"} /\ info \in Nat
    /\ \A k \in DOMAIN plan : plan[k].op \in Ops
    /\ gated \in BOOLEAN /\ counted \in [at : Nat, n : Nat]
    /\ gps \in [lat : Nat, lon : Nat]

\* Whatever the layout and the body: the fields of a record are pieces of the body, in
\* the order they have there, and no byte is in two of them.
FieldsInOrder == InOrder(cur.shown)

\* The layout is chosen by bytes read at fixed places, 40 and 41 or 39, while the fields
\* are found by the cursor: the field a record calls info_type is those very bytes.
InfoTypeIsShown ==
    Answered /\ size >= 42 =>
        \E k \in DOMAIN cur.shown :
            cur.shown[k] = IF kind = "text" THEN [at |-> 40, n |-> 2] ELSE [at |-> 39, n |-> 1]

\* A layout that ends early because of the body's length leaves nothing of it behind.
GatesLoseNothing == Answered /\ gated => cur.pos >= size

\* Every position sent is in the record, to the millionth of a degree nearest to where the
\* sender was, from digits as from 24 bits: in the Tokyo datum from SENDAI bodies, and from
\* all others in WGS84, exactly as the documented formula moves that millionth.
PositionAsSent ==
    place # <<>> =>
        LET la == Millionths(place[1])
            lo == Millionths(place[2])
        IN  gps = IF kind = "sendai" THEN [lat |-> la, lon |-> lo] ELSE Wgs84(la, lo)

\* Every SENDAI body gets a record.  Both numbers that choose a layout are received, and
\* nothing asks whether the layout fits: of 63 bytes every infotype with a layout by that
\* length (l2_binary.rs:79) asks for 81.
SendaiIsAnswered == kind = "sendai" => cur.ok
=============================================================================
