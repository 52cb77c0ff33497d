---------------------------- MODULE Booking_proofs ----------------------------
(***************************************************************************)
(* Proofs about reservations, for any number of requests, services,        *)
(* resources and blackouts, and for all times: what a request checked      *)
(* stays as it was when it checked it, but for reopened reservations and   *)
(* for rows that came later; and no row refers to a row that is gone.      *)
(***************************************************************************)
EXTENDS Booking, TLAPS

\* A reservation that is in the way of the span on r was reopened.
Yields(row, r, span) ==
  /\ row # Unbooked
  /\ row.resource = r /\ row.status \in Blocking /\ Overlaps(row, span) => row.reopened

\* A blackout that was there is not in the way of the span on r.
Clear(row, r, span) ==
  /\ row # Absent
  /\ row.status = "on" /\ row.where \in {r, Everywhere} => ~Overlaps(row, span)

RowsTyped ==
  /\ service \in [Services -> ServiceRow \cup {Absent, Gone}]
  /\ blackout \in [Blackouts ->
       [status : {"on"}, where : Resources \cup {Everywhere}, from : Nat, to : Nat]
         \cup {Absent, Gone}]
  /\ booking \in [Requests -> Row \cup {Unbooked}]
  /\ request \in [Requests -> Asked \cup {Waiting, Over}]

\* What the request, or the row it became, relies on.
Relies(x) ==
  /\ \A p \in x.known : Yields(booking[p], x.resource, x)
  /\ \A p \in x.offered : Yields(booking[p], x.resource, Reserved(x))
  /\ \A b \in x.closed : Clear(blackout[b], x.resource, x)

\* Until the preview is over no row was offered, and the offer may still change.
InvOf(q) ==
  /\ request[q] # Over => booking[q] = Unbooked
  /\ request[q] \in Asked => Relies(request[q])
  /\ request[q].at \in {"allow", "offer"} => request[q].offered = {}
  /\ q \in Booked => Relies(booking[q])

BookingInv == RowsTyped /\ \A q \in Requests : InvOf(q)

LEMMA Kinds ==
  /\ \A x \in Row : x # Unbooked /\ x.status # "none"
  /\ \A x \in Asked : x # Over /\ x # Waiting /\ x.at # "over" /\ x.at # "none"
  /\ Over \notin Asked /\ Waiting \notin Asked /\ Over # Waiting
  BY DEF Row, Asked, Unbooked, Over, Waiting, Statuses

LEMMA BookingInvInit == BookingInit => BookingInv
<1> SUFFICES ASSUME BookingInit PROVE BookingInv
  OBVIOUS
<1>1. RowsTyped
  BY DEF BookingInit, RowsTyped, ServiceRow, OnOff
<1>2. ASSUME NEW q \in Requests PROVE InvOf(q)
  BY Kinds DEF BookingInit, InvOf, Waiting, Over, Booked
<1> QED
  BY <1>1, <1>2 DEF BookingInv

-----------------------------------------------------------------------------
(* Steps of a request that write no row *)

\* What it takes for a request to become x.
Justified(x) ==
  /\ x \in Asked \cup {Over}
  /\ x \in Asked => Relies(x)
  /\ x \in Asked /\ x.at \in {"allow", "offer"} => x.offered = {}

LEMMA Moves ==
  ASSUME BookingInv, UNCHANGED Rows, NEW q \in Requests, request[q] # Over,
         NEW x, Justified(x), request' = [request EXCEPT ![q] = x]
  PROVE  BookingInv'
<1>1. RowsTyped'
  BY DEF BookingInv, RowsTyped, Rows, Justified
<1>2. /\ request'[q] = x
      /\ \A p \in Requests \ {q} : request'[p] = request[p]
      /\ booking' = booking /\ blackout' = blackout
  BY DEF BookingInv, RowsTyped, Rows
<1>3. ASSUME NEW p \in Requests PROVE InvOf(p)'
  <2>1. InvOf(p)
    BY DEF BookingInv
  <2>2. CASE p # q
    BY <1>2, <2>1, <2>2 DEF InvOf, Relies, Booked
  <2>3. CASE p = q
    BY <1>2, <2>1, <2>3, Kinds DEF InvOf, Relies, Booked, Justified, Over
  <2> QED
    BY <2>2, <2>3
<1> QED
  BY <1>1, <1>3 DEF BookingInv

LEMMA AskStep ==
  ASSUME BookingInv, NEW q \in Requests, Ask(q)
  PROVE  BookingInv'
<1>1. PICK who \in Askers, s \in Services, r \in Resources, w \in Spans, o \in Offers :
        request' = [request EXCEPT ![q] =
         [at |-> IF who = "visitor" THEN "allow" ELSE "admit", service |-> s, resource |-> r,
          from |-> w.from, to |-> w.to, offer |-> o, visitor |-> who = "visitor",
          known |-> {}, closed |-> {}, offered |-> {}]]
  BY DEF Ask
<1> DEFINE new ==
      [at |-> IF who = "visitor" THEN "allow" ELSE "admit", service |-> s, resource |-> r,
       from |-> w.from, to |-> w.to, offer |-> o, visitor |-> who = "visitor",
       known |-> {}, closed |-> {}, offered |-> {}]
<1>2. w.from \in Nat /\ w.to \in Nat
  BY SpansAssumption DEF Span
<1>3. new \in Asked
  BY <1>2 DEF Asked
<1>4. Justified(new)
  BY <1>3 DEF Justified, Relies
<1>5. request' = [request EXCEPT ![q] = new]
  BY ONLY <1>1
<1>6. UNCHANGED Rows /\ request[q] # Over
  BY DEF Ask, Waiting, Over
<1> HIDE DEF new
<1> QED
  BY <1>4, <1>5, <1>6, Moves

\* A request that is under way.
LEMMA Underway ==
  ASSUME BookingInv, NEW q \in Requests, request[q].at \notin {"none", "over"}
  PROVE  request[q] \in Asked /\ request[q] # Over /\ Relies(request[q])
  BY DEF BookingInv, RowsTyped, InvOf, Waiting, Over

Points == {"offer", "openings", "previewBlackouts", "previewReservations", "admit",
           "binding", "reservations", "blackouts", "insert"}

\* Going on does not change what the request relies on.
LEMMA GoesOn ==
  ASSUME BookingInv, NEW q \in Requests, request[q] \in Asked, NEW at \in Points,
         at = "offer" => request[q].offered = {}
  PROVE  Justified([request[q] EXCEPT !.at = at])
<1> DEFINE x == [request[q] EXCEPT !.at = at]
<1>1. x \in Asked
  BY DEF Asked, Points
<1>2. /\ x.at = at /\ x.resource = request[q].resource
      /\ x.from = request[q].from /\ x.to = request[q].to /\ x.offer = request[q].offer
      /\ x.known = request[q].known /\ x.offered = request[q].offered
      /\ x.closed = request[q].closed
  BY DEF Asked
<1>3. Relies(request[q])
  BY DEF BookingInv, InvOf
<1>4. Relies(x)
  BY <1>2, <1>3 DEF Relies, Yields, Clear, Overlaps, Reserved
<1> QED
  BY <1>1, <1>2, <1>4 DEF Justified, Points

LEMMA OverJustified == Justified(Over)
  BY Kinds DEF Justified

LEMMA AdvanceStep ==
  ASSUME BookingInv, NEW q \in Requests, UNCHANGED Rows, request[q] \in Asked,
         NEW ok \in BOOLEAN, NEW at \in Points,
         at = "offer" => request[q].offered = {},
         Advance(q, ok, at)
  PROVE  BookingInv'
<1> DEFINE x == [request[q] EXCEPT !.at = at]
<1>1. Justified(x) /\ Justified(Over) /\ request[q] # Over
  BY GoesOn, OverJustified, Kinds
<1>2. request' = [request EXCEPT ![q] = IF ok THEN x ELSE Over]
  BY DEF Advance
<1> HIDE DEF x
<1>3. CASE ok
  <2>1. request' = [request EXCEPT ![q] = x]
    BY <1>2, <1>3
  <2> QED
    BY <1>1, <2>1, Moves
<1>4. CASE ~ok
  <2>1. request' = [request EXCEPT ![q] = Over]
    BY <1>2, <1>4
  <2> QED
    BY <1>1, <2>1, Moves
<1> QED
  BY <1>3, <1>4

LEMMA AllowStep ==
  ASSUME BookingInv, NEW q \in Requests, Allow(q)
  PROVE  BookingInv'
<1>1. request[q] \in Asked /\ request[q].offered = {} /\ UNCHANGED Rows
  BY Underway DEF Allow, BookingInv, InvOf
<1>2. PICK ok \in BOOLEAN : Advance(q, ok, "offer")
  BY DEF Allow
<1> QED
  BY <1>1, <1>2, AdvanceStep DEF Points

LEMMA ReadOfferStep ==
  ASSUME BookingInv, NEW q \in Requests, ReadOffer(q)
  PROVE  BookingInv'
<1>1. /\ request[q] \in Asked /\ request[q].offered = {} /\ UNCHANGED Rows
      /\ Relies(request[q]) /\ request[q] # Over
  BY Underway DEF ReadOffer, BookingInv, InvOf
<1> DEFINE s == request[q].service
           x == [request[q] EXCEPT !.at = "openings", !.offer = service[s].offer]
<1>2. CASE s \in ServicesThere /\ request[q].resource \in ResourcesThere
  <2>1. service[s].offer \in Offers
    BY <1>2 DEF BookingInv, RowsTyped, ServicesThere, ServiceRow, OnOff, Absent, Gone
  <2>2. x \in Asked
    BY <1>1, <2>1 DEF Asked
  <2>3. /\ x.at = "openings" /\ x.resource = request[q].resource
        /\ x.from = request[q].from /\ x.to = request[q].to
        /\ x.known = request[q].known /\ x.offered = {}
        /\ x.closed = request[q].closed
    BY <1>1 DEF Asked
  <2>4. Justified(x)
    BY <1>1, <2>2, <2>3 DEF Justified, Relies, Yields, Clear, Overlaps
  <2>5. request' = [request EXCEPT ![q] = x]
    BY <1>2 DEF ReadOffer
  <2> HIDE DEF x
  <2> QED
    BY <1>1, <2>4, <2>5, Moves
<1>3. CASE ~(s \in ServicesThere /\ request[q].resource \in ResourcesThere)
  <2>1. request' = [request EXCEPT ![q] = Over]
    BY <1>3 DEF ReadOffer
  <2> QED
    BY <1>1, <2>1, OverJustified, Moves
<1> QED
  BY <1>2, <1>3

LEMMA ReadOpeningsStep ==
  ASSUME BookingInv, NEW q \in Requests, ReadOpenings(q)
  PROVE  BookingInv'
<1>1. request[q] \in Asked /\ UNCHANGED Rows
  BY Underway DEF ReadOpenings
<1>2. PICK ok \in BOOLEAN : Advance(q, ok, "previewBlackouts")
  BY DEF ReadOpenings
<1> QED
  BY <1>1, <1>2, AdvanceStep DEF Points

LEMMA PreviewBlackoutsStep ==
  ASSUME BookingInv, NEW q \in Requests, PreviewBlackouts(q)
  PROVE  BookingInv'
<1>1. request[q] \in Asked /\ UNCHANGED Rows
  BY Underway DEF PreviewBlackouts
<1>2. PICK ok \in BOOLEAN : Advance(q, ok, "previewReservations")
  BY DEF PreviewBlackouts
<1> QED
  BY <1>1, <1>2, AdvanceStep DEF Points

LEMMA AdmitStep ==
  ASSUME BookingInv, NEW q \in Requests, Admit(q)
  PROVE  BookingInv'
<1>1. request[q] \in Asked /\ UNCHANGED Rows
  BY Underway DEF Admit
<1>2. PICK ok \in BOOLEAN : Advance(q, ok, "binding")
  BY DEF Admit, Active
<1> QED
  BY <1>1, <1>2, AdvanceStep DEF Points

LEMMA EnsureBindingStep ==
  ASSUME BookingInv, NEW q \in Requests, EnsureBinding(q)
  PROVE  BookingInv'
<1>1. request[q] \in Asked /\ UNCHANGED Rows
  BY Underway DEF EnsureBinding
<1>2. PICK ok \in BOOLEAN : Advance(q, ok, "reservations")
  BY DEF EnsureBinding
<1> QED
  BY <1>1, <1>2, AdvanceStep DEF Points

\* A check that finds no reservation in the way may rely on all there are.
LEMMA NoneInTheWay ==
  ASSUME NEW r, NEW span, ReservationsIn(r, span) = {}, NEW p \in Booked
  PROVE  Yields(booking[p], r, span)
  BY DEF ReservationsIn, Yields, Booked

LEMMA PreviewReservationsStep ==
  ASSUME BookingInv, NEW q \in Requests, PreviewReservations(q)
  PROVE  BookingInv'
<1>1. /\ request[q] \in Asked /\ request[q] # Over /\ UNCHANGED Rows
      /\ Relies(request[q])
  BY Underway DEF PreviewReservations
<1> DEFINE r == request[q].resource
           x == [request[q] EXCEPT !.at = "admit", !.offered = Booked]
<1>2. CASE ReservationsIn(r, Reserved(request[q])) = {}
  <2>1. x \in Asked
    BY <1>1 DEF Asked, Booked
  <2>2. /\ x.at = "admit" /\ x.resource = r
        /\ x.from = request[q].from /\ x.to = request[q].to /\ x.offer = request[q].offer
        /\ x.known = request[q].known /\ x.offered = Booked
        /\ x.closed = request[q].closed
    BY <1>1 DEF Asked
  <2>3. Reserved(x) = Reserved(request[q])
    BY <2>2 DEF Reserved
  <2>4. \A p \in Booked : Yields(booking[p], r, Reserved(x))
    BY <1>2, <2>3, NoneInTheWay
  <2>5. Relies(x)
    BY <1>1, <2>2, <2>4 DEF Relies, Yields, Clear, Overlaps
  <2>6. request' = [request EXCEPT ![q] = x] /\ Justified(x)
    BY <1>2, <2>1, <2>2, <2>5 DEF PreviewReservations, Justified
  <2> HIDE DEF x
  <2> QED
    BY <1>1, <2>6, Moves
<1>3. CASE ReservationsIn(r, Reserved(request[q])) # {}
  <2>1. request' = [request EXCEPT ![q] = Over]
    BY <1>3 DEF PreviewReservations
  <2> QED
    BY <1>1, <2>1, OverJustified, Moves
<1> QED
  BY <1>2, <1>3

LEMMA CheckReservationsStep ==
  ASSUME BookingInv, NEW q \in Requests, CheckReservations(q)
  PROVE  BookingInv'
<1>1. /\ request[q] \in Asked /\ request[q] # Over /\ UNCHANGED Rows
      /\ Relies(request[q])
  BY Underway DEF CheckReservations
<1> DEFINE r == request[q].resource
           x == [request[q] EXCEPT !.at = "blackouts", !.known = Booked]
<1>2. CASE ReservationsIn(r, request[q]) = {}
  <2>1. x \in Asked
    BY <1>1 DEF Asked, Booked
  <2>2. /\ x.at = "blackouts" /\ x.resource = r
        /\ x.from = request[q].from /\ x.to = request[q].to /\ x.offer = request[q].offer
        /\ x.known = Booked /\ x.offered = request[q].offered
        /\ x.closed = request[q].closed
    BY <1>1 DEF Asked
  <2>3. Reserved(x) = Reserved(request[q])
    BY <2>2 DEF Reserved
  <2>4. \A p \in Booked : Yields(booking[p], r, request[q])
    BY <1>2, NoneInTheWay
  <2>5. Relies(x)
    BY <1>1, <2>2, <2>3, <2>4 DEF Relies, Yields, Clear, Overlaps
  <2>6. request' = [request EXCEPT ![q] = x] /\ Justified(x)
    BY <1>2, <2>1, <2>2, <2>5 DEF CheckReservations, Justified
  <2> HIDE DEF x
  <2> QED
    BY <1>1, <2>6, Moves
<1>3. CASE ReservationsIn(r, request[q]) # {}
  <2>1. request' = [request EXCEPT ![q] = Over]
    BY <1>3 DEF CheckReservations
  <2> QED
    BY <1>1, <2>1, OverJustified, Moves
<1> QED
  BY <1>2, <1>3

LEMMA CheckBlackoutsStep ==
  ASSUME BookingInv, NEW q \in Requests, CheckBlackouts(q)
  PROVE  BookingInv'
<1>1. /\ request[q] \in Asked /\ request[q] # Over /\ UNCHANGED Rows
      /\ Relies(request[q])
  BY Underway DEF CheckBlackouts
<1> DEFINE r == request[q].resource
           x == [request[q] EXCEPT !.at = "insert", !.closed = InForce]
<1>2. CASE BlackoutsIn(r, request[q]) = {}
  <2>1. x \in Asked
    BY <1>1 DEF Asked, InForce
  <2>2. /\ x.at = "insert" /\ x.resource = r
        /\ x.from = request[q].from /\ x.to = request[q].to /\ x.offer = request[q].offer
        /\ x.known = request[q].known /\ x.offered = request[q].offered
        /\ x.closed = InForce
    BY <1>1 DEF Asked
  <2>3. Reserved(x) = Reserved(request[q])
    BY <2>2 DEF Reserved
  <2>4. \A b \in InForce : Clear(blackout[b], r, x)
    BY <1>2, <2>2 DEF BlackoutsIn, InForce, Clear, Overlaps, Absent
  <2>5. Relies(x)
    BY <1>1, <2>2, <2>3, <2>4 DEF Relies, Yields, Overlaps
  <2>6. request' = [request EXCEPT ![q] = x] /\ Justified(x)
    BY <1>2, <2>1, <2>2, <2>5 DEF CheckBlackouts, Justified
  <2> HIDE DEF x
  <2> QED
    BY <1>1, <2>6, Moves
<1>3. CASE BlackoutsIn(r, request[q]) # {}
  <2>1. request' = [request EXCEPT ![q] = Over]
    BY <1>3 DEF CheckBlackouts
  <2> QED
    BY <1>1, <2>1, OverJustified, Moves
<1> QED
  BY <1>2, <1>3

-----------------------------------------------------------------------------
(* Steps that write rows *)

\* A row, or a blackout, that gets in nobody's way.
Keeps(old, new) == \A r, span : Yields(old, r, span) => Yields(new, r, span)
KeepsClear(old, new) == \A r, span : Clear(old, r, span) => Clear(new, r, span)

\* A row that stays what it is but for its status.
SameRow(old, new) ==
  IF old = Unbooked THEN new = Unbooked
  ELSE /\ new # Unbooked
       /\ new.resource = old.resource /\ new.from = old.from /\ new.to = old.to
       /\ new.offer = old.offer /\ new.known = old.known
       /\ new.offered = old.offered /\ new.closed = old.closed

LEMMA StillRelies ==
  ASSUME \A p \in Requests : Keeps(booking[p], booking'[p]),
         \A b \in Blackouts : KeepsClear(blackout[b], blackout'[b]),
         NEW x, x \in Asked \cup Row, Relies(x)
  PROVE  /\ \A p \in x.known : Yields(booking'[p], x.resource, x)
         /\ \A p \in x.offered : Yields(booking'[p], x.resource, Reserved(x))
         /\ \A b \in x.closed : Clear(blackout'[b], x.resource, x)
<1>1. x.known \subseteq Requests /\ x.offered \subseteq Requests /\ x.closed \subseteq Blackouts
  BY DEF Asked, Row
<1> QED
  BY <1>1 DEF Relies, Keeps, KeepsClear

\* What a row relies on does not depend on its other fields.
LEMMA SameReliance ==
  ASSUME NEW x, NEW y, y.resource = x.resource, y.from = x.from, y.to = x.to,
         y.offer = x.offer, y.known = x.known, y.offered = x.offered, y.closed = x.closed,
         \A p \in x.known : Yields(booking'[p], x.resource, x),
         \A p \in x.offered : Yields(booking'[p], x.resource, Reserved(x)),
         \A b \in x.closed : Clear(blackout'[b], x.resource, x)
  PROVE  /\ \A p \in y.known : Yields(booking'[p], y.resource, y)
         /\ \A p \in y.offered : Yields(booking'[p], y.resource, Reserved(y))
         /\ \A b \in y.closed : Clear(blackout'[b], y.resource, y)
  BY DEF Yields, Clear, Overlaps, Reserved

LEMMA RowsMove ==
  ASSUME BookingInv, RowsTyped', UNCHANGED request,
         \A q \in Requests :
           Keeps(booking[q], booking'[q]) /\ SameRow(booking[q], booking'[q]),
         \A b \in Blackouts : KeepsClear(blackout[b], blackout'[b])
  PROVE  BookingInv'
<1> SUFFICES ASSUME NEW q \in Requests PROVE InvOf(q)'
  BY DEF BookingInv
<1>1. InvOf(q) /\ RowsTyped
  BY DEF BookingInv
<1>2. ASSUME request[q] \in Asked PROVE Relies(request[q])'
  <2>1. Relies(request[q])
    BY <1>1, <1>2 DEF InvOf
  <2> QED
    BY <1>2, <2>1, StillRelies DEF Relies
<1>3. ASSUME booking'[q] # Unbooked PROVE Relies(booking[q])'
  <2>1. booking[q] # Unbooked
    BY <1>3 DEF SameRow
  <2>2. Relies(booking[q]) /\ booking[q] \in Row
    BY <1>1, <2>1 DEF InvOf, Booked, RowsTyped
  <2>3. /\ \A p \in booking[q].known : Yields(booking'[p], booking[q].resource, booking[q])
        /\ \A p \in booking[q].offered :
             Yields(booking'[p], booking[q].resource, Reserved(booking[q]))
        /\ \A b \in booking[q].closed : Clear(blackout'[b], booking[q].resource, booking[q])
    BY <2>2, StillRelies
  <2> QED
    BY <2>1, <2>3, SameReliance DEF Relies, SameRow
<1> QED
  BY <1>1, <1>2, <1>3 DEF InvOf, Booked, SameRow

LEMMA InsertStep ==
  ASSUME BookingInv, NEW q \in Requests, Insert(q)
  PROVE  BookingInv'
<1>1. /\ request[q] \in Asked /\ request[q] # Over /\ Relies(request[q])
      /\ booking[q] = Unbooked
  BY Underway DEF Insert, BookingInv, InvOf
<1> DEFINE asked == request[q]
           row == [status |-> "pending", service |-> asked.service,
                   resource |-> asked.resource, from |-> asked.from, to |-> asked.to,
                   offer |-> asked.offer, visitor |-> asked.visitor, known |-> asked.known,
                   closed |-> asked.closed, offered |-> asked.offered, reopened |-> FALSE]
<1>2. booking'[q] \in {row, Unbooked} /\ \A p \in Requests \ {q} : booking'[p] = booking[p]
  BY <1>1 DEF Insert, BookingInv, RowsTyped
<1>3. row \in Row
  BY <1>1 DEF Asked, Row, Statuses
<1>4. /\ row.resource = asked.resource /\ row.from = asked.from /\ row.to = asked.to
      /\ row.offer = asked.offer /\ row.known = asked.known
      /\ row.offered = asked.offered /\ row.closed = asked.closed
  OBVIOUS
<1> HIDE DEF row
<1>5. RowsTyped'
  <2>1. booking' \in [Requests -> Row \cup {Unbooked}]
    BY <1>2, <1>3 DEF Insert, BookingInv, RowsTyped
  <2> QED
    BY <2>1 DEF Insert, BookingInv, RowsTyped
<1>6. /\ \A p \in Requests : Keeps(booking[p], booking'[p])
      /\ \A b \in Blackouts : KeepsClear(blackout[b], blackout'[b])
  BY <1>1, <1>2 DEF Insert, Keeps, KeepsClear, Yields
<1>7. request'[q] = Over /\ \A p \in Requests \ {q} : request'[p] = request[p]
  BY DEF Insert, BookingInv, RowsTyped
<1>8. ASSUME NEW p \in Requests PROVE InvOf(p)'
  <2>1. InvOf(p) /\ RowsTyped
    BY DEF BookingInv
  <2>2. CASE p # q
    <3>1. ASSUME request[p] \in Asked PROVE Relies(request[p])'
      BY <1>6, <1>7, <2>1, <2>2, <3>1, StillRelies DEF Relies, InvOf
    <3>2. ASSUME booking[p] # Unbooked PROVE Relies(booking[p])'
      <4>1. booking[p] \in Row /\ Relies(booking[p]) /\ booking'[p] = booking[p]
        BY <1>2, <2>1, <2>2, <3>2 DEF RowsTyped, InvOf, Booked
      <4> QED
        BY <1>6, <4>1, StillRelies DEF Relies
    <3> QED
      BY <1>2, <1>7, <2>1, <2>2, <3>1, <3>2 DEF InvOf, Booked
  <2>3. CASE p = q
    <3>1. ASSUME booking'[q] = row PROVE Relies(booking[q])'
      <4>1. /\ \A o \in asked.known : Yields(booking'[o], asked.resource, asked)
            /\ \A o \in asked.offered : Yields(booking'[o], asked.resource, Reserved(asked))
            /\ \A b \in asked.closed : Clear(blackout'[b], asked.resource, asked)
        BY <1>1, <1>6, StillRelies
      <4> QED
        BY <1>4, <3>1, <4>1, SameReliance DEF Relies
    <3> QED
      BY <1>2, <1>7, <2>3, <3>1, Kinds DEF InvOf, Booked, Over
  <2> QED
    BY <2>2, <2>3
<1> QED
  BY <1>5, <1>8 DEF BookingInv

LEMMA Unmoved ==
  /\ \A row : Keeps(row, row) /\ KeepsClear(row, row) /\ SameRow(row, row)
  BY DEF Keeps, KeepsClear, SameRow

LEMMA SetReservationStatusStep ==
  ASSUME BookingInv, NEW q \in Requests, SetReservationStatus(q)
  PROVE  BookingInv'
<1>1. PICK status \in Settable :
        booking' = [booking EXCEPT ![q].status = status,
          ![q].reopened = @ \/ (status \in Blocking /\ booking[q].status \notin Blocking)]
  BY DEF SetReservationStatus
<1>2. booking[q] \in Row /\ booking[q] # Unbooked /\ status \in Statuses
  BY KindsAssumption DEF SetReservationStatus, Booked, BookingInv, RowsTyped
<1> DEFINE reopens == status \in Blocking /\ booking[q].status \notin Blocking
           new == [booking[q] EXCEPT !.status = status, !.reopened = @ \/ reopens]
<1>3. booking' = [booking EXCEPT ![q] = new]
  BY <1>1 DEF BookingInv, RowsTyped
<1>4. /\ new.status = status /\ new.reopened = (booking[q].reopened \/ reopens)
      /\ new.resource = booking[q].resource
      /\ new.from = booking[q].from /\ new.to = booking[q].to
      /\ new.offer = booking[q].offer /\ new.known = booking[q].known
      /\ new.offered = booking[q].offered /\ new.closed = booking[q].closed
  BY <1>2 DEF Row
<1>5. new \in Row
  BY <1>2 DEF Row
<1> HIDE DEF new
<1>6. RowsTyped'
  BY <1>3, <1>5 DEF SetReservationStatus, BookingInv, RowsTyped
<1>7. Keeps(booking[q], new) /\ SameRow(booking[q], new)
  BY <1>2, <1>4, <1>5, Kinds DEF Keeps, SameRow, Yields, Overlaps
<1>8. /\ \A p \in Requests : booking'[p] = IF p = q THEN new ELSE booking[p]
      /\ UNCHANGED <<request, blackout>>
  BY <1>3 DEF SetReservationStatus, BookingInv, RowsTyped
<1>9. /\ \A p \in Requests : Keeps(booking[p], booking'[p]) /\ SameRow(booking[p], booking'[p])
      /\ \A b \in Blackouts : KeepsClear(blackout[b], blackout'[b])
  BY <1>7, <1>8, Unmoved
<1> QED
  BY <1>6, <1>8, <1>9, RowsMove

\* Edits leave reservations alone; a blackout may end, or one that was not there begin.
RowsLeftAlone ==
  /\ RowsTyped' /\ UNCHANGED <<booking, request>>
  /\ \A b \in Blackouts : KeepsClear(blackout[b], blackout'[b])

LEMMA EditStep ==
  ASSUME BookingInv, Edit
  PROVE  BookingInv'
<1>1. RowsLeftAlone
  <2> USE DEF BookingInv, RowsLeftAlone
  <2>1. ASSUME NEW s \in Services, SetService(s) \/ DeleteService(s) \/ SetServiceResources(s)
        PROVE  RowsLeftAlone
    BY <2>1, Unmoved DEF SetService, DeleteService, SetServiceResources, RowsTyped
  <2>2. ASSUME NEW r \in Resources, SetResource(r) \/ SetSchedules(r)
        PROVE  RowsLeftAlone
    BY <2>2, Unmoved DEF SetResource, SetSchedules, RowsTyped
  <2>3. ASSUME NEW r \in Resources, DeleteResource(r)
        PROVE  RowsLeftAlone
    <3>1. RowsTyped' /\ UNCHANGED <<booking, request>>
      BY <2>3 DEF DeleteResource, RowsTyped
    <3>2. ASSUME NEW b \in Blackouts PROVE KeepsClear(blackout[b], blackout'[b])
      <4>1. blackout'[b] = Gone \/ blackout'[b] = blackout[b]
        BY <2>3 DEF DeleteResource
      <4> QED
        BY <4>1, Unmoved DEF KeepsClear, Clear, Gone, Absent
    <3> QED
      BY <3>1, <3>2
  <2>4. ASSUME NEW b \in Blackouts, CreateBlackout(b)
        PROVE  RowsLeftAlone
    <3>1. PICK where \in ResourcesThere \cup {Everywhere}, w \in Spans :
            blackout' = [blackout EXCEPT ![b] =
              [status |-> "on", where |-> where, from |-> w.from, to |-> w.to]]
      BY <2>4 DEF CreateBlackout
    <3>2. RowsTyped' /\ UNCHANGED <<booking, request>>
      BY <2>4, <3>1, SpansAssumption DEF CreateBlackout, RowsTyped, Span, ResourcesThere
    <3>3. \A o \in Blackouts : o # b => blackout'[o] = blackout[o]
      BY <3>1 DEF RowsTyped
    <3>4. KeepsClear(blackout[b], blackout'[b])
      BY <2>4 DEF CreateBlackout, KeepsClear, Clear
    <3> QED
      BY <3>2, <3>3, <3>4, Unmoved
  <2>5. ASSUME NEW b \in Blackouts, DeleteBlackout(b)
        PROVE  RowsLeftAlone
    <3>1. /\ RowsTyped' /\ UNCHANGED <<booking, request>>
          /\ \A o \in Blackouts : blackout'[o] = IF o = b THEN Gone ELSE blackout[o]
      BY <2>5 DEF DeleteBlackout, RowsTyped
    <3> QED
      BY <3>1, Unmoved DEF KeepsClear, Clear, Gone, Absent
  <2> QED
    BY <2>1, <2>2, <2>3, <2>4, <2>5 DEF Edit
<1>2. \A p \in Requests : Keeps(booking[p], booking'[p]) /\ SameRow(booking[p], booking'[p])
  BY <1>1, Unmoved DEF RowsLeftAlone
<1> QED
  BY <1>1, <1>2, RowsMove DEF RowsLeftAlone

LEMMA BookingInvStep ==
  BookingInv /\ [BookingNext]_bookingVars => BookingInv'
<1> SUFFICES ASSUME BookingInv, [BookingNext]_bookingVars PROVE BookingInv'
  OBVIOUS
<1>1. CASE Edit
  BY <1>1, EditStep
<1>2. ASSUME NEW q \in Requests, Ask(q) \/ Preview(q) \/ Reserve(q) \/ SetReservationStatus(q)
      PROVE  BookingInv'
  BY <1>2, AskStep, AllowStep, ReadOfferStep, ReadOpeningsStep, PreviewBlackoutsStep,
     PreviewReservationsStep, AdmitStep, EnsureBindingStep, CheckReservationsStep,
     CheckBlackoutsStep, InsertStep, SetReservationStatusStep
  DEF Preview, Reserve
<1>3. CASE UNCHANGED bookingVars
  <2>1. RowsTyped'
    BY <1>3 DEF bookingVars, BookingInv, RowsTyped
  <2> QED
    BY <1>3, <2>1, RowsMove, Unmoved DEF bookingVars
<1> QED
  BY <1>1, <1>2, <1>3 DEF BookingNext

LEMMA BookingInvHolds == BookingSpec => []BookingInv
  BY BookingInvInit, BookingInvStep, PTL DEF BookingSpec

-----------------------------------------------------------------------------
(* Theorems *)

\* Two blocking reservations of one resource overlap only if they raced or one of them
\* was reopened: the check of createBookingReservation holds for what it saw, whatever
\* administrators edit, however many requests run at once.
THEOREM ReservationsExclude == BookingSpec => []SlotsExclusive
<1>1. BookingInv => SlotsExclusive
  <2> SUFFICES ASSUME BookingInv, NEW p \in Requests, NEW q \in Requests, p # q,
                      Blocks(p), Blocks(q), booking[p].resource = booking[q].resource,
                      Overlaps(booking[p], booking[q]),
                      p \in booking[q].known \/ q \in booking[p].known
               PROVE  booking[p].reopened \/ booking[q].reopened
    BY DEF SlotsExclusive
  <2>1. Overlaps(booking[q], booking[p])
    BY DEF Overlaps
  <2>2. Relies(booking[p]) /\ Relies(booking[q])
    BY DEF Blocks, BookingInv, InvOf
  <2> QED
    BY <2>1, <2>2 DEF Relies, Yields, Blocks
<1> QED
  BY <1>1, BookingInvHolds, PTL

\* A reservation stays clear of the blackouts and a visitor's, with its buffers, of the
\* reservations that its request saw, whatever is edited while the request runs.
THEOREM WindowsStayRespected == BookingSpec => []WindowsRespected
<1>1. BookingInv => WindowsRespected
  <2> SUFFICES ASSUME BookingInv, NEW q \in Booked
               PROVE  /\ \A b \in booking[q].closed \cap InForce :
                           blackout[b].where \in {booking[q].resource, Everywhere}
                             => ~Overlaps(blackout[b], booking[q])
                      /\ \A p \in ReservationsIn(booking[q].resource, Reserved(booking[q])) :
                           p \in booking[q].offered => booking[p].reopened
    BY DEF WindowsRespected
  <2>1. Relies(booking[q])
    BY DEF BookingInv, InvOf, Booked
  <2> QED
    BY <2>1 DEF Relies, Yields, Clear, InForce, ReservationsIn
<1> QED
  BY <1>1, BookingInvHolds, PTL

-----------------------------------------------------------------------------
(* References *)

\* The rest of the types, and what the foreign keys guarantee.
References ==
  /\ resource \in [Resources -> ResourceRow \cup {Absent, Gone}]
  /\ bound \in [Services -> SUBSET Resources]
  /\ open \in [Resources -> SUBSET Spans]
  /\ ReferencesHold

\* A row that is there stays there, or is deleted.
LEMMA There ==
  /\ \A row \in ServiceRow \cup {Absent, Gone} : row.status \in OnOff <=> row \in ServiceRow
  /\ \A row \in ResourceRow \cup {Absent, Gone} : row.status \in OnOff <=> row \in ResourceRow
  /\ Gone.status \notin OnOff /\ Absent.status \notin OnOff
BY DEF ServiceRow, ResourceRow, Absent, Gone, OnOff

LEMMA ReferencesInit == BookingInit => References
<1> SUFFICES ASSUME BookingInit PROVE References
  OBVIOUS
<1>1. ResourcesThere = Resources /\ Booked = {} /\ InForce = {}
  BY DEF BookingInit, ResourcesThere, OnOff, Booked, InForce, Absent
<1>2. \A s \in Services \ ServicesThere : bound[s] = {}
  BY DEF BookingInit, ServicesThere, OnOff
<1>3. ReferencesHold
  BY <1>1, <1>2 DEF ReferencesHold, BookingInit
<1> QED BY <1>3 DEF BookingInit, References, ResourceRow, OnOff

LEMMA InsertRefers ==
  ASSUME BookingInv, References, NEW q \in Requests, Insert(q) PROVE References'
<1>1. UNCHANGED <<service, resource, bound, open, blackout>>
  BY DEF Insert
<1>2. /\ ServicesThere' = ServicesThere /\ ResourcesThere' = ResourcesThere /\ InForce' = InForce
  BY <1>1 DEF ServicesThere, ResourcesThere, InForce
<1>3. \A p \in Requests \ {q} : booking'[p] = booking[p]
  BY DEF Insert, BookingInv, RowsTyped
<1>4. ASSUME booking'[q] # Unbooked
      PROVE  booking'[q].service \in ServicesThere /\ booking'[q].resource \in ResourcesThere
  <2>1. CASE request[q].service \in ServicesThere /\ request[q].resource \in ResourcesThere
    BY <2>1 DEF Insert, BookingInv, RowsTyped
  <2>2. CASE ~(request[q].service \in ServicesThere /\ request[q].resource \in ResourcesThere)
    <3>1. booking'[q] = booking[q]
      BY <2>2 DEF Insert, BookingInv, RowsTyped
    <3> QED BY <1>4, <3>1 DEF References, ReferencesHold, Booked
  <2> QED BY <2>1, <2>2
<1>5. \A p \in Booked' : booking'[p].service \in ServicesThere'
                         /\ booking'[p].resource \in ResourcesThere'
  BY <1>2, <1>3, <1>4 DEF References, ReferencesHold, Booked
<1> QED BY <1>1, <1>2, <1>5 DEF References, ReferencesHold

LEMMA StatusRefers ==
  ASSUME BookingInv, References, NEW q \in Requests, SetReservationStatus(q) PROVE References'
<1>1. UNCHANGED <<service, resource, bound, open, blackout>>
  BY DEF SetReservationStatus
<1>2. /\ ServicesThere' = ServicesThere /\ ResourcesThere' = ResourcesThere /\ InForce' = InForce
  BY <1>1 DEF ServicesThere, ResourcesThere, InForce
<1>3. booking[q] # Unbooked /\ booking[q] \in Row
  BY DEF SetReservationStatus, Booked, BookingInv, RowsTyped
<1>4. /\ \A p \in Requests \ {q} : booking'[p] = booking[p]
      /\ booking'[q].service = booking[q].service /\ booking'[q].resource = booking[q].resource
  BY <1>3 DEF SetReservationStatus, BookingInv, RowsTyped, Row
<1>5. \A p \in Booked' : booking'[p].service \in ServicesThere'
                         /\ booking'[p].resource \in ResourcesThere'
  BY <1>2, <1>3, <1>4 DEF References, ReferencesHold, Booked
<1> QED BY <1>1, <1>2, <1>5 DEF References, ReferencesHold

\* A service or a resource that is deleted takes its bindings, openings and blackouts with
\* it, and is not deleted while a reservation refers to it.
LEMMA EditRefers ==
  ASSUME BookingInv, References, Edit PROVE References'
<1>1. ASSUME NEW s \in Services, SetService(s) PROVE References'
  <2>1. PICK row \in ServiceRow : service' = [service EXCEPT ![s] = row]
    BY <1>1 DEF SetService
  <2>2. ServicesThere' = ServicesThere \cup {s}
    BY <2>1, There DEF ServicesThere, BookingInv, RowsTyped
  <2>3. UNCHANGED <<resource, bound, open, blackout, booking>>
    BY <1>1 DEF SetService
  <2>4. ResourcesThere' = ResourcesThere /\ Booked' = Booked /\ InForce' = InForce
    BY <2>3 DEF ResourcesThere, Booked, InForce
  <2> QED BY <2>2, <2>3, <2>4 DEF References, ReferencesHold
<1>2. ASSUME NEW s \in Services, DeleteService(s) PROVE References'
  <2>1. service' = [service EXCEPT ![s] = Gone] /\ bound' = [bound EXCEPT ![s] = {}]
    BY <1>2 DEF DeleteService
  <2>2. ServicesThere' = ServicesThere \ {s}
    BY <2>1, There DEF ServicesThere, BookingInv, RowsTyped
  <2>3. UNCHANGED <<resource, open, blackout, booking>> /\ \A q \in Booked : booking[q].service # s
    BY <1>2 DEF DeleteService
  <2>4. ResourcesThere' = ResourcesThere /\ Booked' = Booked /\ InForce' = InForce
    BY <2>3 DEF ResourcesThere, Booked, InForce
  <2>5. bound' \in [Services -> SUBSET Resources] /\ bound'[s] = {}
        /\ \A x \in Services \ {s} : bound'[x] = bound[x]
    BY <2>1 DEF References
  <2> QED BY <2>2, <2>3, <2>4, <2>5 DEF References, ReferencesHold
<1>3. ASSUME NEW s \in Services, SetServiceResources(s) PROVE References'
  <2>1. PICK rs \in SUBSET ResourcesThere : bound' = [bound EXCEPT ![s] = rs]
    BY <1>3 DEF SetServiceResources
  <2>2. UNCHANGED <<service, resource, open, blackout, booking>> /\ s \in ServicesThere
    BY <1>3 DEF SetServiceResources
  <2>3. /\ ServicesThere' = ServicesThere /\ ResourcesThere' = ResourcesThere
        /\ Booked' = Booked /\ InForce' = InForce
    BY <2>2 DEF ServicesThere, ResourcesThere, Booked, InForce
  <2>4. bound' \in [Services -> SUBSET Resources] /\ bound'[s] = rs
        /\ \A x \in Services \ {s} : bound'[x] = bound[x]
    BY <2>1 DEF References, ResourcesThere
  <2> QED BY <2>2, <2>3, <2>4 DEF References, ReferencesHold
<1>4. ASSUME NEW r \in Resources, SetResource(r) PROVE References'
  <2>1. PICK row \in ResourceRow : resource' = [resource EXCEPT ![r] = row]
    BY <1>4 DEF SetResource
  <2>2. ResourcesThere' = ResourcesThere \cup {r}
    BY <2>1, There DEF ResourcesThere, References
  <2>3. UNCHANGED <<service, bound, open, blackout, booking>>
    BY <1>4 DEF SetResource
  <2>4. ServicesThere' = ServicesThere /\ Booked' = Booked /\ InForce' = InForce
    BY <2>3 DEF ServicesThere, Booked, InForce
  <2>5. resource' \in [Resources -> ResourceRow \cup {Absent, Gone}]
    BY <2>1 DEF References
  <2> QED BY <2>2, <2>3, <2>4, <2>5 DEF References, ReferencesHold
<1>5. ASSUME NEW r \in Resources, DeleteResource(r) PROVE References'
  <2>1. /\ resource' = [resource EXCEPT ![r] = Gone]
        /\ bound' = [s \in Services |-> bound[s] \ {r}] /\ open' = [open EXCEPT ![r] = {}]
        /\ blackout' = [b \in Blackouts |->
                          IF b \in InForce /\ blackout[b].where = r THEN Gone ELSE blackout[b]]
        /\ UNCHANGED <<service, booking>> /\ \A q \in Booked : booking[q].resource # r
    BY <1>5 DEF DeleteResource
  <2>2. ResourcesThere' = ResourcesThere \ {r}
    BY <2>1, There DEF ResourcesThere, References
  <2>3. ServicesThere' = ServicesThere /\ Booked' = Booked
    BY <2>1 DEF ServicesThere, Booked
  <2>4. /\ resource' \in [Resources -> ResourceRow \cup {Absent, Gone}]
        /\ bound' \in [Services -> SUBSET Resources] /\ open' \in [Resources -> SUBSET Spans]
        /\ open'[r] = {} /\ \A x \in Resources \ {r} : open'[x] = open[x]
    BY <2>1 DEF References
  <2>5. \A b \in InForce' : b \in InForce /\ blackout'[b] = blackout[b] /\ blackout[b].where # r
    BY <2>1 DEF InForce, Gone
  <2> QED BY <2>1, <2>2, <2>3, <2>4, <2>5 DEF References, ReferencesHold
<1>6. ASSUME NEW r \in Resources, SetSchedules(r) PROVE References'
  <2>1. PICK ws \in SUBSET Spans : open' = [open EXCEPT ![r] = ws]
    BY <1>6 DEF SetSchedules
  <2>2. UNCHANGED <<service, resource, bound, blackout, booking>> /\ r \in ResourcesThere
    BY <1>6 DEF SetSchedules
  <2>3. /\ ServicesThere' = ServicesThere /\ ResourcesThere' = ResourcesThere
        /\ Booked' = Booked /\ InForce' = InForce
    BY <2>2 DEF ServicesThere, ResourcesThere, Booked, InForce
  <2>4. open' \in [Resources -> SUBSET Spans] /\ \A x \in Resources \ {r} : open'[x] = open[x]
    BY <2>1 DEF References
  <2> QED BY <2>2, <2>3, <2>4 DEF References, ReferencesHold
<1>7. ASSUME NEW b \in Blackouts, CreateBlackout(b) PROVE References'
  <2>1. PICK where \in ResourcesThere \cup {Everywhere}, w \in Spans :
          blackout' = [blackout EXCEPT ![b] =
            [status |-> "on", where |-> where, from |-> w.from, to |-> w.to]]
    BY <1>7 DEF CreateBlackout
  <2>2. UNCHANGED <<service, resource, bound, open, booking>>
    BY <1>7 DEF CreateBlackout
  <2>3. /\ ServicesThere' = ServicesThere /\ ResourcesThere' = ResourcesThere /\ Booked' = Booked
    BY <2>2 DEF ServicesThere, ResourcesThere, Booked
  <2>4. blackout'[b].where = where /\ \A o \in Blackouts \ {b} : blackout'[o] = blackout[o]
    BY <2>1 DEF BookingInv, RowsTyped
  <2>5. \A o \in InForce' : blackout'[o].where \in ResourcesThere \cup {Everywhere}
    BY <2>4 DEF InForce, References, ReferencesHold
  <2> QED BY <2>2, <2>3, <2>5 DEF References, ReferencesHold
<1>8. ASSUME NEW b \in Blackouts, DeleteBlackout(b) PROVE References'
  <2>1. blackout' = [blackout EXCEPT ![b] = Gone]
        /\ UNCHANGED <<service, resource, bound, open, booking>>
    BY <1>8 DEF DeleteBlackout
  <2>2. /\ ServicesThere' = ServicesThere /\ ResourcesThere' = ResourcesThere /\ Booked' = Booked
    BY <2>1 DEF ServicesThere, ResourcesThere, Booked
  <2>3. \A o \in InForce' : o \in InForce /\ blackout'[o] = blackout[o]
    BY <2>1 DEF InForce, Gone, BookingInv, RowsTyped
  <2> QED BY <2>1, <2>2, <2>3 DEF References, ReferencesHold
<1> QED BY <1>1, <1>2, <1>3, <1>4, <1>5, <1>6, <1>7, <1>8 DEF Edit

LEMMA ReferencesStep ==
  BookingInv /\ References /\ [BookingNext]_bookingVars => References'
<1> SUFFICES ASSUME BookingInv, References, [BookingNext]_bookingVars PROVE References'
  OBVIOUS
<1>1. ASSUME UNCHANGED Rows PROVE References'
  <2>1. /\ UNCHANGED <<service, resource, bound, open, blackout, booking>>
        /\ ServicesThere' = ServicesThere /\ ResourcesThere' = ResourcesThere
        /\ Booked' = Booked /\ InForce' = InForce
    BY <1>1 DEF Rows, ServicesThere, ResourcesThere, Booked, InForce
  <2> QED BY <2>1 DEF References, ReferencesHold
<1>2. ASSUME NEW q \in Requests, Ask(q) \/ Preview(q) \/ Reserve(q) PROVE References'
  <2>1. CASE Insert(q)
    BY <2>1, InsertRefers
  <2>2. UNCHANGED Rows \/ Insert(q)
    BY <1>2 DEF Ask, Preview, Reserve, Allow, ReadOffer, ReadOpenings, PreviewBlackouts,
                PreviewReservations, Admit, EnsureBinding, CheckReservations, CheckBlackouts
  <2> QED BY <1>1, <2>1, <2>2
<1>3. ASSUME NEW q \in Requests, SetReservationStatus(q) PROVE References'
  BY <1>3, StatusRefers
<1>4. CASE UNCHANGED bookingVars
  BY <1>1, <1>4 DEF bookingVars, Rows
<1> QED BY <1>2, <1>3, <1>4, EditRefers DEF BookingNext

LEMMA ReferencesAlways == BookingSpec => []References
BY ReferencesInit, ReferencesStep, BookingInvHolds, PTL DEF BookingSpec

\* No row refers to one that is gone, whoever deletes services and resources while
\* reservations are on their way and bindings, openings and blackouts are edited.
THEOREM ReferencesStayWhole == BookingSpec => []ReferencesHold
<1>1. References => ReferencesHold
  BY DEF References
<1> QED BY <1>1, ReferencesAlways, PTL

\* Rows and requests have their types.
THEOREM BookingTypeCorrect == BookingSpec => []BookingTypeOK
<1>1. BookingInv /\ References => BookingTypeOK
  BY DEF BookingInv, RowsTyped, References, BookingTypeOK
<1> QED BY <1>1, BookingInvHolds, ReferencesAlways, PTL
===============================================================================
