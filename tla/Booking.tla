------------------------------- MODULE Booking -------------------------------
(***************************************************************************)
(* Reservations of resources: core/services/booking/bookingService.ts,     *)
(* asked for by administrators (booking:write) and by visitors, whose      *)
(* requests core/server/publicBookingApi.ts first compares with the slots  *)
(* of a preview.  A request reads what it depends on in statements of its  *)
(* own; anything may commit in between.  Ids never come back.              *)
(***************************************************************************)
EXTENDS Naturals, FiniteSets

CONSTANTS
  Services, Resources, Blackouts,
  Requests,    \* reservations asked for
  Askers,      \* who asks: a subset of {"visitor", "admin"}
  Spans,       \* the times that are asked for, blacked out or open
  Offers,      \* duration and buffers a service may have
  Interval,    \* intervalMinutes: how far apart the previewed slots of an opening start
  Everywhere,  \* a blackout's resourceId null
  Settable,    \* statuses administrators give to reservations
  Edits        \* what administrators edit: a subset of EditKinds

Statuses == {"pending", "confirmed", "cancelled", "completed", "no_show"}
Blocking == {"pending", "confirmed"}
EditKinds == {"service", "resource", "binding", "schedule", "blackout"}
Span == [from : Nat, to : Nat]

ASSUME SpansAssumption == Spans \subseteq Span /\ \A w \in Spans : w.from < w.to
ASSUME OffersAssumption ==
  /\ Offers \subseteq [duration : Nat \ {0}, before : Nat, after : Nat]
  /\ Interval \in Nat \ {0}
ASSUME KindsAssumption ==
  /\ Askers \subseteq {"visitor", "admin"} /\ Settable \subseteq Statuses
  /\ Edits \subseteq EditKinds /\ Everywhere \notin Resources

VARIABLES
  service,   \* booking_services: status and offer
  resource,  \* booking_resources: status
  bound,     \* booking_service_resources: the resources of each service
  open,      \* booking_schedules: the openings of each resource, on one day
  blackout,  \* booking_blackouts
  booking,   \* bookings, named after the request that inserted them
  request    \* local variables of each request

bookingVars == <<service, resource, bound, open, blackout, booking, request>>

Absent == [status |-> "absent"]
Gone == [status |-> "gone"]
OnOff == {"active", "inactive"}
ServiceRow == [status : OnOff, offer : Offers]
ResourceRow == [status : OnOff]
Unbooked == [status |-> "none"]
Waiting == [at |-> "none"]
Over == [at |-> "over"]

\* Histories: the rows that were there when the request checked reservations (known),
\* the blackouts when it checked those (closed), the rows of its preview (offered) and
\* whether an administrator made the row block again (reopened).
Row == [status : Statuses, service : Services, resource : Resources, from : Nat, to : Nat,
        offer : Offers, visitor : BOOLEAN, known : SUBSET Requests,
        closed : SUBSET Blackouts, offered : SUBSET Requests, reopened : BOOLEAN]
Asked == [at : {"allow", "offer", "openings", "previewBlackouts", "previewReservations",
                "admit", "binding", "reservations", "blackouts", "insert"},
          service : Services, resource : Resources, from : Nat, to : Nat, offer : Offers,
          visitor : BOOLEAN, known : SUBSET Requests, closed : SUBSET Blackouts,
          offered : SUBSET Requests]

ServicesThere == {s \in Services : service[s].status \in OnOff}
ResourcesThere == {r \in Resources : resource[r].status \in OnOff}
Booked == {q \in Requests : booking[q] # Unbooked}
InForce == {b \in Blackouts : blackout[b].status = "on"}

BookingTypeOK ==
  /\ service \in [Services -> ServiceRow \cup {Absent, Gone}]
  /\ resource \in [Resources -> ResourceRow \cup {Absent, Gone}]
  /\ bound \in [Services -> SUBSET Resources]
  /\ open \in [Resources -> SUBSET Spans]
  /\ blackout \in [Blackouts -> [status : {"on"}, where : Resources \cup {Everywhere},
                                 from : Nat, to : Nat] \cup {Absent, Gone}]
  /\ booking \in [Requests -> Row \cup {Unbooked}]
  /\ request \in [Requests -> Asked \cup {Waiting, Over}]

\* A site that takes reservations, or one whose first service is not there yet.
BookingInit ==
  /\ service \in [Services -> [status : {"active"}, offer : Offers] \cup {Absent}]
  /\ resource = [r \in Resources |-> [status |-> "active"]]
  /\ bound = [s \in Services |-> IF service[s] = Absent THEN {} ELSE Resources]
  /\ \E w \in Spans : open = [r \in Resources |-> {w}]
  /\ blackout = [b \in Blackouts |-> Absent]
  /\ booking = [q \in Requests |-> Unbooked]
  /\ request = [q \in Requests |-> Waiting]

-----------------------------------------------------------------------------
(* A reservation *)

Overlaps(left, right) == left.from < right.to /\ left.to > right.from

\* Mutant: only reservations that start inside the span.
ReservationsStartingIn(r, span) ==
  {q \in Booked : booking[q].resource = r /\ booking[q].status \in Blocking
                  /\ span.from <= booking[q].from /\ booking[q].from < span.to}

\* Mutant: the blackouts of everything are forgotten.
BlackoutsOfItsOwn(r, span) ==
  {b \in InForce : blackout[b].where = r /\ Overlaps(blackout[b], span)}

\* A blocking reservation of r and a blackout of r, or of everything, within the span.
ReservationsIn(r, span) ==
  {q \in Booked : booking[q].resource = r /\ booking[q].status \in Blocking
                  /\ Overlaps(booking[q], span)}
BlackoutsIn(r, span) ==
  {b \in InForce : blackout[b].where \in {r, Everywhere} /\ Overlaps(blackout[b], span)}

\* The slot with the buffers of the service.  Buffers do not reach before midnight:
\* a slot starts no earlier than the opening and the buffer before it.
Reserved(x) == [from |-> x.from - x.offer.before, to |-> x.to + x.offer.after]

\* The slots of an opening.
Slot(x, w) ==
  /\ x.to = x.from + x.offer.duration
  /\ \E i \in 0..(w.to - w.from) : x.from = w.from + x.offer.before + i * Interval
  /\ x.to + x.offer.after <= w.to

\* The request goes on if what it read allows it, and fails otherwise.
Advance(q, ok, at) ==
  request' = [request EXCEPT ![q] = IF ok THEN [@ EXCEPT !.at = at] ELSE Over]

Rows == <<service, resource, bound, open, blackout, booking>>

\* A visitor's request meets the checks of the public route first.
Ask(q) ==
  /\ request[q] = Waiting
  /\ \E who \in Askers, s \in Services, r \in Resources, w \in Spans, o \in Offers :
       request' = [request EXCEPT ![q] =
         [at |-> IF who = "visitor" THEN "allow" ELSE "admit", service |-> s, resource |-> r,
          from |-> w.from, to |-> w.to, offer |-> o, visitor |-> who = "visitor",
          known |-> {}, closed |-> {}, offered |-> {}]]
  /\ UNCHANGED Rows

Active(q) == service[request[q].service].status = "active"
             /\ resource[request[q].resource].status = "active"

\* ensureSlotRequestAllowed: a visitor's resource must be bound to the service.
Allow(q) ==
  /\ request[q].at = "allow"
  /\ Advance(q, Active(q) /\ request[q].resource \in bound[request[q].service], "offer")
  /\ UNCHANGED Rows

\* previewBookingSlots reads the service and the resource anew, whatever their status.
ReadOffer(q) ==
  /\ request[q].at = "offer"
  /\ LET s == request[q].service
     IN  IF s \in ServicesThere /\ request[q].resource \in ResourcesThere
         THEN request' = [request EXCEPT ![q].at = "openings", ![q].offer = service[s].offer]
         ELSE request' = [request EXCEPT ![q] = Over]
  /\ UNCHANGED Rows

ReadOpenings(q) ==
  /\ request[q].at = "openings"
  /\ Advance(q, \E w \in open[request[q].resource] : Slot(request[q], w), "previewBlackouts")
  /\ UNCHANGED Rows

PreviewBlackouts(q) ==
  /\ request[q].at = "previewBlackouts"
  /\ Advance(q, BlackoutsIn(request[q].resource, Reserved(request[q])) = {},
             "previewReservations")
  /\ UNCHANGED Rows

\* The request goes on if the slot it asks for is among those left.
PreviewReservations(q) ==
  /\ request[q].at = "previewReservations"
  /\ request' = [request EXCEPT ![q] =
       IF ReservationsIn(@.resource, Reserved(@)) = {}
       THEN [@ EXCEPT !.at = "admit", !.offered = Booked] ELSE Over]
  /\ UNCHANGED Rows

\* createBookingReservation, from here on.
Admit(q) ==
  /\ request[q].at = "admit"
  /\ Advance(q, Active(q), "binding")
  /\ UNCHANGED Rows

\* ensureServiceResourceBinding: a service without bindings takes every resource.
EnsureBinding(q) ==
  /\ request[q].at = "binding"
  /\ LET bindings == bound[request[q].service]
     IN  Advance(q, bindings = {} \/ request[q].resource \in bindings, "reservations")
  /\ UNCHANGED Rows

\* ensureBookingWindowAvailable: the reservations, then the blackouts.
CheckReservations(q) ==
  /\ request[q].at = "reservations"
  /\ request' = [request EXCEPT ![q] =
       IF ReservationsIn(@.resource, @) = {}
       THEN [@ EXCEPT !.at = "blackouts", !.known = Booked] ELSE Over]
  /\ UNCHANGED Rows

CheckBlackouts(q) ==
  /\ request[q].at = "blackouts"
  /\ request' = [request EXCEPT ![q] =
       IF BlackoutsIn(@.resource, @) = {}
       THEN [@ EXCEPT !.at = "insert", !.closed = InForce] ELSE Over]
  /\ UNCHANGED Rows

\* The row refers to both others: the database refuses it when one is gone.
Insert(q) ==
  /\ request[q].at = "insert"
  /\ LET asked == request[q]
     IN  booking' = [booking EXCEPT ![q] =
           IF asked.service \in ServicesThere /\ asked.resource \in ResourcesThere
           THEN [status |-> "pending", service |-> asked.service, resource |-> asked.resource,
                 from |-> asked.from, to |-> asked.to, offer |-> asked.offer,
                 visitor |-> asked.visitor, known |-> asked.known, closed |-> asked.closed,
                 offered |-> asked.offered, reopened |-> FALSE]
           ELSE @]
  /\ request' = [request EXCEPT ![q] = Over]
  /\ UNCHANGED <<service, resource, bound, open, blackout>>

\* updateBookingReservationStatus: any status after any other.
SetReservationStatus(q) ==
  /\ q \in Booked
  /\ \E status \in Settable :
       booking' = [booking EXCEPT ![q].status = status,
         ![q].reopened = @ \/ (status \in Blocking /\ booking[q].status \notin Blocking)]
  /\ UNCHANGED <<service, resource, bound, open, blackout, request>>

-----------------------------------------------------------------------------
(* What administrators edit; none of it looks at the reservations *)

\* createBookingService and updateBookingService.
SetService(s) ==
  /\ "service" \in Edits /\ service[s] # Gone
  /\ \E row \in ServiceRow : service' = [service EXCEPT ![s] = row]
  /\ UNCHANGED <<resource, bound, open, blackout, booking, request>>

\* Mutant: reservations do not hold the service.
DeleteServiceUnrestricted(s) ==
  /\ "service" \in Edits /\ s \in ServicesThere
  /\ service' = [service EXCEPT ![s] = Gone]
  /\ bound' = [bound EXCEPT ![s] = {}]
  /\ UNCHANGED <<resource, open, blackout, booking, request>>

\* A row that a reservation refers to cannot be deleted; the bindings go with it.
DeleteService(s) ==
  /\ "service" \in Edits /\ s \in ServicesThere
  /\ \A q \in Booked : booking[q].service # s
  /\ service' = [service EXCEPT ![s] = Gone]
  /\ bound' = [bound EXCEPT ![s] = {}]
  /\ UNCHANGED <<resource, open, blackout, booking, request>>

SetResource(r) ==
  /\ "resource" \in Edits /\ resource[r] # Gone
  /\ \E row \in ResourceRow : resource' = [resource EXCEPT ![r] = row]
  /\ UNCHANGED <<service, bound, open, blackout, booking, request>>

\* Bindings, openings and blackouts of the resource go with it.
DeleteResource(r) ==
  /\ "resource" \in Edits /\ r \in ResourcesThere
  /\ \A q \in Booked : booking[q].resource # r
  /\ resource' = [resource EXCEPT ![r] = Gone]
  /\ bound' = [s \in Services |-> bound[s] \ {r}]
  /\ open' = [open EXCEPT ![r] = {}]
  /\ blackout' = [b \in Blackouts |->
                    IF b \in InForce /\ blackout[b].where = r THEN Gone ELSE blackout[b]]
  /\ UNCHANGED <<service, booking, request>>

SetServiceResources(s) ==
  /\ "binding" \in Edits /\ s \in ServicesThere
  /\ \E rs \in SUBSET ResourcesThere : bound' = [bound EXCEPT ![s] = rs]
  /\ UNCHANGED <<service, resource, open, blackout, booking, request>>

\* Openings of one resource do not overlap.
SetSchedules(r) ==
  /\ "schedule" \in Edits /\ r \in ResourcesThere
  /\ \E ws \in SUBSET Spans :
       /\ \A w, x \in ws : w = x \/ ~Overlaps(w, x)
       /\ open' = [open EXCEPT ![r] = ws]
  /\ UNCHANGED <<service, resource, bound, blackout, booking, request>>

CreateBlackout(b) ==
  /\ "blackout" \in Edits /\ blackout[b] = Absent
  /\ \E where \in ResourcesThere \cup {Everywhere}, w \in Spans :
       blackout' = [blackout EXCEPT ![b] =
         [status |-> "on", where |-> where, from |-> w.from, to |-> w.to]]
  /\ UNCHANGED <<service, resource, bound, open, booking, request>>

DeleteBlackout(b) ==
  /\ "blackout" \in Edits /\ b \in InForce
  /\ blackout' = [blackout EXCEPT ![b] = Gone]
  /\ UNCHANGED <<service, resource, bound, open, booking, request>>

Preview(q) ==
  Allow(q) \/ ReadOffer(q) \/ ReadOpenings(q) \/ PreviewBlackouts(q) \/ PreviewReservations(q)
Reserve(q) ==
  Admit(q) \/ EnsureBinding(q) \/ CheckReservations(q) \/ CheckBlackouts(q) \/ Insert(q)
Edit ==
  \/ \E s \in Services : SetService(s) \/ DeleteService(s) \/ SetServiceResources(s)
  \/ \E r \in Resources : SetResource(r) \/ DeleteResource(r) \/ SetSchedules(r)
  \/ \E b \in Blackouts : CreateBlackout(b) \/ DeleteBlackout(b)

BookingNext ==
  \/ \E q \in Requests : Ask(q) \/ Preview(q) \/ Reserve(q) \/ SetReservationStatus(q)
  \/ Edit

BookingSpec == BookingInit /\ [][BookingNext]_bookingVars

-----------------------------------------------------------------------------
(* Properties *)

\* The foreign keys of schema.ts: no row refers to one that is gone, whoever deletes a
\* service or a resource while a reservation is on its way or a binding is edited.
ReferencesHold ==
  /\ \A q \in Booked : booking[q].service \in ServicesThere
                       /\ booking[q].resource \in ResourcesThere
  /\ \A s \in Services : bound[s] \subseteq ResourcesThere
  /\ \A s \in Services \ ServicesThere : bound[s] = {}
  /\ \A r \in Resources \ ResourcesThere : open[r] = {}
  /\ \A b \in InForce : blackout[b].where \in ResourcesThere \cup {Everywhere}

Blocks(q) == q \in Booked /\ booking[q].status \in Blocking

\* Two reservations that block the same resource at the same time raced, each being
\* inserted after the other's check, or an administrator reopened one of them:
\* ensureBookingWindowAvailable and updateBookingReservationStatus.
SlotsExclusive ==
  \A p, q \in Requests :
    /\ p # q /\ Blocks(p) /\ Blocks(q) /\ booking[p].resource = booking[q].resource
    /\ Overlaps(booking[p], booking[q])
    => \/ p \notin booking[q].known /\ q \notin booking[p].known
       \/ booking[p].reopened \/ booking[q].reopened

\* A reservation lies in a blackout only if the blackout came after its check; and a
\* visitor's leaves its service's buffers free of every reservation its preview saw,
\* unless that one was reopened: whatever is edited in between.
WindowsRespected ==
  \A q \in Booked :
    /\ \A b \in booking[q].closed \cap InForce :
         blackout[b].where \in {booking[q].resource, Everywhere}
           => ~Overlaps(blackout[b], booking[q])
    /\ booking[q].visitor =>
         \A p \in ReservationsIn(booking[q].resource, Reserved(booking[q])) \ {q} :
           p \in booking[q].offered => booking[p].reopened
=============================================================================
