----------------------------- MODULE RideTransitions -----------------------------
(***************************************************************************)
(* POST /rides/{id}/transition: the handler, the state machine it calls,   *)
(* driver discovery and reservation in Redis, and the Postgres transaction *)
(* around all of it.                                                       *)
(*                                                                         *)
(* A worker is one request in progress, with its own database session and  *)
(* connection.  Every await of the handler that touches shared state is a  *)
(* step of its own, so the requests interleave at exactly those points:    *)
(*                                                                         *)
(*   ReadRide       db.get, the authorization and the legality checks      *)
(*   UpdateRow /    the conditional UPDATE: it takes the row's lock, or    *)
(*   UpdateStale    matches no row                                         *)
(*   Search         GEOSEARCH                                              *)
(*   TryReserve     SET NX EX for one candidate                            *)
(*   Resolve        the second apply_transition of a matching request      *)
(*   ReleaseGet,    the GET and the DEL of release_driver_reservation      *)
(*   ReleaseDelete                                                         *)
(*   Commit         get_db's commit, after the handler returned            *)
(*   Abort          an exception at any await, or the death of the process *)
(*                                                                         *)
(* Postgres runs at READ COMMITTED.  An UPDATE whose WHERE clause matches  *)
(* the committed row waits while another transaction holds the row; one    *)
(* whose WHERE clause does not match affects zero rows at once.  What a    *)
(* transaction wrote is in its session until Commit.                       *)
(***************************************************************************)
EXTENDS RideStateMachine, FiniteSets

CONSTANTS
  Rides,         \* ids of the rides, all created before the model starts
  Passengers,    \* ids of the users whose role is "passenger"
  Admins,        \* ids of the users whose role is "admin"
  PassengerOf,   \* PassengerOf[r]: rides.passenger_id, never updated
  Workers,       \* requests that can be in progress at once
  NoRide,        \* the reservation key of a driver does not exist
  NoSession,     \* a worker between two requests
  SearchCount,   \* the COUNT of GEOSEARCH
  MaxVersion,    \* bound: no request starts that could pass this version
  Lookahead      \* how far past the row's version expected_version may lie:
                 \* 0 for clients that send a version they have read

ASSUME RidesAssumption ==
  /\ NoRide \notin Rides
  /\ PassengerOf \in [Rides -> Passengers]
ASSUME BoundsAssumption ==
  /\ SearchCount \in Nat
  /\ MaxVersion \in Nat
  /\ Lookahead \in Nat

Users == Passengers \cup Drivers \cup Admins

VARIABLES
  rides,         \* Postgres: the committed row of each ride
  outbox,        \* Postgres: the committed outbox events of each ride
  geo,           \* Redis: the members of drivers:geo
  reservation,   \* Redis: driver:reservation:{d}, the ride that holds d
  pc,            \* pc[w]: the next await of worker w, or its last answer
  session,       \* session[w]: the request's parameters and its transaction
  voided         \* history: voided[d], the rides whose reservation of d
                 \* expired or was deleted

vars == <<rides, outbox, geo, reservation, pc, session, voided>>
redisVars == <<geo, reservation, voided>>
-----------------------------------------------------------------------------------
Answered == {"idle", "200", "403", "409", "422", "500"}

\* The program points at which a transaction holds the lock of its ride's row.
Holding == {"search", "reserve", "release", "delete", "commit"}

Busy == {"update"} \cup Holding

Session ==
  [ride     : Rides,                      \* path parameter
   user     : Users,                      \* the authenticated user
   target   : RideStatus,                 \* payload.target_status
   expected : Nat,                        \* payload.expected_version
   row      : Row,                        \* the ORM object of the ride
   events   : Seq(Event),                 \* OutboxEvents added, not committed
   cands    : SUBSET Drivers,             \* GEOSEARCH results not yet tried
   driver   : Drivers \cup {NoDriver}]    \* the driver reserved

\* The transaction of w ends, with or without its effects, and its connection
\* returns to the pool.
Answer(w, code) ==
  /\ pc' = [pc EXCEPT ![w] = code]
  /\ session' = [session EXCEPT ![w] = NoSession]

Goto(w, point) == pc' = [pc EXCEPT ![w] = point]
-----------------------------------------------------------------------------------
(* The checks of transition_ride and assert_valid_transition.              *)

Authorized(user, r, row, target) ==
  \/ user = PassengerOf[r]
  \/ user \in Drivers /\ row.driver = user
  \/ user \in Admins
  \/ user \in Drivers /\ row.driver = NoDriver /\ target = "accepted"

MutantAllowed(status, target) == target # status

Allowed(status, target) == target \in RIDE_TRANSITIONS[status]

\* The requests that enter the matching branch.
StartsMatching(status, target) == target = "matching" /\ status = "requested"
-----------------------------------------------------------------------------------
(* apply_transition: what the UPDATE, the refresh and the OutboxEvent do   *)
(* to the session.                                                         *)

MutantStatusChanged(previous, row) ==
  [previous_status |-> row.status, new_status |-> row.status, driver |-> row.driver]

\* The payload: previous is the status the handler read before the UPDATE,
\* row is the refreshed ORM object.
StatusChanged(previous, row) ==
  [previous_status |-> previous, new_status |-> row.status, driver |-> row.driver]

\* Some transaction has updated the row of r and is not over.
Locked(r) == \E w \in Workers : pc[w] \in Holding /\ session[w].ride = r

MutantVersionMatches(w) == session[w].expected <= rides[session[w].ride].version

\* WHERE id = ride.id AND version = expected_version, on the committed row.
VersionMatches(w) == session[w].expected = rides[session[w].ride].version

\* Where the handler goes once the first apply_transition returned.
AfterUpdate(previous, row) ==
  IF StartsMatching(previous, row.status) THEN "search"
  ELSE IF row.status = "cancelled" /\ row.driver # NoDriver THEN "release"
  ELSE "commit"
-----------------------------------------------------------------------------------
Init ==
  /\ rides = [r \in Rides |-> NewRide]
  /\ outbox = [r \in Rides |-> <<>>]
  /\ geo \in SUBSET Drivers
  /\ reservation = [d \in Drivers |-> NoRide]
  /\ pc = [w \in Workers |-> "idle"]
  /\ session = [w \in Workers |-> NoSession]
  /\ voided = [d \in Drivers |-> {}]

\* A request arrives: db.get reads the committed row, then the handler checks
\* authorization (403) and legality (422) on what it read.
ReadRide(w, r, user, target, expected) ==
  /\ pc[w] \in Answered
  /\ expected <= rides[r].version + Lookahead
  /\ expected + 2 <= MaxVersion
  /\ UNCHANGED <<rides, outbox, redisVars>>
  /\ \/ /\ ~Authorized(user, r, rides[r], target)
        /\ Answer(w, "403")
     \/ /\ Authorized(user, r, rides[r], target)
        /\ ~Allowed(rides[r].status, target)
        /\ Answer(w, "422")
     \/ /\ Authorized(user, r, rides[r], target)
        /\ Allowed(rides[r].status, target)
        /\ Goto(w, "update")
        /\ session' = [session EXCEPT ![w] =
             [ride |-> r, user |-> user, target |-> target, expected |-> expected,
              row |-> rides[r], events |-> <<>>, cands |-> {}, driver |-> NoDriver]]

\* The conditional UPDATE found the row and locked it; the ORM object is
\* refreshed and the event added to the session.
UpdateRow(w) ==
  LET s   == session[w]
      new == Updated(rides[s.ride], s.target, rides[s.ride].driver)
  IN  /\ pc[w] = "update"
      /\ VersionMatches(w)
      /\ ~Locked(s.ride)
      /\ session' = [session EXCEPT ![w].row = new,
                                    ![w].events = <<StatusChanged(s.row.status, new)>>]
      /\ Goto(w, AfterUpdate(s.row.status, new))
      /\ UNCHANGED <<rides, outbox, redisVars>>

\* The conditional UPDATE matched no row: StaleVersionError, rollback, 409.
UpdateStale(w) ==
  /\ pc[w] = "update"
  /\ ~VersionMatches(w)
  /\ Answer(w, "409")
  /\ UNCHANGED <<rides, outbox, redisVars>>

\* find_nearby_drivers: at most SearchCount members of the pool.  Positions are
\* abstracted to which members happen to be in range.
Search(w) ==
  /\ pc[w] = "search"
  /\ \E near \in SUBSET geo :
       /\ Cardinality(near) <= SearchCount
       /\ session' = [session EXCEPT ![w].cands = near]
  /\ Goto(w, "reserve")
  /\ UNCHANGED <<rides, outbox, redisVars>>

MutantUnreserved(d) == TRUE

\* SET NX succeeds only if the key does not exist.
Unreserved(d) == reservation[d] = NoRide

\* try_reserve_driver for the nearest candidate not yet tried (any of them, as
\* positions are abstracted): stop at the first success, else go on.
TryReserve(w, d) ==
  LET r == session[w].ride IN
  /\ pc[w] = "reserve"
  /\ d \in session[w].cands
  /\ \/ /\ Unreserved(d)
        /\ reservation' = [reservation EXCEPT ![d] = r]
        /\ voided' = [voided EXCEPT ![d] = @ \ {r}]
        /\ session' = [session EXCEPT ![w].cands = {}, ![w].driver = d]
     \/ /\ ~Unreserved(d)
        /\ session' = [session EXCEPT ![w].cands = @ \ {d}]
        /\ UNCHANGED <<reservation, voided>>
  /\ UNCHANGED <<rides, outbox, geo, pc>>

MutantSearchOver(w) == session[w].driver # NoDriver

\* find_and_reserve_driver returns: a driver was reserved, or none is left.
SearchOver(w) == session[w].cands = {}

\* The second apply_transition of a matching request.  Its WHERE clause holds:
\* the transaction already owns the row and passes the version it wrote.
Resolve(w) ==
  LET s     == session[w]
      found == s.driver # NoDriver
      new   == IF found THEN Updated(s.row, "accepted", s.driver)
                        ELSE Updated(s.row, "no_drivers_found", s.row.driver)
  IN  /\ pc[w] = "reserve"
      /\ SearchOver(w)
      /\ session' = [session EXCEPT ![w].row = new,
                                    ![w].events = Append(@, StatusChanged(s.row.status, new))]
      /\ Goto(w, "commit")
      /\ UNCHANGED <<rides, outbox, redisVars>>

MutantOwnsReservation(w, d) == FALSE

\* "current == ride_id" in release_driver_reservation.
OwnsReservation(w, d) == reservation[d] = session[w].ride

\* The GET: the key is deleted next only if it still names this ride.
ReleaseGet(w) ==
  /\ pc[w] = "release"
  /\ Goto(w, IF OwnsReservation(w, session[w].row.driver) THEN "delete" ELSE "commit")
  /\ UNCHANGED <<rides, outbox, redisVars, session>>

\* The reservation of d ends, whoever holds it.
DropReservation(d) ==
  /\ reservation' = [reservation EXCEPT ![d] = NoRide]
  /\ voided' = [voided EXCEPT ![d] =
                  IF reservation[d] = NoRide THEN @ ELSE @ \cup {reservation[d]}]

\* The DEL, unconditional: the key may have changed since the GET.
ReleaseDelete(w) ==
  /\ pc[w] = "delete"
  /\ DropReservation(session[w].row.driver)
  /\ Goto(w, "commit")
  /\ UNCHANGED <<rides, outbox, geo, session>>

MutantCommittedEvents(w) == <<Head(session[w].events)>>

\* The rows that the flush before the commit inserts into outbox_events.
CommittedEvents(w) == session[w].events

\* get_db commits once the handler has returned: the row and its events become
\* visible together.
Commit(w) ==
  LET s == session[w] IN
  /\ pc[w] = "commit"
  /\ rides' = [rides EXCEPT ![s.ride] = s.row]
  /\ outbox' = [outbox EXCEPT ![s.ride] = @ \o CommittedEvents(w)]
  /\ Answer(w, "200")
  /\ UNCHANGED redisVars

MutantAbort(w) ==
  /\ pc[w] \in Busy
  /\ session' = [session EXCEPT ![w] = NoSession]
  /\ UNCHANGED <<rides, outbox, redisVars, pc>>

\* A Redis or database error, a failed commit or the death of the process: the
\* transaction is rolled back, what was done to Redis stays done.
Abort(w) ==
  /\ pc[w] \in Busy
  /\ Answer(w, "500")
  /\ UNCHANGED <<rides, outbox, redisVars>>

\* Redis: the EX ttl of a reservation runs out.  Requests have no deadline, so
\* this may happen at any moment.
Expire(d) ==
  /\ reservation[d] # NoRide
  /\ DropReservation(d)
  /\ UNCHANGED <<rides, outbox, geo, pc, session>>

\* GEOADD and ZREM by the drivers' own requests and by the eviction job.
JoinPool(d) ==
  /\ geo' = geo \cup {d}
  /\ UNCHANGED <<rides, outbox, reservation, pc, session, voided>>

LeavePool(d) ==
  /\ geo' = geo \ {d}
  /\ UNCHANGED <<rides, outbox, reservation, pc, session, voided>>
-----------------------------------------------------------------------------------
Request(w) ==
  \E r \in Rides, user \in Users, target \in RideStatus, expected \in 1 .. MaxVersion :
    ReadRide(w, r, user, target, expected)

\* The steps of the handler itself, each the code between two awaits.
Handler(w) ==
  \/ UpdateRow(w)
  \/ UpdateStale(w)
  \/ Search(w)
  \/ \E d \in Drivers : TryReserve(w, d)
  \/ Resolve(w)
  \/ ReleaseGet(w)
  \/ ReleaseDelete(w)
  \/ Commit(w)

Pool == \E d \in Drivers : Expire(d) \/ JoinPool(d) \/ LeavePool(d)

Next ==
  \/ \E w \in Workers : Request(w) \/ Handler(w) \/ Abort(w)
  \/ Pool

Spec == Init /\ [][Next]_vars
-----------------------------------------------------------------------------------
(* Properties                                                              *)

\* Tables, keys and sessions have the types of their columns and fields, and a
\* request in progress has a session.
TypeOK ==
  /\ rides \in [Rides -> Row]
  /\ outbox \in [Rides -> Seq(Event)]
  /\ geo \in SUBSET Drivers
  /\ reservation \in [Drivers -> Rides \cup {NoRide}]
  /\ pc \in [Workers -> Answered \cup Busy]
  /\ session \in [Workers -> Session \cup {NoSession}]
  /\ voided \in [Drivers -> SUBSET Rides]
  /\ \A w \in Workers : pc[w] \in Busy => session[w] \in Session

\* The optimistic concurrency control, seen from inside: whatever a request has
\* read before, the one that updated a row and holds its lock decided on the row
\* as it is committed now.  Its event starts from that row's status, its move is
\* an edge out of it, and its user may make it.
ActsOnCurrentRow ==
  \A w \in Workers : pc[w] \in Holding =>
    LET s == session[w]
        old == rides[s.ride]
    IN  /\ s.events[1].previous_status = old.status
        /\ Allowed(old.status, s.target)
        /\ Authorized(s.user, s.ride, old, s.target)

\* The ride serves, or is about to be committed as served by, driver d.
Engages(r, d) ==
  \/ rides[r].driver = d /\ rides[r].status \in ActiveStatus
  \/ \E w \in Workers : pc[w] \in Holding /\ session[w].ride = r /\ session[w].driver = d

\* What SET NX is worth: two rides are engaged with one driver at once only if
\* the reservation of one of them has expired or was deleted in the meantime.
ReservationExclusive ==
  \A d \in Drivers : \A r1, r2 \in Rides :
    Engages(r1, d) /\ Engages(r2, d) /\ r1 # r2 => r1 \in voided[d] \/ r2 \in voided[d]

\* Once a cancellation is committed, the cancelled ride no longer holds back the
\* driver it had: the release happened before, and nothing re-reserved.
CancelFreesDriver ==
  \A r \in Rides, d \in Drivers :
    rides[r].status = "cancelled" /\ rides[r].driver = d => reservation[d] # r

\* What a commit may never do: take a ride out of a final status, change its
\* passenger-visible driver once it has one, or move its version back.
NothingIsUndone ==
  [][\A r \in Rides :
       /\ rides[r].status \in {"completed", "cancelled"} => rides'[r] = rides[r]
       /\ rides[r].driver # NoDriver => rides'[r].driver = rides[r].driver
       /\ rides'[r] # rides[r] => rides'[r].version > rides[r].version]_rides

\* A commit adds one event to those of its ride, or the first two, and by then every
\* other request that has read that ride has lost and will add none.
OneWriterAtATime ==
  [][\A r \in Rides : outbox'[r] # outbox[r] =>
       /\ \E n \in 1 .. 2 : /\ Len(outbox'[r]) = Len(outbox[r]) + n
                            /\ n = 2 => outbox[r] = <<>>
       /\ \A w \in Workers : pc'[w] \in Busy /\ session'[w].ride = r =>
            session'[w].expected < rides'[r].version]_outbox

Ledger == INSTANCE RideLedger

\* The handlers, with all their interleavings and failures, implement the ledger
\* in which every transition is one indivisible step.
ImplementsLedger == Ledger!Spec

\* The outbox, read in commit order, tells the whole story of every row: each
\* event starts where the one before it ended, and the last one ends where the
\* row is; a consumer that replays it ends up with the ride.
OutboxTellsState == Ledger!HistoryTellsState

\* From its second event on, every event of a ride names the driver the row names
\* now: no commit assigned one without saying so, or replaced one.
OutboxNamesTheDriver == Ledger!EventsNameTheDriver
-----------------------------------------------------------------------------------
(* Statements of the documentation that the code does not meet.            *)

\* "prevents two ride requests from double-booking the same driver".
NoDoubleBooking ==
  \A r1, r2 \in Rides :
    /\ rides[r1].status \in ActiveStatus
    /\ rides[r2].status \in ActiveStatus
    /\ rides[r1].driver # NoDriver
    /\ rides[r1].driver = rides[r2].driver
    => r1 = r2

\* accepted: "a driver has been reserved & accepted".
AcceptedHasDriver ==
  \A r \in Rides : rides[r].status = "accepted" => rides[r].driver # NoDriver

\* "a transition is only applied if it appears in RIDE_TRANSITIONS[current_status]".
TransitionsAreLegal ==
  [][\A r \in Rides :
       rides'[r].status # rides[r].status =>
         \/ rides'[r].status \in RIDE_TRANSITIONS[rides[r].status]
         \/ /\ rides[r].status = "requested"
            /\ rides'[r].status \in {"accepted", "no_drivers_found"}]_rides
===================================================================================
