------------------------------- MODULE RideService -------------------------------
(***************************************************************************)
(* The API process around the transition handler: the pool of database     *)
(* connections, the readiness probe, the endpoints that only read, and     *)
(* what the clients know.                                                  *)
(*                                                                         *)
(* A worker of RideTransitions is a request here, from its arrival to its  *)
(* answer.  A client puts into a transition the version of some answer it  *)
(* was given; an answer can be lost.  The events that the WebSocket brings *)
(* it have no version.                                                     *)
(***************************************************************************)
EXTENDS RideTransitions

CONSTANTS
  PoolSize      \* pool_size + max_overflow

ASSUME ServiceAssumption == PoolSize \in Nat \ {0}

VARIABLES
  route,       \* route[w]: what the route called by w does next
  free,        \* the connections that no session holds
  known        \* known[u][r]: the latest version of r that user u was told, or 0

serviceVars == <<route, free, known>>
allVars == <<vars, serviceVars>>
-----------------------------------------------------------------------------------
\* The points of a route at which it has a connection.
Connected == {"handler", "probe"}

Routes == {"none", "connect", "probe_connect"} \cup Connected

ServiceInit ==
  /\ Init
  /\ route = [w \in Workers |-> "none"]
  /\ free = PoolSize
  /\ known = [u \in Users |-> [r \in Rides |-> IF u = PassengerOf[r] THEN 1 ELSE 0]]

MutantReturned(w) ==
  IF route[w] \in Connected /\ pc[w] \notin {"search", "reserve"} THEN 1 ELSE 0

\* The connections that the end of w's session gives back.
Returned(w) == IF route[w] \in Connected THEN 1 ELSE 0

\* The request of w is over: its session is closed and its answer goes out.
Return(w) ==
  /\ route' = [route EXCEPT ![w] = "none"]
  /\ free' = free + Returned(w)

\* user is told the version n of r, unless the answer is lost.
Tell(user, r, n) ==
  \/ known' = [known EXCEPT ![user][r] = IF n > @ THEN n ELSE @]
  \/ UNCHANGED known
-----------------------------------------------------------------------------------
\* A request comes to a route that uses a session, or to GET /health/ready.
Call(w) ==
  /\ route[w] = "none"
  /\ \E first \in {"connect", "probe_connect"} : route' = [route EXCEPT ![w] = first]
  /\ UNCHANGED <<vars, free, known>>

\* The first statement of a session, which is the lookup of the user or the
\* probe's own, takes a connection from the pool.
Connect(w) ==
  /\ route[w] \in {"connect", "probe_connect"}
  /\ free > 0
  /\ free' = free - 1
  /\ route' = [route EXCEPT ![w] = IF @ = "connect" THEN "handler" ELSE "probe"]
  /\ UNCHANGED <<vars, known>>

\* None was returned in time: 500, or 503 for the probe.
PoolTimeout(w) ==
  /\ route[w] \in {"connect", "probe_connect"}
  /\ free = 0
  /\ Return(w)
  /\ UNCHANGED <<vars, known>>

\* SELECT 1 and PING.
Probe(w) ==
  /\ route[w] = "probe"
  /\ Return(w)
  /\ UNCHANGED <<vars, known>>

\* get_current_user has found the user, the handler has not begun.
Ready(w) == route[w] = "handler" /\ pc[w] \notin Busy

\* It has not found the user, or has failed.
Refuse(w) ==
  /\ Ready(w)
  /\ Return(w)
  /\ UNCHANGED <<vars, known>>

\* The check of get_ride.
MayRead(user, r) ==
  \/ user \in Passengers /\ user = PassengerOf[r]
  \/ user \in Drivers /\ rides[r].driver \in {NoDriver, user}
  \/ user \in Admins

\* GET /rides/{id}.
GetRide(w, user, r) ==
  /\ Ready(w)
  /\ Return(w)
  /\ \/ ~MayRead(user, r) /\ UNCHANGED known
     \/ MayRead(user, r) /\ Tell(user, r, rides[r].version)
  /\ UNCHANGED vars

\* GET /rides: the rides of a driver, or of a passenger.
ListMyRides(w, user) ==
  LET mine == {r \in Rides : user \in {PassengerOf[r], rides[r].driver}} IN
  /\ Ready(w)
  /\ Return(w)
  /\ \/ known' = [known EXCEPT ![user] =
           [r \in Rides |-> IF r \in mine /\ rides[r].version > @[r]
                            THEN rides[r].version ELSE @[r]]]
     \/ UNCHANGED known
  /\ UNCHANGED vars

\* POST /rides/{id}/transition begins.  expected_version is one that the user was
\* told, or an older one.
Transition(w, user, r, target) ==
  /\ Ready(w)
  /\ \E expected \in 1 .. known[user][r] : ReadRide(w, r, user, target, expected)
  /\ IF pc'[w] \in Busy THEN UNCHANGED <<route, free>> ELSE Return(w)
  /\ UNCHANGED known

\* A step of the handler.  A 200 has the row, a 409 tells the client to read it.
Handle(w) ==
  LET s == session[w] IN
  /\ Handler(w)
  /\ IF pc'[w] \in Busy THEN UNCHANGED <<route, free>> ELSE Return(w)
  /\ IF pc'[w] = "200" THEN Tell(s.user, s.ride, s.row.version) ELSE UNCHANGED known

MutantToldByFailure(w) == session[w].row.version

\* The version that the answer to a request which failed tells its user.
ToldByFailure(w) == 0

HandlerFails(w) ==
  /\ Abort(w)
  /\ Return(w)
  /\ Tell(session[w].user, session[w].ride, ToldByFailure(w))
-----------------------------------------------------------------------------------
\* What a request does once its route is called and it has a connection.
Serve(w) ==
  \/ Probe(w)
  \/ Refuse(w)
  \/ \E user \in Users, r \in Rides :
       GetRide(w, user, r) \/ \E target \in RideStatus : Transition(w, user, r, target)
  \/ \E user \in Users : ListMyRides(w, user)

\* Whatever brings the request of w forward.
Proceed(w) == Connect(w) \/ Serve(w) \/ Handle(w)

ServiceNext ==
  \/ \E w \in Workers : Call(w) \/ Proceed(w) \/ PoolTimeout(w) \/ HandlerFails(w)
  \/ Pool /\ UNCHANGED serviceVars

\* The event loop runs whatever can go on; the pool serves its waiters in the
\* order they came, as the row lock does: strong fairness.  Neither failures nor
\* the timeout of the pool have to come to anyone's help.
ServiceSpec ==
  /\ ServiceInit /\ [][ServiceNext]_allVars
  /\ \A w \in Workers : SF_allVars(Proceed(w))
-----------------------------------------------------------------------------------
\* The types of the pool and of what clients know; a request is in the handler
\* only with a connection.
ServiceTypeOK ==
  /\ TypeOK
  /\ route \in [Workers -> Routes]
  /\ free \in Nat
  /\ known \in [Users -> [Rides -> Nat]]
  /\ \A w \in Workers : pc[w] \in Busy => route[w] = "handler"

\* Whatever becomes of a request, its connection is free again when it is over:
\* the connections that are not free are those of requests in progress.
ConnectionsAreReturned ==
  free + Cardinality({w \in Workers : route[w] \in Connected}) = PoolSize

\* The request of w waits for nothing that another one has.
CanGoOn(w) ==
  \/ route[w] \in {"connect", "probe_connect"} /\ free > 0
  \/ route[w] = "probe" \/ Ready(w)
  \/ pc[w] = "update" /\ (VersionMatches(w) => ~Locked(session[w].ride))
  \/ pc[w] \in Holding

\* A request has a next step exactly if it waits for nobody, whatever Redis and Postgres
\* gave it until then: a search without a result, a reservation that expired before the
\* GET of a release or after it.  So NoWaitIsCircular, which goes by CanGoOn, is about
\* all that a request can wait for.
NobodyIsStuckAlone == \A w \in Workers : CanGoOn(w) <=> ENABLED Proceed(w)

\* The wait for a connection and the wait for a row lock never close a circle: whoever
\* waits, another request that has a connection can go on.  It holds because no
\* one takes a connection after a row lock.
NoWaitIsCircular ==
  \A w \in Workers : route[w] # "none" /\ ~CanGoOn(w) =>
    \E v \in Workers \ {w} : route[v] \in Connected /\ CanGoOn(v)

\* No client is told of a version that is not committed, whatever fails: the answer
\* is sent after the commit, hence the version a client sends is never ahead of the
\* row.
KnownIsCommitted ==
  \A user \in Users, r \in Rides : known[user][r] <= rides[r].version

\* Every request is answered, in the queue for a connection or in its route, even
\* if the pool never times out: requests that wait for a row lock keep their
\* connections, yet whoever holds the lock has one too.
EveryCallReturns == \A w \in Workers : route[w] # "none" ~> route[w] = "none"

Honest == INSTANCE RideTransitions WITH Lookahead <- 0

\* Clients that send versions they were told, through all layers and whatever
\* answers are lost, are the clients of RideTransitions with Lookahead = 0.  This is
\* Honest!Spec; most steps of the service are none of the handler's, so TLC is given
\* that case first.
ImplementsTransitions ==
  Honest!Init /\ [][UNCHANGED Honest!vars \/ Honest!Next]_(Honest!vars)
===================================================================================
