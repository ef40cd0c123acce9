----------------------------- MODULE RideServiceProofs -----------------------------
(***************************************************************************)
(* Proofs about RideService: whatever is proved of the transition handler  *)
(* for clients that send versions they have read is true of the service,   *)
(* whose clients send versions they were told.                             *)
(***************************************************************************)
EXTENDS RideService, FiniteSetTheorems, TLAPS

\* The results about the handler, for Lookahead = 0.
Core == INSTANCE RideTransitionsProofs WITH Lookahead <- 0

-----------------------------------------------------------------------------------
(* Core, Honest and what RideService extends are one module, except for the *)
(* guard of ReadRide, which names Lookahead.                                *)

\* The steps of the handler do not depend on Lookahead.
LEMMA SameHandler ==
  ASSUME NEW w
  PROVE  /\ Handler(w) <=> Core!Handler(w)
         /\ Handler(w) <=> Honest!Handler(w)
<1>1. /\ UpdateRow(w) <=> Core!UpdateRow(w)
      /\ UpdateRow(w) <=> Honest!UpdateRow(w)
  BY Zenon
  DEF UpdateRow, Core!UpdateRow, Honest!UpdateRow,
      VersionMatches, Core!VersionMatches, Honest!VersionMatches,
      Locked, Core!Locked, Honest!Locked, Holding, Core!Holding, Honest!Holding,
      StatusChanged, Core!StatusChanged, Honest!StatusChanged,
      Updated, Core!Updated, Honest!Updated, Goto, Core!Goto, Honest!Goto,
      AfterUpdate, Core!AfterUpdate, Honest!AfterUpdate,
      StartsMatching, Core!StartsMatching, Honest!StartsMatching,
      redisVars, Core!redisVars, Honest!redisVars
<1>2. /\ UpdateStale(w) <=> Core!UpdateStale(w)
      /\ UpdateStale(w) <=> Honest!UpdateStale(w)
  BY Zenon
  DEF UpdateStale, Core!UpdateStale, Honest!UpdateStale,
      VersionMatches, Core!VersionMatches, Honest!VersionMatches,
      Answer, Core!Answer, Honest!Answer, redisVars, Core!redisVars, Honest!redisVars
<1>3. /\ Search(w) <=> Core!Search(w)
      /\ Search(w) <=> Honest!Search(w)
  BY Zenon
  DEF Cardinality, Core!Cardinality, Honest!Cardinality, Search, Core!Search, Honest!Search, Goto, Core!Goto, Honest!Goto,
      redisVars, Core!redisVars, Honest!redisVars
<1>4. ASSUME NEW d
      PROVE  /\ TryReserve(w, d) <=> Core!TryReserve(w, d)
             /\ TryReserve(w, d) <=> Honest!TryReserve(w, d)
  BY Zenon
  DEF TryReserve, Core!TryReserve, Honest!TryReserve,
      Unreserved, Core!Unreserved, Honest!Unreserved
<1>5. /\ Resolve(w) <=> Core!Resolve(w)
      /\ Resolve(w) <=> Honest!Resolve(w)
  BY Zenon
  DEF Resolve, Core!Resolve, Honest!Resolve,
      SearchOver, Core!SearchOver, Honest!SearchOver,
      Updated, Core!Updated, Honest!Updated,
      StatusChanged, Core!StatusChanged, Honest!StatusChanged,
      Goto, Core!Goto, Honest!Goto, redisVars, Core!redisVars, Honest!redisVars
<1>6. /\ ReleaseGet(w) <=> Core!ReleaseGet(w)
      /\ ReleaseGet(w) <=> Honest!ReleaseGet(w)
  BY Zenon
  DEF ReleaseGet, Core!ReleaseGet, Honest!ReleaseGet,
      OwnsReservation, Core!OwnsReservation, Honest!OwnsReservation,
      Goto, Core!Goto, Honest!Goto, redisVars, Core!redisVars, Honest!redisVars
<1>7. /\ ReleaseDelete(w) <=> Core!ReleaseDelete(w)
      /\ ReleaseDelete(w) <=> Honest!ReleaseDelete(w)
  BY Zenon
  DEF ReleaseDelete, Core!ReleaseDelete, Honest!ReleaseDelete,
      DropReservation, Core!DropReservation, Honest!DropReservation,
      Goto, Core!Goto, Honest!Goto
<1>8. /\ Commit(w) <=> Core!Commit(w)
      /\ Commit(w) <=> Honest!Commit(w)
  BY Zenon
  DEF Commit, Core!Commit, Honest!Commit,
      CommittedEvents, Core!CommittedEvents, Honest!CommittedEvents,
      Answer, Core!Answer, Honest!Answer, redisVars, Core!redisVars, Honest!redisVars
<1> QED
  BY Zenon, <1>1, <1>2, <1>3, <1>4, <1>5, <1>6, <1>7, <1>8
  DEF Handler, Core!Handler, Honest!Handler

LEMMA SameAbort ==
  ASSUME NEW w
  PROVE  /\ Abort(w) <=> Core!Abort(w)
         /\ Abort(w) <=> Honest!Abort(w)
BY Zenon
DEF Abort, Core!Abort, Honest!Abort, Busy, Core!Busy, Honest!Busy,
    Holding, Core!Holding, Honest!Holding, Answer, Core!Answer, Honest!Answer,
    redisVars, Core!redisVars, Honest!redisVars

LEMMA SamePool ==
  /\ Pool <=> Core!Pool
  /\ Pool <=> Honest!Pool
BY Zenon
DEF Pool, Core!Pool, Honest!Pool, Expire, Core!Expire, Honest!Expire,
    DropReservation, Core!DropReservation, Honest!DropReservation,
    JoinPool, Core!JoinPool, Honest!JoinPool, LeavePool, Core!LeavePool, Honest!LeavePool

LEMMA SameVars == vars = Core!vars /\ vars = Honest!vars
BY Zenon DEF vars, Core!vars, Honest!vars

LEMMA SameInit == (Init <=> Core!Init) /\ (Init <=> Honest!Init)
BY Zenon DEF Init, Core!Init, Honest!Init, NewRide, Core!NewRide, Honest!NewRide

\* Honest, which states the refinement, and Core, which has the proofs.
LEMMA SameRequest ==
  ASSUME NEW w
  PROVE  Honest!Request(w) <=> Core!Request(w)
BY Zenon
DEF Honest!Request, Core!Request, Honest!ReadRide, Core!ReadRide,
    Honest!Authorized, Core!Authorized, Honest!Allowed, Core!Allowed,
    Honest!RIDE_TRANSITIONS, Core!RIDE_TRANSITIONS, Honest!Answer, Core!Answer,
    Honest!Goto, Core!Goto, Honest!Answered, Core!Answered,
    Honest!redisVars, Core!redisVars, Honest!Users, Core!Users,
    Honest!RideStatus, Core!RideStatus

LEMMA SameNext == Honest!Next <=> Core!Next
BY Zenon, SameHandler, SameAbort, SamePool, SameRequest DEF Honest!Next, Core!Next

LEMMA SameType == TypeOK <=> Core!TypeOK
BY Zenon
DEF TypeOK, Core!TypeOK, Row, Core!Row, Event, Core!Event, RideStatus, Core!RideStatus,
    Session, Core!Session, Users, Core!Users, Answered, Core!Answered,
    Busy, Core!Busy, Holding, Core!Holding
-----------------------------------------------------------------------------------
(* What clients know.                                                      *)

\* The inductive invariant of the service: that of the handler, and what clients
\* know.
ServiceInv == Core!Inv /\ ServiceTypeOK /\ KnownIsCommitted

\* Telling a client something changes what it knows of one ride.
LEMMA TellStep ==
  ASSUME known \in [Users -> [Rides -> Nat]], NEW user \in Users, NEW r \in Rides,
         NEW n \in Nat, Tell(user, r, n)
  PROVE  /\ known' \in [Users -> [Rides -> Nat]]
         /\ \A u \in Users, q \in Rides :
              \/ known'[u][q] = known[u][q]
              \/ q = r /\ known'[u][q] = n
BY DEF Tell

\* Of the handler's steps, only Commit answers 200.
LEMMA OnlyCommitAnswers ==
  ASSUME TypeOK, NEW w \in Workers, Handler(w), pc'[w] = "200"
  PROVE  Commit(w)
<1>1. ASSUME UpdateRow(w) PROVE FALSE
  BY <1>1 DEF UpdateRow, Goto, AfterUpdate, TypeOK
<1>2. ASSUME UpdateStale(w) PROVE FALSE
  BY <1>2 DEF UpdateStale, Answer, TypeOK
<1>3. ASSUME Search(w) \/ Resolve(w) \/ ReleaseGet(w) \/ ReleaseDelete(w) PROVE FALSE
  BY <1>3 DEF Search, Resolve, ReleaseGet, ReleaseDelete, Goto, TypeOK
<1>4. ASSUME NEW d \in Drivers, TryReserve(w, d) PROVE FALSE
  BY <1>4 DEF TryReserve
<1> QED
  BY <1>1, <1>2, <1>3, <1>4 DEF Handler

\* A step leaves what clients know as it is, or tells one of them a version that
\* is committed after it.
LEMMA KnownStep ==
  ASSUME ServiceTypeOK, TypeOK', [ServiceNext]_allVars
  PROVE  /\ known' \in [Users -> [Rides -> Nat]]
         /\ \A u \in Users, q \in Rides :
              \/ known'[u][q] = known[u][q]
              \/ known'[u][q] <= rides'[q].version
<1> DEFINE G == /\ known' \in [Users -> [Rides -> Nat]]
                /\ \A u \in Users, q \in Rides :
                     \/ known'[u][q] = known[u][q]
                     \/ known'[u][q] <= rides'[q].version
<1>0. /\ known \in [Users -> [Rides -> Nat]]
      /\ rides \in [Rides -> Row] /\ rides' \in [Rides -> Row]
      /\ \A q \in Rides : rides[q].version \in Nat /\ rides'[q].version \in Nat
  BY DEF ServiceTypeOK, TypeOK, Row
<1>1. ASSUME UNCHANGED known PROVE G
  BY <1>0, <1>1
<1>2. ASSUME NEW w \in Workers, NEW user \in Users, NEW r \in Rides, GetRide(w, user, r)
      PROVE  G
  <2>1. rides' = rides
    BY <1>2 DEF GetRide, vars
  <2>2. UNCHANGED known \/ Tell(user, r, rides[r].version)
    BY <1>2 DEF GetRide
  <2> QED
    BY <1>0, <1>1, <2>1, <2>2, TellStep
<1>3. ASSUME NEW w \in Workers, NEW user \in Users, ListMyRides(w, user) PROVE G
  <2>1. rides' = rides
    BY <1>3 DEF ListMyRides, vars
  <2>2. \/ UNCHANGED known
        \/ \E mine \in SUBSET Rides :
             known' = [known EXCEPT ![user] =
               [r \in Rides |-> IF r \in mine /\ rides[r].version > @[r]
                                THEN rides[r].version ELSE @[r]]]
    BY <1>3 DEF ListMyRides
  <2> QED
    BY <1>0, <1>1, <2>1, <2>2
<1>4. ASSUME NEW w \in Workers, Handle(w) PROVE G
  <2>1. CASE pc'[w] # "200"
    BY <1>1, <1>4, <2>1 DEF Handle
  <2>2. CASE pc'[w] = "200"
    <3>1. Commit(w) /\ Tell(session[w].user, session[w].ride, session[w].row.version)
      BY <1>4, <2>2, OnlyCommitAnswers DEF Handle, ServiceTypeOK
    <3>2. session[w] \in Session
      BY <3>1 DEF Commit, ServiceTypeOK, TypeOK, Busy, Holding
    <3>3. /\ session[w].user \in Users /\ session[w].ride \in Rides
          /\ session[w].row.version \in Nat
      BY <3>2 DEF Session, Row
    <3>4. rides'[session[w].ride].version = session[w].row.version
      BY <1>0, <3>1, <3>3 DEF Commit
    <3> QED
      BY <1>0, <3>1, <3>3, <3>4, TellStep
  <2> QED
    BY <2>1, <2>2
<1>5. ASSUME NEW w \in Workers, HandlerFails(w) PROVE G
  <2>1. session[w] \in Session
    BY <1>5 DEF HandlerFails, Abort, ServiceTypeOK, TypeOK
  <2>2. session[w].user \in Users /\ session[w].ride \in Rides
    BY <2>1 DEF Session
  <2>3. Tell(session[w].user, session[w].ride, 0)
    BY <1>5 DEF HandlerFails, ToldByFailure
  <2> QED
    BY <1>0, <2>2, <2>3, TellStep
<1>6. ASSUME NEW w \in Workers, Call(w) \/ Connect(w) \/ PoolTimeout(w) \/ Probe(w) \/ Refuse(w)
      PROVE  G
  BY <1>1, <1>6 DEF Call, Connect, PoolTimeout, Probe, Refuse
<1>7. ASSUME NEW w \in Workers, NEW user \in Users, NEW r \in Rides, NEW target \in RideStatus,
             Transition(w, user, r, target)
      PROVE  G
  BY <1>1, <1>7 DEF Transition
<1>8. ASSUME (Pool /\ UNCHANGED serviceVars) \/ UNCHANGED allVars PROVE G
  BY <1>1, <1>8 DEF serviceVars, allVars
<1> QED
  BY <1>2, <1>3, <1>4, <1>5, <1>6, <1>7, <1>8 DEF ServiceNext, Proceed, Serve

-----------------------------------------------------------------------------------
(* The refinement.                                                         *)

\* A transition with a version that is not ahead of the row begins as Core says.
LEMMA ReadImplements ==
  ASSUME TypeOK, NEW w \in Workers, NEW r \in Rides, NEW user \in Users,
         NEW target \in RideStatus, NEW expected \in Nat \ {0},
         expected <= rides[r].version, ReadRide(w, r, user, target, expected)
  PROVE  Core!Request(w)
<1>1. Core!ReadRide(w, r, user, target, expected)
  <2>1. expected <= rides[r].version + 0
    BY DEF TypeOK, Row
  <2> QED
    BY Zenon, <2>1
    DEF ReadRide, Core!ReadRide, Authorized, Core!Authorized, Allowed, Core!Allowed,
        RIDE_TRANSITIONS, Core!RIDE_TRANSITIONS, Answer, Core!Answer, Goto, Core!Goto,
        Answered, Core!Answered, redisVars, Core!redisVars
<1>2. expected \in 1 .. MaxVersion
  BY BoundsAssumption DEF ReadRide
<1>3. Core!Users = Users /\ Core!RideStatus = RideStatus
  BY DEF Core!Users, Users, Core!RideStatus, RideStatus
<1> QED
  BY <1>1, <1>2, <1>3 DEF Core!Request

\* What a step of the service does to the tables and to Redis is a step of the
\* handler, whose clients send versions they have read, or nothing.
LEMMA StepImplements ==
  ASSUME ServiceTypeOK, KnownIsCommitted, [ServiceNext]_allVars
  PROVE  [Core!Next]_(Core!vars)
<1>1. ASSUME NEW w \in Workers, NEW user \in Users, NEW r \in Rides, NEW target \in RideStatus,
             Transition(w, user, r, target)
      PROVE  Core!Next
  <2>1. PICK expected \in 1 .. known[user][r] : ReadRide(w, r, user, target, expected)
    BY <1>1 DEF Transition
  <2>2. /\ known[user][r] \in Nat /\ rides[r].version \in Nat
        /\ known[user][r] <= rides[r].version
    BY DEF ServiceTypeOK, TypeOK, Row, KnownIsCommitted
  <2>3. expected \in Nat \ {0} /\ expected <= rides[r].version
    BY <2>2
  <2>4. Core!Request(w)
    BY <2>1, <2>3, ReadImplements DEF ServiceTypeOK
  <2> QED
    BY <2>4 DEF Core!Next
<1>2. ASSUME NEW w \in Workers, Handle(w) PROVE Core!Next
  BY <1>2, SameHandler DEF Handle, Core!Next
<1>3. ASSUME NEW w \in Workers, HandlerFails(w) PROVE Core!Next
  BY <1>3, SameAbort DEF HandlerFails, Core!Next
<1>4. ASSUME Pool PROVE Core!Next
  BY <1>4, SamePool DEF Core!Next
<1>5. ASSUME NEW w \in Workers, Call(w) \/ Connect(w) \/ PoolTimeout(w) \/ Probe(w) \/ Refuse(w)
      PROVE  UNCHANGED vars
  BY <1>5 DEF Call, Connect, PoolTimeout, Probe, Refuse
<1>6. ASSUME NEW w \in Workers, NEW user \in Users, NEW r \in Rides, GetRide(w, user, r)
      PROVE  UNCHANGED vars
  BY <1>6 DEF GetRide
<1>7. ASSUME NEW w \in Workers, NEW user \in Users, ListMyRides(w, user) PROVE UNCHANGED vars
  BY <1>7 DEF ListMyRides
<1>8. UNCHANGED allVars => UNCHANGED vars
  BY DEF allVars
<1>9. Core!Next \/ UNCHANGED vars
  BY <1>1, <1>2, <1>3, <1>4, <1>5, <1>6, <1>7, <1>8 DEF ServiceNext, Proceed, Serve
<1>10. UNCHANGED vars => UNCHANGED Core!vars
  BY DEF vars, Core!vars
<1> QED
  BY <1>9, <1>10

\* The assumptions of the handler's results hold for Lookahead = 0.
LEMMA CoreStep ==
  ASSUME Core!Inv, [Core!Next]_(Core!vars)
  PROVE  /\ Core!Inv'
         /\ \A r \in Rides : rides'[r] # rides[r] => rides'[r].version > rides[r].version
<1>1. Core!Inv'
  BY Core!InvStep, NoDriverAssumption, RidesAssumption, BoundsAssumption
<1>2. ASSUME rides' # rides, NEW r \in Rides
      PROVE  rides'[r] # rides[r] => rides'[r].version > rides[r].version
  BY <1>2, Core!NothingUndoneStep, NoDriverAssumption, RidesAssumption, BoundsAssumption
<1> QED
  BY <1>1, <1>2

-----------------------------------------------------------------------------------
(* The pool.                                                               *)

\* The number of connections that a request holds at a point of its route.
Held(point) == IF point \in Connected THEN 1 ELSE 0

\* The request of w goes on to point, with the pool's count adjusted to that; no
\* other request enters the handler, and w is in it only if point says so.
Moves(w, point) ==
  /\ route' = [route EXCEPT ![w] = point]
  /\ free' = free + Held(route[w]) - Held(point)
  /\ free' \in Nat
  /\ pc'[w] \in Busy => point = "handler"
  /\ \A v \in Workers \ {w} : pc'[v] \in Busy => pc[v] \in Busy

\* A request that is over has returned its connection.
LEMMA ReturnMoves ==
  ASSUME ServiceTypeOK, NEW w \in Workers, Return(w), pc'[w] \notin Busy,
         \A v \in Workers \ {w} : pc'[v] = pc[v]
  PROVE  Moves(w, "none")
BY DEF Return, Returned, Moves, Held, Connected, ServiceTypeOK

\* The steps of the handler leave the other requests where they are.
LEMMA OthersStay ==
  ASSUME TypeOK, NEW w \in Workers, Handler(w) \/ Abort(w)
  PROVE  \A v \in Workers \ {w} : pc'[v] = pc[v]
<1>1. ASSUME Handler(w) PROVE pc' = [pc EXCEPT ![w] = pc'[w]]
  BY <1>1
  DEF Handler, UpdateRow, UpdateStale, Search, TryReserve, Resolve, ReleaseGet,
      ReleaseDelete, Commit, Goto, Answer, TypeOK
<1>2. ASSUME Abort(w) PROVE pc' = [pc EXCEPT ![w] = pc'[w]]
  BY <1>2 DEF Abort, Answer, TypeOK
<1> QED
  BY <1>1, <1>2 DEF TypeOK

\* So does the beginning of a transition.
LEMMA OthersWait ==
  ASSUME TypeOK, NEW w \in Workers, NEW r, NEW user, NEW target, NEW expected,
         ReadRide(w, r, user, target, expected)
  PROVE  \A v \in Workers \ {w} : pc'[v] = pc[v]
BY DEF ReadRide, Goto, Answer, TypeOK

\* The route and the pool stay as they are, and so does who may be in the handler.
Rests ==
  /\ UNCHANGED <<route, free>>
  /\ \A v \in Workers : pc'[v] \in Busy => route[v] = "handler"

\* Every step moves at most one request along its route.
LEMMA RouteStep ==
  ASSUME ServiceTypeOK, [ServiceNext]_allVars
  PROVE  Rests \/ \E w \in Workers, point \in Routes : Moves(w, point)
<1> DEFINE G == Rests \/ \E w \in Workers, point \in Routes : Moves(w, point)
<1>0. /\ TypeOK /\ route \in [Workers -> Routes] /\ free \in Nat
      /\ \A v \in Workers : pc[v] \in Busy => route[v] = "handler"
  BY DEF ServiceTypeOK
<1>1. ASSUME NEW w \in Workers, Call(w) PROVE G
  <2>1. PICK point \in {"connect", "probe_connect"} : route' = [route EXCEPT ![w] = point]
    BY <1>1 DEF Call
  <2>2. Moves(w, point)
    BY <1>0, <1>1, <2>1 DEF Call, Moves, Held, Connected, vars
  <2> QED
    BY <2>2 DEF Routes
<1>2. ASSUME NEW w \in Workers, Connect(w) PROVE G
  <2> DEFINE point == IF route[w] = "connect" THEN "handler" ELSE "probe"
  <2>1. route' = [route EXCEPT ![w] = point] /\ pc' = pc
    BY <1>0, <1>2 DEF Connect, vars
  <2>2. /\ free' = free + Held(route[w]) - Held(point)
        /\ free' \in Nat
        /\ pc[w] \notin Busy
    BY <1>0, <1>2 DEF Connect, Held, Connected
  <2>3. Moves(w, point)
    BY <2>1, <2>2 DEF Moves
  <2>4. point \in Routes
    BY DEF Routes, Connected
  <2> QED
    BY <2>3, <2>4
<1>3. ASSUME NEW w \in Workers, Return(w), pc'[w] \notin Busy,
             \A v \in Workers \ {w} : pc'[v] = pc[v]
      PROVE  G
  BY <1>3, ReturnMoves DEF Routes
<1>4. ASSUME NEW w \in Workers, PoolTimeout(w) \/ Probe(w) PROVE G
  <2>1. Return(w) /\ pc' = pc /\ route[w] # "handler"
    BY <1>4 DEF PoolTimeout, Probe, vars
  <2> QED
    BY <1>0, <1>3, <2>1
<1>5. ASSUME NEW w \in Workers, Refuse(w) PROVE G
  BY <1>3, <1>5 DEF Refuse, Ready, vars
<1>6. ASSUME NEW w \in Workers, NEW user, NEW r, GetRide(w, user, r) PROVE G
  BY <1>3, <1>6 DEF GetRide, Ready, vars
<1>7. ASSUME NEW w \in Workers, NEW user, ListMyRides(w, user) PROVE G
  BY <1>3, <1>7 DEF ListMyRides, Ready, vars
<1>8. ASSUME NEW w \in Workers, route[w] = "handler",
             \A v \in Workers \ {w} : pc'[v] = pc[v],
             IF pc'[w] \in Busy THEN UNCHANGED <<route, free>> ELSE Return(w)
      PROVE  G
  <2>1. CASE pc'[w] \in Busy
    BY <1>0, <1>8, <2>1 DEF Rests
  <2>2. CASE pc'[w] \notin Busy
    BY <1>3, <1>8, <2>2
  <2> QED
    BY <2>1, <2>2
<1>9. ASSUME NEW w \in Workers, NEW user, NEW r, NEW target, Transition(w, user, r, target)
      PROVE  G
  BY <1>0, <1>8, <1>9, OthersWait DEF Transition, Ready
<1>10. ASSUME NEW w \in Workers, Handle(w) PROVE G
  <2>1. pc[w] \in Busy
    BY <1>10
    DEF Handle, Handler, UpdateRow, UpdateStale, Search, TryReserve, Resolve, ReleaseGet,
        ReleaseDelete, Commit, Busy, Holding
  <2> QED
    BY <1>0, <1>8, <1>10, <2>1, OthersStay DEF Handle
<1>11. ASSUME NEW w \in Workers, HandlerFails(w) PROVE G
  <2>1. pc'[w] \notin Busy
    BY <1>0, <1>11 DEF HandlerFails, Abort, Answer, TypeOK, Busy, Holding
  <2> QED
    BY <1>0, <1>3, <1>11, <2>1, OthersStay DEF HandlerFails
<1>12. ASSUME (Pool /\ UNCHANGED serviceVars) \/ UNCHANGED allVars PROVE G
  <2>1. UNCHANGED <<pc, route, free>>
    BY <1>12 DEF Pool, Expire, JoinPool, LeavePool, serviceVars, allVars, vars
  <2> QED
    BY <1>0, <2>1 DEF Rests
<1> QED
  BY <1>1, <1>2, <1>4, <1>5, <1>6, <1>7, <1>9, <1>10, <1>11, <1>12
  DEF ServiceNext, Proceed, Serve

-----------------------------------------------------------------------------------
(* The inductive invariant.                                                *)

LEMMA ServiceInvInit == ServiceInit => ServiceInv
<1> SUFFICES ASSUME ServiceInit PROVE ServiceInv
  OBVIOUS
<1>1. Core!Inv
  BY SameInit, Core!InvInit, NoDriverAssumption, RidesAssumption, BoundsAssumption
  DEF ServiceInit
<1>2. TypeOK
  BY <1>1, SameType DEF Core!Inv
<1>3. /\ \A w \in Workers : pc[w] \notin Busy
      /\ \A r \in Rides : rides[r].version = 1
  BY DEF ServiceInit, Init, NewRide, Busy, Holding
<1>4. ServiceTypeOK
  BY <1>2, <1>3, ServiceAssumption DEF ServiceTypeOK, ServiceInit, Routes
<1>5. KnownIsCommitted
  BY <1>3 DEF KnownIsCommitted, ServiceInit
<1> QED
  BY <1>1, <1>4, <1>5 DEF ServiceInv

LEMMA ServiceInvStep ==
  ASSUME ServiceInv, [ServiceNext]_allVars
  PROVE  /\ ServiceInv'
         /\ [Core!Next]_(Core!vars)
<1> USE DEF ServiceInv
<1>1. [Core!Next]_(Core!vars)
  BY StepImplements
<1>2. Core!Inv'
  BY <1>1, CoreStep
<1>3. TypeOK'
  BY <1>2, SameType, PTL DEF Core!Inv
<1>4. KnownIsCommitted'
  <2>1. /\ rides \in [Rides -> Row] /\ rides' \in [Rides -> Row]
        /\ \A r \in Rides : rides[r].version \in Nat /\ rides'[r].version \in Nat
    BY <1>3 DEF ServiceTypeOK, TypeOK, Row
  <2>2. \A r \in Rides : rides'[r] # rides[r] => rides'[r].version > rides[r].version
    BY <1>1, CoreStep
  <2>3. /\ known \in [Users -> [Rides -> Nat]]
        /\ known' \in [Users -> [Rides -> Nat]]
        /\ \A u \in Users, q \in Rides :
             known'[u][q] = known[u][q] \/ known'[u][q] <= rides'[q].version
    BY <1>3, KnownStep DEF ServiceTypeOK
  <2> SUFFICES ASSUME NEW u \in Users, NEW q \in Rides
               PROVE  known'[u][q] <= rides'[q].version
    BY DEF KnownIsCommitted
  <2>4. known[u][q] <= rides[q].version /\ known[u][q] \in Nat
    BY <2>3 DEF KnownIsCommitted
  <2>5. rides[q].version <= rides'[q].version
    BY <2>1, <2>2
  <2> QED
    BY <2>1, <2>3, <2>4, <2>5
<1>5. ServiceTypeOK'
  <2>1. known' \in [Users -> [Rides -> Nat]]
    BY <1>3, KnownStep
  <2>2. /\ route' \in [Workers -> Routes] /\ free' \in Nat
        /\ \A v \in Workers : pc'[v] \in Busy => route'[v] = "handler"
    <3>1. CASE Rests
      BY <3>1 DEF Rests, ServiceTypeOK
    <3>2. ASSUME NEW w \in Workers, NEW point \in Routes, Moves(w, point)
          PROVE  /\ route' \in [Workers -> Routes] /\ free' \in Nat
                 /\ \A v \in Workers : pc'[v] \in Busy => route'[v] = "handler"
      BY <3>2 DEF Moves, ServiceTypeOK
    <3> QED
      BY <3>1, <3>2, RouteStep
  <2> QED
    BY <1>3, <2>1, <2>2 DEF ServiceTypeOK
<1> QED
  BY <1>1, <1>2, <1>4, <1>5
-----------------------------------------------------------------------------------
(* The theorems.                                                           *)

\* The service keeps its inductive invariant, and with it that of the handler.
THEOREM ServiceInvariance == ServiceSpec => []ServiceInv
<1>1. ServiceInv /\ [ServiceNext]_allVars => ServiceInv'
  BY ServiceInvStep
<1> QED
  BY <1>1, ServiceInvInit, PTL DEF ServiceSpec

\* Type correctness of the service; a request is in the handler only while it has
\* a connection.
THEOREM ServiceTypeCorrect == ServiceSpec => []ServiceTypeOK
<1>1. ServiceInv => ServiceTypeOK
  BY DEF ServiceInv
<1> QED
  BY <1>1, ServiceInvariance, PTL

\* Whatever fails and whatever answers are lost, no client knows a version that is
\* not committed.
THEOREM KnownCommitted == ServiceSpec => []KnownIsCommitted
<1>1. ServiceInv => KnownIsCommitted
  BY DEF ServiceInv
<1> QED
  BY <1>1, ServiceInvariance, PTL

LEMMA ServiceRefines == ServiceSpec => Honest!Spec
<1>1. ServiceInit => Honest!Init
  BY SameInit DEF ServiceInit
<1>2. ServiceInv /\ [ServiceNext]_allVars => [Honest!Next]_(Honest!vars)
  <2> SUFFICES ASSUME ServiceInv, [ServiceNext]_allVars
               PROVE  [Honest!Next]_(Honest!vars)
    OBVIOUS
  <2>1. Core!Next \/ UNCHANGED Core!vars
    BY ServiceInvStep
  <2>2. UNCHANGED Core!vars => UNCHANGED Honest!vars
    BY DEF Core!vars, Honest!vars
  <2> QED
    BY <2>1, <2>2, SameNext
<1> QED
  BY <1>1, <1>2, ServiceInvariance, PTL DEF ServiceSpec, Honest!Spec

\* The service, with its pool, its reads and its clients, implements the handler
\* used by clients that send versions they have read.
THEOREM ServiceImplements == ServiceSpec => Honest!Spec /\ ImplementsTransitions
<1>1. [Honest!Next]_(Honest!vars) => [UNCHANGED Honest!vars \/ Honest!Next]_(Honest!vars)
  OBVIOUS
<1> QED
  BY <1>1, ServiceRefines, PTL DEF Honest!Spec, ImplementsTransitions

\* For any finite number of requests at once: no request takes a connection with it,
\* however it ends.
THEOREM ConnectionsReturned ==
  ASSUME IsFiniteSet(Workers)
  PROVE  ServiceSpec => []ConnectionsAreReturned
<1> DEFINE InUse == {w \in Workers : route[w] \in Connected}
<1>1. ServiceInit => ConnectionsAreReturned
  <2> SUFFICES ASSUME ServiceInit PROVE ConnectionsAreReturned
    OBVIOUS
  <2>1. InUse = {}
    BY DEF ServiceInit, Connected
  <2> QED
    BY <2>1, FS_EmptySet, ServiceAssumption DEF ServiceInit, ConnectionsAreReturned
<1>2. ServiceInv /\ ConnectionsAreReturned /\ [ServiceNext]_allVars => ConnectionsAreReturned'
  <2> SUFFICES ASSUME ServiceInv, ConnectionsAreReturned, [ServiceNext]_allVars
               PROVE  ConnectionsAreReturned'
    OBVIOUS
  <2>0. /\ route \in [Workers -> Routes] /\ free \in Nat /\ PoolSize \in Nat
        /\ free + Cardinality(InUse) = PoolSize
    BY ServiceAssumption DEF ServiceInv, ServiceTypeOK, ConnectionsAreReturned
  <2>1. IsFiniteSet(InUse) /\ Cardinality(InUse) \in Nat
    BY FS_Subset, FS_CardinalityType
  <2>2. CASE Rests
    BY <2>0, <2>2 DEF Rests, ConnectionsAreReturned
  <2>3. free' + Cardinality(InUse') = PoolSize => ConnectionsAreReturned'
    BY DEF ConnectionsAreReturned
  <2>4. ASSUME NEW w \in Workers, NEW point \in Routes, Moves(w, point)
        PROVE  ConnectionsAreReturned'
    <3>1. route' = [route EXCEPT ![w] = point] /\ free' = free + Held(route[w]) - Held(point)
      BY <2>4 DEF Moves
    <3>2. CASE (route[w] \in Connected) <=> (point \in Connected)
      <4>1. InUse' = InUse
        BY <2>0, <3>1, <3>2
      <4>2. free' = free
        BY <2>0, <3>1, <3>2 DEF Held
      <4> QED
        BY <2>0, <4>1, <4>2 DEF ConnectionsAreReturned
    <3>3. CASE route[w] \notin Connected /\ point \in Connected
      <4>1. InUse' = InUse \cup {w} /\ w \notin InUse
        BY <2>0, <3>1, <3>3
      <4>2. Cardinality(InUse \cup {w}) = Cardinality(InUse) + 1
        BY <2>1, <4>1, FS_AddElement
      <4>3. free' = free - 1
        BY <2>0, <3>1, <3>3 DEF Held
      <4>4. Cardinality(InUse') = Cardinality(InUse \cup {w})
        BY Zenon, <4>1
      <4> QED
        BY <2>0, <2>1, <2>3, <4>2, <4>3, <4>4
    <3>4. CASE route[w] \in Connected /\ point \notin Connected
      <4>1. InUse' = InUse \ {w} /\ w \in InUse
        BY <2>0, <3>1, <3>4
      <4>2. Cardinality(InUse \ {w}) = Cardinality(InUse) - 1
        BY <2>1, <4>1, FS_RemoveElement
      <4>3. free' = free + 1
        BY <2>0, <3>1, <3>4 DEF Held
      <4>4. Cardinality(InUse') = Cardinality(InUse \ {w})
        BY Zenon, <4>1
      <4> QED
        BY <2>0, <2>1, <2>3, <4>2, <4>3, <4>4
    <3> QED
      BY <3>2, <3>3, <3>4
  <2> QED
    BY <2>2, <2>4, RouteStep DEF ServiceInv
<1> QED
  BY <1>1, <1>2, ServiceInvariance, PTL DEF ServiceSpec
-----------------------------------------------------------------------------------
(* What is proved of the handler, for the service.                         *)

\* The service is an instance of the handler in the form in which Core has it.
LEMMA ServiceIsCore == ServiceSpec => Core!Spec
<1>1. ServiceInit => Core!Init
  BY SameInit DEF ServiceInit
<1>2. ServiceInv /\ [ServiceNext]_allVars => [Core!Next]_(Core!vars)
  BY ServiceInvStep
<1> QED
  BY <1>1, <1>2, ServiceInvariance, PTL DEF ServiceSpec, Core!Spec

LEMMA SameGraph ==
  /\ \A status, target : Allowed(status, target) <=> Core!Allowed(status, target)
  /\ RIDE_TRANSITIONS = Core!RIDE_TRANSITIONS
  /\ \A user, r, row, target :
       Authorized(user, r, row, target) <=> Core!Authorized(user, r, row, target)
BY Zenon DEF Allowed, Core!Allowed, RIDE_TRANSITIONS, Core!RIDE_TRANSITIONS,
             Authorized, Core!Authorized

\* For the clients of the service, that are told versions, every committed change of
\* status is legal, whatever Lookahead leaves open to others.
THEOREM ServiceLegal == ServiceSpec => TransitionsAreLegal
<1> DEFINE Legal(edges) ==
             \A r \in Rides :
               rides'[r].status # rides[r].status =>
                 \/ rides'[r].status \in edges[rides[r].status]
                 \/ /\ rides[r].status = "requested"
                    /\ rides'[r].status \in {"accepted", "no_drivers_found"}
<1>1. Core!TransitionsAreLegal => TransitionsAreLegal
  <2>1. [Legal(Core!RIDE_TRANSITIONS)]_rides => [Legal(RIDE_TRANSITIONS)]_rides
    BY SameGraph
  <2> QED
    BY <2>1, PTL DEF Core!TransitionsAreLegal, TransitionsAreLegal
<1>2. Core!Spec => Core!TransitionsAreLegal
  BY Core!Legal, NoDriverAssumption, RidesAssumption, BoundsAssumption
<1> QED
  BY <1>1, <1>2, ServiceIsCore, PTL

\* A request of the service that holds a row has decided on the row as it is.
THEOREM ServiceCurrentRow == ServiceSpec => []ActsOnCurrentRow
<1>1. Core!ActsOnCurrentRow => ActsOnCurrentRow
  BY SameGraph
  DEF Core!ActsOnCurrentRow, ActsOnCurrentRow, Core!Holding, Holding
<1>2. Core!Spec => []Core!ActsOnCurrentRow
  BY Core!CurrentRow, NoDriverAssumption, RidesAssumption, BoundsAssumption
<1> QED
  BY <1>1, <1>2, ServiceIsCore, PTL

\* With the pool, the reads and the failures of the service, two rides share a driver
\* only after one has lost its reservation, and a cancelled one holds none.
THEOREM ServiceReservations == ServiceSpec => [](ReservationExclusive /\ CancelFreesDriver)
<1>1. Core!ReservationExclusive => ReservationExclusive
  BY Zenon
  DEF Core!ReservationExclusive, ReservationExclusive, Core!Engages, Engages,
      Core!ActiveStatus, ActiveStatus, Core!Holding, Holding
<1>2. Core!CancelFreesDriver => CancelFreesDriver
  BY DEF Core!CancelFreesDriver, CancelFreesDriver
<1>3. Core!Spec => []Core!ReservationExclusive
  BY Core!Exclusive, NoDriverAssumption, RidesAssumption, BoundsAssumption
<1>4. Core!Spec => []Core!CancelFreesDriver
  BY Core!CancelFrees, NoDriverAssumption, RidesAssumption, BoundsAssumption
<1> QED
  BY <1>1, <1>2, <1>3, <1>4, ServiceIsCore, PTL

\* No commit of the service undoes what another made final.
THEOREM ServiceNothingUndone == ServiceSpec => NothingIsUndone
<1>1. Core!Spec => Core!NothingIsUndone
  BY Core!NothingUndone, NoDriverAssumption, RidesAssumption, BoundsAssumption
<1>2. Core!NothingIsUndone => NothingIsUndone
  BY PTL DEF Core!NothingIsUndone, NothingIsUndone
<1> QED
  BY <1>1, <1>2, ServiceIsCore, PTL

\* The service writes the events of a ride one winner after the other.
THEOREM ServiceOneWriter == ServiceSpec => OneWriterAtATime
<1>1. Core!Spec => Core!OneWriterAtATime
  BY Core!OneWriter, NoDriverAssumption, RidesAssumption, BoundsAssumption
<1>2. Core!OneWriterAtATime => OneWriterAtATime
  BY PTL DEF Core!OneWriterAtATime, OneWriterAtATime, Core!Busy, Busy, Core!Holding, Holding
<1> QED
  BY <1>1, <1>2, ServiceIsCore, PTL

\* The service, with all its clients, implements the atomic ledger.
THEOREM ServiceImplementsLedger == ServiceSpec => ImplementsLedger
<1>1. Core!Spec => Core!Ledger!Spec
  BY Core!Implements, NoDriverAssumption, RidesAssumption, BoundsAssumption DEF Core!ImplementsLedger
<1>2. Core!Ledger!Init => Ledger!Init
  BY DEF Core!Ledger!Init, Ledger!Init, Core!Ledger!NewRide, Ledger!NewRide
<1>3. [Core!Ledger!Next]_(Core!Ledger!vars) => [Ledger!Next]_(Ledger!vars)
  BY Zenon
  DEF Core!Ledger!Next, Ledger!Next, Core!Ledger!vars, Ledger!vars,
      Core!Ledger!Step, Ledger!Step, Core!Ledger!Match, Ledger!Match,
      Core!Ledger!Updated, Ledger!Updated, Core!Ledger!RideStatus, Ledger!RideStatus,
      Core!Ledger!RIDE_TRANSITIONS, Ledger!RIDE_TRANSITIONS
<1> QED
  BY <1>1, <1>2, <1>3, ServiceIsCore, PTL DEF ImplementsLedger, Core!Ledger!Spec, Ledger!Spec

\* The outbox of the service, in commit order, tells the story of every row and names
\* its driver.
THEOREM ServiceOutboxTells == ServiceSpec => [](OutboxTellsState /\ OutboxNamesTheDriver)
<1>1. Core!OutboxTellsState /\ Core!OutboxNamesTheDriver
        => OutboxTellsState /\ OutboxNamesTheDriver
  BY Zenon
  DEF Core!OutboxTellsState, OutboxTellsState,
      Core!Ledger!HistoryTellsState, Ledger!HistoryTellsState,
      Core!Ledger!HistoryOf, Ledger!HistoryOf,
      Core!Ledger!RIDE_TRANSITIONS, Ledger!RIDE_TRANSITIONS,
      Core!OutboxNamesTheDriver, OutboxNamesTheDriver,
      Core!Ledger!EventsNameTheDriver, Ledger!EventsNameTheDriver,
      Core!Ledger!DriverOf, Ledger!DriverOf
<1>2. Core!Spec => [](Core!OutboxTellsState /\ Core!OutboxNamesTheDriver)
  BY Core!OutboxTells, NoDriverAssumption, RidesAssumption, BoundsAssumption
<1> QED
  BY <1>1, <1>2, ServiceIsCore, PTL
-----------------------------------------------------------------------------------
(* Waiting.                                                                *)

\* Whoever waits for a row lock waits for a request that can go on.
LEMMA LockWaiter ==
  ASSUME ServiceTypeOK, NEW w \in Workers, route[w] = "handler", ~CanGoOn(w)
  PROVE  \E v \in Workers \ {w} : route[v] \in Connected /\ CanGoOn(v)
<1>1. pc[w] = "update" /\ Locked(session[w].ride)
  BY DEF CanGoOn, Ready, Busy
<1>2. PICK v \in Workers : pc[v] \in Holding
  BY <1>1 DEF Locked
<1>3. v # w
  BY <1>1, <1>2 DEF Holding
<1>4. route[v] = "handler"
  BY <1>2 DEF ServiceTypeOK, Busy
<1> QED
  BY <1>2, <1>3, <1>4 DEF Connected, CanGoOn

\* Whoever waits for a connection waits for a request that has one.
LEMMA PoolWaiter ==
  ASSUME IsFiniteSet(Workers), ServiceTypeOK, ConnectionsAreReturned, free = 0
  PROVE  \E v \in Workers : route[v] \in Connected
<1>1. PICK InUse : InUse = {v \in Workers : route[v] \in Connected}
  OBVIOUS
<1>2. 0 + Cardinality(InUse) = PoolSize
  BY <1>1 DEF ConnectionsAreReturned
<1>3. ASSUME InUse = {} PROVE FALSE
  BY <1>2, <1>3, FS_EmptySet, ServiceAssumption
<1> QED
  BY <1>1, <1>3

LEMMA SomeoneGoesOn ==
  ASSUME IsFiniteSet(Workers), ServiceTypeOK, ConnectionsAreReturned,
         NEW w \in Workers, route[w] # "none", ~CanGoOn(w)
  PROVE  \E v \in Workers \ {w} : route[v] \in Connected /\ CanGoOn(v)
<1>1. CASE route[w] = "handler"
  BY <1>1, LockWaiter
<1>2. CASE route[w] \in {"connect", "probe_connect"}
  <2>1. free = 0
    BY <1>2 DEF CanGoOn, ServiceTypeOK
  <2>2. PICK v \in Workers : route[v] \in Connected
    BY <2>1, PoolWaiter
  <2>3. v # w
    BY <1>2, <2>2 DEF Connected
  <2>4. CASE CanGoOn(v)
    BY <2>2, <2>3, <2>4
  <2>5. CASE ~CanGoOn(v)
    <3>1. route[v] = "handler"
      BY <2>2, <2>5 DEF Connected, CanGoOn
    <3>2. PICK u \in Workers \ {v} : route[u] \in Connected /\ CanGoOn(u)
      BY <2>5, <3>1, LockWaiter
    <3>3. u # w
      BY <1>2, <3>2 DEF Connected
    <3> QED
      BY <3>2, <3>3
  <2> QED
    BY <2>4, <2>5
<1>3. route[w] # "probe"
  BY DEF CanGoOn
<1> QED
  BY <1>1, <1>2, <1>3 DEF ServiceTypeOK, Routes, Connected

\* For any finite number of requests at once and any positive number of connections:
\* no circle of requests that wait for each other's connections and row locks.
THEOREM NoDeadlock ==
  ASSUME IsFiniteSet(Workers)
  PROVE  ServiceSpec => []NoWaitIsCircular
<1>1. ServiceTypeOK /\ ConnectionsAreReturned => NoWaitIsCircular
  BY SomeoneGoesOn DEF NoWaitIsCircular
<1>2. ServiceSpec => []ConnectionsAreReturned
  BY ConnectionsReturned
<1> QED
  BY <1>1, <1>2, ServiceTypeCorrect, PTL
===================================================================================
