-------------------------- MODULE RideTransitionsProofs --------------------------
(***************************************************************************)
(* The safety properties of the transition handlers, for any numbers of    *)
(* rides, users, drivers and concurrent requests.                          *)
(***************************************************************************)
EXTENDS RideTransitionsInv, SequenceTheorems, TLAPS
-----------------------------------------------------------------------------------
(* The graph.                                                              *)

\* No edge leads to "requested", and none out of a final status.
LEMMA GraphEnds ==
  ASSUME NEW s \in RideStatus, NEW t, Allowed(s, t)
  PROVE  t \in RideStatus /\ t # "requested" /\ s \notin Final
BY DEF Allowed, RIDE_TRANSITIONS, RideStatus, Final

\* A ride that is served goes on being served or ends; a ride comes to be served
\* by being accepted, from "matching" only.
LEMMA GraphServes ==
  ASSUME NEW s \in RideStatus, NEW t, Allowed(s, t)
  PROVE  /\ s \in ActiveStatus => t \in ActiveStatus \cup Final
         /\ t \in ActiveStatus => s \in ActiveStatus \cup {"matching"}
         /\ s \in ActiveStatus => t # "accepted"
BY DEF Allowed, RIDE_TRANSITIONS, RideStatus, Final, ActiveStatus
-----------------------------------------------------------------------------------
(* Types.                                                                  *)

\* The row after one edge is a row, and the event of the edge is an event.
LEMMA EdgeTyped ==
  ASSUME NEW row \in Row, NEW previous \in RideStatus, NEW target \in RideStatus,
         NEW d \in Drivers \cup {NoDriver}
  PROVE  /\ Updated(row, target, d) \in Row
         /\ \A r \in Row : StatusChanged(previous, r) \in Event
BY DEF Updated, StatusChanged, Row, Event

\* The end of a request leaves a state of the right type.
LEMMA AnswerTyped ==
  ASSUME TypeOK, NEW w \in Workers, NEW code \in Answered, Answer(w, code),
         UNCHANGED <<rides, outbox, geo, reservation, voided>>
  PROVE  TypeOK'
BY DEF TypeOK, Answer, Answered, Busy, Holding

\* So does the start of one.
LEMMA ReadTyped ==
  ASSUME TypeOK, NEW w \in Workers, NEW r \in Rides, NEW user \in Users,
         NEW target \in RideStatus, NEW expected \in 1 .. MaxVersion,
         ReadRide(w, r, user, target, expected)
  PROVE  TypeOK'
<1>0. UNCHANGED <<rides, outbox, geo, reservation, voided>>
  BY DEF ReadRide, redisVars
<1>1. CASE Answer(w, "403") \/ Answer(w, "422")
  BY <1>0, <1>1, AnswerTyped DEF Answered
<1>2. CASE Goto(w, "update")
  <2> DEFINE s == [ride |-> r, user |-> user, target |-> target,
                   expected |-> expected, row |-> rides[r], events |-> <<>>,
                   cands |-> {}, driver |-> NoDriver]
  <2>1. expected \in Nat
    BY BoundsAssumption
  <2>2. s \in Session
    BY <2>1 DEF TypeOK, Session
  <2>3. CASE session' = [session EXCEPT ![w] = s]
    BY <1>0, <1>2, <2>2, <2>3 DEF TypeOK, Goto, Busy
  <2>4. CASE session' # [session EXCEPT ![w] = s]
    BY <1>0, <1>1, <2>4 DEF ReadRide
  <2> QED
    BY <2>3, <2>4
<1> QED
  BY <1>1, <1>2 DEF ReadRide

\* A handler that goes on to another await with a well-typed session does too.
LEMMA GoOnTyped ==
  ASSUME TypeOK, NEW w \in Workers, NEW point \in Busy, NEW s \in Session,
         Goto(w, point), session' = [session EXCEPT ![w] = s],
         rides' = rides, outbox' = outbox, geo' \in SUBSET Drivers,
         reservation' \in [Drivers -> Rides \cup {NoRide}],
         voided' \in [Drivers -> SUBSET Rides]
  PROVE  TypeOK'
BY DEF TypeOK, Goto

\* The end of a reservation is well typed.
LEMMA DropTyped ==
  ASSUME TypeOK, NEW d, DropReservation(d)
  PROVE  /\ reservation' \in [Drivers -> Rides \cup {NoRide}]
         /\ voided' \in [Drivers -> SUBSET Rides]
BY DEF TypeOK, DropReservation

\* Every step of a handler is well typed.
LEMMA HandlerTyped ==
  ASSUME TypeOK, NEW w \in Workers, Handler(w)
  PROVE  TypeOK'
<1> DEFINE s == session[w]
<1>0. pc[w] \in Busy => s \in Session /\ s.ride \in Rides /\ s.row \in Row
                        /\ s.target \in RideStatus /\ s.row.status \in RideStatus
                        /\ s.driver \in Drivers \cup {NoDriver}
                        /\ s.events \in Seq(Event)
                        /\ s.row.driver \in Drivers \cup {NoDriver}
  BY DEF TypeOK, Session, Row
<1>t. rides \in [Rides -> Row] /\ geo \in SUBSET Drivers
      /\ reservation \in [Drivers -> Rides \cup {NoRide}]
      /\ voided \in [Drivers -> SUBSET Rides] /\ session \in [Workers -> Session \cup {NoSession}]
  BY DEF TypeOK
<1>1. CASE UpdateRow(w)
  <2> DEFINE new == Updated(rides[s.ride], s.target, rides[s.ride].driver)
             e   == StatusChanged(s.row.status, new)
             s2  == [s EXCEPT !.row = new, !.events = <<e>>]
  <2>1. s \in Session /\ s.ride \in Rides /\ s.target \in RideStatus
        /\ s.row.status \in RideStatus
    BY <1>0, <1>1 DEF UpdateRow, Busy
  <2>2. rides[s.ride] \in Row
    BY <2>1, <1>t
  <2>3. rides[s.ride].driver \in Drivers \cup {NoDriver}
    BY <2>2 DEF Row
  <2>4. new \in Row /\ e \in Event
    BY <2>1, <2>2, <2>3, EdgeTyped
  <2> HIDE DEF new, e
  <2>5. s2 \in Session
    <3>1. <<e>> \in Seq(Event)
      BY <2>4
    <3> QED
      BY <2>1, <2>4, <3>1 DEF Session
  <2>6. session' = [session EXCEPT ![w] = s2]
    BY <1>1 DEF UpdateRow, new, e
  <2>7. Goto(w, AfterUpdate(s.row.status, new))
    BY <1>1 DEF UpdateRow, new
  <2>8. AfterUpdate(s.row.status, new) \in Busy
    BY DEF AfterUpdate, Busy, Holding
  <2>9. rides' = rides /\ outbox' = outbox /\ geo' = geo
        /\ reservation' = reservation /\ voided' = voided
    BY <1>1 DEF UpdateRow, redisVars
  <2> HIDE DEF s2
  <2> QED
    BY <1>t, <2>5, <2>6, <2>7, <2>8, <2>9, GoOnTyped
<1>2. CASE UpdateStale(w)
  BY <1>2, AnswerTyped DEF UpdateStale, redisVars, Answered
<1>3. CASE Search(w)
  <2>1. PICK near \in SUBSET geo : session' = [session EXCEPT ![w].cands = near]
    BY <1>3 DEF Search
  <2> DEFINE s2 == [s EXCEPT !.cands = near]
  <2>2. s \in Session
    BY <1>0, <1>3 DEF Search, Busy, Holding
  <2>3. near \in SUBSET Drivers
    BY <1>t
  <2>4. s2 \in Session
    BY <2>2, <2>3 DEF Session
  <2>5. session' = [session EXCEPT ![w] = s2]
    BY <2>1
  <2>6. Goto(w, "reserve") /\ "reserve" \in Busy
    BY <1>3 DEF Search, Busy, Holding
  <2>7. rides' = rides /\ outbox' = outbox /\ geo' = geo
        /\ reservation' = reservation /\ voided' = voided
    BY <1>3 DEF Search, redisVars
  <2> HIDE DEF s2
  <2> QED
    BY <1>t, <2>4, <2>5, <2>6, <2>7, GoOnTyped
<1>4. ASSUME NEW d \in Drivers, TryReserve(w, d)
      PROVE  TypeOK'
  <2>1. s \in Session /\ s.ride \in Rides /\ pc[w] \in Busy
    BY <1>0, <1>4 DEF TryReserve, Busy, Holding
  <2> DEFINE s2 == [s EXCEPT !.cands = {}, !.driver = d]
             s3 == [s EXCEPT !.cands = @ \ {d}]
  <2>2. s2 \in Session
    BY <2>1 DEF Session
  <2>3. s3 \in Session
    BY <2>1 DEF Session
  <2>4. \/ session' = [session EXCEPT ![w] = s2]
        \/ session' = [session EXCEPT ![w] = s3]
    BY <1>4 DEF TryReserve
  <2>5. session' \in [Workers -> Session \cup {NoSession}] /\ session'[w] \in Session
        /\ \A v \in Workers : v # w => session'[v] = session[v]
    <3> HIDE DEF s2, s3, s
    <3> QED
      BY <1>t, <2>2, <2>3, <2>4
  <2>6. reservation' \in [Drivers -> Rides \cup {NoRide}] /\ voided' \in [Drivers -> SUBSET Rides]
    BY <1>t, <1>4, <2>1 DEF TryReserve
  <2>7. rides' = rides /\ outbox' = outbox /\ geo' = geo /\ pc' = pc
    BY <1>4 DEF TryReserve
  <2> HIDE DEF s2, s3, s
  <2> QED
    BY <2>5, <2>6, <2>7 DEF TypeOK
<1>5. CASE Resolve(w)
  <2> DEFINE new == IF s.driver # NoDriver THEN Updated(s.row, "accepted", s.driver)
                    ELSE Updated(s.row, "no_drivers_found", s.row.driver)
             e   == StatusChanged(s.row.status, new)
             s2  == [s EXCEPT !.row = new, !.events = Append(@, e)]
  <2>1. s \in Session /\ s.row \in Row /\ s.driver \in Drivers \cup {NoDriver}
        /\ s.row.driver \in Drivers \cup {NoDriver} /\ s.row.status \in RideStatus
        /\ s.events \in Seq(Event)
    BY <1>0, <1>5 DEF Resolve, Busy, Holding
  <2>2. "accepted" \in RideStatus /\ "no_drivers_found" \in RideStatus
    BY DEF RideStatus
  <2>3. new \in Row /\ e \in Event
    BY <2>1, <2>2, EdgeTyped
  <2> HIDE DEF new, e
  <2>4. Append(s.events, e) \in Seq(Event)
    BY <2>1, <2>3
  <2>5. s2 \in Session
    BY <2>1, <2>3, <2>4 DEF Session
  <2>6. session' = [session EXCEPT ![w] = s2]
    BY <1>5 DEF Resolve, new, e
  <2>7. Goto(w, "commit") /\ "commit" \in Busy
    BY <1>5 DEF Resolve, Busy, Holding
  <2>8. rides' = rides /\ outbox' = outbox /\ geo' = geo
        /\ reservation' = reservation /\ voided' = voided
    BY <1>5 DEF Resolve, redisVars
  <2> HIDE DEF s2
  <2> QED
    BY <1>t, <2>5, <2>6, <2>7, <2>8, GoOnTyped
<1>6. CASE ReleaseGet(w)
  BY <1>6 DEF ReleaseGet, TypeOK, Goto, Busy, Holding, redisVars
<1>7. CASE ReleaseDelete(w)
  <2>1. /\ pc[w] = "delete"
        /\ Goto(w, "commit")
        /\ UNCHANGED <<rides, outbox, geo, session>>
        /\ DropReservation(s.row.driver)
    BY <1>7 DEF ReleaseDelete
  <2> QED
    BY <2>1, DropTyped DEF TypeOK, Goto, Busy, Holding
<1>8. CASE Commit(w)
  <2>1. s \in Session /\ s.ride \in Rides /\ s.row \in Row /\ s.events \in Seq(Event)
    BY <1>0, <1>8 DEF Commit, Busy, Holding
  <2>2. rides' \in [Rides -> Row]
    BY <1>t, <1>8, <2>1 DEF Commit
  <2>3. outbox' \in [Rides -> Seq(Event)]
    BY <1>8, <2>1 DEF Commit, CommittedEvents, TypeOK
  <2>4. geo' = geo /\ reservation' = reservation /\ voided' = voided /\ Answer(w, "200")
    BY <1>8 DEF Commit, redisVars
  <2> QED
    BY <2>2, <2>3, <2>4 DEF TypeOK, Answer, Answered, Busy, Holding
<1> QED
  BY <1>1, <1>2, <1>3, <1>4, <1>5, <1>6, <1>7, <1>8 DEF Handler

\* Every step of the system is well typed.
LEMMA TypeStep == TypeOK /\ [Next]_vars => TypeOK'
<1> SUFFICES ASSUME TypeOK, [Next]_vars PROVE TypeOK'
  OBVIOUS
<1>1. ASSUME NEW w \in Workers, Request(w) PROVE TypeOK'
  BY <1>1, ReadTyped DEF Request
<1>2. ASSUME NEW w \in Workers, Handler(w) PROVE TypeOK'
  BY <1>2, HandlerTyped
<1>3. ASSUME NEW w \in Workers, Abort(w) PROVE TypeOK'
  BY <1>3, AnswerTyped DEF Abort, redisVars, Answered
<1>4. ASSUME NEW d \in Drivers, Expire(d) PROVE TypeOK'
  <2>1. UNCHANGED <<rides, outbox, geo, pc, session>>
    BY <1>4 DEF Expire
  <2> QED
    BY <1>4, <2>1, DropTyped DEF Expire, TypeOK
<1>5. ASSUME NEW d \in Drivers, JoinPool(d) \/ LeavePool(d) PROVE TypeOK'
  BY <1>5 DEF JoinPool, LeavePool, TypeOK
<1>6. CASE UNCHANGED vars
  BY <1>6 DEF vars, TypeOK
<1> QED
  BY <1>1, <1>2, <1>3, <1>4, <1>5, <1>6 DEF Next, Pool

\* The initial state is well typed.
LEMMA TypeInit == Init => TypeOK
BY DEF Init, TypeOK, NewRide, Row, RideStatus, Answered, Busy, Holding

\* The state of the handlers, of Postgres and of Redis always has its type.
THEOREM TypeCorrect == Spec => []TypeOK
BY TypeInit, TypeStep, PTL DEF Spec
-----------------------------------------------------------------------------------
(* The inductive invariant.                                                *)

\* What a request knows stays true as long as neither it nor its row changes.
LEMMA Frame ==
  ASSUME NEW w, pc'[w] = pc[w], session'[w] = session[w],
         rides'[session[w].ride] = rides[session[w].ride]
  PROVE  /\ ReadBefore(w) => ReadBefore(w)'
         /\ WroteEdges(w) => WroteEdges(w)'
BY DEF ReadBefore, WroteEdges

\* A step of one request that changes nothing but its own session keeps the
\* invariant if the request itself is all right afterwards.
LEMMA LocalStep ==
  ASSUME Inv, TypeOK', NEW w \in Workers,
         rides' = rides, reservation' = reservation, voided' = voided,
         \A v \in Workers : v # w => pc'[v] = pc[v] /\ session'[v] = session[v],
         pc'[w] = "update" => ReadBefore(w)',
         pc'[w] \in Holding =>
           /\ WroteEdges(w)'
           /\ \A v \in Workers : v # w /\ pc[v] \in Holding =>
                session[v].ride # session'[w].ride
           /\ \/ session'[w].driver = NoDriver
              \/ /\ pc[w] \in Holding
                 /\ session'[w].driver = session[w].driver
                 /\ session'[w].ride = session[w].ride,
         ReleasedBefore(w)'
  PROVE  Inv'
<1>1. DriverNamedLate' /\ CancelFreesDriver'
  BY DEF Inv, DriverNamedLate, CancelFreesDriver
<1>2. OneHolder'
  BY DEF Inv, OneHolder
<1>3. ASSUME NEW v \in Workers
      PROVE  /\ pc'[v] = "update" => ReadBefore(v)'
             /\ pc'[v] \in Holding => WroteEdges(v)'
             /\ ReleasedBefore(v)'
  <2>1. CASE v = w
    BY <2>1
  <2>2. CASE v # w
    <3>1. pc'[v] = pc[v] /\ session'[v] = session[v]
      BY <2>2
    <3>2. ReleasedBefore(v)'
      BY <3>1 DEF Inv, ReleasedBefore
    <3> QED
      BY <3>1, <3>2, Frame DEF Inv
  <2> QED
    BY <2>1, <2>2
<1>4. EngagedClaims'
  <2> SUFFICES ASSUME NEW r \in Rides, NEW d \in Drivers, Engages(r, d)'
               PROVE  Claims(r, d)'
    BY DEF EngagedClaims
  <2>1. d # NoDriver
    BY NoDriverAssumption
  <2>2. Engages(r, d)
    BY <2>1 DEF Engages
  <2> QED
    BY <2>2 DEF Inv, EngagedClaims, Claims
<1> QED
  BY <1>1, <1>2, <1>3, <1>4 DEF Inv

\* The end of a request that committed nothing.
LEMMA AnswerStep ==
  ASSUME Inv, TypeOK', NEW w \in Workers, NEW code \in Answered, Answer(w, code),
         rides' = rides, reservation' = reservation, voided' = voided
  PROVE  Inv'
<1>1. pc'[w] = code /\ \A v \in Workers : v # w => pc'[v] = pc[v] /\ session'[v] = session[v]
  BY DEF Answer, Inv, TypeOK
<1>2. code # "update" /\ code \notin Holding /\ code # "commit"
  BY DEF Answered, Holding
<1> QED
  BY <1>1, <1>2, LocalStep DEF ReleasedBefore

\* ReadRide: what was read is the current row, so the version sent, which the
\* client has read, is no newer.
LEMMA ReadStep ==
  ASSUME Inv, TypeOK', Lookahead = 0, NEW w \in Workers, NEW r \in Rides,
         NEW user \in Users, NEW target \in RideStatus,
         NEW expected \in 1 .. MaxVersion, ReadRide(w, r, user, target, expected)
  PROVE  Inv'
<1>1. rides' = rides /\ reservation' = reservation /\ voided' = voided
  BY DEF ReadRide, redisVars
<1>2. CASE Answer(w, "403") \/ Answer(w, "422")
  BY <1>1, <1>2, AnswerStep DEF Answered
<1>3. CASE ~(Answer(w, "403") \/ Answer(w, "422"))
  <2> DEFINE s == [ride |-> r, user |-> user, target |-> target,
                   expected |-> expected, row |-> rides[r], events |-> <<>>,
                   cands |-> {}, driver |-> NoDriver]
  <2>1. /\ Authorized(user, r, rides[r], target)
        /\ Allowed(rides[r].status, target)
        /\ Goto(w, "update")
        /\ session' = [session EXCEPT ![w] = s]
        /\ expected <= rides[r].version
    <3>1. rides[r].version \in Nat
      BY DEF Inv, TypeOK, Row
    <3> QED
      BY <1>3, <3>1 DEF ReadRide
  <2>2. /\ pc'[w] = "update"
        /\ session'[w] = s
        /\ \A v \in Workers : v # w => pc'[v] = pc[v] /\ session'[v] = session[v]
    BY <2>1 DEF Goto, Inv, TypeOK
  <2>3. /\ s.expected = expected /\ s.row = rides[r] /\ s.ride = r
        /\ s.driver = NoDriver /\ s.target = target /\ s.user = user
    OBVIOUS
  <2>4. rides[r].version \in Nat
    BY DEF Inv, TypeOK, Row
  <2> HIDE DEF s
  <2>5. ReadBefore(w)'
    BY <1>1, <2>1, <2>2, <2>3, <2>4 DEF ReadBefore, Allowed, Authorized
  <2>6. ReleasedBefore(w)' /\ pc'[w] \notin Holding
    BY <2>2 DEF ReleasedBefore, Holding
  <2> QED
    BY <1>1, <2>2, <2>5, <2>6, LocalStep
<1> QED
  BY <1>2, <1>3

\* UpdateRow: the version matched, so the row is still the one that was checked.
LEMMA UpdateStep ==
  ASSUME Inv, TypeOK', NEW w \in Workers, UpdateRow(w)
  PROVE  Inv'
<1> DEFINE s   == session[w]
           old == rides[s.ride]
           new == Updated(old, s.target, old.driver)
<1>1. /\ s \in Session /\ s.ride \in Rides /\ s.row \in Row /\ old \in Row
      /\ s.expected \in Nat /\ s.row.version \in Nat /\ old.version \in Nat
  <2>1. s \in Session
    BY DEF UpdateRow, Inv, TypeOK, Busy
  <2>2. s.ride \in Rides /\ s.row \in Row /\ s.expected \in Nat
    BY <2>1 DEF Session
  <2>3. old \in Row
    BY <2>2 DEF Inv, TypeOK
  <2> QED
    BY <2>1, <2>2, <2>3 DEF Row
<1>2. ReadBefore(w) /\ s.expected = old.version
  BY DEF UpdateRow, Inv, VersionMatches
<1>3. /\ s.row = old
      /\ Allowed(old.status, s.target)
      /\ Authorized(s.user, s.ride, old, s.target)
      /\ s.driver = NoDriver
  BY <1>1, <1>2 DEF ReadBefore
<1>4. /\ session' = [session EXCEPT ![w].row = new,
                                    ![w].events = <<StatusChanged(s.row.status, new)>>]
      /\ Goto(w, AfterUpdate(s.row.status, new))
      /\ rides' = rides /\ reservation' = reservation /\ voided' = voided
  BY DEF UpdateRow, redisVars
<1>5. /\ session'[w].ride = s.ride /\ session'[w].user = s.user
      /\ session'[w].target = s.target /\ session'[w].expected = s.expected
      /\ session'[w].driver = s.driver
      /\ session'[w].row = new
      /\ session'[w].events = <<StatusChanged(s.row.status, new)>>
      /\ pc'[w] = AfterUpdate(s.row.status, new)
      /\ \A v \in Workers : v # w => pc'[v] = pc[v] /\ session'[v] = session[v]
  <2> HIDE DEF new
  <2> QED
    BY <1>1, <1>4 DEF Goto, Inv, TypeOK, Session
<1>6. new.status = s.target /\ new.driver = old.driver
  BY DEF Updated
<1> HIDE DEF new
<1>7. OneEdge(session'[w], old)
  BY <1>3, <1>5 DEF OneEdge, new
<1>8. WroteEdges(w)'
  BY <1>2, <1>3, <1>4, <1>5, <1>6, <1>7
  DEF WroteEdges, AfterUpdate, Allowed, Authorized, StartsMatching, OneEdge
<1>9. \A v \in Workers : v # w /\ pc[v] \in Holding => session[v].ride # session'[w].ride
  BY <1>5 DEF UpdateRow, Locked
<1>10. ReleasedBefore(w)'
  BY <1>3, <1>5, <1>6 DEF ReleasedBefore, AfterUpdate, StartsMatching
<1>11. pc'[w] # "update"
  BY <1>5 DEF AfterUpdate
<1> QED
  BY <1>3, <1>4, <1>5, <1>8, <1>9, <1>10, <1>11, LocalStep

\* What Inv says of a request that holds its row.
LEMMA Holder ==
  ASSUME Inv, NEW w \in Workers, pc[w] \in Holding
  PROVE  LET s == session[w] IN
         /\ s \in Session /\ s.ride \in Rides /\ s.row \in Row
         /\ s.driver \in Drivers \cup {NoDriver}
         /\ rides[s.ride] \in Row
         /\ s.target \in RideStatus
         /\ WroteEdges(w)
         /\ \A v \in Workers : v # w /\ pc[v] \in Holding => session[v].ride # s.ride
<1> DEFINE s == session[w]
<1>1. s \in Session
  BY DEF Inv, TypeOK, Busy
<1>2. /\ s.ride \in Rides /\ s.row \in Row /\ s.target \in RideStatus
      /\ s.driver \in Drivers \cup {NoDriver}
  BY <1>1 DEF Session
<1>3. rides[s.ride] \in Row
  BY <1>2 DEF Inv, TypeOK
<1> QED
  BY <1>1, <1>2, <1>3 DEF Inv, OneHolder

\* Search only fills the list of candidates.
LEMMA SearchStep ==
  ASSUME Inv, TypeOK', NEW w \in Workers, Search(w)
  PROVE  Inv'
<1> DEFINE s == session[w]
<1>0. pc[w] = "search" /\ pc[w] \in Holding
  BY DEF Search, Holding
<1>1. /\ rides' = rides /\ reservation' = reservation /\ voided' = voided
      /\ Goto(w, "reserve")
  BY DEF Search, redisVars
<1>2. PICK near \in SUBSET geo : session' = [session EXCEPT ![w].cands = near]
  BY DEF Search
<1>3. /\ session'[w].ride = s.ride /\ session'[w].user = s.user
      /\ session'[w].target = s.target /\ session'[w].expected = s.expected
      /\ session'[w].driver = s.driver /\ session'[w].row = s.row
      /\ session'[w].events = s.events
      /\ pc'[w] = "reserve"
      /\ \A v \in Workers : v # w => pc'[v] = pc[v] /\ session'[v] = session[v]
  BY <1>0, <1>1, <1>2, Holder DEF Goto, Inv, TypeOK, Session
<1>4. WroteEdges(w)'
  BY <1>0, <1>1, <1>3, Holder DEF WroteEdges, Allowed, Authorized, StartsMatching, OneEdge
<1>5. ReleasedBefore(w)' /\ pc'[w] # "update"
  BY <1>3 DEF ReleasedBefore
<1> QED
  BY <1>0, <1>1, <1>3, <1>4, <1>5, Holder, LocalStep

\* A log of one event, one more appended.
LEMMA AppendPair ==
  ASSUME NEW e, NEW f
  PROVE  Append(<<e>>, f) = <<e, f>>
<1>1. <<e>> \in Seq({e, f}) /\ Len(<<e>>) = 1
  OBVIOUS
<1>2. Append(<<e>>, f) \in Seq({e, f}) /\ Len(Append(<<e>>, f)) = 2
  BY <1>1
<1>3. Append(<<e>>, f)[1] = e /\ Append(<<e>>, f)[2] = f
  BY <1>1
<1>4. <<e, f>> \in Seq({e, f}) /\ Len(<<e, f>>) = 2 /\ <<e, f>>[1] = e /\ <<e, f>>[2] = f
  OBVIOUS
<1>5. \A i \in 1 .. 2 : i = 1 \/ i = 2
  OBVIOUS
<1> QED
  BY <1>2, <1>3, <1>4, <1>5, SeqEqual

\* Resolve adds the second edge; what it engages was engaged before.
LEMMA ResolveStep ==
  ASSUME Inv, TypeOK', NEW w \in Workers, Resolve(w)
  PROVE  Inv'
<1> DEFINE s   == session[w]
           old == rides[s.ride]
           new == IF s.driver # NoDriver THEN Updated(s.row, "accepted", s.driver)
                  ELSE Updated(s.row, "no_drivers_found", s.row.driver)
           e   == StatusChanged(s.row.status, new)
<1>0. pc[w] = "reserve" /\ pc[w] \in Holding
  BY DEF Resolve, Holding
<1>1. /\ rides' = rides /\ reservation' = reservation /\ voided' = voided
      /\ Goto(w, "commit")
      /\ session' = [session EXCEPT ![w].row = new, ![w].events = Append(@, e)]
  BY DEF Resolve, redisVars
<1>2. /\ session'[w].ride = s.ride /\ session'[w].user = s.user
      /\ session'[w].target = s.target /\ session'[w].expected = s.expected
      /\ session'[w].driver = s.driver /\ session'[w].row = new
      /\ session'[w].events = Append(s.events, e)
      /\ pc'[w] = "commit"
      /\ \A v \in Workers : v # w => pc'[v] = pc[v] /\ session'[v] = session[v]
  <2> HIDE DEF new, e
  <2> QED
    BY <1>0, <1>1, Holder DEF Goto, Inv, TypeOK, Session
<1>3. StartsMatching(old.status, s.target) /\ OneEdge(s, old)
  BY <1>0, Holder DEF WroteEdges
<1>4. /\ s.target = "matching"
      /\ s.row = Updated(old, "matching", old.driver)
      /\ s.row.status = "matching"
      /\ s.events = <<StatusChanged(old.status, s.row)>>
  BY <1>3 DEF StartsMatching, OneEdge, Updated
<1>5. Append(s.events, e) = <<StatusChanged(old.status, s.row), e>>
  BY <1>4, AppendPair
<1>6. TwoEdges(session'[w], old)
  <2> DEFINE m == Updated(old, "matching", old.driver)
  <2>1. s.row = m
    BY <1>4
  <2>2. session'[w].row = IF session'[w].driver = NoDriver
                          THEN Updated(m, "no_drivers_found", m.driver)
                          ELSE Updated(m, "accepted", session'[w].driver)
    BY <1>2, <2>1
  <2>3. session'[w].events = <<StatusChanged(old.status, m),
                               StatusChanged("matching", session'[w].row)>>
    BY <1>2, <1>4, <1>5, <2>1
  <2> HIDE DEF m, new, e
  <2> QED
    BY <2>2, <2>3 DEF TwoEdges, m
<1> HIDE DEF new, e
<1>7. WroteEdges(w)'
  <2>1. /\ s.expected = old.version
        /\ Allowed(old.status, s.target)
        /\ Authorized(s.user, s.ride, old, s.target)
    BY <1>0, Holder DEF WroteEdges
  <2>2. rides'[session'[w].ride] = old
    BY <1>1, <1>2
  <2>3. TwoEdges(session[w], rides[session[w].ride])'
    BY <1>6, <2>2 DEF TwoEdges
  <2> QED
    BY <1>2, <1>3, <2>1, <2>2, <2>3 DEF WroteEdges, Allowed, Authorized, StartsMatching
<1>8. ReleasedBefore(w)' /\ pc'[w] # "update"
  BY <1>2, <1>4 DEF ReleasedBefore
<1> QED
  BY <1>0, <1>1, <1>2, <1>7, <1>8, Holder, LocalStep

\* ReleaseGet goes to the commit only if the reservation is not this ride's.
LEMMA ReleaseGetStep ==
  ASSUME Inv, TypeOK', NEW w \in Workers, ReleaseGet(w)
  PROVE  Inv'
<1> DEFINE s == session[w]
<1>0. pc[w] = "release" /\ pc[w] \in Holding
  BY DEF ReleaseGet, Holding
<1>1. /\ rides' = rides /\ reservation' = reservation /\ voided' = voided
      /\ session' = session
      /\ Goto(w, IF OwnsReservation(w, s.row.driver) THEN "delete" ELSE "commit")
  BY DEF ReleaseGet, redisVars
<1>2. /\ pc'[w] = IF OwnsReservation(w, s.row.driver) THEN "delete" ELSE "commit"
      /\ \A v \in Workers : v # w => pc'[v] = pc[v]
  BY <1>1 DEF Goto, Inv, TypeOK
<1>3. /\ s.target = "cancelled" /\ s.driver = NoDriver
      /\ s.row.driver # NoDriver /\ OneEdge(s, rides[s.ride])
  BY <1>0, Holder DEF WroteEdges
<1>4. WroteEdges(w)'
  BY <1>0, <1>1, <1>2, <1>3, Holder
  DEF WroteEdges, Allowed, Authorized, StartsMatching, OneEdge
<1>5. ReleasedBefore(w)' /\ pc'[w] # "update"
  BY <1>1, <1>2 DEF ReleasedBefore, OwnsReservation
<1> QED
  BY <1>0, <1>1, <1>2, <1>3, <1>4, <1>5, Holder, LocalStep

\* TryReserve: the key was free, so whoever else is engaged with the driver has
\* lost its reservation; or it was not, and the next candidate is up.
LEMMA ReserveStep ==
  ASSUME Inv, TypeOK', NEW w \in Workers, NEW d \in Drivers, TryReserve(w, d)
  PROVE  Inv'
<1> DEFINE s == session[w]
<1>0. pc[w] = "reserve" /\ pc[w] \in Holding
  BY DEF TryReserve, Holding
<1>1. rides' = rides /\ pc' = pc
  BY DEF TryReserve
<1>s. /\ s \in Session /\ s.ride \in Rides
      /\ StartsMatching(rides[s.ride].status, s.target) /\ OneEdge(s, rides[s.ride])
  BY <1>0, Holder DEF WroteEdges
<1>2. \A v \in Workers : v # w => session'[v] = session[v]
  <2>1. \/ session' = [session EXCEPT ![w].cands = {}, ![w].driver = d]
        \/ session' = [session EXCEPT ![w].cands = @ \ {d}]
    BY DEF TryReserve
  <2> QED
    BY <2>1 DEF Inv, TypeOK
<1>3. /\ session'[w].ride = s.ride /\ session'[w].user = s.user
      /\ session'[w].target = s.target /\ session'[w].expected = s.expected
      /\ session'[w].row = s.row /\ session'[w].events = s.events
  BY <1>s DEF TryReserve, Session, Inv, TypeOK
<1>4. WroteEdges(w)'
  BY <1>0, <1>1, <1>3, Holder
  DEF WroteEdges, Allowed, Authorized, StartsMatching, OneEdge
<1>5. CASE Unreserved(d)
  <2>1. /\ reservation' = [reservation EXCEPT ![d] = s.ride]
        /\ voided' = [voided EXCEPT ![d] = @ \ {s.ride}]
        /\ session'[w].driver = d
    <3>1. d \in s.cands
      BY DEF TryReserve
    <3>2. /\ reservation' = [reservation EXCEPT ![d] = s.ride]
          /\ voided' = [voided EXCEPT ![d] = @ \ {s.ride}]
          /\ session' = [session EXCEPT ![w].cands = {}, ![w].driver = d]
      BY <1>5 DEF TryReserve
    <3> QED
      BY <1>s, <3>2 DEF Inv, TypeOK, Session
  <2>2. /\ reservation'[d] = s.ride /\ reservation[d] = NoRide
        /\ \A c \in Drivers : c # d => reservation'[c] = reservation[c] /\ voided'[c] = voided[c]
        /\ voided'[d] = voided[d] \ {s.ride}
    BY <1>5, <2>1 DEF Inv, TypeOK, Unreserved
  <2>3. DriverNamedLate' /\ OneHolder'
    BY <1>1, <1>2, <1>3 DEF Inv, DriverNamedLate, OneHolder
  <2>4. \A v \in Workers : /\ pc'[v] = "update" => ReadBefore(v)'
                           /\ pc'[v] \in Holding => WroteEdges(v)'
    BY <1>0, <1>1, <1>2, <1>4, Frame DEF Inv
  <2>5. ASSUME NEW v \in Workers PROVE ReleasedBefore(v)'
    <3>1. CASE pc[v] # "commit"
      BY <1>1, <3>1 DEF ReleasedBefore
    <3>2. CASE pc[v] = "commit" /\ v # w
      <4>1. session[v].ride # s.ride /\ pc[v] \in Holding
        BY <1>0, <3>2, Holder DEF Holding
      <4>2. ReleasedBefore(v) /\ session'[v] = session[v]
        BY <1>2, <3>2 DEF Inv
      <4>3. session[v].row.driver \in Drivers \cup {NoDriver}
        BY <4>1, Holder DEF Row
      <4> QED
        BY <1>1, <2>2, <4>1, <4>2, <4>3 DEF ReleasedBefore
    <3> QED
      BY <1>0, <3>1, <3>2
  <2>6. \A r \in Rides, c \in Drivers : Claims(r, c) => Claims(r, c)'
    <3> SUFFICES ASSUME NEW r \in Rides, NEW c \in Drivers, Claims(r, c)
                 PROVE  Claims(r, c)'
      OBVIOUS
    <3>1. reservation[d] # r
      BY <2>2, RidesAssumption
    <3> QED
      BY <2>2, <3>1 DEF Claims
  <2>7. EngagedClaims'
    <3> SUFFICES ASSUME NEW r \in Rides, NEW c \in Drivers, Engages(r, c)'
                 PROVE  Claims(r, c)'
      BY DEF EngagedClaims
    <3>1. CASE Engages(r, c)
      BY <2>6, <3>1 DEF Inv, EngagedClaims
    <3>2. CASE ~Engages(r, c)
      <4>1. r = s.ride /\ c = d
        BY <1>1, <1>2, <1>3, <2>1, <3>2 DEF Engages
      <4> QED
        BY <2>2, <4>1 DEF Claims
    <3> QED
      BY <3>1, <3>2
  <2>8. CancelFreesDriver'
    <3> SUFFICES ASSUME NEW r \in Rides, NEW c \in Drivers,
                        rides[r].status = "cancelled", rides[r].driver = c
                 PROVE  reservation'[c] # r
      BY <1>1 DEF CancelFreesDriver
    <3>1. reservation[c] # r
      BY DEF Inv, CancelFreesDriver
    <3>2. r # s.ride
      BY <1>s DEF StartsMatching
    <3> QED
      BY <2>2, <3>1, <3>2
  <2> QED
    BY <2>3, <2>4, <2>5, <2>7, <2>8 DEF Inv
<1>6. CASE ~Unreserved(d)
  <2>1. /\ reservation' = reservation /\ voided' = voided
        /\ session' = [session EXCEPT ![w].cands = @ \ {d}]
    BY <1>6 DEF TryReserve
  <2>2. session'[w].driver = s.driver
    BY <1>s, <2>1 DEF Inv, TypeOK, Session
  <2>3. ReleasedBefore(w)' /\ pc'[w] # "update"
    BY <1>0, <1>1 DEF ReleasedBefore
  <2> QED
    BY <1>0, <1>1, <1>2, <1>3, <1>4, <2>1, <2>2, <2>3, Holder, LocalStep
<1> QED
  BY <1>5, <1>6

\* The end of a reservation, whoever holds it, costs nobody its claim.
LEMMA DropKeeps ==
  ASSUME Inv, NEW d, DropReservation(d)
  PROVE  /\ \A r \in Rides, c \in Drivers : Claims(r, c) => Claims(r, c)'
         /\ \A r \in Rides, c \in Drivers : reservation[c] # r => reservation'[c] # r
<1>1. reservation' = [reservation EXCEPT ![d] = NoRide]
  BY DEF DropReservation
<1>2. ASSUME NEW r \in Rides, NEW c \in Drivers, Claims(r, c)
      PROVE  Claims(r, c)'
  <2>1. CASE c = d
    BY <1>2, <2>1, RidesAssumption DEF Claims, DropReservation, Inv, TypeOK
  <2>2. CASE c # d
    BY <1>2, <2>2 DEF Claims, DropReservation, Inv, TypeOK
  <2> QED
    BY <2>1, <2>2
<1>3. ASSUME NEW r \in Rides, NEW c \in Drivers, reservation[c] # r
      PROVE  reservation'[c] # r
  BY <1>1, <1>3, RidesAssumption DEF Inv, TypeOK
<1> QED
  BY <1>2, <1>3

\* ReleaseDelete: afterwards nobody holds the driver, in particular not this ride.
LEMMA ReleaseDeleteStep ==
  ASSUME Inv, TypeOK', NEW w \in Workers, ReleaseDelete(w)
  PROVE  Inv'
<1> DEFINE s == session[w]
<1>0. pc[w] = "delete" /\ pc[w] \in Holding
  BY DEF ReleaseDelete, Holding
<1>1. /\ rides' = rides /\ session' = session
      /\ DropReservation(s.row.driver)
      /\ Goto(w, "commit")
  BY DEF ReleaseDelete
<1>2. pc'[w] = "commit" /\ \A v \in Workers : v # w => pc'[v] = pc[v]
  BY <1>1 DEF Goto, Inv, TypeOK
<1>s. /\ s \in Session /\ s.ride \in Rides /\ s.row \in Row
      /\ s.target = "cancelled" /\ s.driver = NoDriver
      /\ s.row.driver # NoDriver /\ OneEdge(s, rides[s.ride])
  BY <1>0, Holder DEF WroteEdges
<1>3. WroteEdges(w)'
  BY <1>0, <1>1, <1>2, <1>s, Holder
  DEF WroteEdges, Allowed, Authorized, StartsMatching, OneEdge
<1>4. DriverNamedLate'
  BY <1>1 DEF Inv, DriverNamedLate
<1>5. OneHolder'
  BY <1>0, <1>1, <1>2 DEF Inv, OneHolder
<1>6. ASSUME NEW v \in Workers
      PROVE  /\ pc'[v] = "update" => ReadBefore(v)'
             /\ pc'[v] \in Holding => WroteEdges(v)'
             /\ ReleasedBefore(v)'
  <2>1. CASE v = w
    <3>1. s.row.driver \in Drivers
      BY <1>s DEF Row
    <3>2. reservation'[s.row.driver] = NoRide
      BY <1>1, <3>1 DEF DropReservation, Inv, TypeOK
    <3> QED
      BY <1>1, <1>2, <1>3, <1>s, <2>1, <3>2, RidesAssumption DEF ReleasedBefore
  <2>2. CASE v # w
    <3>1. /\ pc[v] = "update" => ReadBefore(v)
          /\ pc[v] \in Holding => WroteEdges(v)
          /\ ReleasedBefore(v)
      BY DEF Inv
    <3>2. ReleasedBefore(v)'
      <4>1. pc[v] = "commit" => /\ session[v].ride \in Rides
                                /\ session[v].row.driver \in Drivers \cup {NoDriver}
        BY Holder DEF Holding, Row
      <4> QED
        BY <1>1, <1>2, <2>2, <3>1, <4>1, DropKeeps DEF ReleasedBefore
    <3> QED
      BY <1>1, <1>2, <2>2, <3>1, <3>2, Frame
  <2> QED
    BY <2>1, <2>2
<1>7. EngagedClaims'
  <2> SUFFICES ASSUME NEW r \in Rides, NEW d \in Drivers, Engages(r, d)'
               PROVE  Claims(r, d)'
    BY DEF EngagedClaims
  <2>1. Engages(r, d)
    BY <1>0, <1>1, <1>2 DEF Engages
  <2> QED
    BY <1>1, <2>1, DropKeeps DEF Inv, EngagedClaims
<1>8. CancelFreesDriver'
  BY <1>1, DropKeeps DEF Inv, CancelFreesDriver
<1> QED
  BY <1>4, <1>5, <1>6, <1>7, <1>8 DEF Inv

\* The steps of the environment, all of them harmless: a reservation expires, or
\* the pool changes.
LEMMA PoolStep ==
  ASSUME Inv, TypeOK', Pool
  PROVE  Inv'
<1>1. rides' = rides /\ pc' = pc /\ session' = session
  BY DEF Pool, Expire, JoinPool, LeavePool
<1>2. /\ \A r \in Rides, c \in Drivers : Claims(r, c) => Claims(r, c)'
      /\ \A r \in Rides, c \in Drivers : reservation[c] # r => reservation'[c] # r
  <2>1. CASE \E d \in Drivers : Expire(d)
    BY <2>1, DropKeeps DEF Expire
  <2>2. CASE \E d \in Drivers : JoinPool(d) \/ LeavePool(d)
    BY <2>2 DEF JoinPool, LeavePool, Claims
  <2> QED
    BY <2>1, <2>2 DEF Pool
<1>3. DriverNamedLate' /\ OneHolder'
  BY <1>1 DEF Inv, DriverNamedLate, OneHolder
<1>4. ASSUME NEW v \in Workers
      PROVE  /\ pc'[v] = "update" => ReadBefore(v)'
             /\ pc'[v] \in Holding => WroteEdges(v)'
             /\ ReleasedBefore(v)'
  <2>1. /\ pc[v] = "update" => ReadBefore(v)
        /\ pc[v] \in Holding => WroteEdges(v)
        /\ ReleasedBefore(v)
    BY DEF Inv
  <2>2. pc[v] = "commit" => /\ session[v].ride \in Rides
                            /\ session[v].row.driver \in Drivers \cup {NoDriver}
    BY Holder DEF Holding, Row
  <2>3. ReleasedBefore(v)'
    BY <1>1, <1>2, <2>1, <2>2 DEF ReleasedBefore
  <2> QED
    BY <1>1, <2>1, <2>3, Frame
<1>5. EngagedClaims'
  <2> SUFFICES ASSUME NEW r \in Rides, NEW d \in Drivers, Engages(r, d)'
               PROVE  Claims(r, d)'
    BY DEF EngagedClaims
  <2>1. Engages(r, d)
    BY <1>1 DEF Engages
  <2> QED
    BY <1>2, <2>1 DEF Inv, EngagedClaims
<1>6. CancelFreesDriver'
  BY <1>1, <1>2 DEF Inv, CancelFreesDriver
<1> QED
  BY <1>3, <1>4, <1>5, <1>6 DEF Inv

\* The row a commit makes visible: one edge, or the two of a matching attempt,
\* away from the committed one.
LEMMA CommittedRow ==
  ASSUME Inv, NEW w \in Workers, pc[w] = "commit"
  PROVE  LET s   == session[w]
             old == rides[s.ride]
         IN  /\ s.ride \in Rides /\ s.row \in Row /\ old \in Row
             /\ s.driver \in Drivers \cup {NoDriver}
             /\ s.row.version > old.version
             /\ old.status \notin Final
             /\ \/ /\ ~StartsMatching(old.status, s.target)
                   /\ s.driver = NoDriver
                   /\ Allowed(old.status, s.target)
                   /\ s.row.status = s.target
                   /\ s.row.driver = old.driver
                \/ /\ old.status = "requested"
                   /\ old.driver = NoDriver
                   /\ s.target = "matching"
                   /\ s.row.driver = s.driver
                   /\ s.row.status = IF s.driver = NoDriver THEN "no_drivers_found"
                                     ELSE "accepted"
<1> DEFINE s   == session[w]
           old == rides[s.ride]
<1>0. pc[w] \in Holding
  BY DEF Holding
<1>1. /\ s.ride \in Rides /\ s.row \in Row /\ old \in Row
      /\ s.driver \in Drivers \cup {NoDriver} /\ WroteEdges(w)
  BY <1>0, Holder
<1>2. old.version \in Nat /\ old.status \in RideStatus
  BY <1>1 DEF Row
<1>3. Allowed(old.status, s.target) /\ old.status \notin Final
  BY <1>1, <1>2, GraphEnds DEF WroteEdges
<1>4. CASE OneEdge(s, old) /\ ~StartsMatching(old.status, s.target) /\ s.driver = NoDriver
  BY <1>1, <1>2, <1>3, <1>4 DEF OneEdge, Updated
<1>5. CASE TwoEdges(s, old) /\ StartsMatching(old.status, s.target)
  <2>1. old.status = "requested" /\ s.target = "matching"
    BY <1>5 DEF StartsMatching
  <2>2. old.driver = NoDriver
    BY <1>1, <2>1 DEF Inv, DriverNamedLate, ActiveStatus, Final
  <2> QED
    BY <1>1, <1>2, <1>3, <1>5, <2>1, <2>2 DEF TwoEdges, Updated
<1> QED
  BY <1>1, <1>4, <1>5 DEF WroteEdges

\* Commit: the row and its driver move on, and no one else had locked them.
LEMMA CommitStep ==
  ASSUME Inv, TypeOK', NEW w \in Workers, Commit(w)
  PROVE  Inv'
<1> DEFINE s   == session[w]
           old == rides[s.ride]
<1>0. pc[w] = "commit" /\ pc[w] \in Holding
  BY DEF Commit, Holding
<1>1. /\ s.ride \in Rides /\ s.row \in Row /\ old \in Row
      /\ s.row.version > old.version
      /\ old.version \in Nat /\ s.row.version \in Nat
      /\ old.status \in RideStatus /\ s.row.status \in RideStatus
  BY <1>0, CommittedRow DEF Row
<1>2. /\ rides' = [rides EXCEPT ![s.ride] = s.row]
      /\ reservation' = reservation /\ voided' = voided
      /\ Answer(w, "200")
  BY DEF Commit, redisVars
<1>3. /\ rides'[s.ride] = s.row
      /\ \A r \in Rides : r # s.ride => rides'[r] = rides[r]
      /\ pc'[w] = "200"
      /\ \A v \in Workers : v # w => pc'[v] = pc[v] /\ session'[v] = session[v]
  BY <1>1, <1>2 DEF Answer, Inv, TypeOK
<1>4. DriverNamedLate'
  <2> SUFFICES ASSUME NEW r \in Rides, rides'[r].driver # NoDriver
               PROVE  rides'[r].status \in ActiveStatus \cup Final
    BY DEF DriverNamedLate
  <2>1. CASE r # s.ride
    BY <1>3, <2>1 DEF Inv, DriverNamedLate
  <2>2. CASE r = s.ride /\ s.row.driver = old.driver /\ s.row.status = s.target
             /\ Allowed(old.status, s.target)
    <3>1. old.status \in ActiveStatus \cup Final
      BY <1>1, <1>3, <2>2 DEF Inv, DriverNamedLate
    <3> QED
      BY <1>1, <1>3, <2>2, <3>1, GraphServes, GraphEnds
  <2>3. CASE r = s.ride /\ s.row.driver = s.driver
             /\ s.row.status = IF s.driver = NoDriver THEN "no_drivers_found" ELSE "accepted"
    BY <1>3, <2>3 DEF ActiveStatus
  <2> QED
    BY <1>0, <2>1, <2>2, <2>3, CommittedRow
<1>5. OneHolder'
  BY <1>3 DEF Inv, OneHolder, Holding
<1>6. ASSUME NEW v \in Workers
      PROVE  /\ pc'[v] = "update" => ReadBefore(v)'
             /\ pc'[v] \in Holding => WroteEdges(v)'
             /\ ReleasedBefore(v)'
  <2>1. CASE v = w
    BY <1>3, <2>1 DEF Holding, ReleasedBefore
  <2>2. CASE v # w
    <3>0. pc'[v] = pc[v] /\ session'[v] = session[v]
      BY <1>3, <2>2
    <3>1. ASSUME pc[v] = "update" PROVE ReadBefore(v)'
      <4>1. ReadBefore(v)
        BY <3>1 DEF Inv
      <4>2. session[v] \in Session
        BY <3>1 DEF Inv, TypeOK, Busy
      <4>3. session[v].ride \in Rides /\ session[v].row.version \in Nat
        BY <4>2 DEF Session, Row
      <4>4. CASE session[v].ride = s.ride
        BY <1>1, <1>3, <3>0, <4>1, <4>3, <4>4 DEF ReadBefore, Allowed, Authorized
      <4>5. CASE session[v].ride # s.ride
        BY <1>3, <3>0, <4>1, <4>3, <4>5, Frame
      <4> QED
        BY <4>4, <4>5
    <3>2. ASSUME pc[v] \in Holding PROVE WroteEdges(v)'
      <4>1. session[v].ride # s.ride /\ session[v].ride \in Rides
        BY <1>0, <2>2, <3>2, Holder
      <4>2. WroteEdges(v)
        BY <3>2 DEF Inv
      <4> QED
        BY <1>3, <3>0, <4>1, <4>2, Frame
    <3>3. ReleasedBefore(v)'
      BY <1>2, <3>0 DEF Inv, ReleasedBefore
    <3> QED
      BY <3>0, <3>1, <3>2, <3>3
  <2> QED
    BY <2>1, <2>2
<1>7. EngagedClaims'
  <2> SUFFICES ASSUME NEW r \in Rides, NEW d \in Drivers, Engages(r, d)'
               PROVE  Engages(r, d)
    BY <1>2 DEF Inv, EngagedClaims, Claims
  <2>1. CASE \E v \in Workers : pc'[v] \in Holding /\ session'[v].ride = r /\ session'[v].driver = d
    <3>1. PICK v \in Workers : pc'[v] \in Holding /\ session'[v].ride = r /\ session'[v].driver = d
      BY <2>1
    <3>2. v # w
      BY <1>3, <3>1 DEF Holding
    <3> QED
      BY <1>3, <3>1, <3>2 DEF Engages
  <2>2. CASE rides'[r].driver = d /\ rides'[r].status \in ActiveStatus
    <3>1. CASE r # s.ride
      BY <1>3, <2>2, <3>1 DEF Engages
    <3>2. CASE r = s.ride /\ s.row.driver = old.driver /\ s.row.status = s.target
               /\ Allowed(old.status, s.target)
      <4>1. d # NoDriver
        BY NoDriverAssumption
      <4>2. old.driver = d /\ old.status \in ActiveStatus \cup Final
        BY <1>1, <1>3, <2>2, <3>2, <4>1 DEF Inv, DriverNamedLate
      <4>3. old.status \in ActiveStatus
        BY <1>1, <3>2, <4>2, GraphEnds
      <4> QED
        BY <3>2, <4>2, <4>3 DEF Engages
    <3>3. CASE r = s.ride /\ s.row.driver = s.driver
      BY <1>0, <1>3, <2>2, <3>3 DEF Engages
    <3> QED
      BY <1>0, <3>1, <3>2, <3>3, CommittedRow
  <2> QED
    BY <2>1, <2>2 DEF Engages
<1>8. CancelFreesDriver'
  <2> SUFFICES ASSUME NEW r \in Rides, NEW d \in Drivers,
                      rides'[r].status = "cancelled", rides'[r].driver = d
               PROVE  reservation[d] # r
    BY <1>2 DEF CancelFreesDriver
  <2>1. CASE r # s.ride
    BY <1>3, <2>1 DEF Inv, CancelFreesDriver
  <2>2. CASE r = s.ride
    <3>1. s.target = "cancelled"
      BY <1>0, <1>3, <2>2, CommittedRow
    <3>2. s.row.driver = d /\ d # NoDriver
      BY <1>3, <2>2, NoDriverAssumption
    <3> QED
      BY <1>0, <2>2, <3>1, <3>2 DEF Inv, ReleasedBefore
  <2> QED
    BY <2>1, <2>2
<1> QED
  BY <1>4, <1>5, <1>6, <1>7, <1>8 DEF Inv

\* Every step of the system keeps the inductive invariant.
LEMMA InvStep == Inv /\ Lookahead = 0 /\ [Next]_vars => Inv'
<1> SUFFICES ASSUME Inv, Lookahead = 0, [Next]_vars PROVE Inv'
  OBVIOUS
<1>0. TypeOK'
  BY TypeStep DEF Inv
<1>1. ASSUME NEW w \in Workers, Request(w) PROVE Inv'
  BY <1>0, <1>1, ReadStep DEF Request
<1>2. ASSUME NEW w \in Workers, Handler(w) PROVE Inv'
  <2>1. CASE UpdateStale(w)
    BY <1>0, <2>1, AnswerStep DEF UpdateStale, redisVars, Answered
  <2> QED
    BY <1>0, <1>2, <2>1, UpdateStep, SearchStep, ReserveStep, ResolveStep,
       ReleaseGetStep, ReleaseDeleteStep, CommitStep DEF Handler
<1>3. ASSUME NEW w \in Workers, Abort(w) PROVE Inv'
  BY <1>0, <1>3, AnswerStep DEF Abort, redisVars, Answered
<1>4. CASE Pool
  BY <1>0, <1>4, PoolStep
<1>5. CASE UNCHANGED vars
  <2>1. /\ rides' = rides /\ reservation' = reservation /\ voided' = voided
        /\ pc' = pc /\ session' = session
    BY <1>5 DEF vars
  <2>2. DriverNamedLate' /\ OneHolder' /\ EngagedClaims' /\ CancelFreesDriver'
    BY <2>1 DEF Inv, DriverNamedLate, OneHolder, EngagedClaims, Engages, Claims, CancelFreesDriver
  <2>3. \A v \in Workers : /\ pc'[v] = "update" => ReadBefore(v)'
                           /\ pc'[v] \in Holding => WroteEdges(v)'
                           /\ ReleasedBefore(v)'
    BY <2>1, Frame DEF Inv, ReleasedBefore
  <2> QED
    BY <1>0, <2>2, <2>3 DEF Inv
<1> QED
  BY <1>1, <1>2, <1>3, <1>4, <1>5 DEF Next

\* It holds initially.
LEMMA InvInit == Init => Inv
<1> SUFFICES ASSUME Init PROVE Inv
  OBVIOUS
<1>1. TypeOK
  BY TypeInit
<1>2. DriverNamedLate /\ EngagedClaims /\ CancelFreesDriver
  BY NoDriverAssumption
  DEF Init, DriverNamedLate, EngagedClaims, Engages, CancelFreesDriver, NewRide, Holding
<1>3. OneHolder /\ \A w \in Workers : pc[w] = "idle"
  BY DEF Init, OneHolder, Holding
<1> QED
  BY <1>1, <1>2, <1>3 DEF Inv, ReleasedBefore, Holding

\* The inductive invariant, when clients send versions they have read.
THEOREM Invariance ==
  ASSUME Lookahead = 0
  PROVE  Spec => []Inv
<1>1. Inv /\ [Next]_vars => Inv'
  BY InvStep
<1> QED
  BY <1>1, InvInit, PTL DEF Spec
-----------------------------------------------------------------------------------
(* The properties.                                                         *)

\* A request that has updated a row decided on the row as it is committed now,
\* however long ago it read it.
THEOREM CurrentRow ==
  ASSUME Lookahead = 0
  PROVE  Spec => []ActsOnCurrentRow
<1>1. Inv => ActsOnCurrentRow
  <2> SUFFICES ASSUME Inv, NEW w \in Workers, pc[w] \in Holding
               PROVE  LET s   == session[w]
                          old == rides[s.ride]
                      IN  /\ s.events[1].previous_status = old.status
                          /\ Allowed(old.status, s.target)
                          /\ Authorized(s.user, s.ride, old, s.target)
    BY DEF ActsOnCurrentRow
  <2>1. WroteEdges(w)
    BY Holder
  <2>2. ASSUME NEW s, NEW old, OneEdge(s, old)
        PROVE  s.events[1].previous_status = old.status
    BY <2>2 DEF OneEdge, StatusChanged
  <2>3. ASSUME NEW s, NEW old, TwoEdges(s, old)
        PROVE  s.events[1].previous_status = old.status
    BY <2>3 DEF TwoEdges, StatusChanged
  <2> QED
    BY <2>1, <2>2, <2>3 DEF WroteEdges
<1> QED
  BY <1>1, Invariance, PTL

\* Two rides are engaged with one driver only after a reservation was lost.
THEOREM Exclusive ==
  ASSUME Lookahead = 0
  PROVE  Spec => []ReservationExclusive
<1>1. Inv => ReservationExclusive
  BY DEF Inv, EngagedClaims, Claims, ReservationExclusive
<1> QED
  BY <1>1, Invariance, PTL

\* A cancelled ride never holds back the driver it had.
THEOREM CancelFrees ==
  ASSUME Lookahead = 0
  PROVE  Spec => []CancelFreesDriver
<1>1. Inv => CancelFreesDriver
  BY DEF Inv
<1> QED
  BY <1>1, Invariance, PTL

\* Only a commit changes a row or its events.
LEMMA OnlyCommits ==
  ASSUME [Next]_vars, ~UNCHANGED <<rides, outbox>>
  PROVE  \E w \in Workers : Commit(w)
<1>1. ASSUME NEW w \in Workers, Request(w) PROVE UNCHANGED <<rides, outbox>>
  BY <1>1 DEF Request, ReadRide
<1>2. ASSUME NEW w \in Workers, Handler(w), ~Commit(w) PROVE UNCHANGED <<rides, outbox>>
  BY <1>2 DEF Handler, UpdateRow, UpdateStale, Search, TryReserve, Resolve,
              ReleaseGet, ReleaseDelete
<1>3. ASSUME NEW w \in Workers, Abort(w) PROVE UNCHANGED <<rides, outbox>>
  BY <1>3 DEF Abort
<1>4. Pool => UNCHANGED <<rides, outbox>>
  BY DEF Pool, Expire, JoinPool, LeavePool
<1>5. UNCHANGED vars => UNCHANGED <<rides, outbox>>
  BY DEF vars
<1> QED
  BY <1>1, <1>2, <1>3, <1>4, <1>5 DEF Next

\* No step takes back what an earlier commit made final.
LEMMA NothingUndoneStep ==
  ASSUME Inv, [Next]_vars, rides' # rides, NEW r \in Rides
  PROVE  /\ rides[r].status \in {"completed", "cancelled"} => rides'[r] = rides[r]
         /\ rides[r].driver # NoDriver => rides'[r].driver = rides[r].driver
         /\ rides'[r] # rides[r] => rides'[r].version > rides[r].version
<1>1. PICK w \in Workers : Commit(w)
  BY OnlyCommits
<1>2. pc[w] = "commit" /\ rides' = [rides EXCEPT ![session[w].ride] = session[w].row]
  BY <1>1 DEF Commit
<1>3. CASE r # session[w].ride
  BY <1>2, <1>3 DEF Inv, TypeOK
<1>4. CASE r = session[w].ride
  <2>1. rides'[r] = session[w].row
    BY <1>2, <1>4 DEF Inv, TypeOK
  <2> QED
    BY <1>2, <1>4, <2>1, CommittedRow DEF Final
<1> QED
  BY <1>3, <1>4

\* Final statuses, drivers and versions are never taken back.
THEOREM NothingUndone ==
  ASSUME Lookahead = 0
  PROVE  Spec => NothingIsUndone
<1> DEFINE A == \A r \in Rides :
       /\ rides[r].status \in {"completed", "cancelled"} => rides'[r] = rides[r]
       /\ rides[r].driver # NoDriver => rides'[r].driver = rides[r].driver
       /\ rides'[r] # rides[r] => rides'[r].version > rides[r].version
<1>1. Inv /\ [Next]_vars => [A]_rides
  BY NothingUndoneStep
<1> QED
  BY <1>1, Invariance, PTL DEF Spec, NothingIsUndone
-----------------------------------------------------------------------------------
(* The refinement.                                                         *)

\* The ledger speaks of the same statuses, edges and rows as the handlers.
LEMMA SameVocabulary ==
  /\ Ledger!RideStatus = RideStatus
  /\ Ledger!RIDE_TRANSITIONS = RIDE_TRANSITIONS
  /\ Ledger!NewRide = NewRide
  /\ \A row, target, d : Ledger!Updated(row, target, d) = Updated(row, target, d)
BY DEF Ledger!RideStatus, RideStatus, Ledger!RIDE_TRANSITIONS, RIDE_TRANSITIONS,
       Ledger!NewRide, NewRide, Ledger!Updated, Updated

\* A commit is one step of the ledger, whatever was interleaved with it.
LEMMA CommitImplements ==
  ASSUME Inv, NEW w \in Workers, Commit(w)
  PROVE  Ledger!Next
<1> DEFINE s   == session[w]
           old == rides[s.ride]
<1>0. pc[w] = "commit" /\ pc[w] \in Holding
  BY DEF Commit, Holding
<1>1. /\ s.ride \in Rides /\ s.row \in Row /\ old \in Row
      /\ s.target \in RideStatus /\ s.driver \in Drivers \cup {NoDriver}
      /\ old.version \in Nat /\ WroteEdges(w)
  BY <1>0, Holder DEF Row
<1>2. /\ rides' = [rides EXCEPT ![s.ride] = s.row]
      /\ outbox' = [outbox EXCEPT ![s.ride] = @ \o s.events]
  BY DEF Commit, CommittedEvents
<1>3. CASE OneEdge(s, old) /\ ~StartsMatching(old.status, s.target)
  <2>1. /\ s.row = Updated(old, s.target, old.driver)
        /\ s.events = <<[previous_status |-> old.status,
                         new_status      |-> s.target,
                         driver          |-> old.driver]>>
    BY <1>3 DEF OneEdge, Updated, StatusChanged
  <2>2. /\ s.target \in RIDE_TRANSITIONS[old.status]
        /\ ~(old.status = "requested" /\ s.target = "matching")
    BY <1>1, <1>3 DEF WroteEdges, Allowed, StartsMatching
  <2>3. Ledger!Step(s.ride, s.target)
    BY <1>2, <2>1, <2>2, SameVocabulary DEF Ledger!Step
  <2> QED
    BY <1>1, <2>3, SameVocabulary DEF Ledger!Next
<1>4. CASE TwoEdges(s, old) /\ StartsMatching(old.status, s.target)
  <2> DEFINE outcome == IF s.driver = NoDriver THEN "no_drivers_found" ELSE "accepted"
             matching == Updated(old, "matching", old.driver)
  <2>1. old.status = "requested"
    BY <1>4 DEF StartsMatching
  <2>2. old.driver = NoDriver
    BY <1>1, <2>1 DEF Inv, DriverNamedLate, ActiveStatus, Final
  <2>3. matching = [status |-> "matching", version |-> old.version + 1, driver |-> NoDriver]
    BY <2>2 DEF Updated
  <2>4. s.row = [status |-> outcome, version |-> old.version + 2, driver |-> s.driver]
    <3>1. (old.version + 1) + 1 = old.version + 2
      BY <1>1
    <3>2. s.row = IF s.driver = NoDriver
                  THEN Updated(matching, "no_drivers_found", NoDriver)
                  ELSE Updated(matching, "accepted", s.driver)
      BY <1>4, <2>3 DEF TwoEdges
    <3> HIDE DEF matching
    <3>3. matching.version = old.version + 1
      BY <2>3
    <3> QED
      BY <3>1, <3>2, <3>3 DEF Updated
  <2>5. s.events = <<[previous_status |-> "requested",
                      new_status      |-> "matching",
                      driver          |-> NoDriver],
                     [previous_status |-> "matching",
                      new_status      |-> outcome,
                      driver          |-> s.driver]>>
    <3>1. s.events = <<StatusChanged(old.status, matching),
                       StatusChanged("matching", s.row)>>
      BY <1>4 DEF TwoEdges
    <3>2. StatusChanged(old.status, matching) =
            [previous_status |-> "requested", new_status |-> "matching", driver |-> NoDriver]
      BY <2>1, <2>3 DEF StatusChanged
    <3>3. StatusChanged("matching", s.row) =
            [previous_status |-> "matching", new_status |-> outcome, driver |-> s.driver]
      BY <2>4 DEF StatusChanged
    <3> QED
      BY <3>1, <3>2, <3>3
  <2>6. Ledger!Match(s.ride, s.driver)
    BY <1>2, <2>1, <2>4, <2>5 DEF Ledger!Match
  <2> QED
    BY <1>1, <2>6 DEF Ledger!Next
<1> QED
  BY <1>0, <1>1, <1>3, <1>4 DEF WroteEdges

\* With all their interleavings, crashes and expiries, the handlers implement the
\* ledger in which a transition is one indivisible step.
THEOREM Implements ==
  ASSUME Lookahead = 0
  PROVE  Spec => ImplementsLedger
<1>1. Init => Ledger!Init
  BY SameVocabulary DEF Init, Ledger!Init
<1>2. Inv /\ [Next]_vars => [Ledger!Next]_(Ledger!vars)
  <2> SUFFICES ASSUME Inv, [Next]_vars, ~UNCHANGED <<rides, outbox>>
               PROVE  Ledger!Next
    BY DEF Ledger!vars
  <2> QED
    BY OnlyCommits, CommitImplements
<1> QED
  BY <1>1, <1>2, Invariance, PTL DEF Spec, ImplementsLedger, Ledger!Spec

\* A step of the ledger changes a status along an edge of the graph, or along the
\* two of a matching attempt.
LEMMA LegalStep ==
  ASSUME TypeOK, Ledger!Next, NEW r \in Rides, rides'[r].status # rides[r].status
  PROVE  \/ rides'[r].status \in RIDE_TRANSITIONS[rides[r].status]
         \/ /\ rides[r].status = "requested"
            /\ rides'[r].status \in {"accepted", "no_drivers_found"}
<1>1. PICK q \in Rides : \/ \E target \in RideStatus : Ledger!Step(q, target)
                         \/ \E d \in Drivers \cup {NoDriver} : Ledger!Match(q, d)
  BY SameVocabulary DEF Ledger!Next
<1>2. CASE \E target \in RideStatus : Ledger!Step(q, target)
  <2>1. PICK target \in RideStatus : Ledger!Step(q, target)
    BY <1>2
  <2>2. /\ target \in RIDE_TRANSITIONS[rides[q].status]
        /\ rides' = [rides EXCEPT ![q] = Updated(rides[q], target, rides[q].driver)]
    BY <2>1, SameVocabulary DEF Ledger!Step
  <2>3. q = r /\ rides'[r].status = target
    BY <2>2 DEF TypeOK, Updated
  <2> QED
    BY <2>2, <2>3
<1>3. CASE \E d \in Drivers \cup {NoDriver} : Ledger!Match(q, d)
  <2>1. PICK d \in Drivers \cup {NoDriver} : Ledger!Match(q, d)
    BY <1>3
  <2>2. /\ rides[q].status = "requested"
        /\ \E outcome \in {"accepted", "no_drivers_found"} :
             rides' = [rides EXCEPT ![q] = [status  |-> outcome,
                                            version |-> rides[q].version + 2,
                                            driver  |-> d]]
    BY <2>1 DEF Ledger!Match
  <2>3. q = r /\ rides'[r].status \in {"accepted", "no_drivers_found"}
    BY <2>2 DEF TypeOK
  <2> QED
    BY <2>2, <2>3
<1> QED
  BY <1>1, <1>2, <1>3

\* The statement the code misses for clients that guess versions: for those that
\* send versions they have read, every committed change of status is legal.
THEOREM Legal ==
  ASSUME Lookahead = 0
  PROVE  Spec => TransitionsAreLegal
<1> DEFINE A == \A r \in Rides :
       rides'[r].status # rides[r].status =>
         \/ rides'[r].status \in RIDE_TRANSITIONS[rides[r].status]
         \/ /\ rides[r].status = "requested"
            /\ rides'[r].status \in {"accepted", "no_drivers_found"}
<1>1. TypeOK /\ [Ledger!Next]_(Ledger!vars) => [A]_rides
  BY LegalStep DEF Ledger!vars
<1> QED
  BY <1>1, TypeCorrect, Implements, PTL DEF ImplementsLedger, Ledger!Spec, TransitionsAreLegal

LedgerProofs == INSTANCE RideLedgerProofs

\* What is true of every ledger is true of the handlers' outbox: replayed in
\* commit order, it yields every row and never names another driver.
THEOREM OutboxTells ==
  ASSUME Lookahead = 0
  PROVE  Spec => [](OutboxTellsState /\ OutboxNamesTheDriver)
<1>1. Ledger!Init => LedgerProofs!Init
  BY DEF Ledger!Init, LedgerProofs!Init, Ledger!NewRide, LedgerProofs!NewRide
<1>2. [Ledger!Next]_(Ledger!vars) => [LedgerProofs!Next]_(LedgerProofs!vars)
  BY SameVocabulary
  DEF Ledger!Next, LedgerProofs!Next, Ledger!vars, LedgerProofs!vars,
      Ledger!Step, LedgerProofs!Step, Ledger!Match, LedgerProofs!Match,
      Updated, LedgerProofs!Updated, RideStatus, LedgerProofs!RideStatus,
      RIDE_TRANSITIONS, LedgerProofs!RIDE_TRANSITIONS
<1>3. LedgerProofs!HistoryTellsState /\ LedgerProofs!EventsNameTheDriver
        => Ledger!HistoryTellsState /\ Ledger!EventsNameTheDriver
  BY SameVocabulary
  DEF Ledger!HistoryTellsState, LedgerProofs!HistoryTellsState,
      Ledger!HistoryOf, LedgerProofs!HistoryOf,
      Ledger!EventsNameTheDriver, LedgerProofs!EventsNameTheDriver,
      Ledger!DriverOf, LedgerProofs!DriverOf,
      RIDE_TRANSITIONS, LedgerProofs!RIDE_TRANSITIONS
<1>4. LedgerProofs!Init /\ [][LedgerProofs!Next]_(LedgerProofs!vars)
        => [](LedgerProofs!HistoryTellsState /\ LedgerProofs!EventsNameTheDriver)
  BY LedgerProofs!LedgerTells, NoDriverAssumption, PTL DEF LedgerProofs!Spec
<1> QED
  BY <1>1, <1>2, <1>3, <1>4, Implements, PTL
  DEF ImplementsLedger, Ledger!Spec, OutboxTellsState, OutboxNamesTheDriver

\* No event of a ride names a driver other than its own.
THEOREM OutboxNames ==
  ASSUME Lookahead = 0
  PROVE  Spec => []OutboxNamesTheDriver
BY OutboxTells, PTL
-----------------------------------------------------------------------------------
(* The writers of the outbox.                                              *)

\* A ride that is still requested has no event yet.
LEMMA RequestedIsFirst ==
  ASSUME TypeOK, OutboxTellsState, NEW r \in Rides, rides[r].status = "requested"
  PROVE  outbox[r] = <<>>
<1>1. outbox[r] \in Seq(Event) /\ Len(outbox[r]) \in Nat
  BY DEF TypeOK
<1>2. Ledger!HistoryOf(r)
  BY DEF OutboxTellsState, Ledger!HistoryTellsState
<1>3. CASE Len(outbox[r]) = 0
  BY <1>1, <1>3, EmptySeq
<1>4. CASE Len(outbox[r]) # 0
  <2>1. PICK log : log = outbox[r]
    OBVIOUS
  <2>2. PICK n : n = Len(log) /\ n \in 1 .. Len(log)
    BY <1>1, <1>4, <2>1
  <2>3. PICK e \in Event : e = log[n]
    BY <1>1, <2>1, <2>2
  <2>4. /\ \A i \in 1 .. Len(log) :
             log[i].new_status \in RIDE_TRANSITIONS[log[i].previous_status]
        /\ rides[r].status = IF Len(log) = 0 THEN "requested" ELSE log[Len(log)].new_status
    BY <1>2, <2>1, SameVocabulary DEF Ledger!HistoryOf
  <2>5. e.new_status = "requested" /\ e.new_status \in RIDE_TRANSITIONS[e.previous_status]
    BY <1>4, <2>1, <2>2, <2>3, <2>4
  <2>6. e.previous_status \in RideStatus
    BY DEF Event
  <2> QED
    BY <2>5, <2>6, GraphEnds DEF Allowed
<1> QED
  BY <1>3, <1>4

\* Once w has committed, the other requests on its ride send an older version.
LEMMA OthersHaveLost ==
  ASSUME Inv, NEW w \in Workers, Commit(w), NEW v \in Workers, pc'[v] \in Busy,
         session'[v].ride = session[w].ride
  PROVE  session'[v].expected < rides'[session[w].ride].version
<1> DEFINE s == session[w]
<1>0. pc[w] = "commit" /\ pc[w] \in Holding
  BY DEF Commit, Holding
<1>1. /\ s.ride \in Rides /\ rides'[s.ride] = s.row
      /\ rides[s.ride].version \in Nat /\ s.row.version \in Nat
      /\ s.row.version > rides[s.ride].version
  BY <1>0, CommittedRow DEF Commit, Inv, TypeOK, Row
<1>2. v # w
  BY DEF Commit, Answer, Inv, TypeOK, Busy, Holding
<1>3. pc'[v] = pc[v] /\ session'[v] = session[v]
  BY <1>2 DEF Commit, Answer, Inv, TypeOK
<1>4. pc[v] = "update"
  BY <1>0, <1>2, <1>3 DEF Inv, OneHolder, Busy
<1>5. session[v] \in Session
  BY <1>4 DEF Inv, TypeOK, Busy
<1>6. session[v].expected \in Nat /\ session[v].row.version \in Nat
  BY <1>5 DEF Session, Row
<1>7. session[v].expected <= rides[s.ride].version
  BY <1>1, <1>3, <1>4, <1>6 DEF Inv, ReadBefore
<1> QED
  BY <1>1, <1>3, <1>6, <1>7

\* A commit appends one event, or the first two.
LEMMA CommitAppends ==
  ASSUME Inv, OutboxTellsState, NEW w \in Workers, Commit(w)
  PROVE  LET r == session[w].ride IN
         \E n \in 1 .. 2 : /\ Len(outbox'[r]) = Len(outbox[r]) + n
                           /\ n = 2 => outbox[r] = <<>>
<1> DEFINE s   == session[w]
           old == rides[s.ride]
<1>0. pc[w] = "commit" /\ pc[w] \in Holding /\ TypeOK
  BY DEF Commit, Holding, Inv
<1>1. s.ride \in Rides /\ WroteEdges(w) /\ s \in Session
  BY <1>0, Holder
<1>2. /\ outbox[s.ride] \in Seq(Event) /\ s.events \in Seq(Event)
      /\ Len(outbox[s.ride]) \in Nat
      /\ outbox'[s.ride] = outbox[s.ride] \o s.events
  BY <1>0, <1>1 DEF Commit, CommittedEvents, TypeOK, Session
<1>3. Len(outbox'[s.ride]) = Len(outbox[s.ride]) + Len(s.events)
  BY <1>2
<1>4. CASE OneEdge(s, old)
  <2>1. Len(s.events) = 1
    BY <1>4 DEF OneEdge
  <2> QED
    BY <1>3, <2>1
<1>5. CASE TwoEdges(s, old) /\ StartsMatching(old.status, s.target)
  <2>1. Len(s.events) = 2
    BY <1>5 DEF TwoEdges
  <2>2. outbox[s.ride] = <<>>
    BY <1>0, <1>1, <1>5, RequestedIsFirst DEF StartsMatching
  <2> QED
    BY <1>3, <2>1, <2>2
<1> QED
  BY <1>0, <1>1, <1>4, <1>5 DEF WroteEdges

LEMMA OneWriterStep ==
  ASSUME Inv, OutboxTellsState, [Next]_vars, outbox' # outbox, NEW r \in Rides,
         outbox'[r] # outbox[r]
  PROVE  /\ \E n \in 1 .. 2 : /\ Len(outbox'[r]) = Len(outbox[r]) + n
                              /\ n = 2 => outbox[r] = <<>>
         /\ \A w \in Workers : pc'[w] \in Busy /\ session'[w].ride = r =>
              session'[w].expected < rides'[r].version
<1>1. PICK w \in Workers : Commit(w)
  BY OnlyCommits
<1>2. r = session[w].ride
  BY <1>1 DEF Commit, Inv, TypeOK
<1> QED
  BY <1>1, <1>2, OthersHaveLost, CommitAppends

\* A commit leaves one event, or a ride's first two, and makes every other request that
\* has read the ride miss its version: none of them can leave an event any more.
THEOREM OneWriter ==
  ASSUME Lookahead = 0
  PROVE  Spec => OneWriterAtATime
<1> DEFINE A == \A r \in Rides : outbox'[r] # outbox[r] =>
       /\ \E n \in 1 .. 2 : /\ Len(outbox'[r]) = Len(outbox[r]) + n
                            /\ n = 2 => outbox[r] = <<>>
       /\ \A w \in Workers : pc'[w] \in Busy /\ session'[w].ride = r =>
            session'[w].expected < rides'[r].version
<1>1. Inv /\ OutboxTellsState /\ [Next]_vars => [A]_outbox
  BY OneWriterStep
<1> QED
  BY <1>1, Invariance, OutboxTells, PTL DEF Spec, OneWriterAtATime
===================================================================================
