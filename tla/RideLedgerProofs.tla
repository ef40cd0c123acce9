----------------------------- MODULE RideLedgerProofs -----------------------------
(***************************************************************************)
(* The log of the ledger tells the state of the rides, for any sets of     *)
(* rides and drivers and histories of any length.                          *)
(***************************************************************************)
EXTENDS RideLedger, TLAPS

\* What appending the event of one edge does to a log.
LEMMA AppendOne ==
  ASSUME NEW S, NEW s \in Seq(S), NEW e \in S
  PROVE  LET t == s \o <<e>> IN
         /\ t \in Seq(S)
         /\ Len(t) = Len(s) + 1
         /\ t[Len(s) + 1] = e
         /\ \A i \in 1 .. Len(s) : t[i] = s[i]
OBVIOUS

\* What appending the two events of a matching attempt does to a log.
LEMMA AppendTwo ==
  ASSUME NEW S, NEW s \in Seq(S), NEW e \in S, NEW f \in S
  PROVE  LET t == s \o <<e, f>> IN
         /\ t \in Seq(S)
         /\ Len(t) = Len(s) + 2
         /\ t[Len(s) + 1] = e
         /\ t[Len(s) + 2] = f
         /\ \A i \in 1 .. Len(s) : t[i] = s[i]
OBVIOUS

\* The graph only leads to statuses, and never back to "requested".
LEMMA TransitionsTyped ==
  \A s \in RideStatus : RIDE_TRANSITIONS[s] \subseteq RideStatus \ {"requested"}
BY DEF RIDE_TRANSITIONS, RideStatus

\* A matching attempt follows two edges of the graph.
LEMMA MatchEdges ==
  /\ "matching" \in RIDE_TRANSITIONS["requested"]
  /\ {"accepted", "no_drivers_found"} \subseteq RIDE_TRANSITIONS["matching"]
BY DEF RIDE_TRANSITIONS, RideStatus

-----------------------------------------------------------------------------------
\* Every step keeps the table and the log well formed.
LEMMA TypeStep == TypeOK /\ [Next]_vars => TypeOK'
<1> SUFFICES ASSUME TypeOK, [Next]_vars PROVE TypeOK'
  OBVIOUS
<1> USE DEF TypeOK
<1>1. ASSUME NEW r \in Rides, NEW target \in RideStatus, Step(r, target)
      PROVE  TypeOK'
  <2> DEFINE e == [previous_status |-> rides[r].status,
                   new_status      |-> target,
                   driver          |-> rides[r].driver]
  <2>1. rides[r] \in Row
    OBVIOUS
  <2>2. e \in Event
    BY <2>1 DEF Row, Event
  <2>3. outbox[r] \o <<e>> \in Seq(Event)
    BY <2>2, AppendOne
  <2>4. outbox' \in [Rides -> Seq(Event)]
    BY <1>1, <2>3 DEF Step
  <2>5. rides' \in [Rides -> Row]
    BY <1>1, <2>1 DEF Step, Row, Updated
  <2> QED
    BY <2>4, <2>5
<1>2. ASSUME NEW r \in Rides, NEW d \in Drivers \cup {NoDriver}, Match(r, d)
      PROVE  TypeOK'
  <2> DEFINE outcome == IF d = NoDriver THEN "no_drivers_found" ELSE "accepted"
             e == [previous_status |-> "requested",
                   new_status      |-> "matching",
                   driver          |-> NoDriver]
             f == [previous_status |-> "matching",
                   new_status      |-> outcome,
                   driver          |-> d]
  <2>1. rides[r].version \in Nat
    BY DEF Row
  <2>2. e \in Event /\ f \in Event
    BY DEF Event, RideStatus
  <2>3. outbox[r] \o <<e, f>> \in Seq(Event)
    BY <2>2, AppendTwo
  <2>4. outbox' \in [Rides -> Seq(Event)]
    BY <1>2, <2>3 DEF Match
  <2>5. rides' \in [Rides -> Row]
    BY <1>2, <2>1 DEF Match, Row, RideStatus
  <2> QED
    BY <2>4, <2>5
<1>3. CASE UNCHANGED vars
  BY <1>3 DEF vars
<1> QED
  BY <1>1, <1>2, <1>3 DEF Next

\* The rows and the log of the ledger always have their types.
THEOREM TypeCorrect == Spec => []TypeOK
<1>1. Init => TypeOK
  BY DEF Init, TypeOK, Row, NewRide, RideStatus
<1> QED
  BY <1>1, TypeStep, PTL DEF Spec
-----------------------------------------------------------------------------------
\* A ride whose log is empty is as it was created.
LEMMA EmptyLog ==
  ASSUME TypeOK, NEW r \in Rides, HistoryOf(r), DriverOf(r),
         rides[r].status = "requested"
  PROVE  Len(outbox[r]) = 0 /\ rides[r].version = 1 /\ rides[r].driver = NoDriver
<1>1. Len(outbox[r]) \in Nat /\ rides[r].version \in Nat
  BY DEF TypeOK, Row
<1>2. ASSUME Len(outbox[r]) # 0 PROVE FALSE
  <2> DEFINE last == outbox[r][Len(outbox[r])]
  <2>1. Len(outbox[r]) \in 1 .. Len(outbox[r])
    BY <1>1, <1>2
  <2>2. last \in Event
    BY <2>1 DEF TypeOK
  <2>3. last.new_status \in RIDE_TRANSITIONS[last.previous_status]
    BY <2>1 DEF HistoryOf
  <2>4. last.new_status = "requested"
    BY <1>2 DEF HistoryOf
  <2> QED
    BY <2>2, <2>3, <2>4, TransitionsTyped DEF Event
<1> QED
  BY <1>1, <1>2 DEF HistoryOf, DriverOf

\* A step along one edge extends the story of its ride.
LEMMA StepTells ==
  ASSUME TypeOK, TypeOK', NEW r \in Rides, NEW target \in RideStatus,
         Step(r, target), HistoryOf(r), DriverOf(r)
  PROVE  HistoryOf(r)' /\ DriverOf(r)'
<1> DEFINE n == Len(outbox[r])
           e == [previous_status |-> rides[r].status,
                 new_status      |-> target,
                 driver          |-> rides[r].driver]
<1>1. /\ rides[r] \in Row
      /\ outbox[r] \in Seq(Event)
      /\ n \in Nat
      /\ e \in Event
  <2>1. rides[r] \in Row /\ outbox[r] \in Seq(Event)
    BY DEF TypeOK
  <2>2. e \in Event
    BY <2>1 DEF Row, Event
  <2> QED
    BY <2>1, <2>2
<1>2. /\ rides'[r] = Updated(rides[r], target, rides[r].driver)
      /\ outbox'[r] = outbox[r] \o <<e>>
  BY DEF Step, TypeOK, Updated
<1>3. /\ Len(outbox'[r]) = n + 1
      /\ outbox'[r][n + 1] = e
      /\ \A i \in 1 .. n : outbox'[r][i] = outbox[r][i]
  BY <1>1, <1>2, AppendOne
<1>4. /\ rides'[r].version = rides[r].version + 1
      /\ rides'[r].status = target
      /\ rides'[r].driver = rides[r].driver
      /\ rides[r].version \in Nat
  BY <1>1, <1>2 DEF Row, Updated
<1>5. n = 0 => rides[r].driver = NoDriver
  BY DEF DriverOf
<1>6. HistoryOf(r)'
  <2>1. Len(outbox'[r]) = rides'[r].version - 1
    BY <1>1, <1>3, <1>4 DEF HistoryOf
  <2>2. ASSUME NEW i \in 1 .. n + 1
        PROVE  /\ outbox'[r][i].new_status \in
                    RIDE_TRANSITIONS[outbox'[r][i].previous_status]
               /\ outbox'[r][i].previous_status =
                    IF i = 1 THEN "requested" ELSE outbox'[r][i - 1].new_status
    <3>1. CASE i \in 1 .. n
      <4>1. i = 1 \/ i - 1 \in 1 .. n
        BY <1>1, <3>1
      <4> QED
        BY <1>3, <3>1, <4>1 DEF HistoryOf
    <3>2. CASE i = n + 1
      <4>1. e.new_status \in RIDE_TRANSITIONS[e.previous_status]
        BY DEF Step
      <4>2. n = 0 \/ n \in 1 .. n
        BY <1>1
      <4>3. e.previous_status = IF n = 0 THEN "requested" ELSE outbox[r][n].new_status
        BY DEF HistoryOf
      <4>4. i - 1 = n /\ (i = 1 <=> n = 0)
        BY <1>1, <3>2
      <4> QED
        BY <1>3, <3>2, <4>1, <4>2, <4>3, <4>4
    <3> QED
      BY <1>1, <3>1, <3>2
  <2>3. rides'[r].status = IF Len(outbox'[r]) = 0 THEN "requested"
                           ELSE outbox'[r][Len(outbox'[r])].new_status
    BY <1>1, <1>3, <1>4
  <2> QED
    BY <1>3, <2>1, <2>2, <2>3 DEF HistoryOf
<1>7. DriverOf(r)'
  <2>1. rides'[r].driver # NoDriver => Len(outbox'[r]) >= 2
    BY <1>1, <1>3, <1>4 DEF DriverOf
  <2>2. ASSUME NEW i \in 1 .. n + 1
        PROVE  outbox'[r][i].driver = IF i = 1 THEN NoDriver ELSE rides'[r].driver
    <3>1. CASE i \in 1 .. n
      BY <1>3, <1>4, <3>1 DEF DriverOf
    <3>2. CASE i = n + 1
      BY <1>1, <1>3, <1>4, <1>5, <3>2
    <3> QED
      BY <1>1, <3>1, <3>2
  <2> QED
    BY <1>3, <2>1, <2>2 DEF DriverOf
<1> QED
  BY <1>6, <1>7

\* So does a matching attempt, which only happens to a ride with an empty log.
LEMMA MatchTells ==
  ASSUME TypeOK, TypeOK', NEW r \in Rides, NEW d \in Drivers \cup {NoDriver},
         Match(r, d), HistoryOf(r), DriverOf(r)
  PROVE  HistoryOf(r)' /\ DriverOf(r)'
<1> DEFINE outcome == IF d = NoDriver THEN "no_drivers_found" ELSE "accepted"
           e == [previous_status |-> "requested",
                 new_status      |-> "matching",
                 driver          |-> NoDriver]
           f == [previous_status |-> "matching",
                 new_status      |-> outcome,
                 driver          |-> d]
<1>1. rides[r].status = "requested"
  BY DEF Match
<1>2. Len(outbox[r]) = 0 /\ rides[r].version = 1 /\ rides[r].driver = NoDriver
  BY <1>1, EmptyLog
<1>3. e \in Event /\ f \in Event /\ outbox[r] \in Seq(Event)
  BY DEF TypeOK, Event, RideStatus
<1>4. /\ rides'[r] = [status |-> outcome, version |-> 3, driver |-> d]
      /\ outbox'[r] = outbox[r] \o <<e, f>>
  BY <1>2 DEF Match, TypeOK
<1>5. Len(outbox'[r]) = 2 /\ outbox'[r][1] = e /\ outbox'[r][2] = f
  BY <1>2, <1>3, <1>4, AppendTwo
<1>6. \A i \in 1 .. 2 : i = 1 \/ i = 2
  OBVIOUS
<1>7. outcome \in RIDE_TRANSITIONS["matching"]
  BY MatchEdges
<1>8. HistoryOf(r)'
  <2>1. ASSUME NEW i \in 1 .. 2
        PROVE  /\ outbox'[r][i].new_status \in
                    RIDE_TRANSITIONS[outbox'[r][i].previous_status]
               /\ outbox'[r][i].previous_status =
                    IF i = 1 THEN "requested" ELSE outbox'[r][i - 1].new_status
    <3>1. CASE i = 1
      BY <1>5, <3>1, MatchEdges
    <3>2. CASE i = 2
      BY <1>5, <1>7, <3>2
    <3> QED
      BY <1>6, <3>1, <3>2
  <2>2. Len(outbox'[r]) = rides'[r].version - 1
    BY <1>4, <1>5
  <2>3. rides'[r].status = IF Len(outbox'[r]) = 0 THEN "requested"
                           ELSE outbox'[r][Len(outbox'[r])].new_status
    BY <1>4, <1>5
  <2> HIDE DEF e, f, outcome
  <2> QED
    BY <1>5, <2>1, <2>2, <2>3 DEF HistoryOf
<1>9. DriverOf(r)'
  BY <1>4, <1>5, <1>6 DEF DriverOf
<1> QED
  BY <1>8, <1>9

\* The two invariants hold together: each needs the other for its step.
LEMMA TellsStep ==
  TypeOK /\ TypeOK' /\ HistoryTellsState /\ EventsNameTheDriver /\ [Next]_vars
    => HistoryTellsState' /\ EventsNameTheDriver'
<1> SUFFICES ASSUME TypeOK, TypeOK', HistoryTellsState, EventsNameTheDriver,
                    [Next]_vars, NEW q \in Rides
             PROVE  HistoryOf(q)' /\ DriverOf(q)'
  BY DEF HistoryTellsState, EventsNameTheDriver
<1>1. HistoryOf(q) /\ DriverOf(q)
  BY DEF HistoryTellsState, EventsNameTheDriver
<1>2. ASSUME rides'[q] = rides[q], outbox'[q] = outbox[q]
      PROVE  HistoryOf(q)' /\ DriverOf(q)'
  BY <1>1, <1>2 DEF HistoryOf, DriverOf
<1>3. ASSUME NEW r \in Rides, NEW target \in RideStatus, Step(r, target)
      PROVE  HistoryOf(q)' /\ DriverOf(q)'
  <2>1. CASE r = q
    BY <1>1, <1>3, <2>1, StepTells
  <2>2. CASE r # q
    BY <1>2, <1>3, <2>2 DEF Step, TypeOK
  <2> QED
    BY <2>1, <2>2
<1>4. ASSUME NEW r \in Rides, NEW d \in Drivers \cup {NoDriver}, Match(r, d)
      PROVE  HistoryOf(q)' /\ DriverOf(q)'
  <2>1. CASE r = q
    BY <1>1, <1>4, <2>1, MatchTells
  <2>2. CASE r # q
    BY <1>2, <1>4, <2>2 DEF Match, TypeOK
  <2> QED
    BY <2>1, <2>2
<1>5. CASE UNCHANGED vars
  BY <1>2, <1>5 DEF vars
<1> QED
  BY <1>3, <1>4, <1>5 DEF Next

\* The story the log tells and the driver it names, in every reachable state.
THEOREM LedgerTells == Spec => [](HistoryTellsState /\ EventsNameTheDriver)
<1>1. Init => HistoryTellsState /\ EventsNameTheDriver
  BY DEF Init, HistoryTellsState, EventsNameTheDriver, HistoryOf, DriverOf, NewRide
<1>2. Spec => []TypeOK
  BY TypeCorrect
<1> QED
  BY <1>1, <1>2, TellsStep, PTL DEF Spec
===================================================================================
