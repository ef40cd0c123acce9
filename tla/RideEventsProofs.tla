---------------------------- MODULE RideEventsProofs ----------------------------
(***************************************************************************)
(* Proofs about RideEvents: it is RideTransitions with a clock, and it     *)
(* writes table outbox_events as EventTable says, for any numbers of       *)
(* rides, users, drivers and concurrent requests.                          *)
(***************************************************************************)
EXTENDS RideEvents, RideTransitionsProofs
-----------------------------------------------------------------------------------
(* The inductive invariant.                                                *)

\* A request was sent with a version that was committed when its transaction began,
\* and leaves room for two more.
SentSeen ==
  \A w \in Workers : pc[w] \in Busy =>
    /\ session[w].expected <= seen[w][session[w].ride]
    /\ session[w].expected + 2 <= MaxVersion

\* If a ride is as it was when a transaction began, its last commit came before that.
BeganAfter ==
  \A w \in Workers, r \in Rides : began[w] # 0 =>
    /\ seen[w][r] <= rides[r].version
    /\ seen[w][r] = rides[r].version => committed[r] <= began[w]

EventsInv ==
  /\ EventsTypeOK
  /\ SentSeen
  /\ BeganAfter
-----------------------------------------------------------------------------------
(* Every step is one of RideTransitions, or Begin or Leave.                *)

LEMMA IsTransition ==
  ASSUME [EventsNext]_<<vars, timeVars>>
  PROVE  [Next]_vars
<1>1. ASSUME NEW w \in Workers, Begin(w) \/ Leave(w) PROVE UNCHANGED vars
  BY <1>1 DEF Begin, Leave
<1>2. ASSUME NEW w \in Workers, Receive(w) PROVE Request(w)
  BY <1>2 DEF Receive, Request
<1>3. ASSUME NEW w \in Workers, Continue(w) PROVE Handler(w) \/ Abort(w)
  BY <1>3 DEF Continue
<1>4. ASSUME NEW w \in Workers, CommitEvents(w) PROVE Handler(w)
  BY <1>4 DEF CommitEvents, Handler
<1> QED
  BY <1>1, <1>2, <1>3, <1>4 DEF EventsNext, Next

\* The handlers with their clock are the handlers: whatever is proved of Spec holds.
THEOREM EventsImplement == EventsSpec => Spec
<1>1. EventsInit => Init
  BY DEF EventsInit
<1>2. [EventsNext]_<<vars, timeVars>> => [Next]_vars
  BY IsTransition
<1> QED
  BY <1>1, <1>2, PTL DEF EventsSpec, Spec
-----------------------------------------------------------------------------------
(* Who moves.                                                              *)

\* A step of w leaves the other requests where they are.
LEMMA OthersStay ==
  ASSUME TypeOK, NEW w \in Workers, Request(w) \/ Handler(w) \/ Abort(w)
  PROVE  \A v \in Workers \ {w} : pc'[v] = pc[v] /\ session'[v] = session[v]
<1>1. pc \in [Workers -> Answered \cup Busy] /\ session \in [Workers -> Session \cup {NoSession}]
  BY DEF TypeOK
<1>2. CASE Request(w)
  BY <1>1, <1>2 DEF Request, ReadRide, Answer, Goto
<1>3. CASE Abort(w)
  BY <1>1, <1>3 DEF Abort, Answer
<1>4. CASE UpdateRow(w)
  BY <1>1, <1>4 DEF UpdateRow, Goto
<1>5. CASE UpdateStale(w)
  BY <1>1, <1>5 DEF UpdateStale, Answer
<1>6. CASE Search(w)
  BY <1>1, <1>6 DEF Search, Goto
<1>7. CASE \E d \in Drivers : TryReserve(w, d)
  BY <1>1, <1>7 DEF TryReserve
<1>8. CASE Resolve(w)
  BY <1>1, <1>8 DEF Resolve, Goto
<1>9. CASE ReleaseGet(w)
  BY <1>1, <1>9 DEF ReleaseGet, Goto
<1>10. CASE ReleaseDelete(w)
  BY <1>1, <1>10 DEF ReleaseDelete, Goto
<1>11. CASE Commit(w)
  BY <1>1, <1>11 DEF Commit, Answer
<1> QED
  BY <1>2, <1>3, <1>4, <1>5, <1>6, <1>7, <1>8, <1>9, <1>10, <1>11 DEF Handler

\* A handler that goes on keeps the parameters of its request.
LEMMA ParametersKept ==
  ASSUME TypeOK, NEW w \in Workers, Handler(w) \/ Abort(w), pc'[w] \in Busy
  PROVE  /\ pc[w] \in Busy
         /\ session'[w].ride = session[w].ride
         /\ session'[w].expected = session[w].expected
<1>1. pc \in [Workers -> Answered \cup Busy] /\ session \in [Workers -> Session \cup {NoSession}]
  BY DEF TypeOK
<1>2. pc[w] \in Busy
  BY DEF Handler, UpdateRow, UpdateStale, Search, TryReserve, Resolve, ReleaseGet,
         ReleaseDelete, Commit, Abort, Busy, Holding
<1>3. session[w] \in Session
  BY <1>2 DEF TypeOK
<1>4. ASSUME NEW code \in Answered, Answer(w, code) PROVE FALSE
  BY <1>1, <1>4 DEF Answer, Answered, Busy, Holding
<1>5. ~Abort(w) /\ ~UpdateStale(w) /\ ~Commit(w)
  BY <1>4 DEF Abort, UpdateStale, Commit, Answered
<1>6. ASSUME NEW row, NEW events,
             session' = [session EXCEPT ![w].row = row, ![w].events = events]
      PROVE  session'[w].ride = session[w].ride /\ session'[w].expected = session[w].expected
  BY <1>1, <1>3, <1>6 DEF Session
<1>7. ASSUME NEW cands, session' = [session EXCEPT ![w].cands = cands]
      PROVE  session'[w].ride = session[w].ride /\ session'[w].expected = session[w].expected
  BY <1>1, <1>3, <1>7 DEF Session
<1>8. ASSUME NEW cands, NEW driver,
             session' = [session EXCEPT ![w].cands = cands, ![w].driver = driver]
      PROVE  session'[w].ride = session[w].ride /\ session'[w].expected = session[w].expected
  BY <1>1, <1>3, <1>8 DEF Session
<1>9. ASSUME UpdateRow(w) \/ Resolve(w)
      PROVE  \E row, events : session' = [session EXCEPT ![w].row = row, ![w].events = events]
  <2>1. CASE UpdateRow(w)
    BY <2>1, Zenon DEF UpdateRow
  <2>2. CASE Resolve(w)
    <3>1. \E row : session' = [session EXCEPT ![w].row = row,
                          ![w].events = Append(@, StatusChanged(session[w].row.status, row))]
      BY <2>2, Zenon DEF Resolve
    <3>2. PICK row : session' = [session EXCEPT ![w].row = row,
                          ![w].events = Append(@, StatusChanged(session[w].row.status, row))]
      BY <3>1
    <3>3. PICK events : events = Append(session[w].events, StatusChanged(session[w].row.status, row))
      OBVIOUS
    <3>4. session' = [session EXCEPT ![w].row = row, ![w].events = events]
      BY <1>1, <1>3, <3>2, <3>3 DEF Session
    <3> QED
      BY <3>4
  <2> QED
    BY <1>9, <2>1, <2>2
<1>10. CASE ReleaseGet(w) \/ ReleaseDelete(w)
  BY <1>2, <1>10 DEF ReleaseGet, ReleaseDelete
<1>11. CASE Search(w)
  BY <1>2, <1>7, <1>11 DEF Search
<1>12. CASE \E d \in Drivers : TryReserve(w, d)
  <2>1. PICK d \in Drivers : TryReserve(w, d)
    BY <1>12
  <2>2. \/ session' = [session EXCEPT ![w].cands = {}, ![w].driver = d]
        \/ session' = [session EXCEPT ![w].cands = @ \ {d}]
    BY <2>1 DEF TryReserve
  <2> QED
    BY <1>1, <1>2, <1>3, <1>8, <2>2 DEF Session
<1> QED
  BY <1>2, <1>5, <1>6, <1>9, <1>10, <1>11, <1>12 DEF Handler

\* Answered and Busy are different places.
LEMMA AnsweredOrBusy ==
  /\ Answered \cap Busy = {}
  /\ TypeOK => \A w \in Workers : pc[w] \in Answered \/ pc[w] \in Busy
BY DEF Answered, Busy, Holding, TypeOK

\* A request that has a transaction gets none, and one that has answered has none.
LEMMA TransactionStep ==
  ASSUME EventsTypeOK, NEW w \in Workers, EndIfAnswered(w)
  PROVE  /\ began' \in [Workers -> 0 .. clock] /\ seen' \in [Workers -> [Rides -> Nat]]
         /\ \A v \in Workers : \/ began'[v] = 0 /\ v = w /\ pc'[w] \in Answered
                               \/ began'[v] = began[v] /\ seen'[v] = seen[v]
<1>1. /\ began \in [Workers -> 0 .. clock] /\ seen \in [Workers -> [Rides -> Nat]]
      /\ clock \in Nat /\ Unseen \in [Rides -> Nat]
  BY DEF EventsTypeOK, Unseen
<1>2. CASE pc'[w] \in Answered
  <2>1. began' = [began EXCEPT ![w] = 0] /\ seen' = [seen EXCEPT ![w] = Unseen]
    BY <1>2 DEF EndIfAnswered
  <2>2. 0 \in 0 .. clock
    BY <1>1
  <2>3. began' \in [Workers -> 0 .. clock] /\ seen' \in [Workers -> [Rides -> Nat]]
    BY <1>1, <2>1, <2>2
  <2>4. began'[w] = 0 /\ \A v \in Workers \ {w} : began'[v] = began[v] /\ seen'[v] = seen[v]
    BY <1>1, <2>1
  <2> QED
    BY <1>2, <2>3, <2>4
<1>3. CASE pc'[w] \notin Answered
  BY <1>1, <1>3 DEF EndIfAnswered
<1> QED
  BY <1>2, <1>3

\* Times stay in the past.
LEMMA TimesStep ==
  ASSUME EventsTypeOK, NEW now \in Nat, clock' = now, clock <= now,
         began' \in [Workers -> 0 .. clock], seen' \in [Workers -> [Rides -> Nat]],
         committed' \in [Rides -> 1 .. now], created' \in [Table!Events -> 0 .. clock],
         TypeOK', \A w \in Workers : pc'[w] \in Busy => began'[w] # 0
  PROVE  EventsTypeOK'
<1>1. clock \in Nat \ {0}
  BY DEF EventsTypeOK
<1>2. 0 .. clock \subseteq 0 .. now
  BY <1>1
<1>3. began' \in [Workers -> 0 .. now] /\ created' \in [Table!Events -> 0 .. now]
  BY <1>2
<1>4. Table!Events' = Table!Events
  BY DEF Table!Events
<1> QED
  BY <1>1, <1>3, <1>4 DEF EventsTypeOK

LEMMA EventsTypeStep ==
  ASSUME EventsTypeOK, TypeOK', [EventsNext]_<<vars, timeVars>>
  PROVE  EventsTypeOK'
<1>1. /\ clock \in Nat \ {0} /\ committed \in [Rides -> 1 .. clock]
      /\ created \in [Table!Events -> 0 .. clock] /\ began \in [Workers -> 0 .. clock]
      /\ seen \in [Workers -> [Rides -> Nat]] /\ TypeOK
      /\ \A w \in Workers : pc[w] \in Busy => began[w] # 0
  BY DEF EventsTypeOK
<1>2. ASSUME NEW w \in Workers, Begin(w) PROVE EventsTypeOK'
  <2>1. /\ began' = [began EXCEPT ![w] = clock]
        /\ seen' = [seen EXCEPT ![w] = [r \in Rides |-> rides[r].version]]
        /\ clock' = clock /\ committed' = committed /\ created' = created /\ pc' = pc
    BY <1>2 DEF Begin, vars
  <2>2. [r \in Rides |-> rides[r].version] \in [Rides -> Nat]
    BY <1>1 DEF TypeOK, Row
  <2>3. began' \in [Workers -> 0 .. clock] /\ seen' \in [Workers -> [Rides -> Nat]]
    BY <1>1, <2>1, <2>2
  <2>4. \A v \in Workers : pc'[v] \in Busy => began'[v] # 0
    BY <1>1, <2>1
  <2> QED
    BY <1>1, <2>1, <2>3, <2>4, TimesStep
<1>3. ASSUME NEW w \in Workers, Request(w) \/ Handler(w) \/ Abort(w) \/ pc' = pc,
             EndIfAnswered(w), began[w] # 0, clock' = clock, committed' = committed,
             created' = created
      PROVE  EventsTypeOK'
  <2>1. /\ began' \in [Workers -> 0 .. clock] /\ seen' \in [Workers -> [Rides -> Nat]]
        /\ \A v \in Workers : \/ began'[v] = 0 /\ v = w /\ pc'[w] \in Answered
                              \/ began'[v] = began[v]
    BY <1>3, TransactionStep
  <2>2. \A v \in Workers \ {w} : pc'[v] = pc[v]
    BY <1>1, <1>3, OthersStay
  <2>3. \A v \in Workers : pc'[v] \in Busy => began'[v] # 0
    BY <1>1, <1>3, <2>1, <2>2, AnsweredOrBusy
  <2> QED
    BY <1>1, <1>3, <2>1, <2>3, TimesStep
<1>4. ASSUME NEW w \in Workers, Receive(w) \/ Leave(w) PROVE EventsTypeOK'
  BY <1>3, <1>4 DEF Receive, Leave, Request, vars
<1>5. ASSUME NEW w \in Workers, Continue(w) PROVE EventsTypeOK'
  <2>1. Handler(w) \/ Abort(w)
    BY <1>5 DEF Continue
  <2>2. pc[w] \in Busy
    BY <2>1 DEF Handler, UpdateRow, UpdateStale, Search, TryReserve, Resolve, ReleaseGet,
                ReleaseDelete, Commit, Abort, Busy, Holding
  <2> QED
    BY <1>1, <1>3, <1>5, <2>1, <2>2 DEF Continue
<1>6. ASSUME NEW w \in Workers, CommitEvents(w) PROVE EventsTypeOK'
  <2>0. PICK r : r = session[w].ride
    OBVIOUS
  <2>1. /\ Commit(w) /\ EndIfAnswered(w)
        /\ clock' = clock + 1 /\ committed' = [committed EXCEPT ![r] = clock + 1]
        /\ created' = [e \in Table!Events |->
             IF e[1] = r /\ e[2] \in Len(outbox[r]) + 1 .. Len(outbox'[r])
             THEN began[w] ELSE created[e]]
    BY <1>6, <2>0 DEF CommitEvents
  <2>2. /\ began' \in [Workers -> 0 .. clock] /\ seen' \in [Workers -> [Rides -> Nat]]
        /\ \A v \in Workers : \/ began'[v] = 0 /\ v = w /\ pc'[w] \in Answered
                              \/ began'[v] = began[v]
    BY <2>1, TransactionStep
  <2>3. created' \in [Table!Events -> 0 .. clock]
    BY <1>1, <2>1
  <2>4. committed' \in [Rides -> 1 .. clock + 1]
    <3>1. /\ 1 .. clock \subseteq 1 .. clock + 1 /\ clock + 1 \in 1 .. clock + 1
      BY <1>1
    <3>2. committed \in [Rides -> 1 .. clock + 1]
      BY <1>1, <3>1
    <3> QED
      BY <2>1, <3>1, <3>2
  <2>5. pc' = [pc EXCEPT ![w] = "200"] /\ "200" \in Answered
    BY <2>1 DEF Commit, Answer, Answered
  <2>6. \A v \in Workers : pc'[v] \in Busy => began'[v] # 0
    BY <1>1, <2>2, <2>5, AnsweredOrBusy DEF TypeOK
  <2>7. clock + 1 \in Nat /\ clock <= clock + 1
    BY <1>1
  <2> QED
    BY <2>1, <2>2, <2>3, <2>4, <2>6, <2>7, TimesStep
<1>7. ASSUME Pool \/ UNCHANGED vars, UNCHANGED timeVars PROVE EventsTypeOK'
  <2>1. UNCHANGED <<clock, committed, created, began, seen, pc>>
    BY <1>7 DEF timeVars, Pool, Expire, JoinPool, LeavePool, vars
  <2> QED
    BY <1>1, <2>1, TimesStep
<1> QED
  BY <1>2, <1>4, <1>5, <1>6, <1>7 DEF EventsNext

\* A commit moves the version of its ride up, and nothing else moves a version or the
\* time of a commit.
LEMMA VersionsStep ==
  ASSUME Inv, EventsTypeOK, [EventsNext]_<<vars, timeVars>>, NEW r \in Rides
  PROVE  \/ rides'[r] = rides[r] /\ committed'[r] = committed[r]
         \/ rides'[r].version > rides[r].version
<1>1. [Next]_vars
  BY IsTransition
<1>2. ASSUME NEW w \in Workers, CommitEvents(w)
      PROVE  \/ rides'[r] = rides[r] /\ committed'[r] = committed[r]
             \/ rides'[r].version > rides[r].version
  <2>0. /\ pc[w] = "commit" /\ rides' = [rides EXCEPT ![session[w].ride] = session[w].row]
        /\ committed' = [committed EXCEPT ![session[w].ride] = clock + 1]
        /\ committed \in [Rides -> 1 .. clock] /\ rides \in [Rides -> Row]
    BY <1>2 DEF CommitEvents, Commit, EventsTypeOK, TypeOK
  <2>1. CASE r # session[w].ride
    BY <2>0, <2>1
  <2>2. CASE r = session[w].ride
    <3>1. rides'[r] = session[w].row
      BY <2>0, <2>2
    <3> QED
      BY <2>0, <2>2, <3>1, CommittedRow
  <2> QED
    BY <2>1, <2>2
<1>3. ASSUME \A w \in Workers : ~CommitEvents(w) PROVE committed' = committed
  BY <1>3 DEF EventsNext, Begin, Receive, Leave, Continue, timeVars
<1>4. ASSUME \A w \in Workers : ~CommitEvents(w) PROVE rides' = rides
  <2>1. ASSUME NEW w \in Workers, Continue(w) PROVE rides' = rides
    BY <2>1 DEF Continue, Handler, UpdateRow, UpdateStale, Search, TryReserve, Resolve,
                ReleaseGet, ReleaseDelete, Commit, Abort
  <2>2. ASSUME NEW w \in Workers, Begin(w) \/ Leave(w) \/ Receive(w) PROVE rides' = rides
    BY <2>2 DEF Begin, Leave, Receive, ReadRide, vars
  <2>3. Pool \/ UNCHANGED vars => rides' = rides
    BY DEF Pool, Expire, JoinPool, LeavePool, vars
  <2> QED
    BY <1>4, <2>1, <2>2, <2>3 DEF EventsNext
<1> QED
  BY <1>2, <1>3, <1>4

\* The transactions that are open after a step: one that has just begun, and others.
LEMMA OpenStep ==
  ASSUME EventsTypeOK, [EventsNext]_<<vars, timeVars>>, NEW v \in Workers, began'[v] # 0
  PROVE  \/ began'[v] = began[v] /\ seen'[v] = seen[v]
         \/ Begin(v)
<1>1. ASSUME NEW w \in Workers, EndIfAnswered(w)
      PROVE  began'[v] = began[v] /\ seen'[v] = seen[v]
  BY <1>1, TransactionStep
<1>2. ASSUME NEW w \in Workers, Receive(w) \/ Leave(w) \/ Continue(w) \/ CommitEvents(w)
      PROVE  EndIfAnswered(w)
  BY <1>2 DEF Receive, Leave, Continue, CommitEvents
<1>3. ASSUME NEW w \in Workers, Begin(w), w # v
      PROVE  began'[v] = began[v] /\ seen'[v] = seen[v]
  BY <1>3 DEF Begin, EventsTypeOK
<1>4. UNCHANGED timeVars => began'[v] = began[v] /\ seen'[v] = seen[v]
  BY DEF timeVars
<1> QED
  BY <1>1, <1>2, <1>3, <1>4 DEF EventsNext

LEMMA BeganAfterStep ==
  ASSUME Inv, TypeOK', EventsTypeOK, BeganAfter, [EventsNext]_<<vars, timeVars>>
  PROVE  BeganAfter'
<1> SUFFICES ASSUME NEW v \in Workers, NEW r \in Rides, began'[v] # 0
             PROVE  /\ seen'[v][r] <= rides'[r].version
                    /\ seen'[v][r] = rides'[r].version => committed'[r] <= began'[v]
  BY DEF BeganAfter
<1>1. /\ rides[r].version \in Nat /\ rides'[r].version \in Nat
      /\ seen[v][r] \in Nat /\ committed[r] \in 1 .. clock /\ clock \in Nat
  BY DEF EventsTypeOK, TypeOK, Row
<1>2. CASE Begin(v)
  <2>1. /\ began'[v] = clock /\ seen'[v] = [q \in Rides |-> rides[q].version]
        /\ rides' = rides /\ committed' = committed
    BY <1>2 DEF Begin, EventsTypeOK, vars
  <2> QED
    BY <1>1, <2>1
<1>3. CASE began'[v] = began[v] /\ seen'[v] = seen[v]
  <2>1. /\ seen[v][r] <= rides[r].version
        /\ seen[v][r] = rides[r].version => committed[r] <= began[v]
    BY <1>3 DEF BeganAfter
  <2> QED
    BY <1>1, <1>3, <2>1, VersionsStep
<1> QED
  BY <1>2, <1>3, OpenStep

LEMMA SentSeenStep ==
  ASSUME EventsTypeOK, EventsTypeOK', SentSeen, [EventsNext]_<<vars, timeVars>>
  PROVE  SentSeen'
<1> SUFFICES ASSUME NEW v \in Workers, pc'[v] \in Busy
             PROVE  /\ session'[v].expected <= seen'[v][session'[v].ride]
                    /\ session'[v].expected + 2 <= MaxVersion
  BY DEF SentSeen
<1>0. TypeOK /\ began'[v] # 0
  BY DEF EventsTypeOK
<1>1. ~Begin(v)
  BY <1>0, AnsweredOrBusy DEF Begin, vars
<1>2. began'[v] = began[v] /\ seen'[v] = seen[v]
  BY <1>0, <1>1, OpenStep
<1>3. ASSUME pc[v] \in Busy, session'[v].ride = session[v].ride,
             session'[v].expected = session[v].expected
      PROVE  /\ session'[v].expected <= seen'[v][session'[v].ride]
             /\ session'[v].expected + 2 <= MaxVersion
  BY <1>2, <1>3 DEF SentSeen
<1>4. CASE Receive(v)
  <2>1. PICK r \in Rides, user \in Users, target \in RideStatus, expected \in 1 .. MaxVersion :
          Sent(v, r, expected) /\ ReadRide(v, r, user, target, expected)
    BY <1>4 DEF Receive
  <2>2. /\ session' = [session EXCEPT ![v] =
             [ride |-> r, user |-> user, target |-> target, expected |-> expected,
              row |-> rides[r], events |-> <<>>, cands |-> {}, driver |-> NoDriver]]
        /\ expected + 2 <= MaxVersion
    <3>1. ~Answer(v, "403") /\ ~Answer(v, "422")
      BY <1>0, AnsweredOrBusy DEF Answer, Answered, TypeOK
    <3> QED
      BY <2>1, <3>1 DEF ReadRide
  <2>3. session'[v].ride = r /\ session'[v].expected = expected
    BY <1>0, <2>2 DEF TypeOK
  <2> QED
    BY <1>2, <2>1, <2>2, <2>3 DEF Sent
<1>5. CASE Continue(v) \/ CommitEvents(v)
  <2>1. Handler(v) \/ Abort(v)
    BY <1>5 DEF Continue, CommitEvents, Handler
  <2> QED
    BY <1>0, <1>3, <2>1, ParametersKept
<1>6. ASSUME NEW w \in Workers \ {v}, Receive(w) \/ Continue(w) \/ CommitEvents(w)
      PROVE  pc'[v] = pc[v] /\ session'[v] = session[v]
  <2>1. Request(w) \/ Handler(w) \/ Abort(w)
    BY <1>6 DEF Receive, Request, Continue, CommitEvents, Handler
  <2> QED
    BY <1>0, <1>6, <2>1, OthersStay
<1>7. ASSUME NEW w \in Workers, Begin(w) \/ Leave(w)
      PROVE  pc'[v] = pc[v] /\ session'[v] = session[v]
  BY <1>7 DEF Begin, Leave, vars
<1>8. Pool \/ UNCHANGED vars => pc'[v] = pc[v] /\ session'[v] = session[v]
  BY DEF Pool, Expire, JoinPool, LeavePool, vars
<1> QED
  BY <1>3, <1>4, <1>5, <1>6, <1>7, <1>8 DEF EventsNext

LEMMA EventsStep ==
  ASSUME Inv, Inv', EventsInv, [EventsNext]_<<vars, timeVars>>
  PROVE  EventsInv'
<1>1. TypeOK' /\ EventsTypeOK'
  BY EventsTypeStep DEF Inv, EventsInv
<1> QED
  BY <1>1, SentSeenStep, BeganAfterStep DEF EventsInv

LEMMA EventsInvInit == EventsInit => EventsInv
<1> SUFFICES ASSUME EventsInit PROVE EventsInv
  OBVIOUS
<1>1. TypeOK /\ \A w \in Workers : pc[w] = "idle" /\ began[w] = 0
  BY TypeInit DEF EventsInit, Init
<1>2. Unseen \in [Rides -> Nat]
  BY DEF Unseen
<1>3. EventsTypeOK
  BY <1>1, <1>2 DEF EventsInit, EventsTypeOK, Busy, Holding
<1> QED
  BY <1>1, <1>3 DEF EventsInv, SentSeen, BeganAfter, Busy, Holding

\* The inductive invariant of the handlers with their clock.
THEOREM EventsInvariance ==
  ASSUME Lookahead = 0
  PROVE  EventsSpec => []EventsInv
<1>1. Inv /\ Inv' /\ EventsInv /\ [EventsNext]_<<vars, timeVars>> => EventsInv'
  BY EventsStep
<1>2. EventsSpec => []Inv
  BY EventsImplement, Invariance, PTL
<1> QED
  BY <1>1, <1>2, EventsInvInit, PTL DEF EventsSpec

\* Type correctness of the handlers with their clock.
THEOREM EventsTypes ==
  ASSUME Lookahead = 0
  PROVE  EventsSpec => []EventsTypeOK
<1>1. EventsInv => EventsTypeOK
  BY DEF EventsInv
<1> QED
  BY <1>1, EventsInvariance, PTL
-----------------------------------------------------------------------------------
(* The table.                                                              *)

\* The value that the mapping gives to the variable written.
EventCount == [r \in Rides |-> Len(outbox[r])]

\* The transaction that commits began after the one before it was committed: its client
\* had read the version that it replaces.
LEMMA CommitInTime ==
  ASSUME Inv, EventsInv, OutboxTellsState, NEW w \in Workers, Commit(w)
  PROVE  LET r == session[w].ride IN
         /\ began[w] \in committed[r] .. clock
         /\ Len(outbox[r]) + 2 <= MaxVersion
<1> DEFINE r == session[w].ride
<1>0. pc[w] = "commit" /\ pc[w] \in Holding /\ pc[w] \in Busy
  BY DEF Commit, Holding, Busy
<1>1. r \in Rides /\ session[w].expected = rides[r].version /\ rides[r].version \in Nat
  BY <1>0, Holder DEF WroteEdges, Row
<1>2. /\ rides[r].version <= seen[w][r] /\ rides[r].version + 2 <= MaxVersion
      /\ began[w] # 0 /\ began[w] \in 0 .. clock /\ committed[r] \in 1 .. clock
      /\ clock \in Nat /\ seen[w][r] \in Nat
  BY <1>0, <1>1 DEF EventsInv, SentSeen, EventsTypeOK
<1>3. /\ seen[w][r] <= rides[r].version
      /\ seen[w][r] = rides[r].version => committed[r] <= began[w]
  BY <1>1, <1>2 DEF EventsInv, BeganAfter
<1>4. committed[r] <= began[w]
  BY <1>1, <1>2, <1>3
<1>5. Len(outbox[r]) = rides[r].version - 1
  BY <1>1 DEF OutboxTellsState, Ledger!HistoryTellsState, Ledger!HistoryOf
<1>6. MaxVersion \in Nat
  BY BoundsAssumption
<1> HIDE DEF r
<1>7. began[w] \in committed[r] .. clock
  BY <1>2, <1>4
<1>8. Len(outbox[r]) + 2 <= MaxVersion
  BY <1>1, <1>2, <1>5, <1>6
<1> QED
  BY <1>7, <1>8 DEF r

LEMMA CommitInserts ==
  ASSUME Inv, EventsInv, OutboxTellsState, NEW w \in Workers, CommitEvents(w)
  PROVE  Table!TableNext
<1>0. PICK r : r = session[w].ride
  OBVIOUS
<1>1. Commit(w) /\ pc[w] = "commit" /\ pc[w] \in Holding
  BY DEF CommitEvents, Commit, Holding
<1>2. /\ r \in Rides /\ began[w] \in committed[r] .. clock
      /\ Len(outbox[r]) + 2 <= MaxVersion
  BY <1>0, <1>1, CommitInTime, Holder
<1>3. PICK n \in 1 .. 2 : Len(outbox'[r]) = Len(outbox[r]) + n /\ (n = 2 => Len(outbox[r]) = 0)
  <2>1. PICK n \in 1 .. 2 : Len(outbox'[r]) = Len(outbox[r]) + n /\ (n = 2 => outbox[r] = <<>>)
    BY <1>0, <1>1, CommitAppends
  <2>2. Len(<<>>) = 0
    OBVIOUS
  <2>3. n = 2 => Len(outbox[r]) = 0
    BY <2>1, <2>2, Zenon
  <2>4. Len(outbox'[r]) = Len(outbox[r]) + n
    BY <2>1, Zenon
  <2> QED
    BY <2>3, <2>4, Zenon
<1>4. /\ outbox \in [Rides -> Seq(Event)]
      /\ \A q \in Rides \ {r} : outbox'[q] = outbox[q]
  BY <1>0, <1>1 DEF Commit, Inv, TypeOK
<1>5. Len(outbox[r]) \in Nat /\ MaxVersion \in Nat
  BY <1>2, <1>4, BoundsAssumption
<1>6. /\ EventCount[r] = Len(outbox[r])
      /\ EventCount'[r] = EventCount[r] + n
      /\ EventCount' = [EventCount EXCEPT ![r] = EventCount[r] + n]
  <2>1. \A q \in Rides : EventCount[q] = Len(outbox[q]) /\ EventCount'[q] = Len(outbox'[q])
    BY DEF EventCount
  <2>2. EventCount'[r] = EventCount[r] + n
    BY <1>2, <1>3, <2>1, Zenon
  <2>3. \A q \in Rides \ {r} : EventCount'[q] = EventCount[q]
    BY <1>4, <2>1
  <2>4. EventCount' = [q \in Rides |-> EventCount'[q]] /\ EventCount = [q \in Rides |-> EventCount[q]]
    BY DEF EventCount
  <2> QED
    BY <1>2, <2>1, <2>2, <2>3, <2>4
<1>7. n = 2 => EventCount[r] = 0
  BY <1>6, <1>3
<1>8. EventCount[r] + n <= MaxVersion
  BY <1>2, <1>5, <1>6
<1>9. created' = [e \in Table!Events |->
         IF e[1] = r /\ e[2] \in EventCount[r] + 1 .. EventCount[r] + n
         THEN began[w] ELSE created[e]]
  <2>1. Len(outbox[r]) = EventCount[r] /\ Len(outbox'[r]) = EventCount[r] + n
    BY <1>6, <1>3, Zenon
  <2>2. created' = [e \in Table!Events |->
          IF e[1] = r /\ e[2] \in Len(outbox[r]) + 1 .. Len(outbox'[r])
          THEN began[w] ELSE created[e]]
    BY <1>0, Zenon DEF CommitEvents
  <2> QED
    BY <2>1, <2>2, Zenon
<1>10. clock' = clock + 1 /\ committed' = [committed EXCEPT ![r] = clock + 1]
  BY <1>0 DEF CommitEvents
<1>11. Table!Insert(r, n)
  BY <1>2, <1>6, <1>7, <1>8, <1>9, <1>10 DEF Table!Insert, EventCount
<1> QED
  BY <1>2, <1>11 DEF Table!TableNext

LEMMA TableStep ==
  ASSUME Inv, EventsInv, OutboxTellsState, [EventsNext]_<<vars, timeVars>>
  PROVE  [Table!TableNext]_(Table!tableVars)
<1>1. ASSUME NEW w \in Workers, CommitEvents(w) PROVE Table!TableNext
  BY <1>1, CommitInserts
<1>2. ASSUME NEW w \in Workers, Continue(w)
      PROVE  UNCHANGED <<clock, committed, created, outbox>>
  BY <1>2 DEF Continue, Handler, UpdateRow, UpdateStale, Search, TryReserve, Resolve,
              ReleaseGet, ReleaseDelete, Commit, Abort
<1>3. ASSUME NEW w \in Workers, Begin(w) \/ Leave(w) \/ Receive(w)
      PROVE  UNCHANGED <<clock, committed, created, outbox>>
  BY <1>3 DEF Begin, Leave, Receive, ReadRide, vars
<1>4. (Pool /\ UNCHANGED timeVars) \/ UNCHANGED <<vars, timeVars>>
        => UNCHANGED <<clock, committed, created, outbox>>
  BY DEF Pool, Expire, JoinPool, LeavePool, vars, timeVars
<1>5. UNCHANGED <<clock, committed, created, outbox>> => UNCHANGED Table!tableVars
  BY DEF Table!tableVars
<1> QED
  BY <1>1, <1>2, <1>3, <1>4, <1>5 DEF EventsNext

\* Overlapping requests, late ones and failed ones leave the table as the outbox worker
\* expects it: one event per commit or a ride's first two, and the transactions of a
\* ride in the order of their created_at.
THEOREM TableKept ==
  ASSUME Lookahead = 0
  PROVE  EventsSpec => ImplementsTable
<1>1. EventsInit => Table!TableInit
  <2> SUFFICES ASSUME EventsInit PROVE Table!TableInit
    OBVIOUS
  <2>1. outbox = [r \in Rides |-> <<>>]
    BY DEF EventsInit, Init
  <2>2. \A r \in Rides : Len(outbox[r]) = 0
    BY <2>1
  <2> QED
    BY <2>2 DEF EventsInit, Table!TableInit
<1>2. Inv /\ EventsInv /\ OutboxTellsState /\ [EventsNext]_<<vars, timeVars>>
        => [Table!TableNext]_(Table!tableVars)
  BY TableStep
<1>3. EventsSpec => []Inv /\ []OutboxTellsState
  BY EventsImplement, Invariance, OutboxTells, PTL
<1> QED
  BY <1>1, <1>2, <1>3, EventsInvariance, PTL DEF EventsSpec, ImplementsTable, Table!TableSpec
-----------------------------------------------------------------------------------
(* The results about the handlers hold of the handlers with their clock.   *)

\* Whoever has updated a row decided on the row as it is committed now.
THEOREM EventsCurrentRow ==
  ASSUME Lookahead = 0
  PROVE  EventsSpec => []ActsOnCurrentRow
BY EventsImplement, CurrentRow, PTL

\* Final statuses, drivers and versions are never taken back.
THEOREM EventsNothingUndone ==
  ASSUME Lookahead = 0
  PROVE  EventsSpec => NothingIsUndone
BY EventsImplement, NothingUndone, PTL

\* The handlers implement the ledger in which a transition is one indivisible step.
THEOREM EventsImplementLedger ==
  ASSUME Lookahead = 0
  PROVE  EventsSpec => ImplementsLedger
BY EventsImplement, Implements, PTL

\* The outbox tells the story of every row, and names its driver.
THEOREM EventsTell ==
  ASSUME Lookahead = 0
  PROVE  EventsSpec => [](OutboxTellsState /\ OutboxNamesTheDriver)
BY EventsImplement, OutboxTells, PTL
==================================================================================
