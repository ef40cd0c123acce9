------------------------------- MODULE OutboxProofs -------------------------------
(***************************************************************************)
(* Proofs about Outbox and Gateway, for any number of rides, replicas and  *)
(* events, any batch size and any failures: nothing is marked that was not *)
(* delivered, no row is in two hands, transactions keep their order, and   *)
(* the whole is delivery at least once.                                    *)
(***************************************************************************)
EXTENDS Gateway, SequenceTheorems, FiniteSetTheorems, TLAPS

-----------------------------------------------------------------------------------
(* The inductive invariant.                                                *)

\* A batch is committed only once all of its rows are delivered.
CommitsWholeBatch ==
  \A w \in Replicas : pc[w] = "commit" => done[w] = Len(batch[w])

\* The rows of a batch are written and not marked.
RowsAreWaiting ==
  \A w \in Replicas : RowsOf(w) \subseteq Written \ published

\* A notification is queued after its message was sent; the rows that a replica is
\* done with were queued, and the one at which it is about to queue was sent.
Delivered ==
  /\ \A e \in tasks : e \in Sent(e[1])
  /\ \A w \in Replicas : \A i \in 1 .. done[w] : batch[w][i] \in tasks
  /\ \A w \in Replicas : pc[w] = "notify" => Current(w) \in Sent(Current(w)[1])

\* Channels carry what was written for their ride.
SentWasWritten ==
  \A r \in Rides : \A i \in 1 .. Len(channel[r]) :
    channel[r][i] \in Written /\ channel[r][i][1] = r

\* f is an event of e's ride, of an earlier transaction.
Precedes(f, e) == f[1] = e[1] /\ f[2] < e[2] /\ created[f] < created[e]

\* The events that precede one in a batch were sent, come before it in the batch, or
\* were overtaken when it was selected.
BatchInOrder ==
  \A w \in Replicas : \A i \in 1 .. Len(batch[w]) : \A f \in Events :
    Precedes(f, batch[w][i]) =>
      \/ f \in Sent(f[1])
      \/ \E j \in 1 .. i - 1 : batch[w][j] = f
      \/ <<batch[w][i], f>> \in overtaken

\* InOrder for events whose created_at says in which order they were written.
SentByTime ==
  \A r \in Rides : \A i \in 1 .. Len(channel[r]) : \A n \in 1 .. channel[r][i][2] - 1 :
    created[<<r, n>>] < created[channel[r][i]] =>
      \/ \E j \in 1 .. i - 1 : channel[r][j] = <<r, n>>
      \/ <<channel[r][i], <<r, n>>>> \in overtaken

\* The created_at of a ride's events follow the order of its versions, and only the two
\* of a matching request may have the same.
Chronological ==
  \A r \in Rides : \A m, n \in 1 .. written[r] : m < n =>
    /\ created[<<r, m>>] <= created[<<r, n>>]
    /\ n > 2 => created[<<r, m>>] < created[<<r, n>>]

\* A transaction began before it was committed.
BegunBefore == \A r \in Rides : \A n \in 1 .. written[r] : created[<<r, n>>] < committed[r]

OutboxInv ==
  /\ TypeOK
  /\ Chronological
  /\ BegunBefore
  /\ CommitsWholeBatch
  /\ RowsAreWaiting
  /\ ProcessedByOne
  /\ MarkedWasDelivered
  /\ Delivered
  /\ SentWasWritten
  /\ BatchInOrder
  /\ SentByTime
-----------------------------------------------------------------------------------
(* Facts about events, channels and batches.                               *)

LEMMA EventFields ==
  /\ \A e \in Events : e[1] \in Rides /\ e[2] \in 1 .. MaxEvents /\ e = <<e[1], e[2]>>
  /\ \A r \in Rides, n \in 1 .. MaxEvents : <<r, n>> \in Events
BY DEF Events

\* What a replica holds.
LEMMA BatchTyped ==
  ASSUME TypeOK, NEW w \in Replicas
  PROVE  /\ batch[w] \in Seq(Events) /\ Len(batch[w]) \in Nat /\ done[w] \in Nat
         /\ \A i \in 1 .. Len(batch[w]) : batch[w][i] \in Events
         /\ RowsOf(w) \subseteq Events
         /\ pc[w] \in {"publish", "notify"} => done[w] + 1 \in 1 .. Len(batch[w])
         /\ pc[w] \in {"publish", "notify"} => Current(w) \in RowsOf(w)
<1>1. batch[w] \in Seq(Events) /\ done[w] \in Nat
  BY DEF TypeOK
<1>2. Len(batch[w]) \in Nat /\ \A i \in 1 .. Len(batch[w]) : batch[w][i] \in Events
  BY <1>1
<1>3. ASSUME pc[w] \in {"publish", "notify"} PROVE done[w] + 1 \in 1 .. Len(batch[w])
  <2>1. done[w] < Len(batch[w])
    BY <1>3 DEF TypeOK
  <2> QED
    BY <1>1, <1>2, <2>1
<1>4. RowsOf(w) \subseteq Events
  BY <1>2 DEF RowsOf
<1>5. ASSUME pc[w] \in {"publish", "notify"} PROVE Current(w) \in RowsOf(w)
  <2>1. done[w] + 1 \in 1 .. Len(batch[w])
    BY <1>3, <1>5
  <2> QED
    BY <2>1 DEF RowsOf, Current
<1> QED
  BY <1>1, <1>2, <1>3, <1>4, <1>5

\* Channels only grow, what is written stays written, and so does its created_at.
Grows ==
  /\ \A r \in Rides :
       /\ channel[r] \in Seq(Events) /\ channel'[r] \in Seq(Events)
       /\ Len(channel[r]) <= Len(channel'[r])
       /\ \A i \in 1 .. Len(channel[r]) : channel'[r][i] = channel[r][i]
  /\ \A r \in Rides : Sent(r) \subseteq Sent(r)'
  /\ Written \subseteq Written'
  /\ \A e \in Written : created'[e] = created[e]
  /\ overtaken \subseteq overtaken'
  /\ tasks \subseteq tasks'

\* What Publish does to the channel of its event, and to no other.
LEMMA PublishAppends ==
  ASSUME TypeOK, NEW w \in Replicas, Publish(w)
  PROVE  LET e == Current(w) IN
         /\ e \in RowsOf(w)
         /\ channel' \in [Rides -> Seq(Events)]
         /\ \A r \in Rides \ {e[1]} : channel'[r] = channel[r]
         /\ Len(channel'[e[1]]) = Len(channel[e[1]]) + 1
         /\ channel'[e[1]][Len(channel[e[1]]) + 1] = e
         /\ \A i \in 1 .. Len(channel[e[1]]) : channel'[e[1]][i] = channel[e[1]][i]
<1> DEFINE e == Current(w)
<1>1. e \in RowsOf(w) /\ e \in Events /\ e[1] \in Rides
  BY BatchTyped, EventFields DEF Publish
<1>2. channel \in [Rides -> Seq(Events)]
  BY DEF TypeOK
<1>3. channel' = [channel EXCEPT ![e[1]] = Append(@, e)]
  BY DEF Publish
<1>4. channel'[e[1]] = Append(channel[e[1]], e) /\ channel[e[1]] \in Seq(Events)
  BY <1>1, <1>2, <1>3
<1>5. /\ Append(channel[e[1]], e) \in Seq(Events)
      /\ Len(Append(channel[e[1]], e)) = Len(channel[e[1]]) + 1
      /\ Append(channel[e[1]], e)[Len(channel[e[1]]) + 1] = e
      /\ \A i \in 1 .. Len(channel[e[1]]) : Append(channel[e[1]], e)[i] = channel[e[1]][i]
  BY <1>1, <1>4
<1> HIDE DEF e
<1>6. /\ channel' \in [Rides -> Seq(Events)]
      /\ \A r \in Rides \ {e[1]} : channel'[r] = channel[r]
  BY <1>2, <1>3, <1>4, <1>5
<1> QED
  BY <1>1, <1>4, <1>5, <1>6 DEF e

\* What Write does to the table.
LEMMA WriteAdds ==
  ASSUME TypeOK, NEW r \in Rides, NEW n \in 1 .. 2, Write(r, n)
  PROVE  /\ clock' \in Nat
         /\ committed' \in [Rides -> Nat]
         /\ written' \in [Rides -> 0 .. MaxEvents]
         /\ created' \in [Events -> Nat]
         /\ \A q \in Rides : written[q] <= written'[q]
         /\ \A e \in Written : created'[e] = created[e]
<1>1. /\ written \in [Rides -> 0 .. MaxEvents] /\ committed \in [Rides -> Nat]
      /\ created \in [Events -> Nat] /\ MaxEvents \in Nat /\ clock \in Nat
  BY EventsAssumption DEF TypeOK
<1>2. written' \in [Rides -> 0 .. MaxEvents] /\ \A q \in Rides : written[q] <= written'[q]
  BY <1>1 DEF Write, Insert
<1>3. clock' \in Nat /\ committed' \in [Rides -> Nat]
  BY <1>1 DEF Write, Insert
<1>4. PICK began \in committed[r] .. clock :
        created' = [e \in Events |->
          IF e[1] = r /\ e[2] \in written[r] + 1 .. written[r] + n
          THEN began ELSE created[e]]
  BY DEF Write, Insert
<1>5. created' \in [Events -> Nat]
  <2>1. began \in Nat
    BY <1>1
  <2> QED
    BY <1>1, <1>4, <2>1
<1>6. ASSUME NEW e \in Written PROVE created'[e] = created[e]
  <2>1. e \in Events /\ e[2] <= written[e[1]] /\ e[2] \in Nat /\ written[r] \in Nat
    BY <1>1, EventFields DEF Written
  <2>2. ~(e[1] = r /\ e[2] \in written[r] + 1 .. written[r] + n)
    BY <2>1
  <2> QED
    BY <1>4, <2>1, <2>2
<1> QED
  BY <1>2, <1>3, <1>5, <1>6

LEMMA GrowsStep ==
  ASSUME TypeOK, [Next]_vars
  PROVE  Grows
<1>0. /\ channel \in [Rides -> Seq(Events)] /\ written \in [Rides -> 0 .. MaxEvents]
      /\ MaxEvents \in Nat
  BY EventsAssumption DEF TypeOK
<1>1. /\ \A r \in Rides : channel[r] \in Seq(Events)
      /\ \A r \in Rides : Len(channel[r]) \in Nat
  BY <1>0
<1>2. ASSUME NEW w \in Replicas, Publish(w) PROVE Grows
  <2>1. /\ channel' \in [Rides -> Seq(Events)]
        /\ \A r \in Rides :
             /\ Len(channel[r]) <= Len(channel'[r])
             /\ \A i \in 1 .. Len(channel[r]) : channel'[r][i] = channel[r][i]
    BY <1>1, <1>2, PublishAppends
  <2>2. \A r \in Rides : Len(channel'[r]) \in Nat
    BY <2>1
  <2>3. \A r \in Rides : Sent(r) \subseteq Sent(r)'
    BY <1>1, <2>1, <2>2 DEF Sent
  <2>4. written' = written /\ created' = created /\ overtaken' = overtaken /\ tasks' = tasks
    BY <1>2 DEF Publish, tableVars
  <2> QED
    BY <1>1, <2>1, <2>3, <2>4 DEF Grows, Written
<1>3. ASSUME NEW r \in Rides, NEW n \in 1 .. 2, Write(r, n) PROVE Grows
  <2>1. /\ \A q \in Rides : written[q] <= written'[q] /\ written[q] \in Nat /\ written'[q] \in Nat
        /\ \A e \in Written : created'[e] = created[e]
    BY <1>0, <1>3, WriteAdds
  <2>2. Written \subseteq Written'
    BY <2>1, EventFields DEF Written
  <2>3. channel' = channel /\ overtaken' = overtaken /\ tasks' = tasks
    BY <1>3 DEF Write, workerVars
  <2> QED
    BY <1>1, <2>1, <2>2, <2>3 DEF Grows, Sent
<1>4. ASSUME channel' = channel, written' = written, created' = created,
             overtaken \subseteq overtaken', tasks \subseteq tasks'
      PROVE  Grows
  BY <1>1, <1>4 DEF Grows, Sent, Written
<1>6. ASSUME NEW w \in Replicas, SelectBatch(w) PROVE Grows
  BY <1>4, <1>6 DEF SelectBatch, tableVars
<1>7. ASSUME NEW w \in Replicas, Notify(w) PROVE Grows
  BY <1>4, <1>7 DEF Notify, tableVars
<1>8. ASSUME NEW w \in Replicas, CommitBatch(w) \/ FailBatch(w) PROVE Grows
  BY <1>4, <1>8 DEF CommitBatch, FailBatch, tableVars
<1>9. ASSUME UNCHANGED vars PROVE Grows
  BY <1>4, <1>9 DEF vars, tableVars
<1> QED
  BY <1>2, <1>3, <1>6, <1>7, <1>8, <1>9 DEF Next, Worker, EmptyRound

\* What SelectBatch picks.
LEMMA SelectPicks ==
  ASSUME TypeOK, NEW w \in Replicas, SelectBatch(w)
  PROVE  /\ batch' \in [Replicas -> Seq(Events)]
         /\ \A v \in Replicas \ {w} : batch'[v] = batch[v]
         /\ Len(batch'[w]) \in Nat \ {0}
         /\ \A i \in 1 .. Len(batch'[w]) : batch'[w][i] \in Selectable
         /\ IsBatch(batch'[w])
         /\ RowsOf(w)' \subseteq Selectable
         /\ overtaken' = overtaken \cup
              {p \in RowsOf(w)' \X Locked : p[1][1] = p[2][1] /\ p[2][2] < p[1][2]}
<1>0. PICK n \in 1 .. BatchSize : \E s \in [1 .. n -> Selectable] :
        /\ IsBatch(s)
        /\ batch' = [batch EXCEPT ![w] = s]
        /\ overtaken' = overtaken \cup
             {p \in RowsOf(w)' \X Locked : p[1][1] = p[2][1] /\ p[2][2] < p[1][2]}
  BY DEF SelectBatch
<1>1. PICK s \in [1 .. n -> Selectable] :
        /\ IsBatch(s)
        /\ batch' = [batch EXCEPT ![w] = s]
        /\ overtaken' = overtaken \cup
             {p \in RowsOf(w)' \X Locked : p[1][1] = p[2][1] /\ p[2][2] < p[1][2]}
  BY <1>0
<1>2. n \in Nat \ {0} /\ s \in Seq(Selectable) /\ Len(s) = n
  BY OutboxAssumption
<1>3. Selectable \subseteq Events
  BY DEF Selectable, Written
<1>4. s \in Seq(Events)
  BY <1>2, <1>3
<1>5. /\ batch' \in [Replicas -> Seq(Events)] /\ batch'[w] = s
      /\ \A v \in Replicas \ {w} : batch'[v] = batch[v]
  BY <1>1, <1>4 DEF TypeOK
<1>6. \A i \in 1 .. Len(s) : s[i] \in Selectable
  BY <1>2
<1>7. RowsOf(w)' \subseteq Selectable
  BY <1>5, <1>6 DEF RowsOf
<1> QED
  BY <1>1, <1>2, <1>5, <1>6, <1>7

-----------------------------------------------------------------------------------
(* Every step keeps the invariant.                                         *)

LEMMA TypeStep ==
  ASSUME TypeOK, [Next]_vars
  PROVE  TypeOK'
<1> USE DEF TypeOK
<1>0. \A w \in Replicas : RowsOf(w) \subseteq Events
  BY BatchTyped
<1>2. ASSUME NEW r \in Rides, NEW n \in 1 .. 2, Write(r, n) PROVE TypeOK'
  BY <1>2, WriteAdds DEF Write, workerVars
<1>3. ASSUME NEW w \in Replicas, SelectBatch(w) PROVE TypeOK'
  <2>1. /\ batch' \in [Replicas -> Seq(Events)]
        /\ \A v \in Replicas \ {w} : batch'[v] = batch[v]
        /\ Len(batch'[w]) > 0
    BY <1>3, SelectPicks
  <2>2. RowsOf(w)' \subseteq Events /\ Locked \subseteq Events
    BY <1>0, <1>3, SelectPicks DEF Selectable, Written, Locked
  <2>3. overtaken' \subseteq Events \X Events
    BY <1>3, <2>2, SelectPicks
  <2>4. /\ pc' = [pc EXCEPT ![w] = "publish"] /\ pc[w] = "select"
        /\ UNCHANGED <<clock, committed, written, created, published, done, channel, tasks, failures>>
    BY <1>3 DEF SelectBatch, tableVars
  <2> QED
    BY <2>1, <2>3, <2>4
<1>4. ASSUME NEW w \in Replicas, Publish(w) PROVE TypeOK'
  <2>1. channel' \in [Rides -> Seq(Events)]
    BY <1>4, PublishAppends
  <2> QED
    BY <1>4, <2>1 DEF Publish, tableVars
<1>5. ASSUME NEW w \in Replicas, Notify(w) PROVE TypeOK'
  <2>1. Current(w) \in Events /\ done[w] < Len(batch[w]) /\ Len(batch[w]) \in Nat
    BY <1>0, <1>5, BatchTyped DEF Notify
  <2>2. tasks' \subseteq Events
    BY <1>5, <2>1 DEF Notify
  <2>3. /\ done' = [done EXCEPT ![w] = done[w] + 1]
        /\ pc' = [pc EXCEPT ![w] = IF done[w] + 1 = Len(batch[w]) THEN "commit" ELSE "publish"]
    BY <1>5 DEF Notify
  <2> QED
    BY <1>5, <2>1, <2>2, <2>3 DEF Notify, tableVars
<1>6. ASSUME NEW w \in Replicas, CommitBatch(w) \/ FailBatch(w) PROVE TypeOK'
  <2>1. published' \subseteq Events /\ failures' \in Nat
    BY <1>0, <1>6 DEF CommitBatch, FailBatch, MarkedByFailure
  <2>2. <<>> \in Seq(Events) /\ Len(<<>>) = 0
    OBVIOUS
  <2>3. /\ pc' = [pc EXCEPT ![w] = "select"]
        /\ batch' = [batch EXCEPT ![w] = <<>>]
        /\ done' = [done EXCEPT ![w] = 0]
        /\ UNCHANGED <<clock, committed, written, created, channel, tasks, overtaken>>
    BY <1>6 DEF CommitBatch, FailBatch, EndBatch, tableVars
  <2>4. batch' \in [Replicas -> Seq(Events)]
    BY <2>2, <2>3
  <2>5. \A v \in Replicas : IF pc'[v] = "select"
                           THEN batch'[v] = <<>> /\ done'[v] = 0
                           ELSE done'[v] < Len(batch'[v]) \/ pc'[v] = "commit"
    BY <2>3
  <2> QED
    BY <2>1, <2>3, <2>4, <2>5
<1>7. ASSUME UNCHANGED vars PROVE TypeOK'
  BY <1>7 DEF vars, tableVars
<1> QED
  BY <1>2, <1>3, <1>4, <1>5, <1>6, <1>7 DEF Next, Worker, EmptyRound

\* What Write does to the times of the ride's events.
LEMMA WriteKeepsOrder ==
  ASSUME TypeOK, Chronological, BegunBefore, NEW r \in Rides, NEW n \in 1 .. 2, Write(r, n)
  PROVE  Chronological' /\ BegunBefore'
<1>1. /\ written \in [Rides -> 0 .. MaxEvents] /\ committed \in [Rides -> Nat]
      /\ created \in [Events -> Nat] /\ MaxEvents \in Nat /\ clock \in Nat
  BY EventsAssumption DEF TypeOK
<1>2. PICK began \in committed[r] .. clock :
        created' = [e \in Events |->
          IF e[1] = r /\ e[2] \in written[r] + 1 .. written[r] + n
          THEN began ELSE created[e]]
  BY DEF Write, Insert
<1>3. /\ written'[r] = written[r] + n /\ written[r] + n <= MaxEvents
      /\ n = 2 => written[r] = 0
      /\ committed'[r] = clock + 1
      /\ \A q \in Rides \ {r} : written'[q] = written[q] /\ committed'[q] = committed[q]
      /\ written[r] \in Nat /\ committed[r] \in Nat /\ began \in Nat
      /\ committed[r] <= began /\ began <= clock
  BY <1>1 DEF Write, Insert
<1>4. ASSUME NEW q \in Rides, NEW m \in 1 .. written'[q]
      PROVE  /\ q # r \/ m <= written[r] =>
                  m \in 1 .. written[q] /\ created'[<<q, m>>] = created[<<q, m>>]
             /\ q = r /\ m > written[r] => created'[<<q, m>>] = began
  <2>1. written[q] \in 0 .. MaxEvents /\ written'[q] \in 0 .. MaxEvents
    BY <1>1, <1>3
  <2>2. <<q, m>> \in Events /\ <<q, m>>[1] = q /\ <<q, m>>[2] = m
    BY <1>1, <2>1, EventFields
  <2>3. created'[<<q, m>>] = IF q = r /\ m \in written[r] + 1 .. written[r] + n
                             THEN began ELSE created[<<q, m>>]
    BY <1>2, <2>2
  <2> QED
    BY <1>3, <2>1, <2>3
<1>5. ASSUME NEW m \in 1 .. written[r]
      PROVE  created[<<r, m>>] < began /\ created[<<r, m>>] < committed'[r]
  <2>1. created[<<r, m>>] < committed[r]
    BY <1>5 DEF BegunBefore
  <2>2. <<r, m>> \in Events
    BY <1>1, <1>5, EventFields
  <2>3. created[<<r, m>>] \in Nat
    BY <1>1, <2>2
  <2> QED
    BY <1>1, <1>3, <2>1, <2>3
<1>6. BegunBefore'
  <2> SUFFICES ASSUME NEW q \in Rides, NEW m \in 1 .. written'[q]
               PROVE  created'[<<q, m>>] < committed'[q]
    BY DEF BegunBefore
  <2>1. CASE q = r /\ m > written[r]
    BY <1>1, <1>3, <1>4, <2>1
  <2>2. CASE q = r /\ m <= written[r]
    BY <1>4, <1>5, <2>2
  <2>3. CASE q # r
    BY <1>3, <1>4, <2>3 DEF BegunBefore
  <2> QED
    BY <1>3, <2>1, <2>2, <2>3
<1>7. Chronological'
  <2> SUFFICES ASSUME NEW q \in Rides, NEW l \in 1 .. written'[q], NEW m \in 1 .. written'[q],
                      l < m
               PROVE  /\ created'[<<q, l>>] <= created'[<<q, m>>]
                      /\ m > 2 => created'[<<q, l>>] < created'[<<q, m>>]
    BY DEF Chronological
  <2>1. CASE q # r \/ m <= written[r]
    <3>1. /\ l \in 1 .. written[q] /\ m \in 1 .. written[q]
          /\ created'[<<q, l>>] = created[<<q, l>>] /\ created'[<<q, m>>] = created[<<q, m>>]
      <4>1. q # r \/ l <= written[r]
        BY <1>3, <2>1
      <4> QED
        BY <1>4, <2>1, <4>1
    <3> QED
      BY <3>1 DEF Chronological
  <2>2. CASE q = r /\ m > written[r] /\ l <= written[r]
    <3>1. created'[<<q, l>>] < began /\ created'[<<q, m>>] = began
      BY <1>4, <1>5, <2>2
    <3>2. created'[<<q, l>>] \in Nat
      BY <1>1, <1>4, <2>2, EventFields
    <3> QED
      BY <1>3, <3>1, <3>2
  <2>3. CASE q = r /\ l > written[r]
    <3>1. created'[<<q, l>>] = began /\ created'[<<q, m>>] = began
      BY <1>3, <1>4, <2>3
    <3>2. m <= 2
      BY <1>3, <2>3
    <3> QED
      BY <1>3, <3>1, <3>2
  <2> QED
    BY <1>3, <2>1, <2>2, <2>3
<1> QED
  BY <1>6, <1>7

LEMMA TableStep ==
  ASSUME TypeOK, Chronological, BegunBefore, [Next]_vars
  PROVE  Chronological' /\ BegunBefore'
<1>1. ASSUME UNCHANGED tableVars PROVE Chronological' /\ BegunBefore'
  BY <1>1 DEF tableVars, Chronological, BegunBefore
<1>2. (\E r \in Rides, n \in 1 .. 2 : Write(r, n)) \/ UNCHANGED tableVars
  BY DEF Next, Worker, SelectBatch, Publish, Notify, CommitBatch, FailBatch, EmptyRound, vars
<1> QED
  BY <1>1, <1>2, WriteKeepsOrder

\* How a step changes what the replicas hold: not at all, one selects, or one ends.
LEMMA BatchStep ==
  ASSUME TypeOK, [Next]_vars
  PROVE  \/ batch' = batch /\ published' = published
         \/ \E w \in Replicas :
              /\ SelectBatch(w) /\ published' = published
              /\ \A v \in Replicas \ {w} : batch'[v] = batch[v]
         \/ \E w \in Replicas :
              /\ batch'[w] = <<>> /\ published' \subseteq published \cup RowsOf(w)
              /\ \A v \in Replicas \ {w} : batch'[v] = batch[v]
<1>1. ASSUME NEW r \in Rides, NEW n \in 1 .. 2, Write(r, n)
      PROVE  batch' = batch /\ published' = published
  BY <1>1 DEF Write, workerVars
<1>2. ASSUME NEW w \in Replicas, Publish(w) \/ Notify(w) \/ EmptyRound(w)
      PROVE  batch' = batch /\ published' = published
  BY <1>2 DEF Publish, Notify, EmptyRound, vars
<1>3. ASSUME NEW w \in Replicas, CommitBatch(w) \/ FailBatch(w)
      PROVE  /\ batch'[w] = <<>> /\ published' \subseteq published \cup RowsOf(w)
             /\ \A v \in Replicas \ {w} : batch'[v] = batch[v]
  BY <1>3 DEF CommitBatch, FailBatch, EndBatch, MarkedByFailure, TypeOK
<1>4. ASSUME NEW w \in Replicas, SelectBatch(w)
      PROVE  published' = published /\ \A v \in Replicas \ {w} : batch'[v] = batch[v]
  BY <1>4, SelectPicks DEF SelectBatch
<1>5. UNCHANGED vars => batch' = batch /\ published' = published
  BY DEF vars
<1> QED
  BY <1>1, <1>2, <1>3, <1>4, <1>5 DEF Next, Worker

LEMMA WaitingStep ==
  ASSUME TypeOK, RowsAreWaiting, ProcessedByOne, [Next]_vars
  PROVE  RowsAreWaiting' /\ ProcessedByOne'
<1> DEFINE G == /\ \A w \in Replicas : RowsOf(w)' \subseteq Written' \ published'
                /\ \A v, w \in Replicas : v # w => RowsOf(v)' \cap RowsOf(w)' = {}
<1>0. /\ Written \subseteq Written'
      /\ \A w \in Replicas : RowsOf(w) \subseteq Written \ published
      /\ \A v, w \in Replicas : v # w => RowsOf(v) \cap RowsOf(w) = {}
  BY GrowsStep DEF Grows, RowsAreWaiting, ProcessedByOne
<1>1. ASSUME batch' = batch, published' = published PROVE G
  <2>1. \A w \in Replicas : RowsOf(w)' = RowsOf(w)
    BY <1>1 DEF RowsOf
  <2> QED
    BY <1>0, <1>1, <2>1
<1>2. ASSUME NEW w \in Replicas, SelectBatch(w), published' = published,
             \A v \in Replicas \ {w} : batch'[v] = batch[v]
      PROVE  G
  <2>1. \A v \in Replicas \ {w} : RowsOf(v)' = RowsOf(v)
    BY <1>2 DEF RowsOf
  <2>2. /\ RowsOf(w)' \subseteq Written \ published
        /\ \A v \in Replicas : RowsOf(w)' \cap RowsOf(v) = {}
    BY <1>2, SelectPicks DEF Selectable, Locked
  <2> QED
    BY <1>0, <1>2, <2>1, <2>2
<1>3. ASSUME NEW w \in Replicas, batch'[w] = <<>>, published' \subseteq published \cup RowsOf(w),
             \A v \in Replicas \ {w} : batch'[v] = batch[v]
      PROVE  G
  <2>1. \A v \in Replicas \ {w} : RowsOf(v)' = RowsOf(v)
    BY <1>3 DEF RowsOf
  <2>2. RowsOf(w)' = {}
    BY <1>3 DEF RowsOf
  <2> QED
    BY <1>0, <1>3, <2>1, <2>2
<1>4. G
  BY <1>1, <1>2, <1>3, BatchStep
<1> QED
  BY <1>4 DEF RowsAreWaiting, ProcessedByOne, Locked

LEMMA CommitsStep ==
  ASSUME TypeOK, CommitsWholeBatch, [Next]_vars
  PROVE  CommitsWholeBatch'
<1> USE DEF CommitsWholeBatch, TypeOK
<1>1. ASSUME NEW w \in Replicas, SelectBatch(w) PROVE CommitsWholeBatch'
  <2>1. pc'[w] = "publish" /\ \A v \in Replicas \ {w} : pc'[v] = pc[v] /\ done'[v] = done[v]
    BY <1>1 DEF SelectBatch
  <2>2. \A v \in Replicas \ {w} : batch'[v] = batch[v]
    BY <1>1, SelectPicks
  <2> QED
    BY <2>1, <2>2
<1>2. ASSUME NEW w \in Replicas, Publish(w) PROVE CommitsWholeBatch'
  BY <1>2 DEF Publish
<1>3. ASSUME NEW w \in Replicas, Notify(w) PROVE CommitsWholeBatch'
  BY <1>3 DEF Notify
<1>4. ASSUME NEW w \in Replicas, CommitBatch(w) \/ FailBatch(w) PROVE CommitsWholeBatch'
  BY <1>4 DEF CommitBatch, FailBatch, EndBatch
<1>5. ASSUME NEW r \in Rides, NEW n \in 1 .. 2, Write(r, n)
      PROVE  CommitsWholeBatch'
  BY <1>5 DEF Write, workerVars
<1>6. UNCHANGED vars => CommitsWholeBatch'
  BY DEF vars
<1> QED
  BY <1>1, <1>2, <1>3, <1>4, <1>5, <1>6 DEF Next, Worker, EmptyRound

LEMMA SentStep ==
  ASSUME TypeOK, RowsAreWaiting, SentWasWritten, [Next]_vars
  PROVE  SentWasWritten'
<1>0. Grows /\ \A r \in Rides : Len(channel[r]) \in Nat
  BY GrowsStep DEF TypeOK
<1>1. ASSUME NEW w \in Replicas, Publish(w) PROVE SentWasWritten'
  <2> DEFINE e == Current(w)
  <2>1. /\ e \in RowsOf(w)
        /\ \A r \in Rides \ {e[1]} : channel'[r] = channel[r]
        /\ Len(channel'[e[1]]) = Len(channel[e[1]]) + 1
        /\ channel'[e[1]][Len(channel[e[1]]) + 1] = e
        /\ \A i \in 1 .. Len(channel[e[1]]) : channel'[e[1]][i] = channel[e[1]][i]
    BY <1>1, PublishAppends
  <2>2. e \in Written /\ e[1] \in Rides
    BY <2>1, EventFields DEF RowsAreWaiting, Written
  <2> HIDE DEF e
  <2> SUFFICES ASSUME NEW r \in Rides, NEW i \in 1 .. Len(channel'[r])
               PROVE  channel'[r][i] \in Written' /\ channel'[r][i][1] = r
    BY DEF SentWasWritten
  <2>3. CASE r # e[1]
    BY <1>0, <2>1, <2>3 DEF SentWasWritten, Grows
  <2>4. CASE r = e[1] /\ i \in 1 .. Len(channel[r])
    BY <1>0, <2>1, <2>4 DEF SentWasWritten, Grows
  <2>5. CASE r = e[1] /\ i = Len(channel[r]) + 1
    BY <1>0, <2>1, <2>2, <2>5 DEF Grows
  <2> QED
    BY <1>0, <2>1, <2>3, <2>4, <2>5
<1>2. ASSUME channel' = channel PROVE SentWasWritten'
  BY <1>0, <1>2 DEF SentWasWritten, Grows
<1>3. channel' = channel \/ \E w \in Replicas : Publish(w)
  BY DEF Next, Worker, Write, workerVars, SelectBatch, Notify, CommitBatch, FailBatch,
         EmptyRound, vars
<1> QED
  BY <1>1, <1>2, <1>3

LEMMA DeliveredStep ==
  ASSUME TypeOK, CommitsWholeBatch, MarkedWasDelivered, Delivered, [Next]_vars
  PROVE  MarkedWasDelivered' /\ Delivered'
<1>0. /\ \A e \in Events : e \in Sent(e[1]) => e \in Sent(e[1])'
      /\ tasks \subseteq tasks'
      /\ tasks \subseteq Events /\ published \subseteq Events
  BY GrowsStep, EventFields DEF Grows, TypeOK
<1>1. ASSUME published' = published PROVE MarkedWasDelivered'
  BY <1>0, <1>1 DEF MarkedWasDelivered
<1>2. ASSUME tasks' = tasks
      PROVE  \A e \in tasks' : e \in Sent(e[1])'
  BY <1>0, <1>2 DEF Delivered
<1>3. ASSUME NEW v \in Replicas, pc'[v] = pc[v], batch'[v] = batch[v], done'[v] = done[v]
      PROVE  /\ \A i \in 1 .. done'[v] : batch'[v][i] \in tasks'
             /\ pc'[v] = "notify" => (Current(v) \in Sent(Current(v)[1]))'
  <2>1. Current(v)' = Current(v)
    BY <1>3 DEF Current
  <2>2. pc[v] = "notify" => Current(v) \in Events /\ Current(v) \in Sent(Current(v)[1])
    BY BatchTyped DEF Delivered
  <2>3. \A e \in Events : e \in Sent(e[1]) => e \in Sent(e[1])'
    BY <1>0
  <2>4. pc'[v] = "notify" => (Current(v) \in Sent(Current(v)[1]))'
    BY <1>3, <2>1, <2>2, <2>3 DEF Sent
  <2> QED
    BY <1>0, <1>3, <2>4 DEF Delivered
<1>4. ASSUME NEW w \in Replicas, SelectBatch(w) PROVE MarkedWasDelivered' /\ Delivered'
  <2>1. /\ pc'[w] = "publish" /\ done'[w] = 0
        /\ \A v \in Replicas \ {w} : pc'[v] = pc[v] /\ done'[v] = done[v]
        /\ published' = published /\ tasks' = tasks
    BY <1>4 DEF SelectBatch, TypeOK
  <2>2. \A v \in Replicas \ {w} : batch'[v] = batch[v]
    BY <1>4, SelectPicks
  <2>3. \A i \in 1 .. done'[w] : batch'[w][i] \in tasks'
    BY <2>1
  <2> QED
    BY <1>1, <1>2, <1>3, <2>1, <2>2, <2>3 DEF Delivered
<1>5. ASSUME NEW w \in Replicas, Publish(w) PROVE MarkedWasDelivered' /\ Delivered'
  <2>1. /\ pc' = [pc EXCEPT ![w] = "notify"]
        /\ UNCHANGED <<published, batch, done, tasks>>
    BY <1>5 DEF Publish
  <2>2. Current(w) \in RowsOf(w) /\ RowsOf(w) \subseteq Events
    BY <1>5, PublishAppends, BatchTyped
  <2>3. PICK e \in Events : e = Current(w)
    BY <2>2
  <2>4. /\ Len(channel'[e[1]]) = Len(channel[e[1]]) + 1
        /\ channel'[e[1]][Len(channel[e[1]]) + 1] = e
    BY <1>5, <2>3, PublishAppends
  <2>5. Len(channel[e[1]]) + 1 \in 1 .. Len(channel'[e[1]])
    <3>1. Len(channel[e[1]]) \in Nat
      BY <2>3, EventFields DEF TypeOK
    <3> QED
      BY <2>4, <3>1
  <2>6. e \in Sent(e[1])' /\ Current(w)' = e
    BY <2>1, <2>3, <2>4, <2>5 DEF Sent, Current
  <2>7. /\ \A i \in 1 .. done'[w] : batch'[w][i] \in tasks'
        /\ (Current(w) \in Sent(Current(w)[1]))'
    BY <2>1, <2>6 DEF Delivered, Sent
  <2>8. \A v \in Replicas \ {w} : pc'[v] = pc[v]
    BY <2>1 DEF TypeOK
  <2> QED
    BY <1>1, <1>2, <1>3, <2>1, <2>7, <2>8 DEF Delivered
<1>6. ASSUME NEW w \in Replicas, Notify(w) PROVE MarkedWasDelivered' /\ Delivered'
  <2>1. /\ pc[w] = "notify" /\ tasks' = tasks \cup {Current(w)}
        /\ done' = [done EXCEPT ![w] = done[w] + 1]
        /\ UNCHANGED <<published, batch, channel>>
        /\ pc'[w] # "notify"
        /\ \A v \in Replicas \ {w} : pc'[v] = pc[v]
    BY <1>6 DEF Notify, TypeOK
  <2>2. done[w] \in Nat /\ done'[w] = done[w] + 1
        /\ \A v \in Replicas \ {w} : done'[v] = done[v]
    BY <2>1 DEF TypeOK
  <2>3. \A i \in 1 .. done'[w] : batch'[w][i] \in tasks'
    <3> SUFFICES ASSUME NEW i \in 1 .. done'[w] PROVE batch'[w][i] \in tasks'
      OBVIOUS
    <3>1. CASE i \in 1 .. done[w]
      BY <2>1, <3>1 DEF Delivered
    <3>2. CASE i = done[w] + 1
      BY <2>1, <3>2 DEF Current
    <3> QED
      BY <2>2, <3>1, <3>2
  <2>4. \A e \in tasks' : e \in Sent(e[1])'
    <3>1. \A e \in tasks' : e \in Sent(e[1])
      BY <2>1 DEF Delivered
    <3>2. \A r : Sent(r)' = Sent(r)
      BY <2>1 DEF Sent
    <3> QED
      BY <3>1, <3>2
  <2> QED
    BY <1>1, <1>3, <2>1, <2>2, <2>3, <2>4 DEF Delivered
<1>7. ASSUME NEW w \in Replicas, CommitBatch(w) \/ FailBatch(w)
      PROVE  MarkedWasDelivered' /\ Delivered'
  <2>1. /\ pc'[w] = "select" /\ done'[w] = 0 /\ tasks' = tasks
        /\ \A v \in Replicas \ {w} : pc'[v] = pc[v] /\ batch'[v] = batch[v] /\ done'[v] = done[v]
    BY <1>7 DEF CommitBatch, FailBatch, EndBatch, TypeOK
  <2>2. \A i \in 1 .. done'[w] : batch'[w][i] \in tasks'
    BY <2>1
  <2>3. Delivered'
    BY <1>2, <1>3, <2>1, <2>2 DEF Delivered
  <2>4. published' \subseteq published \cup (RowsOf(w) \cap tasks)
    <3>1. CASE CommitBatch(w)
      <4>1. done[w] = Len(batch[w]) /\ published' = published \cup RowsOf(w)
        BY <3>1 DEF CommitBatch, CommitsWholeBatch
      <4>2. RowsOf(w) \subseteq tasks
        BY <4>1 DEF Delivered, RowsOf
      <4> QED
        BY <4>1, <4>2
    <3>2. CASE FailBatch(w)
      BY <3>2 DEF FailBatch, MarkedByFailure
    <3> QED
      BY <1>7, <3>1, <3>2
  <2>5. MarkedWasDelivered'
    BY <1>0, <2>1, <2>4 DEF MarkedWasDelivered, Delivered
  <2> QED
    BY <2>3, <2>5
<1>8. ASSUME UNCHANGED <<published, pc, batch, done, tasks>>
      PROVE  MarkedWasDelivered' /\ Delivered'
  BY <1>1, <1>2, <1>3, <1>8 DEF Delivered
<1>9. ASSUME NEW r \in Rides, NEW n \in 1 .. 2, Write(r, n)
      PROVE  UNCHANGED <<published, pc, batch, done, tasks>>
  BY <1>9 DEF Write, workerVars
<1>10. UNCHANGED vars => UNCHANGED <<published, pc, batch, done, tasks>>
  BY DEF vars
<1> QED
  BY <1>4, <1>5, <1>6, <1>7, <1>8, <1>9, <1>10 DEF Next, Worker, EmptyRound

\* What precedes an event that is written is written too, and precedes it before
\* the step if it does after it.
LEMMA PrecedesStable ==
  ASSUME TypeOK, Grows, NEW e \in Written, NEW f \in Events, f[1] = e[1], f[2] < e[2]
  PROVE  /\ f \in Written
         /\ Precedes(f, e)' => Precedes(f, e)
<1>1. /\ e \in Events /\ e[1] \in Rides /\ e[2] \in Nat /\ f[2] \in Nat
      /\ written[e[1]] \in Nat /\ e[2] <= written[e[1]]
  BY EventFields DEF Written, TypeOK
<1>2. f \in Written
  BY <1>1 DEF Written
<1>3. created'[e] = created[e] /\ created'[f] = created[f]
  BY <1>2 DEF Grows
<1> QED
  BY <1>2, <1>3 DEF Precedes

\* An event that precedes one of a batch, at the moment at which it is selected.
LEMMA SelectKeepsOrder ==
  ASSUME TypeOK, MarkedWasDelivered, NEW w \in Replicas, SelectBatch(w),
         NEW i \in 1 .. Len(batch'[w]), NEW f \in Written, Precedes(f, batch'[w][i])
  PROVE  \/ f \in Sent(f[1])
         \/ \E j \in 1 .. i - 1 : batch'[w][j] = f
         \/ <<batch'[w][i], f>> \in overtaken'
<1>1. PICK s : s = batch'[w]
  OBVIOUS
<1>2. /\ Len(s) \in Nat \ {0} /\ IsBatch(s)
      /\ \A k \in 1 .. Len(s) : s[k] \in Selectable
      /\ overtaken' = overtaken \cup
              {p \in RowsOf(w)' \X Locked : p[1][1] = p[2][1] /\ p[2][2] < p[1][2]}
      /\ s[i] \in RowsOf(w)'
  BY <1>1, SelectPicks DEF RowsOf
<1>3. /\ f[1] = s[i][1] /\ f[2] < s[i][2] /\ created[f] < created[s[i]]
      /\ f[2] \in Nat /\ s[i][2] \in Nat
      /\ created[f] \in Nat /\ created[s[i]] \in Nat
  BY <1>1, <1>2, EventFields DEF Precedes, Selectable, Written, TypeOK
<1>4. CASE f \in published
  BY <1>4 DEF MarkedWasDelivered
<1>5. CASE f \in Locked
  BY <1>1, <1>2, <1>3, <1>5
<1>6. CASE f \in Selectable
  <2>1. ~(created[s[i]] <= created[f])
    BY <1>3
  <2>2. PICK k \in 1 .. Len(s) : s[k] = f
    BY <1>1, <1>2, <1>6, <2>1 DEF IsBatch
  <2>3. ~(i < k)
    BY <1>1, <1>2, <2>1, <2>2 DEF IsBatch
  <2>4. i # k
    BY <1>3, <2>2
  <2>5. k \in 1 .. i - 1
    BY <1>1, <1>2, <2>2, <2>3, <2>4
  <2> QED
    BY <1>1, <2>2, <2>5
<1> QED
  BY <1>4, <1>5, <1>6 DEF Selectable

LEMMA BatchInOrderStep ==
  ASSUME TypeOK, RowsAreWaiting, MarkedWasDelivered, BatchInOrder, [Next]_vars
  PROVE  BatchInOrder'
<1>0. Grows
  BY GrowsStep
<1>1. \A f \in Events : f \in Sent(f[1]) => f \in Sent(f[1])'
  BY <1>0, EventFields DEF Grows
<1> SUFFICES ASSUME NEW w \in Replicas, NEW i \in 1 .. Len(batch'[w]), NEW f \in Events,
                    Precedes(f, batch[w][i])'
             PROVE  \/ f \in Sent(f[1])'
                    \/ \E j \in 1 .. i - 1 : batch'[w][j] = f
                    \/ <<batch'[w][i], f>> \in overtaken'
  BY DEF BatchInOrder
<1>2. PICK e : e = batch'[w][i]
  OBVIOUS
<1>3. Precedes(f, e)' /\ f[1] = e[1] /\ f[2] < e[2]
  BY <1>2 DEF Precedes
<1>4. CASE batch'[w] = batch[w]
  <2>1. e \in Written
    BY <1>2, <1>4 DEF RowsAreWaiting, RowsOf
  <2>2. Precedes(f, batch[w][i])
    BY <1>0, <1>2, <1>3, <1>4, <2>1, PrecedesStable
  <2>3. \/ f \in Sent(f[1])
        \/ \E j \in 1 .. i - 1 : batch[w][j] = f
        \/ <<batch[w][i], f>> \in overtaken
    BY <1>4, <2>2 DEF BatchInOrder
  <2> QED
    BY <1>0, <1>1, <1>4, <2>3 DEF Grows
<1>5. CASE batch'[w] = <<>>
  BY <1>5
<1>6. CASE SelectBatch(w)
  <2>1. e \in Written
    BY <1>2, <1>6, SelectPicks DEF Selectable
  <2>2. f \in Written /\ Precedes(f, batch'[w][i])
    BY <1>0, <1>2, <1>3, <2>1, PrecedesStable
  <2> QED
    BY <1>1, <1>6, <2>2, SelectKeepsOrder
<1> QED
  BY <1>4, <1>5, <1>6, BatchStep

LEMMA SentByTimeStep ==
  ASSUME TypeOK, RowsAreWaiting, Delivered, SentWasWritten, BatchInOrder, SentByTime,
         [Next]_vars
  PROVE  SentByTime'
<1>0. Grows
  BY GrowsStep
<1> SUFFICES ASSUME NEW r \in Rides, NEW i \in 1 .. Len(channel'[r]),
                    NEW n \in 1 .. channel'[r][i][2] - 1,
                    created'[<<r, n>>] < created'[channel'[r][i]]
             PROVE  \/ \E j \in 1 .. i - 1 : channel'[r][j] = <<r, n>>
                    \/ <<channel'[r][i], <<r, n>>>> \in overtaken'
  BY DEF SentByTime
<1>1. PICK e : e = channel'[r][i]
  OBVIOUS
<1>2. PICK f : f = <<r, n>>
  OBVIOUS
<1>3. SentWasWritten' /\ TypeOK'
  BY SentStep, TypeStep
<1>4. e \in Events /\ e[1] = r /\ e[2] \in 1 .. MaxEvents
  BY <1>1, <1>3, EventFields DEF SentWasWritten, Written
<1>5. /\ f \in Events /\ f[1] = e[1] /\ f[2] < e[2] /\ n \in Nat
  <2>1. n \in 1 .. MaxEvents /\ n < e[2] /\ n \in Nat
    BY <1>1, <1>4, EventsAssumption
  <2> QED
    BY <1>2, <1>4, <2>1, EventFields
<1>6. Precedes(f, e)'
  BY <1>1, <1>2, <1>5 DEF Precedes
<1>7. Len(channel[r]) \in Nat /\ Len(channel'[r]) \in Nat
  BY <1>3 DEF TypeOK
<1>8. CASE i \in 1 .. Len(channel[r])
  <2>1. e = channel[r][i] /\ e \in Written
    BY <1>0, <1>1, <1>8 DEF Grows, SentWasWritten
  <2>2. created[f] < created[e]
    BY <1>0, <1>5, <1>6, <2>1, PrecedesStable DEF Precedes
  <2>3. n \in 1 .. channel[r][i][2] - 1
    BY <1>1, <2>1
  <2>4. \/ \E j \in 1 .. i - 1 : channel[r][j] = f
        \/ <<e, f>> \in overtaken
    BY <1>2, <1>8, <2>1, <2>2, <2>3 DEF SentByTime
  <2>5. \A j \in 1 .. i - 1 : channel'[r][j] = channel[r][j]
    BY <1>0, <1>7, <1>8 DEF Grows
  <2> QED
    BY <1>0, <1>1, <1>2, <2>4, <2>5 DEF Grows
<1>9. CASE i \notin 1 .. Len(channel[r])
  <2>1. PICK w \in Replicas : Publish(w)
    <3>1. channel' # channel
      BY <1>9
    <3> QED
      BY <3>1
      DEF Next, Worker, Write, workerVars, SelectBatch, Notify, CommitBatch, FailBatch,
          EmptyRound, vars
  <2>2. /\ r = Current(w)[1] /\ i = Len(channel[r]) + 1 /\ e = Current(w)
        /\ e \in RowsOf(w)
        /\ \A j \in 1 .. Len(channel[r]) : channel'[r][j] = channel[r][j]
    <3>1. r = Current(w)[1]
      BY <1>9, <2>1, PublishAppends
    <3>2. i = Len(channel[r]) + 1
      BY <1>7, <1>9, <2>1, <3>1, PublishAppends
    <3> QED
      BY <1>1, <2>1, <3>1, <3>2, PublishAppends
  <2>3. e \in Written
    BY <2>2 DEF RowsAreWaiting
  <2>4. Precedes(f, e)
    BY <1>0, <1>5, <1>6, <2>3, PrecedesStable
  <2>5. done[w] + 1 \in 1 .. Len(batch[w]) /\ done[w] \in Nat /\ e = batch[w][done[w] + 1]
    BY <2>1, <2>2, BatchTyped DEF Publish, Current
  <2>6. \/ f \in Sent(f[1])
        \/ \E j \in 1 .. (done[w] + 1) - 1 : batch[w][j] = f
        \/ <<e, f>> \in overtaken
    BY <1>5, <2>4, <2>5 DEF BatchInOrder
  <2>7. (\E j \in 1 .. (done[w] + 1) - 1 : batch[w][j] = f) => f \in Sent(f[1])
    <3>1. 1 .. (done[w] + 1) - 1 = 1 .. done[w]
      BY <2>5
    <3> QED
      BY <3>1 DEF Delivered
  <2>8. f \in Sent(r) => \E j \in 1 .. i - 1 : channel'[r][j] = f
    <3>1. 1 .. i - 1 = 1 .. Len(channel[r])
      BY <1>7, <2>2
    <3> QED
      BY <2>2, <3>1 DEF Sent
  <2> QED
    BY <1>0, <1>1, <1>2, <2>6, <2>7, <2>8 DEF Grows
<1> QED
  BY <1>8, <1>9
-----------------------------------------------------------------------------------
LEMMA OutboxInvInit == Init => OutboxInv
<1> SUFFICES ASSUME Init PROVE OutboxInv
  OBVIOUS
<1>1. <<>> \in Seq(Events) /\ Len(<<>>) = 0
  OBVIOUS
<1>2. TypeOK
  BY <1>1, EventsAssumption DEF Init, TableInit, TypeOK
<1>3. /\ \A w \in Replicas : pc[w] = "select" /\ done[w] = 0 /\ RowsOf(w) = {}
      /\ \A r \in Rides : Len(channel[r]) = 0
      /\ \A w \in Replicas : Len(batch[w]) = 0
  BY <1>1 DEF Init, RowsOf
<1>4. CommitsWholeBatch /\ RowsAreWaiting /\ ProcessedByOne
  BY <1>3 DEF CommitsWholeBatch, RowsAreWaiting, ProcessedByOne, Locked
<1>5. MarkedWasDelivered /\ Delivered /\ SentWasWritten
  BY <1>3 DEF MarkedWasDelivered, Delivered, SentWasWritten, Init
<1>6. BatchInOrder /\ SentByTime
  BY <1>3 DEF BatchInOrder, SentByTime
<1>7. Chronological /\ BegunBefore
  <2>1. \A r \in Rides : written[r] = 0
    BY DEF Init, TableInit
  <2> QED
    BY <2>1 DEF Chronological, BegunBefore
<1> QED
  BY <1>2, <1>4, <1>5, <1>6, <1>7 DEF OutboxInv

LEMMA OutboxInvStep == OutboxInv /\ [Next]_vars => OutboxInv'
BY TypeStep, TableStep, CommitsStep, WaitingStep, DeliveredStep, SentStep, BatchInOrderStep,
   SentByTimeStep
DEF OutboxInv

\* The outbox keeps its inductive invariant.
THEOREM OutboxInvariance == Spec => []OutboxInv
BY OutboxInvInit, OutboxInvStep, PTL DEF Spec

\* Whatever fails, a row that is marked was sent to the channel of its ride and its
\* notification was queued.
THEOREM MarkedDelivered == Spec => []MarkedWasDelivered
<1>1. OutboxInv => MarkedWasDelivered
  BY DEF OutboxInv
<1> QED
  BY <1>1, OutboxInvariance, PTL

\* No row is in the hands of two replicas, or of one after it was marked.
THEOREM OneProcessor == Spec => []ProcessedByOne
<1>1. OutboxInv => ProcessedByOne
  BY DEF OutboxInv
<1> QED
  BY <1>1, OutboxInvariance, PTL

\* created_at, by which the worker sorts, is in the order of the versions of a ride.
THEOREM TimesInOrder == Spec => []Chronological
<1>1. OutboxInv => Chronological
  BY DEF OutboxInv
<1> QED
  BY <1>1, OutboxInvariance, PTL

\* Of two events of a ride that differ in created_at, the later one has the greater.
LEMMA InOrderFollows == OutboxInv => InOrder
<1> SUFFICES ASSUME OutboxInv, NEW r \in Rides, NEW i \in 1 .. Len(channel[r]),
                    NEW n \in 1 .. channel[r][i][2] - 1,
                    created[<<r, n>>] # created[channel[r][i]]
             PROVE  \/ \E j \in 1 .. i - 1 : channel[r][j] = <<r, n>>
                    \/ <<channel[r][i], <<r, n>>>> \in overtaken
  BY DEF InOrder
<1>1. PICK e : e = channel[r][i]
  OBVIOUS
<1>2. /\ e \in Events /\ e[1] = r /\ e = <<r, e[2]>> /\ e[2] <= written[r]
      /\ e[2] \in 1 .. MaxEvents /\ written[r] \in Nat
  <2>1. e \in Written /\ e[1] = r
    BY <1>1 DEF OutboxInv, SentWasWritten
  <2>2. written[r] \in Nat
    BY EventsAssumption DEF OutboxInv, TypeOK
  <2> QED
    BY <2>1, <2>2, EventFields DEF Written
<1>3. n \in 1 .. written[r] /\ e[2] \in 1 .. written[r] /\ n < e[2]
  BY <1>1, <1>2, EventsAssumption
<1>4. /\ created[<<r, n>>] <= created[e]
      /\ created[<<r, n>>] \in Nat /\ created[e] \in Nat
  <2>1. <<r, n>> \in Events
    BY <1>2, <1>3, EventFields, EventsAssumption
  <2> QED
    BY <1>2, <1>3, <2>1 DEF OutboxInv, Chronological, TypeOK
<1>5. created[<<r, n>>] < created[e]
  BY <1>1, <1>4
<1> QED
  BY <1>1, <1>5 DEF OutboxInv, SentByTime

\* The transactions of a ride are sent in their order, unless one was selected while
\* another replica held an earlier one.
THEOREM OrderKept == Spec => []InOrder
<1>1. OutboxInv => InOrder
  BY InOrderFollows
<1> QED
  BY <1>1, OutboxInvariance, PTL

-----------------------------------------------------------------------------------
(* How often an event is sent.                                             *)

\* A batch has no row twice.
DistinctRows ==
  \A w \in Replicas : \A i, j \in 1 .. Len(batch[w]) : i # j => batch[w][i] # batch[w][j]

\* e is marked, or the replica that holds it has sent it in this batch.
Settled(e) ==
  \/ e \in published
  \/ \E w \in Replicas : \E i \in 1 .. Len(batch[w]) :
       /\ batch[w][i] = e
       /\ i <= done[w] \/ (i = done[w] + 1 /\ pc[w] = "notify")

\* Every message that says e is due to a failed batch, but for the one of the batch
\* that settles it.
CopiesBounded ==
  \A e \in Events : Cardinality(Copies(e)) <= IF Settled(e) THEN failures + 1 ELSE failures

RepeatInv == OutboxInv /\ DistinctRows /\ CopiesBounded

LEMMA CopiesFinite ==
  ASSUME TypeOK, NEW e \in Events
  PROVE  IsFiniteSet(Copies(e)) /\ Cardinality(Copies(e)) \in Nat
<1>1. channel[e[1]] \in Seq(Events)
  BY EventFields DEF TypeOK
<1>2. IsFiniteSet(1 .. Len(channel[e[1]]))
  BY <1>1, FS_Interval
<1>3. Copies(e) \subseteq 1 .. Len(channel[e[1]])
  BY DEF Copies
<1> QED
  BY <1>2, <1>3, FS_Subset, FS_CardinalityType

LEMMA DistinctStep ==
  ASSUME TypeOK, DistinctRows, [Next]_vars
  PROVE  DistinctRows'
<1>1. ASSUME NEW w \in Replicas, SelectBatch(w),
             NEW i \in 1 .. Len(batch'[w]), NEW j \in 1 .. Len(batch'[w]), i # j
      PROVE  batch'[w][i] # batch'[w][j]
  <2>1. PICK s : s = batch'[w]
    OBVIOUS
  <2>2. IsBatch(s) /\ i \in 1 .. Len(s) /\ j \in 1 .. Len(s) /\ Len(s) \in Nat
    BY <1>1, <2>1, SelectPicks
  <2>3. i < j \/ j < i
    BY <1>1, <2>2
  <2> QED
    BY <2>1, <2>2, <2>3 DEF IsBatch
<1>2. ASSUME NEW w \in Replicas, batch'[w] = <<>>,
             NEW i \in 1 .. Len(batch'[w]), NEW j \in 1 .. Len(batch'[w])
      PROVE  FALSE
  BY <1>2
<1> QED
  BY <1>1, <1>2, BatchStep DEF DistinctRows

\* A step that sends no copy of e keeps its bound, if e stays settled or a batch fails.
LEMMA BoundKept ==
  ASSUME TypeOK, CopiesBounded, NEW e \in Events, Copies(e)' = Copies(e), failures' \in Nat,
         \/ failures' = failures /\ (Settled(e) => Settled(e)')
         \/ failures' = failures + 1
  PROVE  Cardinality(Copies(e))' <= IF Settled(e)' THEN failures' + 1 ELSE failures'
<1>1. Cardinality(Copies(e)) \in Nat /\ failures \in Nat
  BY CopiesFinite DEF TypeOK
<1>2. Cardinality(Copies(e)) <= IF Settled(e) THEN failures + 1 ELSE failures
  BY DEF CopiesBounded
<1> QED
  BY <1>1, <1>2

\* A row that a replica is about to send is not settled.
LEMMA CurrentUnsettled ==
  ASSUME OutboxInv, DistinctRows, NEW w \in Replicas, pc[w] = "publish"
  PROVE  ~Settled(Current(w))
<1>1. /\ done[w] + 1 \in 1 .. Len(batch[w]) /\ done[w] \in Nat /\ Len(batch[w]) \in Nat
      /\ Current(w) \in RowsOf(w)
  BY BatchTyped DEF OutboxInv
<1>2. Current(w) \notin published
  BY <1>1 DEF OutboxInv, ProcessedByOne, Locked
<1>3. ASSUME NEW v \in Replicas, NEW i \in 1 .. Len(batch[v]), batch[v][i] = Current(w)
      PROVE  v = w
  <2>1. Current(w) \in RowsOf(v)
    BY <1>3 DEF RowsOf
  <2> QED
    BY <1>1, <2>1 DEF OutboxInv, ProcessedByOne
<1>4. ASSUME NEW i \in 1 .. Len(batch[w]), batch[w][i] = Current(w)
      PROVE  i = done[w] + 1
  BY <1>1, <1>4 DEF DistinctRows, Current
<1>5. ASSUME NEW i \in 1 .. Len(batch[w]), batch[w][i] = Current(w)
      PROVE  ~(i <= done[w] \/ (i = done[w] + 1 /\ pc[w] = "notify"))
  BY <1>1, <1>4, <1>5
<1> QED
  BY <1>2, <1>3, <1>5 DEF Settled

LEMMA PublishKeepsBound ==
  ASSUME OutboxInv, DistinctRows, CopiesBounded, NEW w \in Replicas, Publish(w)
  PROVE  CopiesBounded'
<1>0. TypeOK /\ failures \in Nat
  BY DEF OutboxInv, TypeOK
<1>1. PICK c : c = Current(w)
  OBVIOUS
<1>2. /\ c \in Events /\ c[1] \in Rides
      /\ \A r \in Rides \ {c[1]} : channel'[r] = channel[r]
      /\ Len(channel'[c[1]]) = Len(channel[c[1]]) + 1
      /\ channel'[c[1]][Len(channel[c[1]]) + 1] = c
      /\ \A i \in 1 .. Len(channel[c[1]]) : channel'[c[1]][i] = channel[c[1]][i]
      /\ Len(channel[c[1]]) \in Nat
  <2>1. c \in Events /\ c[1] \in Rides
    BY <1>0, <1>1, BatchTyped, EventFields DEF Publish
  <2>2. Len(channel[c[1]]) \in Nat
    BY <1>0, <2>1 DEF TypeOK
  <2> QED
    BY <1>0, <1>1, <2>1, <2>2, PublishAppends
<1>3. /\ pc'[w] = "notify" /\ pc[w] = "publish"
      /\ \A v \in Replicas \ {w} : pc'[v] = pc[v]
      /\ UNCHANGED <<published, batch, done, failures>>
  BY <1>0 DEF Publish, TypeOK
<1>4. 1 .. Len(channel'[c[1]]) = (1 .. Len(channel[c[1]])) \cup {Len(channel[c[1]]) + 1}
  BY <1>2
<1>5. ASSUME NEW e \in Events, e # c PROVE Copies(e)' = Copies(e)
  <2>1. CASE e[1] # c[1]
    BY <1>2, <2>1, EventFields DEF Copies
  <2>2. CASE e[1] = c[1]
    BY <1>2, <1>4, <1>5, <2>2 DEF Copies
  <2> QED
    BY <2>1, <2>2
<1>6. ASSUME NEW e \in Events, Settled(e) PROVE Settled(e)'
  BY <1>3, <1>6 DEF Settled
<1>7. ASSUME NEW e \in Events, e # c
      PROVE  Cardinality(Copies(e))' <= IF Settled(e)' THEN failures' + 1 ELSE failures'
  BY <1>0, <1>3, <1>5, <1>6, <1>7, BoundKept
<1>8. Cardinality(Copies(c))' <= failures' + 1
  <2>1. Cardinality(Copies(c)) <= failures
    BY <1>1, <1>2, <1>3, CurrentUnsettled DEF CopiesBounded
  <2>2. Copies(c)' = Copies(c) \cup {Len(channel[c[1]]) + 1}
    BY <1>2, <1>4 DEF Copies
  <2>3. /\ IsFiniteSet(Copies(c)) /\ Cardinality(Copies(c)) \in Nat
        /\ Len(channel[c[1]]) + 1 \notin Copies(c)
    BY <1>0, <1>2, CopiesFinite DEF Copies
  <2>4. Cardinality(Copies(c))' = Cardinality(Copies(c)) + 1
    BY <2>2, <2>3, FS_AddElement
  <2> QED
    BY <1>0, <1>3, <2>1, <2>3, <2>4
<1>9. Settled(c)'
  <2>1. done[w] + 1 \in 1 .. Len(batch[w]) /\ batch[w][done[w] + 1] = c
    BY <1>0, <1>1, <1>3, BatchTyped DEF Current
  <2>2. pc'[w] = "notify"
    BY <1>3
  <2> QED
    BY <1>3, <2>1, <2>2 DEF Settled
<1> QED
  BY <1>7, <1>8, <1>9 DEF CopiesBounded

LEMMA BoundStep ==
  ASSUME OutboxInv, DistinctRows, CopiesBounded, [Next]_vars
  PROVE  CopiesBounded'
<1>0. TypeOK /\ failures \in Nat /\ TypeOK' /\ failures' \in Nat
  <2>1. TypeOK /\ TypeOK'
    BY TypeStep DEF OutboxInv
  <2> QED
    BY <2>1 DEF TypeOK
<1>1. ASSUME channel' = channel,
             \/ failures' = failures /\ \A e \in Events : Settled(e) => Settled(e)'
             \/ failures' = failures + 1
      PROVE  CopiesBounded'
  <2>1. \A e \in Events : Copies(e)' = Copies(e)
    BY <1>1 DEF Copies
  <2>2. ASSUME NEW e \in Events
        PROVE  Cardinality(Copies(e))' <= IF Settled(e)' THEN failures' + 1 ELSE failures'
    BY <1>0, <1>1, <2>1, BoundKept
  <2> QED
    BY <2>2 DEF CopiesBounded
<1>2. ASSUME NEW w \in Replicas, SelectBatch(w) PROVE CopiesBounded'
  <2>1. /\ channel' = channel /\ failures' = failures /\ published' = published
        /\ done' = done /\ pc[w] = "select" /\ pc' = [pc EXCEPT ![w] = "publish"]
    BY <1>2 DEF SelectBatch
  <2>2. Len(batch[w]) = 0
    BY <1>0, <2>1 DEF TypeOK
  <2>3. \A v \in Replicas \ {w} : batch'[v] = batch[v] /\ pc'[v] = pc[v]
    BY <1>0, <1>2, <2>1, SelectPicks DEF TypeOK
  <2>4. ASSUME NEW e \in Events, Settled(e) PROVE Settled(e)'
    BY <2>1, <2>2, <2>3, <2>4 DEF Settled
  <2> QED
    BY <1>1, <2>1, <2>4
<1>3. ASSUME NEW w \in Replicas, Notify(w) PROVE CopiesBounded'
  <2>1. /\ channel' = channel /\ failures' = failures /\ published' = published
        /\ batch' = batch
    BY <1>3 DEF Notify
  <2>2. done'[w] = done[w] + 1 /\ done[w] \in Nat
    BY <1>0, <1>3 DEF Notify, TypeOK
  <2>3. \A v \in Replicas \ {w} : done'[v] = done[v] /\ pc'[v] = pc[v]
    BY <1>0, <1>3 DEF Notify, TypeOK
  <2>4. ASSUME NEW e \in Events, NEW i \in 1 .. Len(batch[w]), batch[w][i] = e,
               i <= done[w] \/ i = done[w] + 1
        PROVE  Settled(e)'
    <3>1. i <= done'[w]
      BY <2>2, <2>4
    <3> QED
      BY <2>1, <2>4, <3>1 DEF Settled
  <2>5. ASSUME NEW e \in Events, NEW v \in Replicas \ {w}, NEW i \in 1 .. Len(batch[v]),
               batch[v][i] = e, i <= done[v] \/ (i = done[v] + 1 /\ pc[v] = "notify")
        PROVE  Settled(e)'
    BY <2>1, <2>3, <2>5 DEF Settled
  <2>6. ASSUME NEW e \in Events, Settled(e) PROVE Settled(e)'
    BY <2>1, <2>4, <2>5, <2>6 DEF Settled
  <2> QED
    BY <1>1, <2>1, <2>6
<1>4. ASSUME NEW w \in Replicas, CommitBatch(w) PROVE CopiesBounded'
  <2>1. /\ channel' = channel /\ failures' = failures
        /\ published' = published \cup RowsOf(w)
    BY <1>4 DEF CommitBatch
  <2>2. \A v \in Replicas \ {w} : batch'[v] = batch[v] /\ done'[v] = done[v] /\ pc'[v] = pc[v]
    BY <1>0, <1>4 DEF CommitBatch, EndBatch, TypeOK
  <2>3. ASSUME NEW e \in Events, Settled(e) PROVE Settled(e)'
    BY <2>1, <2>2, <2>3 DEF Settled, RowsOf
  <2> QED
    BY <1>1, <2>1, <2>3
<1>5. ASSUME NEW w \in Replicas, FailBatch(w) PROVE CopiesBounded'
  BY <1>1, <1>5 DEF FailBatch
<1>6. ASSUME UNCHANGED <<published, pc, batch, done, channel, failures>> PROVE CopiesBounded'
  BY <1>1, <1>6 DEF Settled
<1>7. ASSUME NEW r \in Rides, NEW n \in 1 .. 2, Write(r, n)
      PROVE  UNCHANGED <<published, pc, batch, done, channel, failures>>
  BY <1>7 DEF Write, workerVars
<1>8. UNCHANGED vars => UNCHANGED <<published, pc, batch, done, channel, failures>>
  BY DEF vars
<1> QED
  BY <1>2, <1>3, <1>4, <1>5, <1>6, <1>7, <1>8, PublishKeepsBound
  DEF Next, Worker, EmptyRound

LEMMA RepeatInvInit == Init => RepeatInv
<1> SUFFICES ASSUME Init PROVE RepeatInv
  OBVIOUS
<1>1. OutboxInv /\ TypeOK
  BY OutboxInvInit DEF OutboxInv
<1>2. DistinctRows
  BY DEF Init, DistinctRows
<1>3. ASSUME NEW e \in Events PROVE Cardinality(Copies(e)) = 0
  <2>1. Copies(e) = {}
    BY EventFields DEF Init, Copies
  <2> QED
    BY <2>1, FS_EmptySet
<1>4. CopiesBounded
  BY <1>3 DEF CopiesBounded, Init
<1> QED
  BY <1>1, <1>2, <1>4 DEF RepeatInv

LEMMA RepeatsFollow == RepeatInv => RepeatsNeedFailures
<1> SUFFICES ASSUME RepeatInv, NEW e \in Events PROVE Cardinality(Copies(e)) <= 1 + failures
  BY DEF RepeatsNeedFailures
<1>1. TypeOK /\ failures \in Nat
  BY DEF RepeatInv, OutboxInv, TypeOK
<1>2. Cardinality(Copies(e)) \in Nat
  BY <1>1, CopiesFinite
<1>3. Cardinality(Copies(e)) <= IF Settled(e) THEN failures + 1 ELSE failures
  BY DEF RepeatInv, CopiesBounded
<1> QED
  BY <1>1, <1>2, <1>3

\* However many replicas poll, a message is repeated by failed batches alone, and by
\* each of them once at most.
THEOREM RepeatsBounded == Spec => []RepeatsNeedFailures
<1>1. RepeatInv /\ [Next]_vars => RepeatInv'
  BY OutboxInvStep, DistinctStep, BoundStep DEF RepeatInv, OutboxInv
<1>2. RepeatInv => RepeatsNeedFailures
  BY RepeatsFollow
<1> QED
  BY <1>1, <1>2, RepeatInvInit, PTL DEF Spec

-----------------------------------------------------------------------------------
(* A single replica, as in docker-compose.yml.                             *)

OneReplica == \A v, w \in Replicas : v = w

\* The events of a ride are first sent in the order of its versions, those of one
\* transaction apart.
StrictlyInOrder ==
  \A r \in Rides : \A i \in 1 .. Len(channel[r]) : \A n \in 1 .. channel[r][i][2] - 1 :
    created[<<r, n>>] # created[channel[r][i]] =>
      \E j \in 1 .. i - 1 : channel[r][j] = <<r, n>>

\* A replica that is alone finds no row locked when it selects.
LEMMA AloneStep ==
  ASSUME OneReplica, TypeOK, overtaken = {}, [Next]_vars
  PROVE  overtaken' = {}
<1>1. ASSUME NEW w \in Replicas, SelectBatch(w) PROVE overtaken' = {}
  <2>1. Len(batch[w]) = 0
    BY <1>1 DEF SelectBatch, TypeOK
  <2>2. Locked = {}
    BY <2>1 DEF OneReplica, Locked, RowsOf
  <2>3. overtaken' = overtaken \cup
          {p \in RowsOf(w)' \X Locked : p[1][1] = p[2][1] /\ p[2][2] < p[1][2]}
    BY <1>1, SelectPicks
  <2> QED
    BY <2>2, <2>3
<1>2. ASSUME NEW r \in Rides, NEW n \in 1 .. 2, Write(r, n)
      PROVE  overtaken' = overtaken
  BY <1>2 DEF Write, workerVars
<1>3. ASSUME NEW w \in Replicas,
             Publish(w) \/ Notify(w) \/ CommitBatch(w) \/ FailBatch(w)
      PROVE  overtaken' = overtaken
  BY <1>3 DEF Publish, Notify, CommitBatch, FailBatch
<1>4. UNCHANGED vars => overtaken' = overtaken
  BY DEF vars
<1> QED
  BY <1>1, <1>2, <1>3, <1>4 DEF Next, Worker, EmptyRound

LEMMA AloneInOrder == InOrder /\ overtaken = {} => StrictlyInOrder
BY DEF InOrder, StrictlyInOrder

\* A single replica sends no transaction before an earlier one of its ride was sent,
\* whatever fails: not even a batch that is rolled back half-way reverses two of them.
THEOREM AloneKeepsOrder ==
  ASSUME OneReplica
  PROVE  Spec => []StrictlyInOrder
<1>1. Init => overtaken = {}
  BY DEF Init
<1>2. OutboxInv /\ overtaken = {} /\ [Next]_vars => (overtaken = {})'
  BY AloneStep DEF OutboxInv
<1>3. OutboxInv /\ overtaken = {} => StrictlyInOrder
  BY AloneInOrder, InOrderFollows
<1> QED
  BY <1>1, <1>2, <1>3, OutboxInvariance, PTL DEF Spec

-----------------------------------------------------------------------------------
(* The refinement, without its fairness.                                   *)

\* The value that the mapping gives to the variable sent.
SentEvents == {e \in Events : e \in Sent(e[1])}

LEMMA PromiseStep ==
  ASSUME OutboxInv, [Next]_vars
  PROVE  [Promise!Next]_(Promise!vars)
<1> DEFINE G == Promise!Next \/ UNCHANGED <<Written, SentEvents, tasks, published>>
<1>0. /\ TypeOK /\ CommitsWholeBatch /\ RowsAreWaiting /\ Delivered
      /\ Written \subseteq Events /\ Written' \subseteq Events
      /\ Written \subseteq Written'
  BY GrowsStep DEF OutboxInv, Grows, Written
<1>1. ASSUME channel' = channel PROVE SentEvents' = SentEvents
  BY <1>1 DEF SentEvents, Sent
<1>2. ASSUME written' = written PROVE Written' = Written
  BY <1>2 DEF Written
<1>3. ASSUME NEW r \in Rides, NEW n \in 1 .. 2, Write(r, n) PROVE G
  <2>1. UNCHANGED <<SentEvents, tasks, published>>
    BY <1>1, <1>3 DEF Write, workerVars
  <2>2. CASE Written' = Written
    BY <2>1, <2>2
  <2>3. CASE Written' # Written
    <3>1. PICK new \in SUBSET Events : new = Written' \ Written
      BY <1>0
    <3>2. new # {} /\ new \subseteq Events \ Written /\ Written' = Written \cup new
      BY <1>0, <2>3, <3>1
    <3>3. Promise!Write(new)
      BY <2>1, <3>2 DEF Promise!Write, SentEvents
    <3> QED
      BY <3>3 DEF Promise!Next
  <2> QED
    BY <2>2, <2>3
<1>4. ASSUME NEW w \in Replicas, Publish(w) PROVE G
  <2>1. Current(w) \in RowsOf(w) /\ RowsOf(w) \subseteq Written
    BY <1>0, <1>4, PublishAppends DEF RowsAreWaiting
  <2>2. PICK e \in Written : e = Current(w)
    BY <2>1
  <2>3. /\ \A r \in Rides \ {e[1]} : channel'[r] = channel[r]
        /\ Len(channel'[e[1]]) = Len(channel[e[1]]) + 1
        /\ channel'[e[1]][Len(channel[e[1]]) + 1] = e
        /\ \A i \in 1 .. Len(channel[e[1]]) : channel'[e[1]][i] = channel[e[1]][i]
    BY <1>0, <1>4, <2>2, PublishAppends
  <2>4. e \in Events /\ e[1] \in Rides /\ \A r \in Rides : Len(channel[r]) \in Nat
    BY <1>0, EventFields DEF TypeOK
  <2>5. \A r \in Rides \ {e[1]} : Sent(r)' = Sent(r)
    BY <2>3 DEF Sent
  <2>6. Sent(e[1])' = Sent(e[1]) \cup {e}
    <3>1. 1 .. Len(channel'[e[1]]) = (1 .. Len(channel[e[1]])) \cup {Len(channel[e[1]]) + 1}
      BY <2>3, <2>4
    <3> QED
      BY <2>3, <3>1 DEF Sent
  <2>7. SentEvents' = SentEvents \cup {e}
    BY <2>4, <2>5, <2>6, EventFields DEF SentEvents
  <2>8. UNCHANGED <<Written, tasks, published>>
    BY <1>2, <1>4 DEF Publish, tableVars
  <2>9. Promise!Send(e)
    BY <2>2, <2>7, <2>8 DEF Promise!Send, SentEvents
  <2> QED
    BY <2>4, <2>9 DEF Promise!Next
<1>5. ASSUME NEW w \in Replicas, Notify(w) PROVE G
  <2>1. Current(w) \in SentEvents /\ Current(w) \in Events
    BY <1>0, <1>5, BatchTyped DEF Notify, Delivered, SentEvents
  <2>2. UNCHANGED <<Written, SentEvents, published>> /\ tasks' = tasks \cup {Current(w)}
    BY <1>1, <1>2, <1>5 DEF Notify, tableVars
  <2>3. PICK e \in Events : e = Current(w)
    BY <2>1
  <2>4. Promise!Queue(e)
    BY <2>1, <2>2, <2>3 DEF Promise!Queue, SentEvents
  <2> QED
    BY <2>4 DEF Promise!Next
<1>6. ASSUME NEW w \in Replicas, CommitBatch(w) PROVE G
  <2>1. RowsOf(w) \subseteq tasks /\ tasks \subseteq Events
    BY <1>0, <1>6 DEF CommitBatch, CommitsWholeBatch, Delivered, RowsOf, TypeOK
  <2>2. tasks \subseteq SentEvents
    BY <1>0, <2>1 DEF Delivered, SentEvents
  <2>3. UNCHANGED <<Written, SentEvents, tasks>> /\ published' = published \cup RowsOf(w)
    BY <1>1, <1>2, <1>6 DEF CommitBatch, tableVars
  <2>4. PICK rows \in SUBSET Events : rows = RowsOf(w)
    BY <2>1
  <2>5. Promise!Mark(rows)
    BY <2>1, <2>2, <2>3, <2>4 DEF Promise!Mark, SentEvents
  <2> QED
    BY <2>5 DEF Promise!Next
<1>8. ASSUME NEW w \in Replicas, SelectBatch(w) \/ FailBatch(w) \/ EmptyRound(w) PROVE G
  BY <1>1, <1>2, <1>8 DEF SelectBatch, FailBatch, MarkedByFailure, EmptyRound, vars, tableVars
<1>9. ASSUME UNCHANGED vars PROVE G
  BY <1>1, <1>2, <1>9 DEF vars, tableVars
<1>10. G
  BY <1>3, <1>4, <1>5, <1>6, <1>8, <1>9 DEF Next, Worker
<1> QED
  BY <1>10 DEF Promise!vars, SentEvents

\* Nothing is promised at first.
LEMMA InitPromise == Init => Promise!Init
<1> SUFFICES ASSUME Init PROVE Promise!Init
  OBVIOUS
<1>1. ASSUME NEW r \in Rides PROVE Sent(r) = {}
  <2>1. Len(channel[r]) = 0
    BY DEF Init
  <2> QED
    BY <2>1 DEF Sent
<1>2. \A e \in Events : e[2] > 0 /\ e[1] \in Rides
  BY EventFields
<1>3. Written = {}
  <2> SUFFICES ASSUME NEW e \in Events, e[2] <= written[e[1]] PROVE FALSE
    BY DEF Written
  <2>1. written[e[1]] = 0
    BY <1>2 DEF Init, TableInit
  <2>2. e[2] \in Nat
    BY EventFields
  <2> QED
    BY <1>2, <2>1, <2>2
<1>4. SentEvents = {}
  BY <1>1, <1>2 DEF SentEvents
<1> QED
  BY <1>3, <1>4 DEF Init, Promise!Init, SentEvents

\* Polling, batches and failures are delivery at least once: an event is sent only
\* when written, queued only when sent, and marked only when queued.
THEOREM KeepsPromise == Spec => Promise!Spec
<1>1. OutboxInv /\ [Next]_vars => [Promise!Next]_(Promise!vars)
  BY PromiseStep
<1> QED
  BY <1>1, InitPromise, OutboxInvariance, PTL DEF Spec, Promise!Spec

-----------------------------------------------------------------------------------
(* Gateway: the results about the outbox hold of the outbox with its        *)
(* WebSocket clients, and what clients hear follows from them.             *)

\* What a channel had carried when its client subscribed was written by then.
SinceSubscription ==
  \A r \in Rides : \A i \in 1 .. since[r] : channel[r][i][2] <= base[r]

\* The inductive invariant of the outbox with its clients.
GatewayInv ==
  /\ OutboxInv
  /\ GatewayTypeOK
  /\ SinceSubscription

\* The gateway changes nothing of the outbox, apart from the count of failures.
outboxState ==
  <<tableVars, published, pc, batch, done, channel, tasks, overtaken>>

LEMMA ServeLeavesOutbox ==
  ASSUME OutboxInv, NEW r \in Rides, Serve(r)
  PROVE  UNCHANGED outboxState /\ failures' \in Nat /\ failures' \in {failures, failures + 1}
<1>1. failures \in Nat
  BY DEF OutboxInv, TypeOK
<1>2. CASE LoseForwarder(r)
  BY <1>1, <1>2 DEF LoseForwarder, outboxState
<1>3. CASE ~LoseForwarder(r)
  <2>1. UNCHANGED vars
    BY <1>3 DEF Serve, Accept, Subscribe, Forward, Disconnect
  <2> QED
    BY <1>1, <2>1 DEF vars, outboxState
<1> QED
  BY <1>2, <1>3

LEMMA OutboxInvKept ==
  ASSUME OutboxInv, UNCHANGED outboxState, failures' \in Nat
  PROVE  OutboxInv'
<1>1. /\ UNCHANGED <<clock, committed, written, created>>
      /\ UNCHANGED <<published, pc, batch, done, channel, tasks, overtaken>>
  BY DEF outboxState, tableVars
<1>2. TypeOK'
  BY <1>1 DEF OutboxInv, TypeOK
<1>3. /\ \A w : RowsOf(w)' = RowsOf(w) /\ Current(w)' = Current(w)
      /\ \A r : Sent(r)' = Sent(r)
      /\ Written' = Written
      /\ Locked' = Locked
      /\ \A f, e : Precedes(f, e)' <=> Precedes(f, e)
  BY <1>1 DEF RowsOf, Current, Sent, Written, Locked, Precedes
<1>4. CommitsWholeBatch' /\ RowsAreWaiting' /\ ProcessedByOne' /\ MarkedWasDelivered'
  BY <1>1, <1>3
  DEF OutboxInv, CommitsWholeBatch, RowsAreWaiting, ProcessedByOne, MarkedWasDelivered
<1>5. Delivered' /\ SentWasWritten'
  BY <1>1, <1>3 DEF OutboxInv, Delivered, SentWasWritten, Current, Sent
<1>6. BatchInOrder' /\ SentByTime'
  BY <1>1, <1>3 DEF OutboxInv, BatchInOrder, SentByTime, Precedes
<1>7. Chronological' /\ BegunBefore'
  BY <1>1 DEF OutboxInv, Chronological, BegunBefore
<1> QED
  BY <1>2, <1>4, <1>5, <1>6, <1>7 DEF OutboxInv

\* A step of the whole keeps what is known of the outbox, and channels grow.
LEMMA OutboxSideStep ==
  ASSUME OutboxInv, [SystemNext]_systemVars
  PROVE  OutboxInv' /\ Grows
<1>1. ASSUME [Next]_vars PROVE OutboxInv' /\ Grows
  BY <1>1, OutboxInvStep, GrowsStep DEF OutboxInv
<1>2. ASSUME NEW r \in Rides, Serve(r) PROVE OutboxInv' /\ Grows
  <2>1. UNCHANGED outboxState /\ failures' \in Nat
    BY <1>2, ServeLeavesOutbox
  <2>2. UNCHANGED <<channel, written, created, overtaken, tasks>>
    BY <2>1 DEF outboxState, tableVars
  <2>3. \A q \in Rides : channel[q] \in Seq(Events) /\ Len(channel[q]) \in Nat
    BY DEF OutboxInv, TypeOK
  <2> QED
    BY <2>1, <2>2, <2>3, OutboxInvKept DEF Grows, Sent, Written
<1> QED
  BY <1>1, <1>2 DEF SystemNext, systemVars

\* A client's place in its channel, after a step that leaves the others alone.
LEMMA OnePlaceStep ==
  ASSUME GatewayInv, TypeOK', Grows, NEW r \in Rides,
         \A q \in Rides \ {r} :
           since'[q] = since[q] /\ heard'[q] = heard[q] /\ base'[q] = base[q],
         socket' \in [Rides -> SocketStates],
         since' \in [Rides -> Nat], heard' \in [Rides -> Nat],
         base' \in [Rides -> 0 .. MaxEvents],
         since'[r] <= heard'[r], heard'[r] <= Len(channel'[r]),
         \A i \in 1 .. since'[r] : channel'[r][i][2] <= base'[r]
  PROVE  GatewayTypeOK' /\ SinceSubscription'
<1>1. ASSUME NEW q \in Rides, q # r
      PROVE  /\ since'[q] <= heard'[q] /\ heard'[q] <= Len(channel'[q])
             /\ \A i \in 1 .. since'[q] : channel'[q][i][2] <= base'[q]
  <2>1. /\ since[q] \in Nat /\ heard[q] \in Nat /\ Len(channel[q]) \in Nat
        /\ Len(channel'[q]) \in Nat /\ Len(channel[q]) <= Len(channel'[q])
        /\ since[q] <= heard[q] /\ heard[q] <= Len(channel[q])
        /\ since'[q] = since[q] /\ heard'[q] = heard[q] /\ base'[q] = base[q]
    <3>1. channel[q] \in Seq(Events) /\ channel'[q] \in Seq(Events)
      BY DEF GatewayInv, OutboxInv, TypeOK
    <3>2. Len(channel[q]) \in Nat /\ Len(channel'[q]) \in Nat
      BY <3>1
    <3>3. Len(channel[q]) <= Len(channel'[q])
      BY DEF Grows
    <3>4. /\ since[q] \in Nat /\ heard[q] \in Nat
          /\ since[q] <= heard[q] /\ heard[q] <= Len(channel[q])
      BY DEF GatewayInv, GatewayTypeOK
    <3>5. q \in Rides \ {r}
      BY <1>1
    <3> QED
      BY <3>2, <3>3, <3>4, <3>5
  <2>2. \A i \in 1 .. since[q] : channel[q][i][2] <= base[q]
    BY DEF GatewayInv, SinceSubscription
  <2>3. \A i \in 1 .. since[q] : channel'[q][i] = channel[q][i]
    BY <2>1 DEF Grows
  <2>4. since'[q] <= heard'[q] /\ heard'[q] <= Len(channel'[q])
    BY <2>1
  <2>5. ASSUME NEW i \in 1 .. since'[q] PROVE channel'[q][i][2] <= base'[q]
    <3>1. i \in 1 .. since[q]
      BY <2>1
    <3>2. channel'[q][i] = channel[q][i] /\ channel[q][i][2] <= base[q]
      BY <2>2, <2>3, <3>1
    <3> QED
      BY <2>1, <3>2
  <2> QED
    BY <2>4, <2>5
<1> QED
  BY <1>1 DEF GatewayTypeOK, SinceSubscription

LEMMA GatewayStep ==
  ASSUME GatewayInv, [SystemNext]_systemVars
  PROVE  GatewayInv'
<1>0. OutboxInv' /\ Grows /\ TypeOK'
  BY OutboxSideStep DEF GatewayInv, OutboxInv
<1>1. /\ socket \in [Rides -> SocketStates] /\ base \in [Rides -> 0 .. MaxEvents]
      /\ since \in [Rides -> Nat] /\ heard \in [Rides -> Nat]
      /\ channel \in [Rides -> Seq(Events)] /\ written \in [Rides -> 0 .. MaxEvents]
      /\ MaxEvents \in Nat
  BY EventsAssumption DEF GatewayInv, GatewayTypeOK, TypeOK
<1>2. ASSUME NEW r \in Rides
      PROVE  /\ since[r] \in Nat /\ heard[r] \in Nat /\ Len(channel[r]) \in Nat
             /\ Len(channel'[r]) \in Nat /\ Len(channel[r]) <= Len(channel'[r])
             /\ since[r] <= heard[r] /\ heard[r] <= Len(channel[r])
             /\ heard[r] <= Len(channel'[r])
             /\ \A i \in 1 .. since[r] : channel'[r][i][2] <= base[r]
  <2>1. /\ since[r] \in Nat /\ heard[r] \in Nat /\ Len(channel[r]) \in Nat
        /\ Len(channel'[r]) \in Nat /\ Len(channel[r]) <= Len(channel'[r])
        /\ since[r] <= heard[r] /\ heard[r] <= Len(channel[r])
    BY <1>0, <1>1 DEF GatewayInv, GatewayTypeOK, TypeOK, Grows
  <2>2. \A i \in 1 .. since[r] : channel[r][i][2] <= base[r]
    BY DEF GatewayInv, SinceSubscription
  <2>3. \A i \in 1 .. since[r] : channel'[r][i] = channel[r][i]
    BY <1>0, <2>1 DEF Grows
  <2> QED
    BY <2>1, <2>2, <2>3
<1> DEFINE G == GatewayTypeOK' /\ SinceSubscription'
<1>3. ASSUME UNCHANGED gatewayVars PROVE G
  <2>1. UNCHANGED <<socket, since, heard, base>>
    BY <1>3 DEF gatewayVars
  <2>2. TypeOK' /\ socket' \in [Rides -> SocketStates] /\ base' \in [Rides -> 0 .. MaxEvents]
        /\ since' \in [Rides -> Nat] /\ heard' \in [Rides -> Nat]
    BY <1>0, <1>1, <2>1
  <2>3. \A r \in Rides : since'[r] <= heard'[r] /\ heard'[r] <= Len(channel'[r])
    BY <1>2, <2>1
  <2>4. \A r \in Rides : \A i \in 1 .. since'[r] : channel'[r][i][2] <= base'[r]
    BY <1>2, <2>1
  <2> QED
    BY <2>2, <2>3, <2>4 DEF GatewayTypeOK, SinceSubscription
<1>4. ASSUME NEW r \in Rides, Accept(r) \/ LoseForwarder(r) PROVE G
  <2>1. UNCHANGED <<since, heard, base>> /\ socket' \in [Rides -> SocketStates]
    BY <1>1, <1>4 DEF Accept, LoseForwarder, SocketStates
  <2> QED
    BY <1>0, <1>1, <1>2, <2>1, OnePlaceStep
<1>5. ASSUME NEW r \in Rides, Subscribe(r) PROVE G
  <2>1. /\ socket' = [socket EXCEPT ![r] = "listening"]
        /\ since' = [since EXCEPT ![r] = Len(channel[r])]
        /\ heard' = [heard EXCEPT ![r] = Len(channel[r])]
        /\ base' = [base EXCEPT ![r] = written[r]]
        /\ channel' = channel
    BY <1>5 DEF Subscribe, Subscribed, vars
  <2>2. socket' \in [Rides -> SocketStates]
    BY <1>1, <2>1 DEF SocketStates
  <2>3. /\ since' \in [Rides -> Nat] /\ heard' \in [Rides -> Nat]
        /\ base' \in [Rides -> 0 .. MaxEvents]
        /\ since'[r] = Len(channel[r]) /\ heard'[r] = Len(channel[r]) /\ base'[r] = written[r]
        /\ \A q \in Rides \ {r} :
             since'[q] = since[q] /\ heard'[q] = heard[q] /\ base'[q] = base[q]
    BY <1>1, <1>2, <2>1
  <2>4. \A i \in 1 .. Len(channel[r]) : channel[r][i][2] <= written[r]
    BY DEF GatewayInv, OutboxInv, SentWasWritten, Written
  <2>5. \A i \in 1 .. since'[r] : channel'[r][i][2] <= base'[r]
    BY <2>1, <2>3, <2>4
  <2>6. since'[r] <= heard'[r] /\ heard'[r] <= Len(channel'[r])
    BY <1>2, <2>1, <2>3
  <2> QED
    BY <1>0, <2>2, <2>3, <2>5, <2>6, OnePlaceStep
<1>6. ASSUME NEW r \in Rides, Forward(r) PROVE G
  <2>1. /\ heard' = [heard EXCEPT ![r] = heard[r] + 1]
        /\ heard[r] < Len(channel[r])
        /\ UNCHANGED <<socket, since, base, channel>>
    BY <1>6 DEF Forward, Forwarding, vars
  <2>2. /\ heard' \in [Rides -> Nat] /\ heard'[r] = heard[r] + 1
        /\ \A q \in Rides \ {r} : heard'[q] = heard[q]
    BY <1>1, <1>2, <2>1
  <2>3. since'[r] <= heard'[r] /\ heard'[r] <= Len(channel'[r])
    BY <1>2, <2>1, <2>2
  <2>4. \A i \in 1 .. since'[r] : channel'[r][i][2] <= base'[r]
    BY <1>2, <2>1
  <2> QED
    BY <1>0, <1>1, <2>1, <2>2, <2>3, <2>4, OnePlaceStep
<1>7. ASSUME NEW r \in Rides, Disconnect(r) PROVE G
  <2>1. /\ socket' = [socket EXCEPT ![r] = "closed"]
        /\ since' = [since EXCEPT ![r] = 0]
        /\ heard' = [heard EXCEPT ![r] = 0]
        /\ base' = [base EXCEPT ![r] = 0]
    BY <1>7 DEF Disconnect
  <2>2. socket' \in [Rides -> SocketStates]
    BY <1>1, <2>1 DEF SocketStates
  <2>3. /\ since' \in [Rides -> Nat] /\ heard' \in [Rides -> Nat]
        /\ base' \in [Rides -> 0 .. MaxEvents]
        /\ since'[r] = 0 /\ heard'[r] = 0
        /\ \A q \in Rides \ {r} :
             since'[q] = since[q] /\ heard'[q] = heard[q] /\ base'[q] = base[q]
    BY <1>1, <2>1
  <2>4. since'[r] <= heard'[r] /\ heard'[r] <= Len(channel'[r])
    BY <1>2, <2>3
  <2>5. \A i \in 1 .. since'[r] : channel'[r][i][2] <= base'[r]
    BY <2>3
  <2> QED
    BY <1>0, <2>2, <2>3, <2>4, <2>5, OnePlaceStep
<1>8. G
  BY <1>3, <1>4, <1>5, <1>6, <1>7 DEF SystemNext, Serve, systemVars
<1> QED
  BY <1>0, <1>8 DEF GatewayInv
-----------------------------------------------------------------------------------
LEMMA GatewayInvInit == GatewayInit => GatewayInv
<1> SUFFICES ASSUME GatewayInit PROVE GatewayInv
  OBVIOUS
<1>1. OutboxInv
  BY OutboxInvInit DEF GatewayInit
<1>2. GatewayTypeOK
  <2>1. \A r \in Rides : Len(channel[r]) = 0
    BY DEF GatewayInit, Init
  <2>2. TypeOK /\ MaxEvents \in Nat
    BY <1>1, EventsAssumption DEF OutboxInv
  <2>3. \A r \in Rides : since[r] = 0 /\ heard[r] = 0
    BY DEF GatewayInit
  <2>4. ASSUME NEW r \in Rides PROVE since[r] <= heard[r] /\ heard[r] <= Len(channel[r])
    <3>1. since[r] = 0 /\ heard[r] = 0 /\ Len(channel[r]) = 0
      BY <2>1, <2>3
    <3> QED
      BY <3>1
  <2>5. socket \in [Rides -> SocketStates]
    BY DEF GatewayInit, SocketStates
  <2>6. since \in [Rides -> Nat] /\ heard \in [Rides -> Nat]
    BY DEF GatewayInit
  <2>7. base \in [Rides -> 0 .. MaxEvents]
    BY <2>2 DEF GatewayInit, Init
  <2> QED
    BY <2>2, <2>4, <2>5, <2>6, <2>7 DEF GatewayTypeOK
<1>3. SinceSubscription
  BY DEF GatewayInit, SinceSubscription
<1> QED
  BY <1>1, <1>2, <1>3 DEF GatewayInv

\* The outbox and its clients keep their inductive invariant.
THEOREM GatewayInvariance == SystemSpec => []GatewayInv
<1>1. GatewayInv /\ [SystemNext]_systemVars => GatewayInv'
  BY GatewayStep
<1> QED
  BY <1>1, GatewayInvInit, PTL DEF SystemSpec

\* Type correctness of the outbox with its clients.
THEOREM GatewayTypes == SystemSpec => []GatewayTypeOK
<1>1. GatewayInv => GatewayTypeOK
  BY DEF GatewayInv
<1> QED
  BY <1>1, GatewayInvariance, PTL

\* Clients do not repeat an event: what they can add to is the count of failures.
LEMMA RepeatSideStep ==
  ASSUME RepeatInv, [SystemNext]_systemVars
  PROVE  RepeatInv'
<1>0. OutboxInv /\ OutboxInv' /\ TypeOK
  BY OutboxSideStep DEF RepeatInv, OutboxInv
<1>1. ASSUME [Next]_vars PROVE RepeatInv'
  BY <1>0, <1>1, DistinctStep, BoundStep DEF RepeatInv
<1>2. ASSUME NEW r \in Rides, Serve(r) PROVE RepeatInv'
  <2>1. /\ UNCHANGED outboxState /\ failures' \in Nat
        /\ failures' = failures \/ failures' = failures + 1
    BY <1>0, <1>2, ServeLeavesOutbox
  <2>2. UNCHANGED <<published, pc, batch, done, channel>>
    BY <2>1 DEF outboxState
  <2>3. DistinctRows'
    BY <2>2 DEF RepeatInv, DistinctRows
  <2>4. \A e : Copies(e)' = Copies(e) /\ (Settled(e)' <=> Settled(e))
    BY <2>2 DEF Copies, Settled
  <2>5. ASSUME NEW e \in Events
        PROVE  Cardinality(Copies(e))' <= IF Settled(e)' THEN failures' + 1 ELSE failures'
    BY <1>0, <2>1, <2>4, BoundKept DEF RepeatInv
  <2> QED
    BY <1>0, <2>3, <2>5 DEF RepeatInv, CopiesBounded
<1> QED
  BY <1>1, <1>2 DEF SystemNext, systemVars

\* Whatever clients do, a row that is marked was delivered to both consumers.
THEOREM GatewayMarkedDelivered == SystemSpec => []MarkedWasDelivered
<1>1. GatewayInv => MarkedWasDelivered
  BY DEF GatewayInv, OutboxInv
<1> QED
  BY <1>1, GatewayInvariance, PTL

\* Whatever clients do, no row is in the hands of two replicas, or of one after it was
\* marked.
THEOREM GatewayOneProcessor == SystemSpec => []ProcessedByOne
<1>1. GatewayInv => ProcessedByOne
  BY DEF GatewayInv, OutboxInv
<1> QED
  BY <1>1, GatewayInvariance, PTL

\* Whatever clients do, the transactions of a ride are sent in their order, unless one
\* was selected while another replica held an earlier one.
THEOREM GatewayOrderKept == SystemSpec => []InOrder
<1>1. GatewayInv => InOrder
  BY InOrderFollows DEF GatewayInv
<1> QED
  BY <1>1, GatewayInvariance, PTL

\* Whatever clients do, a channel carries an event once and once more per failure.
THEOREM GatewayRepeatsBounded == SystemSpec => []RepeatsNeedFailures
<1>1. GatewayInit => RepeatInv
  BY RepeatInvInit DEF GatewayInit
<1>2. RepeatInv /\ [SystemNext]_systemVars => RepeatInv'
  BY RepeatSideStep
<1>3. RepeatInv => RepeatsNeedFailures
  BY RepeatsFollow
<1> QED
  BY <1>1, <1>2, <1>3, PTL DEF SystemSpec

\* By the time an event that was written after a client subscribed is marked, Redis has
\* sent it on the subscription, for any number of clients that come and go.
THEOREM MissesNothing == SystemSpec => []SubscriberMissesNothing
<1>1. GatewayInv => SubscriberMissesNothing
  <2> SUFFICES ASSUME GatewayInv, NEW r \in Rides, NEW e \in published,
                      e[1] = r, e[2] > base[r]
               PROVE  e \in Received(r)
    BY DEF SubscriberMissesNothing
  <2>1. PICK i \in 1 .. Len(channel[r]) : channel[r][i] = e
    BY DEF GatewayInv, OutboxInv, MarkedWasDelivered, Sent
  <2>2. /\ since[r] \in Nat /\ Len(channel[r]) \in Nat
        /\ base[r] \in Nat /\ e[2] \in Nat
    <3>1. channel[r] \in Seq(Events) /\ e \in Events
      BY DEF GatewayInv, OutboxInv, TypeOK
    <3>2. e[2] \in Nat
      BY <3>1, EventFields, EventsAssumption
    <3>3. since[r] \in Nat /\ base[r] \in Nat
      BY EventsAssumption DEF GatewayInv, GatewayTypeOK
    <3> QED
      BY <3>1, <3>2, <3>3
  <2>3. i \notin 1 .. since[r]
    BY <2>1, <2>2 DEF GatewayInv, SinceSubscription
  <2>4. i \in since[r] + 1 .. Len(channel[r])
    BY <2>2, <2>3
  <2> QED
    BY <2>1, <2>4 DEF Received
<1> QED
  BY <1>1, GatewayInvariance, PTL

\* What a client is sent is in the order of the transactions and without gaps, unless
\* one overtook the other in the hands of two replicas.
THEOREM HearsInOrder == SystemSpec => []SubscriberHearsInOrder
<1>1. GatewayInv => SubscriberHearsInOrder
  <2> SUFFICES ASSUME GatewayInv, NEW r \in Rides, NEW e \in Heard(r),
                      NEW n \in base[r] + 1 .. e[2] - 1, created[<<r, n>>] # created[e]
               PROVE  <<r, n>> \in Heard(r) \/ <<e, <<r, n>>>> \in overtaken
    BY DEF SubscriberHearsInOrder
  <2>1. PICK i \in since[r] + 1 .. heard[r] : channel[r][i] = e
    BY DEF Heard
  <2>2. /\ since[r] \in Nat /\ heard[r] \in Nat /\ Len(channel[r]) \in Nat
        /\ heard[r] <= Len(channel[r]) /\ base[r] \in Nat
    BY EventsAssumption DEF GatewayInv, GatewayTypeOK, TypeOK
  <2>3. i \in 1 .. Len(channel[r]) /\ i \in Nat
    BY <2>1, <2>2
  <2>4. e \in Written
    BY <2>1, <2>3 DEF GatewayInv, OutboxInv, SentWasWritten
  <2>5. e[2] \in Nat
    BY <2>4, EventFields DEF Written
  <2>6. n \in 1 .. e[2] - 1 /\ n \in Nat /\ n > base[r]
    BY <2>2, <2>5
  <2>7. \/ \E j \in 1 .. i - 1 : channel[r][j] = <<r, n>>
        \/ <<e, <<r, n>>>> \in overtaken
    BY <2>1, <2>3, <2>6, InOrderFollows DEF GatewayInv, InOrder
  <2>8. ASSUME NEW j \in 1 .. i - 1, channel[r][j] = <<r, n>>
        PROVE  <<r, n>> \in Heard(r)
    <3>1. j \notin 1 .. since[r]
      BY <2>2, <2>6, <2>8 DEF GatewayInv, SinceSubscription
    <3>2. j \in since[r] + 1 .. heard[r]
      BY <2>1, <2>2, <2>3, <3>1
    <3> QED
      BY <2>8, <3>2 DEF Heard
  <2> QED
    BY <2>7, <2>8
<1> QED
  BY <1>1, GatewayInvariance, PTL

\* What a client is sent is in the order of the transactions and without gaps.
HearsStrictlyInOrder ==
  \A r \in Rides : \A e \in Heard(r) : \A n \in base[r] + 1 .. e[2] - 1 :
    created[<<r, n>>] # created[e] => <<r, n>> \in Heard(r)

\* With a single replica, a client that has heard of a transaction has heard of all
\* those before it that were written since it subscribed.
THEOREM AloneHearsInOrder ==
  ASSUME OneReplica
  PROVE  SystemSpec => []HearsStrictlyInOrder
<1>1. GatewayInit => overtaken = {}
  BY DEF GatewayInit, Init
<1>2. GatewayInv /\ overtaken = {} /\ [SystemNext]_systemVars => (overtaken = {})'
  <2> SUFFICES ASSUME GatewayInv, overtaken = {}, [SystemNext]_systemVars
               PROVE  overtaken' = {}
    OBVIOUS
  <2>1. OutboxInv /\ TypeOK
    BY DEF GatewayInv, OutboxInv
  <2>2. CASE [Next]_vars
    BY <2>1, <2>2, AloneStep
  <2>3. ASSUME NEW r \in Rides, Serve(r) PROVE overtaken' = overtaken
    BY <2>1, <2>3, ServeLeavesOutbox DEF outboxState
  <2> QED
    BY <2>2, <2>3 DEF SystemNext, systemVars
<1>3. SubscriberHearsInOrder /\ overtaken = {} => HearsStrictlyInOrder
  BY DEF SubscriberHearsInOrder, HearsStrictlyInOrder
<1> QED
  BY <1>1, <1>2, <1>3, GatewayInvariance, HearsInOrder, PTL DEF SystemSpec

\* Clients that come and go, and forwarders that die, do not disturb delivery at least
\* once.
THEOREM GatewayKeepsPromise == SystemSpec => Promise!Spec
<1>1. GatewayInit => Promise!Init
  BY InitPromise DEF GatewayInit
<1>2. GatewayInv /\ [SystemNext]_systemVars => [Promise!Next]_(Promise!vars)
  <2> SUFFICES ASSUME GatewayInv, [SystemNext]_systemVars
               PROVE  [Promise!Next]_(Promise!vars)
    OBVIOUS
  <2>1. CASE [Next]_vars
    BY <2>1, PromiseStep DEF GatewayInv
  <2>2. ASSUME NEW r \in Rides, Serve(r) PROVE UNCHANGED Promise!vars
    <3>1. UNCHANGED <<written, channel, tasks, published>>
      BY <2>2, ServeLeavesOutbox DEF GatewayInv, outboxState, tableVars
    <3> QED
      BY <3>1 DEF Promise!vars, Written, Sent
  <2> QED
    BY <2>1, <2>2 DEF SystemNext, systemVars
<1> QED
  BY <1>1, <1>2, GatewayInvariance, PTL DEF SystemSpec, Promise!Spec
===================================================================================
