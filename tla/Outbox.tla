--------------------------------- MODULE Outbox ---------------------------------
(***************************************************************************)
(* The way of an event from the transaction that wrote it to its           *)
(* consumers: table outbox_events, the replicas of the outbox worker that  *)
(* poll it, the Redis channel of each ride and the queue of Celery tasks.   *)
(*                                                                         *)
(* A replica delivers the rows of its batch one after the other, each to   *)
(* the channel and then to Celery, and commits once for all of them.  The  *)
(* writers are those of EventTable.                                        *)
(***************************************************************************)
EXTENDS EventTable, Sequences, FiniteSets

CONSTANTS
  Replicas,      \* processes of service outbox-worker
  BatchSize,     \* BATCH_SIZE
  MaxFailures    \* bound: failures

ASSUME OutboxAssumption ==
  /\ BatchSize \in Nat \ {0}
  /\ MaxFailures \in Nat

VARIABLES
  published,   \* the events whose column published is committed as true
  pc,          \* pc[w]: what replica w does next
  batch,       \* batch[w]: the rows w has selected and locked
  done,        \* done[w]: how many of them it has delivered
  channel,     \* channel[r]: all messages ever sent to ride:{r}:events
  tasks,       \* the events whose notification was put on the queue of Celery
  overtaken,   \* history: <<e, f>> if e was selected while a replica held f, an
               \* earlier event of its ride
  failures

workerVars == <<published, pc, batch, done, channel, tasks, overtaken, failures>>
vars == <<tableVars, published, pc, batch, done, channel, tasks, overtaken, failures>>
-----------------------------------------------------------------------------------
RowsOf(w) == {batch[w][i] : i \in 1 .. Len(batch[w])}

Locked == UNION {RowsOf(w) : w \in Replicas}

Sent(r) == {channel[r][i] : i \in 1 .. Len(channel[r])}

MutantSelectable == Written \ published

\* WHERE published IS false FOR UPDATE SKIP LOCKED.
Selectable == (Written \ published) \ Locked

MutantIsBatch(s) ==
  /\ \A i, j \in 1 .. Len(s) : i # j => s[i] # s[j]
  /\ Len(s) = BatchSize \/ \A e \in Selectable : \E i \in 1 .. Len(s) : s[i] = e

\* ORDER BY created_at LIMIT BATCH_SIZE: rows with one created_at in any order.
IsBatch(s) ==
  /\ \A i, j \in 1 .. Len(s) : i < j => s[i] # s[j] /\ created[s[i]] <= created[s[j]]
  /\ \A e \in Selectable : \/ \E i \in 1 .. Len(s) : s[i] = e
                           \/ /\ Len(s) = BatchSize
                              /\ \A i \in 1 .. Len(s) : created[s[i]] <= created[e]
-----------------------------------------------------------------------------------
Init ==
  /\ TableInit
  /\ published = {}
  /\ pc = [w \in Replicas |-> "select"]
  /\ batch = [w \in Replicas |-> <<>>]
  /\ done = [w \in Replicas |-> 0]
  /\ channel = [r \in Rides |-> <<>>]
  /\ tasks = {}
  /\ overtaken = {}
  /\ failures = 0

\* A transition is committed with its events.
Write(r, n) ==
  /\ Insert(r, n)
  /\ UNCHANGED workerVars

\* process_batch selects and locks a batch.
SelectBatch(w) ==
  /\ pc[w] = "select"
  /\ \E n \in 1 .. BatchSize : \E s \in [1 .. n -> Selectable] :
       /\ IsBatch(s)
       /\ batch' = [batch EXCEPT ![w] = s]
       /\ overtaken' = overtaken \cup
            {p \in RowsOf(w)' \X Locked : p[1][1] = p[2][1] /\ p[2][2] < p[1][2]}
  /\ pc' = [pc EXCEPT ![w] = "publish"]
  /\ UNCHANGED <<tableVars, published, done, channel, tasks, failures>>

\* No row is selectable: process_batch returns 0 and the loop sleeps.
EmptyRound(w) ==
  /\ pc[w] = "select"
  /\ Selectable = {}
  /\ UNCHANGED vars

Current(w) == batch[w][done[w] + 1]

\* redis.publish of the current row.
Publish(w) ==
  LET e == Current(w) IN
  /\ pc[w] = "publish"
  /\ channel' = [channel EXCEPT ![e[1]] = Append(@, e)]
  /\ pc' = [pc EXCEPT ![w] = "notify"]
  /\ UNCHANGED <<tableVars, published, batch, done, tasks, overtaken, failures>>

\* send_ride_notification.delay, then the row is marked in the session.
Notify(w) ==
  /\ pc[w] = "notify"
  /\ tasks' = tasks \cup {Current(w)}
  /\ done' = [done EXCEPT ![w] = @ + 1]
  /\ pc' = [pc EXCEPT ![w] = IF done'[w] = Len(batch[w]) THEN "commit" ELSE "publish"]
  /\ UNCHANGED <<tableVars, published, batch, channel, overtaken, failures>>

MutantEndBatch(w) ==
  /\ pc' = [pc EXCEPT ![w] = "select"]
  /\ done' = [done EXCEPT ![w] = 0]
  /\ UNCHANGED batch

\* The transaction of w is over and its row locks are gone.
EndBatch(w) ==
  /\ pc' = [pc EXCEPT ![w] = "select"]
  /\ batch' = [batch EXCEPT ![w] = <<>>]
  /\ done' = [done EXCEPT ![w] = 0]

\* session_scope commits: every row of the batch is published.
CommitBatch(w) ==
  /\ pc[w] = "commit"
  /\ published' = published \cup RowsOf(w)
  /\ EndBatch(w)
  /\ UNCHANGED <<tableVars, channel, tasks, overtaken, failures>>

MutantMarkedByFailure(w) ==
  {batch[w][i] : i \in {j \in 1 .. Len(batch[w]) : j <= done[w] + 1}}

\* The rows that a batch which failed leaves marked as published.
MarkedByFailure(w) == {}

\* Redis, the broker, Postgres or the process fails: the transaction is rolled
\* back, what was sent stays sent, and run_forever goes on to the next round.
FailBatch(w) ==
  /\ pc[w] # "select"
  /\ failures < MaxFailures
  /\ failures' = failures + 1
  /\ published' = published \cup MarkedByFailure(w)
  /\ EndBatch(w)
  /\ UNCHANGED <<tableVars, channel, tasks, overtaken>>
-----------------------------------------------------------------------------------
Worker(w) == SelectBatch(w) \/ Publish(w) \/ Notify(w) \/ CommitBatch(w)

Next ==
  \/ \E r \in Rides, n \in 1 .. 2 : Write(r, n)
  \/ \E w \in Replicas : Worker(w) \/ EmptyRound(w) \/ FailBatch(w)

Spec == Init /\ [][Next]_vars

\* run_forever never stops polling, and failures end (MaxFailures).
Fairness == \A w \in Replicas : WF_vars(Worker(w))
-----------------------------------------------------------------------------------
\* Columns, batches, messages and positions have their types; a replica holds rows
\* exactly while it is delivering them.
TypeOK ==
  /\ clock \in Nat
  /\ committed \in [Rides -> Nat]
  /\ written \in [Rides -> 0 .. MaxEvents]
  /\ created \in [Events -> Nat]
  /\ published \in SUBSET Events
  /\ pc \in [Replicas -> {"select", "publish", "notify", "commit"}]
  /\ batch \in [Replicas -> Seq(Events)]
  /\ done \in [Replicas -> Nat]
  /\ channel \in [Rides -> Seq(Events)]
  /\ tasks \in SUBSET Events
  /\ overtaken \subseteq Events \X Events
  /\ failures \in Nat
  /\ \A w \in Replicas : IF pc[w] = "select"
                        THEN batch[w] = <<>> /\ done[w] = 0
                        ELSE done[w] < Len(batch[w]) \/ pc[w] = "commit"

\* "the event is never lost": a row is marked as published only after it was sent
\* to both consumers, whatever failed in between.
MarkedWasDelivered == \A e \in published : e \in Sent(e[1]) /\ e \in tasks

\* "without double-processing the same row": no row is in the hands of two
\* replicas at once, and none that is marked as published is in anyone's.
ProcessedByOne ==
  /\ \A v, w \in Replicas : v # w => RowsOf(v) \cap RowsOf(w) = {}
  /\ Locked \cap published = {}

\* The messages that say e.
Copies(e) == {i \in 1 .. Len(channel[e[1]]) : channel[e[1]][i] = e}

\* At least once, and no more often than it takes: without a failure no message is
\* sent twice, however many replicas poll, and each failure repeats it once at most.
RepeatsNeedFailures == \A e \in Events : Cardinality(Copies(e)) <= 1 + failures

\* Before an event is sent, all earlier ones of its ride but those of the same
\* transaction have been, unless another replica held one of them when the event was selected: a
\* single replica never reverses two transactions, whatever fails.
InOrder ==
  \A r \in Rides : \A i \in 1 .. Len(channel[r]) : \A n \in 1 .. channel[r][i][2] - 1 :
    created[<<r, n>>] # created[channel[r][i]] =>
      \/ \E j \in 1 .. i - 1 : channel[r][j] = <<r, n>>
      \/ <<channel[r][i], <<r, n>>>> \in overtaken

\* "guaranteed to eventually be delivered": whatever is written is marked as
\* published, hence delivered, once failures have stopped.
EveryEventIsPublished == \A e \in Events : e \in Written ~> e \in published

Promise == INSTANCE AtLeastOnce WITH
  written <- Written,
  sent    <- {e \in Events : e \in Sent(e[1])},
  queued  <- tasks,
  marked  <- published

\* Polling, batches and failures implement delivery at least once, to both
\* consumers before the row is marked.
ImplementsAtLeastOnce == Promise!FairSpec
===================================================================================
