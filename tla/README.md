# RideFlow in TLA+

A specification of the RideFlow backend (`src/backend/app`), model-checked with
TLC; its safety properties are proved with TLAPS. Every definition is a translation of the code;
`PROJECT.json` ("map") names the lines each one stands for.

## 1. The system

RideFlow is a FastAPI application over Postgres and Redis, an outbox worker, and a
Celery worker with beat. All of them are stateless processes; what they share is:

| state | kept in | written by |
|---|---|---|
| `rides` (status, version, driver_id) | Postgres | ride creation, ride transitions |
| `outbox_events` | Postgres | ride transitions (insert), outbox worker (published) |
| `idempotency_records` | Postgres | ride creation (insert), cleanup job (delete) |
| `driver_profiles` (is_available, last_lat/lng, last_heartbeat_at) | Postgres | driver endpoints, eviction job |
| `users`, `refresh_tokens` | Postgres | auth endpoints |
| `drivers:geo` | Redis | driver endpoints, eviction job; searched by matching |
| `driver:reservation:{d}` | Redis | matching (SET NX EX), cancellation (GET, DEL), expiry |
| `ratelimit:{ip}:{minute}` | Redis | rate-limit middleware |
| `ride:{id}:events` (pub/sub) | Redis | outbox worker; read by the WebSocket gateway |
| Celery queue | Redis | outbox worker, beat |

Every HTTP request has one database session (`get_db`): its transaction begins with
the query that loads the user, and commits after the handler returned or rolls back
on any exception. Redis takes no part in that transaction. Handlers of one process are
coroutines of one event loop, and there may be several processes: two requests
interleave at every `await`.

Components, what is hard about them, and what makes them correct:

- **Ride transitions** (`routers/rides.py`, `services/ride_state_machine.py`). A request
  reads the ride, checks user and legality on what it read, and updates with
  `WHERE version = expected_version`. Hard: everything between read and update; the two
  edges and the Redis calls of a matching request inside one transaction, with the row
  locked; failure after Redis was changed. Correct if the requests together behave like
  atomic transitions along the graph, with one event per edge.
- **Matching** (`services/matching.py`). GEOSEARCH, then SET NX EX per candidate. Hard: the
  reservation may expire, or be released by GET and DEL, at any moment. Correct if two
  rides do not share a driver.
- **Ride creation** (`routers/rides.py`, `services/idempotency.py`). An unlocked lookup, then
  a ride and a record in one transaction. Correct if a key creates one ride and every
  answer is about it.
- **Outbox worker** (`workers/outbox_worker.py`). Replicas, SKIP LOCKED, delivery before
  commit. Correct if nothing is marked that was not delivered, and all is delivered.
- **Driver endpoints and eviction job** (`routers/drivers.py`, `workers/tasks.py`). Profile and
  pool are changed without a lock on either. Correct if the pool holds drivers that can
  be matched, and stale ones leave.
- **WebSocket gateway** (`routers/websocket.py`). Accepts a client, then subscribes to the channel of
  its ride; a task that nobody awaits forwards. Hard: the order of the two steps, and the task, which
  can die unseen. Correct if a client that listens hears all that is written from its subscription on.
- **Request lifecycle** (`database.py`, `dependencies.py`, `routers/health.py`). A pool of 30 connections;
  a session takes one with its first statement and keeps it until the request is over, waiting for
  row locks included. Hard: exhaustion, failure anywhere, answers that are lost. Correct if every
  connection comes back, every request is answered, and no client knows what is not committed.
- **Auth** (`routers/auth.py`). A refresh replaces a refresh token by a new one and revokes it. Hard:
  the lookup locks nothing and the UPDATE has no condition, so overlapping refreshes of one token
  each replace it. Correct if a revoked token is never replaced again and an email has one account.
- **Rate limiter** (`rate_limit.py`). INCR, then EXPIRE, on a key per address and minute. Hard: failure
  between the two, and the minute that changes meanwhile. Correct if exactly the first requests of a
  minute come through.
- **Read endpoints** (`routers/rides.py`) and the **demo front end** (`App.tsx`): where clients get the
  version they send.
- Settings, logging, CORS, migrations: nothing that a step of another component depends on.

## 2. Modules

| module | what it is |
|---|---|
| `RideStateMachine` | statuses, `RIDE_TRANSITIONS`, rows, events |
| `RideLedger` | abstract: every transition is one step, every step leaves its events |
| `RideTransitions` | the transition handler, await by await, with Redis, row locks and failures |
| `RideTransitionsInv` | its inductive invariant |
| `RideLedgerProofs`, `RideTransitionsProofs` | theorems |
| `EventTable` | table `outbox_events` between its two sides: which events with which `created_at` its writers add, and its reader relies on |
| `RideEvents` | `RideTransitions` with the clock of Postgres, hence `created_at` |
| `RideEventsProofs` | its inductive invariant; theorems |
| `RideService` | around the transition handler: the connection pool, the probe, the reads, what clients know |
| `RideServiceProofs` | theorems |
| `RideBook` | abstract: every POST /rides is one step |
| `RideCreation` | its handler, the unique key and the cleanup; its inductive invariant |
| `RateLimiter` | the middleware, the clock and its counters in Redis |
| `LimitedCreation` | `RideCreation` behind `RateLimiter` |
| `RideCreationProofs` | theorems about the three |
| `AtLeastOnce` | abstract: an event is sent and queued before it is marked, and in the end it is marked |
| `Outbox` | `EventTable` with the replicas of the worker, channels, the queue of Celery |
| `Gateway` | `Outbox` with a WebSocket client per ride |
| `OutboxProofs` | theorems about both |
| `DriverPool` | the drivers' requests and the eviction job |
| `DriverPoolProofs` | theorems |
| `Tokens` | accounts and refresh tokens |
| `TokensProofs` | theorems |
| `MCRideTransitions`, `MCRideEvents`, `MCRideService`, `MCRideCreation`, `MCLimitedCreation`, `MCTokens` | instances for TLC: symmetry, views, and the function from rides to passengers |

`RideTransitions` EXTENDS `RideStateMachine`; `RideTransitions` and `RideCreation` INSTANCE their
abstract specification under the names `Ledger` and `Book`, with the variables of the
same names, and state `ImplementsLedger` and `ImplementsBook`. The refinement mapping is
the identity on committed state: `pc`, `session` and Redis are what the abstract
specifications do not have, so every step before a commit is a stutter.

Handlers and outbox worker meet in `EventTable`. `RideEvents` states `ImplementsTable`: the handlers,
with `written[r]` mapped to the number of events of `r` and `created` to their times, do nothing to the
table that `EventTable` does not allow. `Outbox` EXTENDS `EventTable`, so its writers are allowed just
that. What is checked and proved of `Outbox` and `Gateway` is in this way about the events of the real handlers,
without a product of the two state spaces: either side sees of the other the table alone.

Compositions: `Gateway`, `RideEvents` and `RideService` EXTEND the module of the component they go around, and each
of their actions is an action of that component together with a step of their own, or one of the
two alone. `LimitedCreation` EXTENDS `RideCreation` and INSTANCEs `RateLimiter`. Two more refinements
follow: `Outbox` states `ImplementsAtLeastOnce`, where `written`, `sent`, `queued` and `marked` are
functions of its tables, channels and queue and liveness is included; `RideService` states
`ImplementsTransitions`, which is the specification of `RideTransitions` with `Lookahead = 0`, whereas
its own handler is the one that takes any version (`Lookahead = 2` in its run): that clients
send versions they can have read is a result there, not an assumption.

A definition called `MutantX`, placed before `X`, is `X` with a plausible mistake in it
(a dropped guard, a wrong comparison). No action uses it. Put in the place of `X` it
makes a property fail, which shows that the property depends on that line of code;
"mutants" in `PROJECT.json` lists which.

### How a handler becomes actions

A worker `w` is a request in progress: `pc[w]` is the await it is at or the answer it
gave last, `session[w]` its parameters and the uncommitted content of its session. Each
await that touches shared state is one action; what lies between two of them runs with the
action before it.

`RideTransitions`:

| action | code |
|---|---|
| `ReadRide` | `db.get`, authorization (403), `assert_valid_transition` (422) |
| `UpdateRow`, `UpdateStale` | `apply_transition`'s UPDATE: takes the row lock, refreshes and adds the event; or matches no row (409) |
| `Search`, `TryReserve`, `Resolve` | `find_nearby_drivers`, one `SET NX EX`, the second `apply_transition` |
| `ReleaseGet`, `ReleaseDelete` | `release_driver_reservation` |
| `Commit`, `Abort` | `get_db` |
| `Expire`, `JoinPool`, `LeavePool` | the reservation's ttl; GEOADD and ZREM by other handlers |

`assert_valid_transition` is called after the read with no await between them, so it is part
of `ReadRide`. Postgres at READ COMMITTED: an UPDATE whose WHERE clause matches the
committed row waits for a transaction that has updated it (`Locked`), then evaluates the
clause again; one whose clause does not match affects no row at once. `voided` is a
history variable: the rides whose reservation of a driver has ended.

`RideCreation`: `LookUp` (with replay and 409), `InsertRide` (the flush), `StoreResponse` (the
record is INSERTed by the commit, as the session does not autoflush; it waits for the
unique key or violates it), `Commit`, `Abort`, `CleanUp`. `answers` and `forgotten` are
history variables.

`overtaken`, in `Outbox`, is a history variable too: the pairs of events of which the later was
selected while another replica held the earlier.

`RideEvents`: `Begin` is the query of `get_current_user`, which begins the transaction and so fixes `now()`
(`began`); `Receive` is `ReadRide` of a request whose version was read before it was sent, hence before
`Begin` (`seen`); `Leave` is a request that ends before it reads a ride; `Continue` and
`CommitEvents` are the rest of the handler. `clock` counts commits that add events; it, `committed` and `seen` are history.

`EventTable`: `Insert(r, n)` adds one event or a ride's first two, at the `created_at` of a transaction that began after the
previous commit of the ride. `Outbox`: `Write` is `Insert`; `SelectBatch`, `Publish`, `Notify`, `CommitBatch`,
`FailBatch`, `EmptyRound` are `process_batch` and `run_forever`.

`Gateway`: `Accept` (the token is valid), `Subscribe` (and the start of the task), `Forward`, which is one
round of `forward_messages`, `LoseForwarder`, its death, and `Disconnect`. What was sent to a channel since a
subscription is buffered for it, so a client is a range of positions in its channel (`since`,
`heard`); `base`, the number of events that were written when it subscribed, is history.

`RideService`: `Call`; `Connect` or `PoolTimeout`; then `Refuse`, `GetRide`, `ListMyRides`, `Transition` followed by `Handle` or
`HandlerFails`, or `Probe`. `known[u][r]` is the latest version of `r` that `u` was told; `Tell` may lose the answer.
FastAPI closes the session, hence commits, before it sends the answer (it does so from 0.106 to 0.117;
`requirements.txt` has such a version), so the step that answers is the one that commits.

`RateLimiter`: `Arrive` (the minute is read), `Incr` (and the answer 429), `SetExpire`, `LimiterFails`, `Leave`; `Tick` and
`Lapse` are time and the expiry of keys. `counted` and `lapsed` are history. In `LimitedCreation`, `Call`, `Count` and `Route`
are the middleware's arrival, its calls to Redis, and `call_next`.

`DriverPool`: `ReadProfile`, `InsertProfile`, `GeoAdd`, `GeoRemove`, `Commit`, `Abort`; `SweepSelect`,
`SweepRemove`, `SweepCommit`, `SweepFail`; `Age`. A commit writes the columns whose value the
request changed (`Flushed`), as SQLAlchemy does.

`Tokens`: `LookUpEmail`, `InsertAccount`, `CommitAccount` are `register`; `LookUpAccount` and
`CommitPair` are `login`; `LookUpToken` and `CommitPair` are `refresh`, whose revocation and new token
are written by one commit; `LookUpLogout` and `CommitLogout` are `logout`. `clock`, and the fields
`parent`, `since` and `revokedAt` of a token, are history: which token it replaced, when the request
that issued it began, and when it was revoked, counted in commits that revoke.

## 3. What is checked

| run | instance | shows |
|---|---|---|
| `one_ride` | 1 ride, 2 requests, 2 drivers, owner, stranger, admin, versions to 6 (`MaxVersion` 7) | `ActsOnCurrentRow`, `NothingIsUndone`, `OutboxTellsState`, `OutboxNamesTheDriver`, `ImplementsTable`, `ImplementsLedger` |
| `two_rides` | 2 rides, 2 requests, 1 driver, versions to 4 (`MaxVersion` 5) | `ReservationExclusive`, `CancelFreesDriver`, and the inductive invariant `Inv` |
| `answered` | 1 ride, 3 requests, 2 connections, versions to 4 (`MaxVersion` 5), with fairness | `ConnectionsAreReturned`, `KnownIsCommitted`, `NobodyIsStuckAlone`, `NoWaitIsCircular`, `ImplementsTransitions`, `TransitionsAreLegal`, `EveryCallReturns` |
| `creation` | 3 requests at once, 4 in all, 3 ids, 1 key and none, 2 bodies, 2 addresses, 2 minutes, a limit of 2, 1 failure of the handler and any number of the limiter | `OneRidePerKey`, `AnswersAreRides`, `ImplementsBook`, `AdmitsTheFirst` |
| `delivery` | 1 ride, 3 events, 2 replicas, batches of 2, a client, 1 failure, with fairness | `MarkedWasDelivered`, `ProcessedByOne`, `RepeatsNeedFailures`, `InOrder`, `SubscriberMissesNothing`, `SubscriberHearsInOrder`, `EveryEventIsPublished`, `ImplementsAtLeastOnce`, `SubscriberHearsEverything` |
| `pool` | 1 driver, 2 requests, 1 failed sweep, with fairness | `PoolMembersAreLocated`, `LocationIsKept`, `StaleDriversBecomeUnavailable` |
| `tokens` | 2 requests, 2 emails, 2 accounts, 3 refresh tokens | `AccountsAreUnique`, `ReplacedBeforeRevoked` |

Each module's type invariant is checked in one of its runs (that of `RideTransitions` as part of `EventsTypeOK` and `Inv`). Deadlock is checked everywhere.

Five runs end in a counterexample: a statement of the documentation that the code does
not meet (section 6).

**Bounds.** Properties of the version column concern two requests on one ride: the one that
commits and the one that is late; a third changes nothing that the late one can see. A request
begins only if its version leaves room for two more (`ReadRide`), of which a match, the first transition of a ride, takes
both and every other one the first; so the versions that are committed go to `MaxVersion` - 1. Version 6 is that of a completed ride: requested, matching, accepted,
driver_arriving, in_progress, completed; or of one that searched again after no_drivers_found and is on its way. Reservations concern two rides and one driver. A second driver
matters to a search that fails on its first candidate, which `one_ride` covers. Batches of 2
with 3 events let a batch be full or partly full, contain both events of a matching request
or the last of one transaction and the first of the next. Rides share nothing in the outbox but
the batch, and drivers nothing in the pool but the sweep, whose failure half-way is, for each
driver, to have been removed from the pool or not. In `Outbox` and `DriverPool` failures are counted so that liveness is about a system
that is left alone in the end; in `RideTransitions` they are unbounded. `creation` has three
ids because a key that is cleaned up may create a second ride, and a third request may fail; with a
limit of 2 and 4 calls, an address can be turned away in one minute and let through in the next.
`answered` has one connection less than requests, so that one waits in the pool while another, which
has a connection, waits for the lock that the third holds; version 4 is that of a ride that was matched and
then cancelled, so that a release, with its GET and DEL and an expiry in between, is part of it; `Lookahead = 2` leaves the handler open to
versions ahead of the row, which no client turns out to send.
`tokens` has three tokens: one that is replaced twice, by overlapping refreshes or, were it allowed,
by a late one; the bound on them bounds the run.
All symmetric sets are sets of ids that no definition or property tells apart; no run
that checks liveness uses symmetry.

**Views.** In `one_ride`, TLC takes two states for one that differ only in the last answer of an idle worker
or in `voided`, which no guard reads. In `creation`, only the last answers are left out. In `answered` more is, as `MCRideService` says:
last answers, `voided`, the outbox; what a request that is certain of its 409 has sent (its version is behind the row's, and versions
only grow); what another one has sent, once its UPDATE has matched; and which version behind the row's a client knows, as it makes
no difference which of them it sends. The steps out of two such states are the same up to what the view leaves out, and no property of
the run depends on that, so the two graphs have the same behaviours for liveness too.

**Fairness.** `RideService`: strong fairness of the progress of each request. The event loop
runs every coroutine that can go on; Postgres grants a row lock, and the pool a connection, to waiters in
the order they queued, so an UPDATE or a session that is again and again able to proceed does.
Nothing is asked of clients, drivers, Redis expiry or failures, and the timeout of the pool
is allowed but need not happen: where it does, it is an answer too. `Gateway`: weak fairness of the forwarding
task as long as it lives; nobody has to connect or stay. `RateLimiter` has no liveness property. `Outbox`: weak fairness of each
replica, as `run_forever` polls without end; failures stop. `DriverPool`: weak fairness of the
handlers and of the job, which beat schedules every 15 seconds.

## 4. What is proved

For any sets of rides, users, keys, drivers, addresses and concurrent requests, any number of
replicas, any batch size and search count, and any bound on versions, events and failures:

- `RideLedgerProofs`: `TypeCorrect`, `LedgerTells` (a ride's events, in order, are a path in
  the graph that ends in its status, one per version after the first, and name its driver).
- `RideTransitionsProofs`: `TypeCorrect` without further assumption; `Invariance`, `CurrentRow`,
  `Exclusive`, `CancelFrees`, `NothingUndone`, `OneWriter`, `Legal`, `Implements`, `OutboxTells`, `OutboxNames` under `Lookahead = 0`.
- `RideEventsProofs`: `EventsInvariance`, `EventsTypes`, `TableKept`, under `Lookahead = 0`; and the results
  about the handler of the handler with its clock, which is what `one_ride` checks: `EventsCurrentRow`, `EventsNothingUndone`,
  `EventsImplementLedger`, `EventsTell`.
- `RideServiceProofs`: `ServiceInvariance`, `ServiceTypeCorrect`, `KnownCommitted`, `ServiceImplements`, and the results
  about the handler again, now of the service: `ServiceLegal`, `ServiceCurrentRow`, `ServiceReservations`, `ServiceNothingUndone`,
  `ServiceOneWriter`, `ServiceImplementsLedger`, `ServiceOutboxTells`, all for every `Lookahead`; `ConnectionsReturned` and
  `NoDeadlock` for finitely many requests at once.
- `RideCreationProofs`: `CreationTypes`, `CreationInvariance`, `NoDuplicates`, `AnswersTell`,
  `CreationImplements`, of the handler; by `LimitedImplementsCreation` the same behind the limiter
  (`LimitedCreationInvariance`, `LimitedNoDuplicates`, `LimitedAnswersTell`, `LimitedImplementsBook`).
  `LimitedInvariance`, `LimitedTypes`, and `FirstAdmitted`, which assumes `Limit > 0` (`config.py`:35 has 60).
- `OutboxProofs`: `OutboxInvariance`, `MarkedDelivered`, `OneProcessor`, `TimesInOrder`, `OrderKept`, `RepeatsBounded`, and
  `KeepsPromise`, the safety part of `ImplementsAtLeastOnce`; for a single replica, which is what `docker-compose.yml`
  starts, `AloneKeepsOrder`.
- `OutboxProofs`, of the outbox with its clients: `GatewayInvariance`, `GatewayTypes`, `MissesNothing`, `HearsInOrder`; and the results about the
  outbox again: `GatewayMarkedDelivered`, `GatewayOneProcessor`, `GatewayOrderKept`,
  `GatewayRepeatsBounded`, `GatewayKeepsPromise`; for a single replica, `AloneHearsInOrder`.
- `DriverPoolProofs`: `PoolInvariance`, `PoolTypes`, `MembersLocated`, `LocationKept`.
- `TokensProofs`: `TokensInvariance`, `TokensTypes`, `OneAccount`, `RotatedInTime`.

`Lookahead = 0` says that a client sends a version that has been committed, that is, one it
can have read (`ride_state_machine.py` 11-12: "callers must supply the `version` they last
read"). Without it the theorems are false: see `ahead_of_version`. `ServiceImplements` shows that it is met by
clients that send versions they were told, whatever `Lookahead` leaves open to others: the service refines
the handler with `Lookahead = 0`, which the theorems about the handler are then about.

**The argument for transitions.** None of the properties is inductive. `ActsOnCurrentRow`, for
one, is lost at `UpdateRow` unless it is known that what the request has read is the row
whose version it sends. `Inv` says so: before the UPDATE (`ReadBefore`), the version sent is at
most the one read, which is at most the committed one, and equal versions mean equal rows;
so a match leaves only one possibility. After it (`WroteEdges`), the request is alone on its
row (`OneHolder`), the row is still the one it read, and the session holds exactly the one or
two edges that a commit adds. From that, a commit is `Ledger!Step` or `Ledger!Match`, and every
other step a stutter. For reservations, `EngagedClaims` says that who serves a driver holds the
reservation or has lost it; two rides cannot hold one key. `OutboxTells` combines `Implements`
with `LedgerTells`: what is proved of the ledger holds of the handlers.

**The argument for the service.** `ServiceInv` joins the handler's `Inv`, taken at `Lookahead = 0`, with
`KnownIsCommitted`; neither half is inductive without the other. What clients know is at most what is
committed, so a transition begins with a version that is at most the row's (`ReadImplements`), so
every step is one of the handler at `Lookahead = 0` (`StepImplements`), so versions only grow
(`NothingUndoneStep`), and what clients know stays below them. By `ServiceImplements`, what is proved of the handler
then holds of the service. `Honest`, `Core` and the module itself are three instances of one
text; the lemmas `Same...` say that they agree wherever `Lookahead` does not occur. `ConnectionsReturned`
follows from `RouteStep`: a step moves at most one request along its route, with the pool's count
adjusted by what it held before and after.

**The argument for one writer.** A commit makes the version of its row one or two greater than the version its
request sent (`CommitAppends`). Every other request on the ride sent at most the version that was committed
when it read the row, which is at most the one that this commit replaces (`OthersHaveLost`); so its UPDATE matches
no row any more. That its client cannot have sent the new version by then is `Lookahead = 0`. A request that has
not come to `ReadRide` has sent nothing yet, and the property does not speak of it. `RequestedIsFirst`: two events at
once are those of a ride that is still requested, which has no event. `OneWriterAtATime` has no run of its own:
`one_ride` checks `ImplementsTable`, which needs the same of the handlers and their times besides.

**The argument for the table.** That the transactions of a ride begin in the order in which they commit is not
obvious: each begins with the query for its user, long before its UPDATE, and others commit meanwhile. `EventsInv` says
that a request sends a version that it has seen before its transaction began (`SentSeen`), that what was seen is at most the
version that is committed, and, if it is the committed one, then the ride's last commit was over when the transaction began
(`BeganAfter`). A commit replaces the version that was sent (`WroteEdges`), so all three are equal, and the times
are in order (`CommitInTime`). How many events the commit adds is `CommitAppends`, so the commit is an `Insert`
(`CommitInserts`); every other step leaves the table alone. That a version is read before it is sent is all that
this takes from clients (`Sent`); `RideService` is more liberal there and leaves the choice of a version to the moment of `ReadRide`. With
the version check dropped, TLC finds two transactions of a ride
that commit in the order opposite to that of their `created_at`.

**The argument against deadlock.** Row locks are taken by requests that have a connection, and nobody takes a
connection after a row lock. So a request that waits in the pool waits for one that has a connection
(`PoolWaiter`: if none is free, and none is lost, someone has one); one that waits for a row lock waits for its
holder (`LockWaiter`); and the holder waits for nobody (`SomeoneGoesOn`). `NoWaitIsCircular` says who can go on by guards
(`CanGoOn`), and `NobodyIsStuckAlone`, which TLC checks, that those guards are exactly what it takes.

**The argument for creation.** `StoringAlone` (uncommitted records have different keys, none of
them committed), `NewIds`, and the two halves of the single transaction, `RecordsAreRides` and
`RidesAreRecorded`.

**The argument for the limiter.** A counter and the number of requests counted in its window are equal until
the counter expires, and the counter is never the greater (`LimiterInv`): whatever fails, fails before
INCR or after it. The keys of two windows differ, so a counter without a time to live is only ever that of
its own minute. With `Limit = 0` the first request of a window would go to EXPIRE before it is compared.

**The argument for the outbox.** That a marked row was delivered is known only if a batch is committed as a
whole (`CommitsWholeBatch`) and each row was sent before it was queued, and queued before the replica went
on (`Delivered`). That no row has two processors needs that a batch holds unmarked rows only
(`RowsAreWaiting`), as the locks end with the commit that marks them. Order needs to be known of batches
before it is of channels: what precedes a row in its ride's history was sent, is before it in the batch, or
was in the hands of another replica when the batch was selected (`BatchInOrder`). ORDER BY created_at puts a
batch in the order of the events because `created` never falls along a ride, and from the third event on grows
(`Chronological`): each transaction began after the commit of the one before (`BegunBefore`). So two events of a ride with different
times are of different transactions and the earlier one has the smaller number, which is why `InOrder` can speak of
all events with another time than this one's, not only of those with a smaller. Messages are repeated by failed
batches only: as long as an event is neither marked nor sent in a batch that is still open (`Settled`), there is at
most one message of it per failure (`CopiesBounded`), and sending it settles it, because its row is in no other batch
and in this one only once (`ProcessedByOne`, `DistinctRows`). A replica that is alone finds no row locked when it
selects (`AloneStep`), so nothing is ever overtaken and the exception in `InOrder` falls away. A step of the outbox is then
`AtLeastOnce`'s `Write`, `Send`, `Queue` or `Mark`, or none.

**The argument for the gateway.** Its own steps leave the outbox alone, and steps of the outbox only append to
channels (`Grows`), so a client's place in its channel keeps its meaning. What was sent before it subscribed
was written before (`SinceSubscription`); so what was written later, and is marked, was sent on the
subscription, and `HearsInOrder` is `InOrder` seen from there.

**The argument for the driver pool.** `PoolMembersAreLocated` has to look ahead, to requests that are about to
GEOADD: those were let through by a position, or by `is_available`, and only drivers with a position are
available (`AvailableAreLocated`). A profile that a session has inserted has neither, so the session does not
touch the pool with it (`InPlace`), and it is alone with it until its commit (`CreatedAlone`), which therefore
replaces nothing.

**The argument for accounts and tokens.** The unique key keeps the emails of uncommitted accounts apart
(`RegisteringAlone`) and new (`NewAccounts`). A request that shows a token began before the token was
revoked, whenever that happens (`ShowsToken`): it saw it unrevoked, and a revocation takes the moment of its
commit and keeps it (`RowsKept`).

**Only model-checked.** Liveness (`EveryCallReturns`, `EveryEventIsPublished`, `SubscriberHearsEverything`,
`StaleDriversBecomeUnavailable`, and with it the fairness in `ImplementsAtLeastOnce`) and `NobodyIsStuckAlone`,
which is about ENABLED: TLAPS proves neither, and has no induction over recursive definitions (none is used
here). Every other property that a passing run checks is proved, and proved of the specification that the run
checks, compositions included.

## 5. What is not modelled, and why

- Passwords and tokens are taken to be right, and no code deactivates an account; JWT and hashing are
  library code, and a check that refuses a request changes nothing.
- Positions and distances are abstracted to who is near; fares, names and payload layouts to nothing. Lookups
  that answer 404 change nothing.
- `send_ride_notification` only logs. What becomes of it in Celery (its retries, the loss of a child)
  has no effect on any state here: `tasks` ends at the queue.
- That the Celery tasks run `asyncio.run` on an engine made at import time is a matter of the libraries'
  runtime.
- WebSockets and paths under `/health` do not come through the rate limiter (`BaseHTTPMiddleware` sees HTTP
  only). The limiter treats all other routes alike; ride creation stands for them.
- The schema of the models is that of `models.py`. SQLAlchemy's `Enum` stores the names of the members, while
  migration 0001 creates the Postgres types with their lower-case values; the models say nothing of a
  database that was made by the migration alone.
- A search tries `SearchCount` drivers. That a free one further away is not tried is by design, and no
  property is about it.

## 6. Where documentation and code differ

| run | the document | what happens |
|---|---|---|
| `double_booking` | README.md:48 "prevents two ride requests from double-booking the same driver" | the reservation lasts 15 s, the ride longer; the driver stays in the pool and is reserved again |
| `accepted_without_driver` | `models.py`:52 accepted: "a driver has been reserved & accepted" | matching after no_drivers_found, then accepted, with driver_id NULL |
| `ahead_of_version` | `ride_state_machine.py`:6 "only applied if it appears in RIDE_TRANSITIONS[current_status]" | the status is checked before, the version after, another request's commit |
| `duplicate` | `idempotency.py`:6 "Same key + same fingerprint -> replay the cached response" | of two overlapping requests the later one is answered 500; there is still one ride |
| `ghost_driver` | `tasks.py`:7 "removes drivers from the Redis GEO matching pool if they haven't sent a heartbeat recently" | a late GEOADD leaves a driver in the pool whom the job, which asks for is_available, never sees |

Two consequences of the same code have no run of their own. A retry after no_drivers_found leaves the
ride in matching with no one searching (`accepted_without_driver` passes through it). A heartbeat
between the eviction job's query and its commit does not keep its driver from being made unavailable
(`SweepCommit` writes what `SweepSelect` read).

## 7. Plan

Done: transitions, matching and ledger; the service around them; creation behind the limiter; outbox and
gateway; driver pool; tokens; the table between handlers and outbox; the proofs of their safety properties. Next, in this order:

1. A consumer's view of a ride as a refinement of the ledger, late and with repetitions. `ImplementsTable` is
   the link that this needs; what the events say would have to be carried through the channels.
2. `RideTransitions` with `DriverPool`: who is matched.

The number of runs stays as it is: a composition takes the place of the run that it makes redundant,
as `Gateway`, `LimitedCreation` and `RideService` have done.

## 8. Running it

    tlc -workers 2 -config OneRide.cfg MCRideEvents
    tlapm RideTransitionsProofs.tla

`PROJECT.json` lists every run with its module and configuration.
