------------------------------- MODULE RideCreation -------------------------------
(***************************************************************************)
(* POST /rides: the handler, the Idempotency-Key lookup before it creates  *)
(* anything, the transaction that inserts the ride and the stored response *)
(* together, and the daily cleanup of stored responses.                    *)
(*                                                                         *)
(* The lookup locks nothing, so two requests with one key can both find no *)
(* record.  What keeps them apart is uq_idempotency_key_scope: INSERTing   *)
(* the record waits for a transaction that has inserted one with the same  *)
(* key, and raises IntegrityError once that one has committed.  The        *)
(* session does not autoflush, so the record is INSERTed by the commit,    *)
(* after the ride.                                                         *)
(*                                                                         *)
(* A key is looked up without the user who sent it, so requests are not    *)
(* told apart by passenger.  Coordinates and fare are part of the body.    *)
(***************************************************************************)
EXTENDS RideBook, Naturals

CONSTANTS
  Workers,       \* requests that can be in progress at once
  MaxFailures,   \* bound: requests that fail
  NoSession      \* a worker between two requests

Session ==
  [key : Keys \cup {NoKey}, body : Bodies, ride : RideIds \cup {NoRide}]

ASSUME CreationAssumption ==
  /\ NoRide \notin RideIds
  /\ NoSession \notin Session
  /\ MaxFailures \in Nat

VARIABLES
  pc,         \* pc[w]: the next await of request w, or its answer
  session,    \* session[w]: its key and body, and the id of the ride it inserts
  failures,   \* requests that have failed
  forgotten   \* history: the rides whose stored response was cleaned up

creationVars == <<rides, records, answers, pc, session, failures, forgotten>>

Answered == {"idle", "201", "409", "500"}

CreationInit ==
  /\ Init
  /\ pc = [w \in Workers |-> "idle"]
  /\ session = [w \in Workers |-> NoSession]
  /\ failures = 0
  /\ forgotten = {}

Goto(w, point) == pc' = [pc EXCEPT ![w] = point]

Answer(w, code) ==
  /\ pc' = [pc EXCEPT ![w] = code]
  /\ session' = [session EXCEPT ![w] = NoSession]
-----------------------------------------------------------------------------------
MutantSameRequest(k, b) == TRUE

\* The stored fingerprint is that of this request.
SameRequest(k, b) == records[k].fingerprint = b

\* get_cached_response, and what the handler does with the record it finds.
LookUp(w, k, b) ==
  /\ pc[w] \in Answered
  /\ UNCHANGED <<rides, records, failures, forgotten>>
  /\ \/ /\ ~Known(k)
        /\ Goto(w, "insert")
        /\ session' = [session EXCEPT ![w] = [key |-> k, body |-> b, ride |-> NoRide]]
        /\ UNCHANGED answers
     \/ /\ Known(k)
        /\ SameRequest(k, b)
        /\ Answer(w, "201")
        /\ Answers(k, b, records[k].ride)
     \/ /\ Known(k)
        /\ ~SameRequest(k, b)
        /\ Answer(w, "409")
        /\ UNCHANGED answers

\* flush inserts the ride under a new uuid; it is visible to this session only.
InsertRide(w, i) ==
  /\ pc[w] = "insert"
  /\ rides[i] = NoRide
  /\ \A v \in Workers : session[v] # NoSession => session[v].ride # i
  /\ session' = [session EXCEPT ![w].ride = i]
  /\ Goto(w, IF session[w].key = NoKey THEN "commit" ELSE "store")
  /\ UNCHANGED <<rides, records, answers, failures, forgotten>>

\* Another transaction has inserted a record with key k and is not over.
Storing(k) == \E v \in Workers : pc[v] = "commit" /\ session[v].key = k

MutantKeyIsTaken(k) == FALSE

\* A committed record has key k.
KeyIsTaken(k) == Known(k)

\* The flush of the commit INSERTs the record, or fails on its unique key.
StoreResponse(w) ==
  /\ pc[w] = "store"
  /\ ~Storing(session[w].key)
  /\ IF KeyIsTaken(session[w].key)
     THEN Answer(w, "500")
     ELSE Goto(w, "commit") /\ UNCHANGED session
  /\ UNCHANGED <<rides, records, answers, failures, forgotten>>

MutantStored(s) == records

\* The records once the commit of s is through.
Stored(s) ==
  IF s.key = NoKey THEN records
  ELSE [records EXCEPT ![s.key] = [fingerprint |-> s.body, ride |-> s.ride]]

Commit(w) ==
  LET s == session[w] IN
  /\ pc[w] = "commit"
  /\ rides' = [rides EXCEPT ![s.ride] = [key |-> s.key, body |-> s.body]]
  /\ records' = Stored(s)
  /\ Answers(s.key, s.body, s.ride)
  /\ Answer(w, "201")
  /\ UNCHANGED <<failures, forgotten>>

MutantAbort(w) ==
  /\ pc[w] \notin Answered
  /\ failures < MaxFailures
  /\ failures' = failures + 1
  /\ Goto(w, "500")
  /\ UNCHANGED <<rides, records, answers, session, forgotten>>

\* Postgres or the process fails: nothing of the transaction remains.
Abort(w) ==
  /\ pc[w] \notin Answered
  /\ failures < MaxFailures
  /\ failures' = failures + 1
  /\ Answer(w, "500")
  /\ UNCHANGED <<rides, records, answers, forgotten>>

\* cleanup_idempotency_records deletes the records that are older than a week,
\* whichever they are.
CleanUp(old) ==
  /\ forgotten' = forgotten \cup {records[k].ride : k \in {x \in old : Known(x)}}
  /\ Forget(old)
  /\ UNCHANGED <<pc, session, failures>>
-----------------------------------------------------------------------------------
Handler(w) ==
  \/ \E i \in RideIds : InsertRide(w, i)
  \/ StoreResponse(w)
  \/ Commit(w)

CreationNext ==
  \/ \E w \in Workers :
       \/ \E k \in Keys \cup {NoKey}, b \in Bodies : LookUp(w, k, b)
       \/ Handler(w)
       \/ Abort(w)
  \/ \E old \in SUBSET Keys : CleanUp(old)

CreationSpec == CreationInit /\ [][CreationNext]_creationVars
-----------------------------------------------------------------------------------
\* Tables and sessions have the types of their columns and fields, and a request
\* in progress has a session, with a ride from the flush on.
TypeOK ==
  /\ rides \in [RideIds -> Ride \cup {NoRide}]
  /\ records \in [Keys -> Record \cup {NoRecord}]
  /\ answers \subseteq [key : Keys \cup {NoKey}, body : Bodies, ride : RideIds]
  /\ pc \in [Workers -> Answered \cup {"insert", "store", "commit"}]
  /\ session \in [Workers -> Session \cup {NoSession}]
  /\ failures \in 0 .. MaxFailures
  /\ forgotten \subseteq RideIds
  /\ \A w \in Workers :
       /\ (session[w] = NoSession) = (pc[w] \in Answered)
       /\ pc[w] \in {"store", "commit"} => session[w].ride \in RideIds
       /\ pc[w] = "store" => session[w].key \in Keys

\* "must not create duplicate rides": of two rides created with one key, one was
\* created when the response of the other had been cleaned up.
OneRidePerKey ==
  \A i, j \in RideIds :
    /\ i # j
    /\ rides[i] # NoRide /\ rides[j] # NoRide
    /\ rides[i].key = rides[j].key
    /\ rides[i].key # NoKey
    => i \in forgotten \/ j \in forgotten

\* Whoever was answered 201, first or by replay, was told of a ride that exists
\* and is the one it asked for: same key, same body.
AnswersAreRides ==
  \A a \in answers : rides[a.ride] = [key |-> a.key, body |-> a.body]

Book == INSTANCE RideBook

\* The handler, with its unlocked lookup, implements the book in which a request
\* is one indivisible step.
ImplementsBook == Book!Spec
-----------------------------------------------------------------------------------
(* The inductive invariant.                                                *)

\* The unique key at work: of the transactions that have inserted a record, no
\* two have the same key, and none has the key of a committed record.
StoringAlone ==
  \A w \in Workers : pc[w] = "commit" /\ session[w].key # NoKey =>
    /\ ~Known(session[w].key)
    /\ \A v \in Workers : pc[v] = "commit" /\ session[v].key = session[w].key => v = w

\* A ride that is not committed has an id of its own.
NewIds ==
  \A w \in Workers : pc[w] \in {"store", "commit"} =>
    /\ rides[session[w].ride] = NoRide
    /\ \A v \in Workers : session[v] # NoSession /\ session[v].ride = session[w].ride => v = w

\* A ride and the record of its key are committed together.
RecordsAreRides ==
  \A k \in Keys : Known(k) =>
    rides[records[k].ride] = [key |-> k, body |-> records[k].fingerprint]

\* And the record stays until it is cleaned up.
RidesAreRecorded ==
  \A i \in RideIds : rides[i] # NoRide /\ rides[i].key # NoKey =>
    \/ i \in forgotten
    \/ Known(rides[i].key) /\ records[rides[i].key].ride = i

\* What the unique key and the single transaction maintain together, and what
\* OneRidePerKey and AnswersAreRides follow from.
CreationInv ==
  /\ TypeOK
  /\ StoringAlone
  /\ NewIds
  /\ RecordsAreRides
  /\ RidesAreRecorded
  /\ AnswersAreRides
-----------------------------------------------------------------------------------
(* A statement of the documentation that the code does not meet.           *)

\* "Same key + same fingerprint -> replay the cached response": a request that
\* meets the stored response of its key and its body does not fail by itself.
DuplicateIsReplayed ==
  [][\A w \in Workers :
       LET s == session[w] IN
       /\ pc[w] = "store"
       /\ KeyIsTaken(s.key) /\ SameRequest(s.key, s.body)
       /\ failures' = failures
       => pc'[w] # "500"]_creationVars
===================================================================================
