------------------------------- MODULE RideEvents -------------------------------
(***************************************************************************)
(* RideTransitions with the clock of Postgres: which created_at the events *)
(* of a ride get, and so in which order the outbox worker finds them.      *)
(*                                                                         *)
(* created_at is the time at which a transaction began.  It begins with    *)
(* get_current_user's query, long before the UPDATE, so transactions do    *)
(* not commit in the order in which they began.  Those of one ride that    *)
(* leave events do: the client of each has read the version that the one   *)
(* before it committed, and had read it when it sent the request.          *)
(***************************************************************************)
EXTENDS RideTransitions

VARIABLES
  clock,       \* Postgres: the time, counted in commits that add events
  committed,   \* history: committed[r], the time of r's last such commit
  created,     \* column created_at of the committed events
  began,       \* began[w]: now() in the transaction of w, or 0 if it has none
  seen         \* history: seen[w][r], the version of r that was committed by then

timeVars == <<clock, committed, created, began, seen>>

\* The table that the outbox worker reads: only the order and number of events matter
\* to it.
Table == INSTANCE EventTable WITH
  MaxEvents <- MaxVersion,
  written   <- [r \in Rides |-> Len(outbox[r])]

Unseen == [r \in Rides |-> 0]
-----------------------------------------------------------------------------------
EventsInit ==
  /\ Init
  /\ clock = 1
  /\ committed = [r \in Rides |-> 1]
  /\ created = [e \in Table!Events |-> 0]
  /\ began = [w \in Workers |-> 0]
  /\ seen = [w \in Workers |-> Unseen]

\* The transaction of w is over if w has answered.
EndIfAnswered(w) ==
  IF pc'[w] \in Answered
  THEN /\ began' = [began EXCEPT ![w] = 0]
       /\ seen' = [seen EXCEPT ![w] = Unseen]
  ELSE UNCHANGED <<began, seen>>

\* get_current_user loads the user of a request that was sent before.
Begin(w) ==
  /\ pc[w] \in Answered
  /\ began[w] = 0
  /\ began' = [began EXCEPT ![w] = clock]
  /\ seen' = [seen EXCEPT ![w] = [r \in Rides |-> rides[r].version]]
  /\ UNCHANGED <<vars, clock, committed, created>>

\* The version in a request was read before the request was sent.
Sent(w, r, expected) == expected <= seen[w][r]

\* The handler reads the ride.
Receive(w) ==
  /\ began[w] # 0
  /\ \E r \in Rides, user \in Users, target \in RideStatus, expected \in 1 .. MaxVersion :
       /\ Sent(w, r, expected)
       /\ ReadRide(w, r, user, target, expected)
  /\ EndIfAnswered(w)
  /\ UNCHANGED <<clock, committed, created>>

\* The request is not for a ride, or fails before the ride is read.
Leave(w) ==
  /\ pc[w] \in Answered
  /\ began[w] # 0
  /\ UNCHANGED <<vars, clock, committed, created>>
  /\ EndIfAnswered(w)

\* The handler goes on, or fails.
Continue(w) ==
  /\ (pc[w] # "commit" /\ Handler(w)) \/ Abort(w)
  /\ EndIfAnswered(w)
  /\ UNCHANGED <<clock, committed, created>>

\* Its events become visible, with the time at which it began.
CommitEvents(w) ==
  LET r == session[w].ride IN
  /\ Commit(w)
  /\ created' = [e \in Table!Events |->
       IF e[1] = r /\ e[2] \in Len(outbox[r]) + 1 .. Len(outbox'[r])
       THEN began[w] ELSE created[e]]
  /\ clock' = clock + 1
  /\ committed' = [committed EXCEPT ![r] = clock + 1]
  /\ EndIfAnswered(w)

EventsNext ==
  \/ \E w \in Workers : Begin(w) \/ Receive(w) \/ Leave(w) \/ Continue(w) \/ CommitEvents(w)
  \/ Pool /\ UNCHANGED timeVars

EventsSpec == EventsInit /\ [][EventsNext]_<<vars, timeVars>>
-----------------------------------------------------------------------------------
\* Times are in the past, and a request in progress has a transaction.
EventsTypeOK ==
  /\ TypeOK
  /\ clock \in Nat \ {0}
  /\ committed \in [Rides -> 1 .. clock]
  /\ created \in [Table!Events -> 0 .. clock]
  /\ began \in [Workers -> 0 .. clock]
  /\ seen \in [Workers -> [Rides -> Nat]]
  /\ \A w \in Workers : pc[w] \in Busy => began[w] # 0

\* What the outbox worker may take for granted: a commit adds one event to those of
\* its ride, or the first two, in a transaction that began after the ride's previous
\* one had been committed.  So created_at never reverses two transactions of a ride,
\* however many requests overlap.
ImplementsTable == Table!TableSpec
===================================================================================
