------------------------------- MODULE EventTable -------------------------------
(***************************************************************************)
(* Table outbox_events as the transition handlers write it, and as the     *)
(* outbox worker finds it: what the two have to agree on, and all that     *)
(* either of them has to know of the other.                                *)
(*                                                                         *)
(* The n-th event of ride r, in the order of the ride's versions, is the   *)
(* pair <<r, n>>.  Its created_at is the now() of its transaction, which   *)
(* in Postgres is the time at which the transaction began.  A matching     *)
(* request writes two events with one created_at.                          *)
(*                                                                         *)
(* Time is counted in commits that add events.                             *)
(***************************************************************************)
EXTENDS Integers

CONSTANTS
  Rides,         \* ids of the rides
  MaxEvents      \* bound: events of one ride

ASSUME EventsAssumption == MaxEvents \in Nat

Events == Rides \X (1 .. MaxEvents)

VARIABLES
  clock,       \* Postgres: the time
  committed,   \* history: committed[r], the time of the last commit that added
               \* events of r
  written,     \* written[r]: the number of committed events of r
  created      \* created[e]: column created_at of a committed event

tableVars == <<clock, committed, written, created>>
-----------------------------------------------------------------------------------
Written == {e \in Events : e[2] <= written[e[1]]}

TableInit ==
  /\ clock = 1
  /\ committed = [r \in Rides |-> 1]
  /\ written = [r \in Rides |-> 0]
  /\ created = [e \in Events |-> 0]

\* A transaction commits: one event, or the two of a matching request, which are a
\* ride's first two.  It began after the commit of the ride's previous events,
\* because its client had read the version which that commit left.
Insert(r, n) ==
  /\ n = 2 => written[r] = 0
  /\ written[r] + n <= MaxEvents
  /\ \E began \in committed[r] .. clock :
       created' = [e \in Events |->
         IF e[1] = r /\ e[2] \in written[r] + 1 .. written[r] + n THEN began ELSE created[e]]
  /\ written' = [written EXCEPT ![r] = @ + n]
  /\ clock' = clock + 1
  /\ committed' = [committed EXCEPT ![r] = clock + 1]

TableNext == \E r \in Rides, n \in 1 .. 2 : Insert(r, n)

TableSpec == TableInit /\ [][TableNext]_tableVars
===================================================================================
