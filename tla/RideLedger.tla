-------------------------------- MODULE RideLedger --------------------------------
(***************************************************************************)
(* What the ride API promises its callers, with the concurrency taken out: *)
(* a table of rides in which every transition happens in one indivisible   *)
(* step, and a log that holds, for every ride, the event of every          *)
(* transition in the order in which they happened.                         *)
(*                                                                         *)
(* There are two kinds of step.  Step moves one ride along one edge of the *)
(* graph.  Match takes a requested ride through "matching" to its outcome, *)
(* two edges at once, because no other request may see the state between.  *)
(*                                                                         *)
(* RideTransitions, the model of the handlers, is shown to implement this. *)
(***************************************************************************)
EXTENDS RideStateMachine

CONSTANT Rides    \* ids of the rides

VARIABLES
  rides,    \* rides[r]: the committed row of ride r
  outbox    \* outbox[r]: its committed events, in commit order

vars == <<rides, outbox>>

\* Rows and events have the types of their columns.
TypeOK ==
  /\ rides \in [Rides -> Row]
  /\ outbox \in [Rides -> Seq(Event)]

Init ==
  /\ rides = [r \in Rides |-> NewRide]
  /\ outbox = [r \in Rides |-> <<>>]

\* One edge of the graph.  Leaving "requested" for "matching" is not a step of
\* its own: it only happens as the first half of Match.
Step(r, target) ==
  /\ target \in RIDE_TRANSITIONS[rides[r].status]
  /\ ~(rides[r].status = "requested" /\ target = "matching")
  /\ rides' = [rides EXCEPT ![r] = Updated(rides[r], target, rides[r].driver)]
  /\ outbox' = [outbox EXCEPT ![r] =
       @ \o <<[previous_status |-> rides[r].status,
               new_status      |-> target,
               driver          |-> rides[r].driver]>>]

\* A matching attempt: d is the driver it found, or NoDriver.
Match(r, d) ==
  LET outcome == IF d = NoDriver THEN "no_drivers_found" ELSE "accepted" IN
  /\ rides[r].status = "requested"
  /\ rides' = [rides EXCEPT ![r] = [status  |-> outcome,
                                    version |-> rides[r].version + 2,
                                    driver  |-> d]]
  /\ outbox' = [outbox EXCEPT ![r] =
       @ \o <<[previous_status |-> "requested",
               new_status      |-> "matching",
               driver          |-> NoDriver],
              [previous_status |-> "matching",
               new_status      |-> outcome,
               driver          |-> d]>>]

Next ==
  \E r \in Rides :
    \/ \E target \in RideStatus : Step(r, target)
    \/ \E d \in Drivers \cup {NoDriver} : Match(r, d)

Spec == Init /\ [][Next]_vars
-----------------------------------------------------------------------------------
\* The log of a ride tells the whole story of its row: one event per version
\* after the first, every event an edge of the graph, each one starting where
\* the previous one ended, and the last one ending in the row's status.
HistoryOf(r) ==
  LET log == outbox[r] IN
  /\ Len(log) = rides[r].version - 1
  /\ \A i \in 1 .. Len(log) :
       /\ log[i].new_status \in RIDE_TRANSITIONS[log[i].previous_status]
       /\ log[i].previous_status =
            IF i = 1 THEN "requested" ELSE log[i - 1].new_status
  /\ rides[r].status =
       IF Len(log) = 0 THEN "requested" ELSE log[Len(log)].new_status

\* Every event after a ride's first names the driver the row names now: a
\* driver is assigned by the second transition of a ride or never, and is
\* never replaced.
DriverOf(r) ==
  /\ rides[r].driver # NoDriver => Len(outbox[r]) >= 2
  /\ \A i \in 1 .. Len(outbox[r]) :
       outbox[r][i].driver = IF i = 1 THEN NoDriver ELSE rides[r].driver

HistoryTellsState == \A r \in Rides : HistoryOf(r)

EventsNameTheDriver == \A r \in Rides : DriverOf(r)
===================================================================================
