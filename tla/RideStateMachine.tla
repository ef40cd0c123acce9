---------------------------- MODULE RideStateMachine ----------------------------
(***************************************************************************)
(* The vocabulary of the ride life cycle: the statuses a ride can be in,   *)
(* the transition graph, the columns of a row of table rides that matter   *)
(* to the life cycle, and the payload of a "ride.status_changed" event.    *)
(*                                                                         *)
(* Pickup, dropoff and fare are never read by a transition and are left    *)
(* out.  NoDriver stands for a NULL driver_id.                             *)
(***************************************************************************)
EXTENDS Integers, Sequences

CONSTANTS
  Drivers,    \* ids of the users whose role is "driver"
  NoDriver    \* driver_id IS NULL

ASSUME NoDriverAssumption == NoDriver \notin Drivers

RideStatus ==
  {"requested", "matching", "accepted", "driver_arriving", "in_progress",
   "completed", "cancelled", "no_drivers_found"}

RIDE_TRANSITIONS ==
  [requested        |-> {"matching", "cancelled"},
   matching         |-> {"accepted", "no_drivers_found", "cancelled"},
   accepted         |-> {"driver_arriving", "cancelled"},
   driver_arriving  |-> {"in_progress", "cancelled"},
   in_progress      |-> {"completed", "cancelled"},
   completed        |-> {},
   cancelled        |-> {},
   no_drivers_found |-> {"matching", "cancelled"}]

\* The statuses in which a driver is serving the ride.
ActiveStatus == {"accepted", "driver_arriving", "in_progress"}

Row == [status : RideStatus, version : Nat, driver : Drivers \cup {NoDriver}]

Event == [previous_status : RideStatus,
          new_status      : RideStatus,
          driver          : Drivers \cup {NoDriver}]

\* A row as INSERTed by create_ride: the column defaults.
NewRide == [status |-> "requested", version |-> 1, driver |-> NoDriver]

\* What apply_transition's UPDATE makes of a row it found.
Updated(row, target, driver) ==
  [status |-> target, version |-> row.version + 1, driver |-> driver]
=================================================================================
