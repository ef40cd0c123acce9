---------------------------- MODULE MCRideTransitions ----------------------------
(***************************************************************************)
(* Instances of RideTransitions for TLC.  Every ride belongs to the first  *)
(* passenger; a second passenger, where there is one, is a stranger to all *)
(* of them.                                                                *)
(***************************************************************************)
EXTENDS RideTransitionsInv, TLC

CONSTANT owner

MCPassengerOf == [r \in Rides |-> owner]

\* Workers, drivers and rides are interchangeable: nothing in the specification
\* or in the safety properties names one of them.
Symmetry ==
  Permutations(Workers) \cup Permutations(Drivers) \cup Permutations(Rides)
===================================================================================
