------------------------------ MODULE MCRideCreation ------------------------------
(***************************************************************************)
(* Instances of RideCreation for TLC.                                      *)
(***************************************************************************)
EXTENDS RideCreation, TLC

\* Nothing tells one request, ride id, key or body from another.
Symmetry ==
  Permutations(Workers) \cup Permutations(RideIds) \cup
  Permutations(Keys) \cup Permutations(Bodies)
===================================================================================
