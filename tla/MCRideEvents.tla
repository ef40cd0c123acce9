------------------------------ MODULE MCRideEvents ------------------------------
(***************************************************************************)
(* RideEvents for TLC.  Every ride belongs to the first passenger; a       *)
(* second one is a stranger to all of them.                                *)
(***************************************************************************)
EXTENDS RideEvents, TLC

CONSTANT owner

MCPassengerOf == [r \in Rides |-> owner]

\* Workers and drivers are interchangeable: nothing names one of them.
Symmetry == Permutations(Workers) \cup Permutations(Drivers)

\* Two states that differ only in the last answer of an idle worker, or in voided,
\* which no guard reads, have the same future.
MCView ==
  <<rides, outbox, geo, reservation, session, timeVars,
    [w \in Workers |-> IF pc[w] \in Answered THEN "answered" ELSE pc[w]]>>
===================================================================================
