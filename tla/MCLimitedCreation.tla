---------------------------- MODULE MCLimitedCreation ----------------------------
(***************************************************************************)
(* LimitedCreation for TLC.                                                *)
(***************************************************************************)
EXTENDS LimitedCreation, TLC

\* Nothing tells one request, ride id, key, body or address from another.
Symmetry ==
  Permutations(Workers) \cup Permutations(RideIds) \cup
  Permutations(Keys) \cup Permutations(Bodies) \cup Permutations(Addresses)

\* All answers to a request are one: what comes next does not depend on them, and
\* neither do the properties.
MCView == <<rides, records, answers, session, failures, forgotten, limiterVars, calls,
    [w \in Workers |-> IF pc[w] \in Answered THEN "idle" ELSE pc[w]]>>
===================================================================================
