------------------------------ MODULE MCRideService ------------------------------
(***************************************************************************)
(* Instances of RideService for TLC.  Every ride belongs to one passenger. *)
(*                                                                         *)
(* Two states are taken for one if they differ only                        *)
(*   - in the last answer of a worker, in the events, which grow with the  *)
(*     version of their ride, or in voided, which no guard reads;          *)
(*   - in the request of a worker whose UPDATE will match no row, as the   *)
(*     version that it sends is behind the row's, and versions only grow;  *)
(*   - in what a request sent, once its UPDATE has matched;                *)
(*   - in the version a client knows, if it is behind the row's: whichever *)
(*     it sends, its UPDATE will match no row.                             *)
(* The steps out of two such states are the same up to these differences,  *)
(* and no property of the runs depends on them.                            *)
(***************************************************************************)
EXTENDS RideService

CONSTANT owner

MCPassengerOf == [r \in Rides |-> owner]

\* The UPDATE of w will match no row.
Doomed(w) == pc[w] = "update" /\ session[w].expected < rides[session[w].ride].version

MCSession(w) ==
  LET s == session[w] IN
  IF s = NoSession THEN <<pc[w] \in Busy>>
  ELSE IF Doomed(w) THEN <<"doomed">>
  ELSE <<pc[w], s.user, s.ride, s.row, s.cands, s.driver,
         IF pc[w] = "update" THEN <<s.target, s.expected>> ELSE <<>> >>

MCKnown ==
  [u \in Users |-> [r \in Rides |->
    IF known[u][r] \in 1 .. rides[r].version - 1 THEN 1 ELSE known[u][r]]]

MCView ==
  <<rides, geo, reservation, route, free, MCKnown, [w \in Workers |-> MCSession(w)]>>
===================================================================================
