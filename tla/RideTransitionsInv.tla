---------------------------- MODULE RideTransitionsInv ----------------------------
(***************************************************************************)
(* The inductive invariant of RideTransitions, for clients that send a     *)
(* version they have read (Lookahead = 0).  It says what every request     *)
(* knows at every await, which is why the optimistic concurrency control   *)
(* works:                                                                  *)
(*                                                                         *)
(*   - before the UPDATE, what the request read is either still the row or *)
(*     older than it, and the version it sends is no newer than that;      *)
(*   - after the UPDATE, the request is alone on its row, the row is what  *)
(*     it was when the request read it, and the session holds exactly the  *)
(*     one or two edges that the commit will make visible.                 *)
(***************************************************************************)
EXTENDS RideTransitions

Final == {"completed", "cancelled"}

\* A driver is only ever named by a ride that was accepted.
DriverNamedLate ==
  \A r \in Rides : rides[r].driver # NoDriver => rides[r].status \in ActiveStatus \cup Final

\* At most one transaction has updated a row and is not over.
OneHolder ==
  \A v, w \in Workers :
    pc[v] \in Holding /\ pc[w] \in Holding /\ session[v].ride = session[w].ride => v = w

\* Before the UPDATE: the checks passed on a row that is the current one or an
\* older one, and the client has not seen a newer one.
ReadBefore(w) ==
  LET s == session[w] IN
  /\ s.expected <= s.row.version
  /\ s.row.version <= rides[s.ride].version
  /\ s.row.version = rides[s.ride].version => s.row = rides[s.ride]
  /\ Allowed(s.row.status, s.target)
  /\ Authorized(s.user, s.ride, s.row, s.target)
  /\ s.driver = NoDriver

\* The session holds one edge out of the committed row.
OneEdge(s, old) ==
  /\ s.row = Updated(old, s.target, old.driver)
  /\ s.events = <<StatusChanged(old.status, s.row)>>

\* The session holds the two edges of a matching attempt.
TwoEdges(s, old) ==
  LET matching == Updated(old, "matching", old.driver) IN
  /\ s.row = IF s.driver = NoDriver
             THEN Updated(matching, "no_drivers_found", matching.driver)
             ELSE Updated(matching, "accepted", s.driver)
  /\ s.events = <<StatusChanged(old.status, matching),
                  StatusChanged("matching", s.row)>>

\* After the UPDATE.
WroteEdges(w) ==
  LET s   == session[w]
      old == rides[s.ride]
  IN  /\ s.expected = old.version
      /\ Allowed(old.status, s.target)
      /\ Authorized(s.user, s.ride, old, s.target)
      /\ \/ /\ pc[w] \in {"search", "reserve"}
            /\ StartsMatching(old.status, s.target)
            /\ OneEdge(s, old)
         \/ /\ pc[w] \in {"release", "delete"}
            /\ s.target = "cancelled"
            /\ s.driver = NoDriver
            /\ s.row.driver # NoDriver
            /\ OneEdge(s, old)
         \/ /\ pc[w] = "commit"
            /\ ~StartsMatching(old.status, s.target)
            /\ s.driver = NoDriver
            /\ OneEdge(s, old)
         \/ /\ pc[w] = "commit"
            /\ StartsMatching(old.status, s.target)
            /\ TwoEdges(s, old)

\* r holds the reservation of d, or has lost it since it made it.
Claims(r, d) == reservation[d] = r \/ r \in voided[d]

\* Who is engaged with a driver has a claim to it.
EngagedClaims == \A r \in Rides, d \in Drivers : Engages(r, d) => Claims(r, d)

\* A cancellation about to be committed has given up its reservation.
ReleasedBefore(w) ==
  LET s == session[w] IN
  pc[w] = "commit" /\ s.target = "cancelled" /\ s.row.driver # NoDriver
    => reservation[s.row.driver] # s.ride

\* The strengthening of ActsOnCurrentRow, ReservationExclusive and
\* CancelFreesDriver that every step of the handlers preserves.
Inv ==
  /\ TypeOK
  /\ DriverNamedLate
  /\ OneHolder
  /\ \A w \in Workers : pc[w] = "update" => ReadBefore(w)
  /\ \A w \in Workers : pc[w] \in Holding => WroteEdges(w)
  /\ \A w \in Workers : ReleasedBefore(w)
  /\ EngagedClaims
  /\ CancelFreesDriver
===================================================================================
