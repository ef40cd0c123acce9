--------------------------------- MODULE RideBook ---------------------------------
(***************************************************************************)
(* What POST /rides promises its callers: every request either creates a   *)
(* ride or is told of the one that its Idempotency-Key has created, in one *)
(* indivisible step.  Keys are forgotten after a while.                    *)
(*                                                                         *)
(* RideCreation, the model of the handler, is shown to implement this.     *)
(***************************************************************************)
CONSTANTS
  RideIds,    \* the uuids that can be drawn
  Keys,       \* values of header Idempotency-Key
  Bodies,     \* request bodies, up to their fingerprint
  NoKey,      \* the header is absent
  NoRide,     \* no ride has this id
  NoRecord    \* no response is stored for this key

Ride == [key : Keys \cup {NoKey}, body : Bodies]

Record == [fingerprint : Bodies, ride : RideIds]

ASSUME BookAssumption ==
  /\ NoKey \notin Keys
  /\ NoRide \notin Ride
  /\ NoRecord \notin Record

VARIABLES
  rides,      \* rides[i]: the committed ride with id i
  records,    \* records[k]: the stored response of key k
  answers     \* history: which ride each 201 was about

vars == <<rides, records, answers>>

Init ==
  /\ rides = [i \in RideIds |-> NoRide]
  /\ records = [k \in Keys |-> NoRecord]
  /\ answers = {}

\* There is a stored response for this key.
Known(k) == k # NoKey /\ records[k] # NoRecord

Answers(k, b, i) == answers' = answers \cup {[key |-> k, body |-> b, ride |-> i]}

\* A key that is not known, or none: ride i is created.
Create(k, b, i) ==
  /\ rides[i] = NoRide
  /\ ~Known(k)
  /\ rides' = [rides EXCEPT ![i] = [key |-> k, body |-> b]]
  /\ records' = IF k = NoKey THEN records
                ELSE [records EXCEPT ![k] = [fingerprint |-> b, ride |-> i]]
  /\ Answers(k, b, i)

\* A key that is known, with the body it was used with.
Replay(k, b) ==
  /\ Known(k)
  /\ records[k].fingerprint = b
  /\ Answers(k, b, records[k].ride)
  /\ UNCHANGED <<rides, records>>

\* The daily cleanup forgets the keys in old.
Forget(old) ==
  /\ records' = [k \in Keys |-> IF k \in old THEN NoRecord ELSE records[k]]
  /\ UNCHANGED <<rides, answers>>

Next ==
  \/ \E k \in Keys \cup {NoKey}, b \in Bodies, i \in RideIds : Create(k, b, i)
  \/ \E k \in Keys, b \in Bodies : Replay(k, b)
  \/ \E old \in SUBSET Keys : Forget(old)

Spec == Init /\ [][Next]_vars
===================================================================================
