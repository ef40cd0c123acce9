---------------------------- MODULE RideCreationProofs ----------------------------
(***************************************************************************)
(* Proofs about RideCreation, for any number of keys, bodies, rides and    *)
(* concurrent requests.  CreationInv is inductive as it stands; one lemma  *)
(* per action shows that the action preserves it, and that it is a step of *)
(* the book or none.                                                       *)
(*                                                                         *)
(* LimitedCreation follows: what the limiter lets through, and that behind *)
(* it all of this remains true.                                            *)
(***************************************************************************)
EXTENDS LimitedCreation, TLAPS

USE DEF Answered

\* The initial state satisfies the invariant.
LEMMA InitInv == CreationInit => CreationInv
  BY BookAssumption, CreationAssumption
  DEF CreationInit, Init, CreationInv, TypeOK, StoringAlone, NewIds, RecordsAreRides,
      RidesAreRecorded, AnswersAreRides, Known

\* A request that is answered without having changed a table leaves the
\* invariant as it is.
LEMMA AnswerInv ==
  ASSUME CreationInv,
         NEW w \in Workers, NEW code \in Answered, Answer(w, code),
         UNCHANGED <<rides, records, answers, forgotten>>,
         failures' \in 0 .. MaxFailures
  PROVE  CreationInv'
<1>1. TypeOK'
  BY CreationAssumption DEF CreationInv, TypeOK, Answer
<1>2. StoringAlone'
  BY DEF CreationInv, TypeOK, StoringAlone, Answer, Known
<1>3. NewIds'
  BY DEF CreationInv, TypeOK, NewIds, Answer
<1>4. RecordsAreRides' /\ RidesAreRecorded' /\ AnswersAreRides'
  BY DEF CreationInv, RecordsAreRides, RidesAreRecorded, AnswersAreRides, Known
<1> QED BY <1>1, <1>2, <1>3, <1>4 DEF CreationInv

\* The lookup: nothing is written, and a replay tells of the recorded ride.
LEMMA LookUpInv ==
  ASSUME CreationInv, NEW w \in Workers, NEW k \in Keys \cup {NoKey}, NEW b \in Bodies,
         LookUp(w, k, b)
  PROVE  /\ CreationInv'
         /\ Book!Next \/ UNCHANGED Book!vars
<1> USE DEF LookUp
<1>1. CASE ~Known(k) /\ UNCHANGED answers /\ Goto(w, "insert")
           /\ session' = [session EXCEPT ![w] = [key |-> k, body |-> b, ride |-> NoRide]]
  <2>1. TypeOK'
    BY <1>1, CreationAssumption DEF CreationInv, TypeOK, Goto, Session
  <2>2. StoringAlone'
    BY <1>1 DEF CreationInv, TypeOK, StoringAlone, Goto, Known
  <2>3. NewIds'
    BY <1>1, CreationAssumption DEF CreationInv, TypeOK, NewIds, Goto
  <2>4. RecordsAreRides' /\ RidesAreRecorded' /\ AnswersAreRides'
    BY <1>1 DEF CreationInv, RecordsAreRides, RidesAreRecorded, AnswersAreRides, Known
  <2> QED BY <1>1, <2>1, <2>2, <2>3, <2>4 DEF CreationInv, Book!vars
<1>2. CASE Known(k) /\ SameRequest(k, b) /\ Answer(w, "201")
           /\ Answers(k, b, records[k].ride)
  <2>1. k \in Keys /\ records[k] \in Record
    BY <1>2 DEF CreationInv, TypeOK, Known
  <2>2. TypeOK'
    BY <1>2, <2>1, CreationAssumption DEF CreationInv, TypeOK, Answer, Answers, Record
  <2>3. StoringAlone'
    BY <1>2 DEF CreationInv, TypeOK, StoringAlone, Answer, Known
  <2>4. NewIds'
    BY <1>2 DEF CreationInv, TypeOK, NewIds, Answer
  <2>5. RecordsAreRides' /\ RidesAreRecorded'
    BY DEF CreationInv, RecordsAreRides, RidesAreRecorded, Known
  <2>6. AnswersAreRides'
    <3>1. rides[records[k].ride] = [key |-> k, body |-> b]
      BY <1>2, <2>1 DEF CreationInv, RecordsAreRides, SameRequest
    <3>2. answers' = answers \cup {[key |-> k, body |-> b, ride |-> records[k].ride]}
      BY <1>2 DEF Answers
    <3>3. rides' = rides
      OBVIOUS
    <3>4. ASSUME NEW a \in answers' PROVE rides[a.ride] = [key |-> a.key, body |-> a.body]
      <4>1. CASE a \in answers
        BY <4>1 DEF CreationInv, AnswersAreRides
      <4>2. CASE a = [key |-> k, body |-> b, ride |-> records[k].ride]
        BY <4>2, <3>1
      <4> QED BY <3>2, <4>1, <4>2
    <3> QED BY <3>3, <3>4 DEF AnswersAreRides
  <2>7. Book!Replay(k, b)
    BY <1>2 DEF Book!Replay, Book!Known, Book!Answers, Known, Answers, SameRequest
  <2> QED BY <2>1, <2>2, <2>3, <2>4, <2>5, <2>6, <2>7 DEF CreationInv, Book!Next
<1>3. CASE Answer(w, "409") /\ UNCHANGED answers
  BY <1>3, AnswerInv DEF CreationInv, TypeOK, Book!vars
<1> QED BY <1>1, <1>2, <1>3

\* The ride's INSERT is seen by no one else.
LEMMA InsertRideInv ==
  ASSUME CreationInv, NEW w \in Workers, NEW i \in RideIds, InsertRide(w, i)
  PROVE  CreationInv' /\ UNCHANGED Book!vars
<1> USE DEF InsertRide
<1>0. session[w] \in Session
  BY DEF CreationInv, TypeOK
<1>1. TypeOK'
  BY <1>0, CreationAssumption DEF CreationInv, TypeOK, Goto, Session
<1>2. StoringAlone'
  BY <1>0 DEF CreationInv, TypeOK, StoringAlone, Goto, Known, Session
<1>3. NewIds'
  BY <1>0, CreationAssumption DEF CreationInv, TypeOK, NewIds, Goto, Session
<1>4. RecordsAreRides' /\ RidesAreRecorded' /\ AnswersAreRides'
  BY DEF CreationInv, RecordsAreRides, RidesAreRecorded, AnswersAreRides, Known
<1> QED BY <1>1, <1>2, <1>3, <1>4 DEF CreationInv, Book!vars

\* The record's INSERT waits for its key and takes it, or fails.
LEMMA StoreResponseInv ==
  ASSUME CreationInv, NEW w \in Workers, StoreResponse(w)
  PROVE  CreationInv' /\ UNCHANGED Book!vars
<1> USE DEF StoreResponse
<1>1. CASE KeyIsTaken(session[w].key) /\ Answer(w, "500")
  BY <1>1, AnswerInv DEF CreationInv, TypeOK, Book!vars
<1>2. CASE ~KeyIsTaken(session[w].key) /\ Goto(w, "commit") /\ UNCHANGED session
  <2>1. TypeOK'
    BY <1>2 DEF CreationInv, TypeOK, Goto
  <2>2. StoringAlone'
    BY <1>2 DEF CreationInv, TypeOK, StoringAlone, Goto, KeyIsTaken, Known, Storing
  <2>3. NewIds'
    BY <1>2 DEF CreationInv, TypeOK, NewIds, Goto
  <2>4. RecordsAreRides' /\ RidesAreRecorded' /\ AnswersAreRides'
    BY DEF CreationInv, RecordsAreRides, RidesAreRecorded, AnswersAreRides, Known
  <2> QED BY <2>1, <2>2, <2>3, <2>4 DEF CreationInv, Book!vars
<1> QED BY <1>1, <1>2

\* The commit makes a ride, its record and its answer at once: it creates.
LEMMA CommitInv ==
  ASSUME CreationInv, NEW w \in Workers, Commit(w)
  PROVE  CreationInv' /\ Book!Next
<1> USE DEF Commit
<1> DEFINE s == session[w]
           row == [key |-> s.key, body |-> s.body]
<1>0. /\ s \in Session /\ s.ride \in RideIds
      /\ rides[s.ride] = NoRide
      /\ ~Known(s.key)
      /\ row \in Ride
  BY DEF CreationInv, TypeOK, NewIds, StoringAlone, Known, Session, Ride
<1>1. TypeOK'
  BY <1>0, CreationAssumption
  DEF CreationInv, TypeOK, Answer, Answers, Stored, Session, Record
<1>2. StoringAlone'
  BY <1>0 DEF CreationInv, TypeOK, StoringAlone, Answer, Stored, Known, Session
<1>3. NewIds'
  BY <1>0 DEF CreationInv, TypeOK, NewIds, Answer
<1>4. RecordsAreRides'
  <2> SUFFICES ASSUME NEW k \in Keys, Known(k)'
               PROVE  rides'[records'[k].ride] = [key |-> k, body |-> records'[k].fingerprint]
    BY DEF RecordsAreRides
  <2>1. CASE k = s.key
    <3>1. records'[k] = [fingerprint |-> s.body, ride |-> s.ride]
      BY <2>1, BookAssumption DEF CreationInv, TypeOK, Stored
    <3>2. rides'[s.ride] = row
      BY <1>0 DEF CreationInv, TypeOK
    <3> QED BY <2>1, <3>1, <3>2
  <2>2. CASE k # s.key
    <3>1. records'[k] = records[k] /\ Known(k)
      BY <2>2 DEF CreationInv, TypeOK, Stored, Known
    <3>2. /\ records[k].ride \in RideIds
          /\ rides[records[k].ride] = [key |-> k, body |-> records[k].fingerprint]
      BY <3>1 DEF CreationInv, TypeOK, RecordsAreRides, Known, Record
    <3>3. records[k].ride # s.ride
      BY <1>0, <3>1, <3>2, BookAssumption DEF CreationInv, TypeOK, Record, Ride, Known
    <3> QED BY <3>1, <3>2, <3>3 DEF CreationInv, TypeOK
  <2> QED BY <2>1, <2>2
<1>5. RidesAreRecorded'
  BY <1>0, BookAssumption
  DEF CreationInv, TypeOK, RidesAreRecorded, Stored, Known, Record, Session, Ride
<1>6. AnswersAreRides'
  <2> SUFFICES ASSUME NEW a \in answers'
               PROVE  rides'[a.ride] = [key |-> a.key, body |-> a.body]
    BY DEF AnswersAreRides
  <2>1. CASE a \in answers
    BY <1>0, <2>1, BookAssumption DEF CreationInv, TypeOK, AnswersAreRides, Ride
  <2>2. CASE a = [key |-> s.key, body |-> s.body, ride |-> s.ride]
    BY <1>0, <2>2 DEF CreationInv, TypeOK
  <2> QED BY <2>1, <2>2 DEF Answers
<1>7. Book!Create(s.key, s.body, s.ride)
  BY <1>0 DEF Book!Create, Book!Known, Book!Answers, Known, Answers, Stored
<1> QED BY <1>0, <1>1, <1>2, <1>3, <1>4, <1>5, <1>6, <1>7 DEF CreationInv, Book!Next, Session

\* The cleanup moves rides from recorded to forgotten.
LEMMA CleanUpInv ==
  ASSUME CreationInv, NEW old \in SUBSET Keys, CleanUp(old)
  PROVE  CreationInv' /\ Book!Next
<1> USE DEF CleanUp, Forget
<1>1. TypeOK'
  BY DEF CreationInv, TypeOK, Known, Record
<1>2. StoringAlone'
  BY DEF CreationInv, TypeOK, StoringAlone, Known, Session
<1>3. NewIds'
  BY DEF CreationInv, NewIds
<1>4. RecordsAreRides' /\ AnswersAreRides'
  BY DEF CreationInv, TypeOK, RecordsAreRides, AnswersAreRides, Known
<1>5. RidesAreRecorded'
  BY DEF CreationInv, TypeOK, RidesAreRecorded, Known, Ride
<1>6. Book!Forget(old)
  BY DEF Book!Forget
<1> QED BY <1>1, <1>2, <1>3, <1>4, <1>5, <1>6 DEF CreationInv, Book!Next

\* Every step preserves the invariant and is a step of the book or none.
LEMMA StepInv ==
  CreationInv /\ [CreationNext]_creationVars
    => CreationInv' /\ (Book!Next \/ UNCHANGED Book!vars)
<1> SUFFICES ASSUME CreationInv, [CreationNext]_creationVars
             PROVE  CreationInv' /\ (Book!Next \/ UNCHANGED Book!vars)
  OBVIOUS
<1>1. ASSUME NEW w \in Workers, NEW k \in Keys \cup {NoKey}, NEW b \in Bodies,
             LookUp(w, k, b)
      PROVE  CreationInv' /\ (Book!Next \/ UNCHANGED Book!vars)
  BY <1>1, LookUpInv
<1>2. ASSUME NEW w \in Workers, Handler(w)
      PROVE  CreationInv' /\ (Book!Next \/ UNCHANGED Book!vars)
  BY <1>2, InsertRideInv, StoreResponseInv, CommitInv DEF Handler
<1>3. ASSUME NEW w \in Workers, Abort(w)
      PROVE  CreationInv' /\ (Book!Next \/ UNCHANGED Book!vars)
  <2>1. failures' \in 0 .. MaxFailures
    BY <1>3, CreationAssumption DEF CreationInv, TypeOK, Abort
  <2> QED BY <1>3, <2>1, AnswerInv DEF Abort, Book!vars
<1>4. ASSUME NEW old \in SUBSET Keys, CleanUp(old)
      PROVE  CreationInv' /\ (Book!Next \/ UNCHANGED Book!vars)
  BY <1>4, CleanUpInv
<1>5. CASE UNCHANGED creationVars
  BY <1>5
  DEF creationVars, Book!vars, CreationInv, TypeOK, StoringAlone, NewIds, RecordsAreRides,
      RidesAreRecorded, AnswersAreRides, Known
<1> QED BY <1>1, <1>2, <1>3, <1>4, <1>5 DEF CreationNext

\* CreationInv holds at every moment: the unique key and the one transaction keep
\* rides, records and answers in step, whatever the requests' interleaving.
THEOREM CreationInvariance == CreationSpec => []CreationInv
  BY InitInv, StepInv, PTL DEF CreationSpec

\* Tables and sessions have their types at every moment.
THEOREM CreationTypes == CreationSpec => []TypeOK
<1>1. CreationInv => TypeOK
  BY DEF CreationInv
<1> QED BY <1>1, CreationInvariance, PTL

\* "must not create duplicate rides": two rides with one key only if a stored
\* response was cleaned up between them.
THEOREM NoDuplicates == CreationSpec => []OneRidePerKey
<1>1. CreationInv => OneRidePerKey
  BY DEF CreationInv, RidesAreRecorded, OneRidePerKey
<1> QED BY <1>1, CreationInvariance, PTL

\* No one is answered 201 about a ride that does not exist or is another request's.
THEOREM AnswersTell == CreationSpec => []AnswersAreRides
<1>1. CreationInv => AnswersAreRides
  BY DEF CreationInv
<1> QED BY <1>1, CreationInvariance, PTL

\* The handler implements the book.
THEOREM CreationImplements == CreationSpec => ImplementsBook
<1>1. CreationInit => Book!Init
  BY DEF CreationInit, Init, Book!Init
<1>2. CreationInv /\ [CreationNext]_creationVars => [Book!Next]_Book!vars
  BY StepInv
<1> QED BY <1>1, <1>2, CreationInvariance, PTL DEF CreationSpec, ImplementsBook, Book!Spec
-----------------------------------------------------------------------------------
(* The rate limiter.                                                       *)

\* A request is counted in a window, and its counter has counted all of the window's
\* requests for as long as it exists: failures leave no difference between the two.
LimiterInv ==
  /\ Limiter!LimiterTypeOK
  /\ \A w \in Workers : stage[w] \in {"incr", "expire"} => window[w] \in Limiter!Windows
  /\ \A x \in Limiter!Windows :
       /\ counter[x] <= counted[x]
       /\ x \notin lapsed => counter[x] = counted[x]

\* The key of a window is no other window's.
LEMMA KeyOfWindow == \A x \in Limiter!Windows : Limiter!Key(x) = x
  BY DEF Limiter!Key, Limiter!Windows

LEMMA LimiterInvInit == LimitedInit => LimiterInv
<1> SUFFICES ASSUME LimitedInit PROVE LimiterInv
  OBVIOUS
<1>1. Limiter!LimiterTypeOK
  BY LimitAssumption
  DEF LimitedInit, Limiter!LimiterInit, Limiter!LimiterTypeOK, Limiter!NoTtl
<1> QED
  BY <1>1 DEF LimitedInit, Limiter!LimiterInit, LimiterInv

\* INCR counts the request, and lets it through as the count says.  Limit > 0 is needed
\* for the second: the first request of a window goes to EXPIRE before it is compared
\* with the limit.
LEMMA IncrStep ==
  ASSUME LimiterInv, NEW w \in Workers, Limiter!Incr(w)
  PROVE  /\ LimiterInv'
         /\ Limit > 0 =>
              IF stage'[w] = "out" THEN counted[window[w]] >= Limit
              ELSE counted[window[w]] < Limit \/ window[w] \in lapsed
         /\ \A v \in Workers \ {w} : stage'[v] = stage[v]
<1> DEFINE x == window[w]
           n == counter[x] + 1
<1>1. /\ stage[w] = "incr" /\ x \in Limiter!Windows
      /\ Limiter!Current(w) = x
  BY KeyOfWindow DEF LimiterInv, Limiter!Incr, Limiter!Current
<1>2. /\ counter' = [counter EXCEPT ![x] = n]
      /\ counted' = [counted EXCEPT ![x] = @ + 1]
      /\ \/ n = 1 /\ stage' = [stage EXCEPT ![w] = "expire"] /\ UNCHANGED window
         \/ /\ n > Limit
            /\ stage' = [stage EXCEPT ![w] = "out"]
            /\ window' = [window EXCEPT ![w] = NoWindow]
         \/ /\ n <= Limit
            /\ stage' = [stage EXCEPT ![w] = "next"]
            /\ window' = [window EXCEPT ![w] = NoWindow]
      /\ UNCHANGED <<minute, ttl, lapsed>>
  <2>1. n \in Nat
    BY <1>1 DEF LimiterInv, Limiter!LimiterTypeOK
  <2> QED
    BY <1>1, <2>1, LimitAssumption DEF Limiter!Incr, Limiter!Proceed, Limiter!Exceeds
<1>3. /\ stage \in [Workers -> {"out", "incr", "expire", "next"}]
      /\ window \in [Workers -> Limiter!Windows \cup {NoWindow}]
      /\ counter \in [Limiter!Windows -> Nat] /\ counted \in [Limiter!Windows -> Nat]
      /\ counter[x] <= counted[x] /\ (x \notin lapsed => counter[x] = counted[x])
      /\ n \in Nat
  BY <1>1 DEF LimiterInv, Limiter!LimiterTypeOK
<1>4. \/ stage'[w] = "expire" /\ n = 1
      \/ stage'[w] = "out" /\ n > Limit
      \/ stage'[w] = "next" /\ n <= Limit
  BY <1>2, <1>3
<1>5. Limit > 0 => IF stage'[w] = "out" THEN counted[x] >= Limit
                   ELSE counted[x] < Limit \/ x \in lapsed
  BY <1>1, <1>3, <1>4, LimitAssumption
<1>6. \A v \in Workers \ {w} : stage'[v] = stage[v]
  BY <1>2, <1>3
<1>7. /\ counter'[x] = n /\ counted'[x] = counted[x] + 1
      /\ \A y \in Limiter!Windows \ {x} : counter'[y] = counter[y] /\ counted'[y] = counted[y]
  BY <1>1, <1>2, <1>3
<1>8. Limiter!LimiterTypeOK'
  <2>1. /\ counter' \in [Limiter!Windows -> Nat] /\ counted' \in [Limiter!Windows -> Nat]
        /\ stage' \in [Workers -> {"out", "incr", "expire", "next"}]
        /\ window' \in [Workers -> Limiter!Windows \cup {NoWindow}]
    <3>1. counter' \in [Limiter!Windows -> Nat]
      BY <1>2, <1>3
    <3>2. counted[x] + 1 \in Nat
      BY <1>1, <1>3
    <3>3. counted' \in [Limiter!Windows -> Nat]
      BY <1>2, <1>3, <3>2
    <3>4. /\ stage' \in [Workers -> {"out", "incr", "expire", "next"}]
          /\ window' \in [Workers -> Limiter!Windows \cup {NoWindow}]
      BY <1>2, <1>3
    <3> QED
      BY <3>1, <3>3, <3>4
  <2>2. \A k \in Limiter!Windows : ttl'[k] # Limiter!NoTtl => counter'[k] > 0
    BY <1>2, <1>3, <1>7 DEF LimiterInv, Limiter!LimiterTypeOK
  <2> QED
    BY <1>2, <2>1, <2>2 DEF LimiterInv, Limiter!LimiterTypeOK
<1>9. \A v \in Workers : stage'[v] \in {"incr", "expire"} => window'[v] \in Limiter!Windows
  BY <1>1, <1>2, <1>3 DEF LimiterInv
<1>10. \A y \in Limiter!Windows :
         counter'[y] <= counted'[y] /\ (y \notin lapsed' => counter'[y] = counted'[y])
  BY <1>2, <1>3, <1>7 DEF LimiterInv
<1> QED
  BY <1>5, <1>6, <1>8, <1>9, <1>10 DEF LimiterInv

\* The limiter's other steps count nothing.
LEMMA OtherLimiterStep ==
  ASSUME LimiterInv,
         \/ \E w \in Workers : \/ \E a \in Addresses : Limiter!Arrive(w, a)
                              \/ Limiter!SetExpire(w) \/ Limiter!LimiterFails(w)
                              \/ Limiter!Leave(w)
         \/ Limiter!Tick \/ \E k \in Limiter!Windows : Limiter!Lapse(k)
         \/ UNCHANGED limiterVars
  PROVE  LimiterInv' /\ counted' = counted
<1>1. /\ minute \in 0 .. MaxMinute /\ MaxMinute \in Nat
      /\ stage \in [Workers -> {"out", "incr", "expire", "next"}]
      /\ window \in [Workers -> Limiter!Windows \cup {NoWindow}]
      /\ counter \in [Limiter!Windows -> Nat] /\ counted \in [Limiter!Windows -> Nat]
      /\ ttl \in [Limiter!Windows -> {Limiter!NoTtl} \cup 0 .. MaxMinute]
      /\ lapsed \subseteq Limiter!Windows
      /\ \A k \in Limiter!Windows : ttl[k] # Limiter!NoTtl => counter[k] > 0
  BY LimitAssumption DEF LimiterInv, Limiter!LimiterTypeOK
<1>2. \A w \in Workers : stage[w] \in {"incr", "expire"} => window[w] \in Limiter!Windows
  BY DEF LimiterInv
<1>3. \A x \in Limiter!Windows :
        counter[x] <= counted[x] /\ (x \notin lapsed => counter[x] = counted[x])
  BY DEF LimiterInv
<1>4. ASSUME NEW w \in Workers, NEW a \in Addresses, Limiter!Arrive(w, a)
      PROVE  LimiterInv' /\ counted' = counted
  <2>1. <<a, minute>> \in Limiter!Windows
    BY <1>1 DEF Limiter!Windows
  <2>2. /\ stage' \in [Workers -> {"out", "incr", "expire", "next"}]
        /\ window' \in [Workers -> Limiter!Windows \cup {NoWindow}]
        /\ \A v \in Workers : stage'[v] \in {"incr", "expire"} =>
             window'[v] \in Limiter!Windows
        /\ UNCHANGED <<minute, counter, ttl, counted, lapsed>>
    BY <1>1, <1>2, <1>4, <2>1 DEF Limiter!Arrive
  <2> QED
    BY <1>1, <1>3, <2>2 DEF LimiterInv, Limiter!LimiterTypeOK
<1>5. ASSUME NEW w \in Workers, Limiter!SetExpire(w)
      PROVE  LimiterInv' /\ counted' = counted
  <2>1. window[w] \in Limiter!Windows /\ Limiter!Current(w) = window[w]
    BY <1>2, <1>5, KeyOfWindow DEF Limiter!SetExpire, Limiter!Current
  <2>2. /\ stage' \in [Workers -> {"out", "incr", "expire", "next"}]
        /\ window' \in [Workers -> Limiter!Windows \cup {NoWindow}]
        /\ \A v \in Workers : stage'[v] \in {"incr", "expire"} =>
             window'[v] \in Limiter!Windows
        /\ UNCHANGED <<minute, counter, counted, lapsed>>
    BY <1>1, <1>2, <1>5 DEF Limiter!SetExpire, Limiter!Proceed
  <2>3. ttl' = [ttl EXCEPT ![window[w]] = IF counter[window[w]] = 0 THEN @ ELSE minute]
    BY <1>5, <2>1 DEF Limiter!SetExpire
  <2>4. /\ ttl' \in [Limiter!Windows -> {Limiter!NoTtl} \cup 0 .. MaxMinute]
        /\ \A k \in Limiter!Windows : ttl'[k] # Limiter!NoTtl => counter[k] > 0
    BY <1>1, <2>1, <2>3
  <2> QED
    BY <1>1, <1>3, <2>2, <2>4 DEF LimiterInv, Limiter!LimiterTypeOK
<1>6. ASSUME NEW w \in Workers, Limiter!LimiterFails(w) \/ Limiter!Leave(w)
      PROVE  LimiterInv' /\ counted' = counted
  <2>1. /\ stage' \in [Workers -> {"out", "incr", "expire", "next"}]
        /\ window' \in [Workers -> Limiter!Windows \cup {NoWindow}]
        /\ \A v \in Workers : stage'[v] \in {"incr", "expire"} =>
             window'[v] \in Limiter!Windows
        /\ UNCHANGED <<minute, counter, ttl, counted, lapsed>>
    BY <1>1, <1>2, <1>6 DEF Limiter!LimiterFails, Limiter!Leave, Limiter!Proceed
  <2> QED
    BY <1>1, <1>3, <2>1 DEF LimiterInv, Limiter!LimiterTypeOK
<1>7. ASSUME Limiter!Tick PROVE LimiterInv' /\ counted' = counted
  <2>1. minute' \in 0 .. MaxMinute
    BY <1>1, <1>7 DEF Limiter!Tick
  <2> QED
    BY <1>1, <1>2, <1>3, <1>7, <2>1 DEF Limiter!Tick, LimiterInv, Limiter!LimiterTypeOK
<1>8. ASSUME NEW k \in Limiter!Windows, Limiter!Lapse(k)
      PROVE  LimiterInv' /\ counted' = counted
  <2>1. /\ counter' = [counter EXCEPT ![k] = 0]
        /\ ttl' = [ttl EXCEPT ![k] = Limiter!NoTtl]
        /\ lapsed' = lapsed \cup {k}
        /\ UNCHANGED <<minute, stage, window, counted>>
    BY <1>8 DEF Limiter!Lapse
  <2>2. /\ counter' \in [Limiter!Windows -> Nat]
        /\ ttl' \in [Limiter!Windows -> {Limiter!NoTtl} \cup 0 .. MaxMinute]
        /\ \A x \in Limiter!Windows : ttl'[x] # Limiter!NoTtl => counter'[x] > 0
    BY <1>1, <2>1
  <2>3. \A x \in Limiter!Windows :
          counter'[x] <= counted'[x] /\ (x \notin lapsed' => counter'[x] = counted'[x])
    BY <1>1, <1>3, <2>1
  <2> QED
    BY <1>1, <1>2, <2>1, <2>2, <2>3 DEF LimiterInv, Limiter!LimiterTypeOK
<1>9. CASE UNCHANGED limiterVars
  BY <1>1, <1>2, <1>3, <1>9 DEF limiterVars, LimiterInv, Limiter!LimiterTypeOK
<1> QED
  BY <1>4, <1>5, <1>6, <1>7, <1>8, <1>9
-----------------------------------------------------------------------------------
(* Creation behind the limiter.                                            *)

limitedVars == <<creationVars, limiterVars, calls>>

\* Nothing in the limiter touches what the handler works on.
LEMMA LimitedIsCreation == [LimitedNext]_limitedVars => [CreationNext]_creationVars
<1> SUFFICES ASSUME [LimitedNext]_limitedVars PROVE [CreationNext]_creationVars
  OBVIOUS
<1>1. ASSUME NEW w \in Workers, (\E a \in Addresses : Call(w, a)) \/ Count(w)
      PROVE  UNCHANGED creationVars
  BY <1>1 DEF Call, Count
<1>2. ASSUME NEW w \in Workers, Route(w) PROVE CreationNext
  BY <1>2 DEF Route, CreationNext
<1>3. CASE Background
  BY <1>3 DEF Background, CreationNext
<1>4. CASE UNCHANGED limitedVars
  BY <1>4 DEF limitedVars
<1> QED
  BY <1>1, <1>2, <1>3, <1>4 DEF LimitedNext

\* A step of the system is INCR of one request, or one that counts nothing.
LEMMA LimitedIsLimiter ==
  ASSUME [LimitedNext]_limitedVars
  PROVE  \/ \E w \in Workers : Limiter!Incr(w)
         \/ \E w \in Workers : \/ \E a \in Addresses : Limiter!Arrive(w, a)
                              \/ Limiter!SetExpire(w) \/ Limiter!LimiterFails(w)
                              \/ Limiter!Leave(w)
         \/ Limiter!Tick \/ \E k \in Limiter!Windows : Limiter!Lapse(k)
         \/ UNCHANGED limiterVars
<1>1. ASSUME NEW w \in Workers, Route(w) PROVE Limiter!Leave(w) \/ UNCHANGED limiterVars
  BY <1>1 DEF Route
<1>2. CASE UNCHANGED limitedVars
  BY <1>2 DEF limitedVars
<1> QED
  BY <1>1, <1>2 DEF LimitedNext, Call, Count, Background

\* The inductive invariant of the composition: a handler runs only inside of the
\* limiter.
LimitedInv ==
  /\ LimiterInv
  /\ calls \in 0 .. MaxCalls
  /\ \A w \in Workers : pc[w] \notin Answered => stage[w] = "next"

LEMMA LimitedInvInit == LimitedInit => LimitedInv
<1> SUFFICES ASSUME LimitedInit PROVE LimitedInv
  OBVIOUS
<1>1. calls \in 0 .. MaxCalls
  BY LimitAssumption DEF LimitedInit
<1>2. \A w \in Workers : pc[w] \in Answered
  BY DEF LimitedInit, CreationInit
<1> QED
  BY <1>1, <1>2, LimiterInvInit DEF LimitedInv

\* A route changes the point of one request only.
LEMMA RouteMovesOne ==
  ASSUME TypeOK, NEW w \in Workers, Route(w)
  PROVE  \A v \in Workers \ {w} : pc'[v] = pc[v]
<1>1. PICK point : pc' = [pc EXCEPT ![w] = point]
  BY DEF Route, LookUp, Handler, InsertRide, StoreResponse, Commit, Abort, Goto, Answer
<1> QED
  BY <1>1 DEF TypeOK

LEMMA LimitedStep ==
  ASSUME LimitedInv, TypeOK, [LimitedNext]_limitedVars
  PROVE  LimitedInv'
<1>1. LimiterInv'
  BY LimitedIsLimiter, IncrStep, OtherLimiterStep DEF LimitedInv
<1>2. calls' \in 0 .. MaxCalls
  <2>1. calls' = calls \/ (calls < MaxCalls /\ calls' = calls + 1)
    BY DEF LimitedNext, Call, Count, Route, Background, limitedVars
  <2> QED
    BY <2>1, LimitAssumption DEF LimitedInv
<1>3. stage \in [Workers -> {"out", "incr", "expire", "next"}]
  BY DEF LimitedInv, LimiterInv, Limiter!LimiterTypeOK
<1>4. \A w \in Workers : pc'[w] \notin Answered => stage'[w] = "next"
  <2>1. ASSUME NEW w \in Workers, (\E a \in Addresses : Call(w, a)) \/ Count(w)
        PROVE  pc' = pc /\ stage[w] # "next" /\ \A v \in Workers \ {w} : stage'[v] = stage[v]
    BY <1>3, <2>1
    DEF Call, Count, creationVars, Limiter!Arrive, Limiter!Incr, Limiter!SetExpire,
        Limiter!LimiterFails, Limiter!Proceed
  <2>2. ASSUME NEW w \in Workers, Route(w)
        PROVE  /\ pc'[w] \notin Answered => stage'[w] = "next"
               /\ \A v \in Workers \ {w} : stage'[v] = stage[v] /\ pc'[v] = pc[v]
    <3>1. \A v \in Workers \ {w} : pc'[v] = pc[v]
      BY <2>2, RouteMovesOne
    <3> QED
      BY <1>3, <2>2, <3>1 DEF Route, Limiter!Leave, limiterVars
  <2>3. CASE Background \/ UNCHANGED limitedVars
    BY <2>3
    DEF Background, limitedVars, creationVars, limiterVars, CleanUp, Limiter!Tick,
        Limiter!Lapse, LimitedInv
  <2>4. CASE \E w \in Workers : (\E a \in Addresses : Call(w, a)) \/ Count(w)
    BY <2>1, <2>4 DEF LimitedInv
  <2>5. CASE \E w \in Workers : Route(w)
    BY <2>2, <2>5 DEF LimitedInv
  <2> QED
    BY <2>3, <2>4, <2>5 DEF LimitedNext
<1> QED
  BY <1>1, <1>2, <1>4 DEF LimitedInv

\* Behind the limiter, the handler is the one that the theorems above are about: a
\* request that is turned away, or whose middleware fails, is one that never came.
THEOREM LimitedImplementsCreation == LimitedSpec => CreationSpec
<1>1. LimitedInit => CreationInit
  BY DEF LimitedInit
<1> QED
  BY <1>1, LimitedIsCreation, PTL DEF LimitedSpec, CreationSpec, limitedVars

\* Behind the limiter, two rides have one key only if a stored response was cleaned up
\* between them.
THEOREM LimitedNoDuplicates == LimitedSpec => []OneRidePerKey
BY LimitedImplementsCreation, NoDuplicates

\* Behind the limiter, no one is answered 201 about a ride that does not exist or is
\* another request's.
THEOREM LimitedAnswersTell == LimitedSpec => []AnswersAreRides
BY LimitedImplementsCreation, AnswersTell

\* The handler with its limiter implements the book: a request that is turned away, or
\* that Redis fails, leaves it as it was.
THEOREM LimitedImplementsBook == LimitedSpec => ImplementsBook
BY LimitedImplementsCreation, CreationImplements

\* Behind the limiter, what the handler stores and answers stays in step.
THEOREM LimitedCreationInvariance == LimitedSpec => []CreationInv
BY LimitedImplementsCreation, CreationInvariance

\* The limiter and the handler keep their inductive invariant.
THEOREM LimitedInvariance == LimitedSpec => []LimitedInv
<1>1. LimitedInv /\ TypeOK /\ [LimitedNext]_limitedVars => LimitedInv'
  BY LimitedStep
<1> QED
  BY <1>1, LimitedInvInit, LimitedImplementsCreation, CreationTypes, PTL
  DEF LimitedSpec, limitedVars

\* Both components are well typed, and a handler runs only inside of the limiter.
THEOREM LimitedTypes == LimitedSpec => []LimitedTypeOK
<1>1. LimitedInv /\ TypeOK => LimitedTypeOK
  BY DEF LimitedInv, LimiterInv, LimitedTypeOK
<1> QED
  BY <1>1, LimitedInvariance, LimitedImplementsCreation, CreationTypes, PTL

\* The limiter lets the first Limit requests of a window through and no others, for any
\* number of requests, whatever fails between INCR and EXPIRE.  Limit > 0 is what the
\* settings say.
THEOREM FirstAdmitted ==
  ASSUME Limit > 0
  PROVE  LimitedSpec => AdmitsTheFirst
<1> DEFINE A == \A w \in Workers :
             stage[w] = "incr" /\ stage'[w] # "incr" /\ counted' # counted =>
               IF stage'[w] = "out" THEN counted[window[w]] >= Limit
               ELSE counted[window[w]] < Limit \/ window[w] \in lapsed
<1>1. LimitedInv /\ [LimitedNext]_limitedVars => [A]_(Limiter!limiterVars)
  BY LimitedIsLimiter, IncrStep, OtherLimiterStep DEF LimitedInv
<1> HIDE DEF A
<1>2. [][A]_(Limiter!limiterVars) => AdmitsTheFirst
  BY PTL DEF A, AdmitsTheFirst, Limiter!AdmitsTheFirst
<1> QED
  BY <1>1, <1>2, LimitedInvariance, PTL DEF LimitedSpec, limitedVars
===================================================================================
