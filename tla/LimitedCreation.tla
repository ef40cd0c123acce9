----------------------------- MODULE LimitedCreation -----------------------------
(***************************************************************************)
(* POST /rides behind the rate limiter: RideCreation composed with         *)
(* RateLimiter.  A worker is a request from its arrival in the middleware  *)
(* to its answer; one that is turned away, or whose middleware fails,      *)
(* never reaches the handler, and is sent again or not.                    *)
(***************************************************************************)
EXTENDS RideCreation

CONSTANTS
  Addresses,    \* request.client.host
  NoWindow,     \* a worker whose request is not being counted
  Limit,        \* rate_limit_per_minute
  MaxMinute,    \* bound: the clock of the limiter stops
  MaxCalls      \* bound: requests in all

ASSUME LimitAssumption ==
  /\ Limit \in Nat
  /\ MaxMinute \in Nat
  /\ MaxCalls \in Nat

VARIABLES
  minute, stage, window, counter, ttl, counted, lapsed,    \* of RateLimiter
  calls                                                    \* requests so far

Limiter == INSTANCE RateLimiter

limiterVars == <<minute, stage, window, counter, ttl, counted, lapsed>>
-----------------------------------------------------------------------------------
LimitedInit ==
  /\ CreationInit
  /\ Limiter!LimiterInit
  /\ calls = 0

Call(w, a) ==
  /\ calls < MaxCalls
  /\ calls' = calls + 1
  /\ Limiter!Arrive(w, a)
  /\ UNCHANGED creationVars

\* The middleware on its own: the request is counted, turned away, or fails.
Count(w) ==
  /\ Limiter!Incr(w) \/ Limiter!SetExpire(w) \/ Limiter!LimiterFails(w)
  /\ UNCHANGED <<creationVars, calls>>

\* A step of the route that the middleware has called; call_next returns with its
\* answer.
Route(w) ==
  /\ stage[w] = "next"
  /\ \/ \E k \in Keys \cup {NoKey}, b \in Bodies : LookUp(w, k, b)
     \/ Handler(w)
     \/ Abort(w)
  /\ IF pc'[w] \in Answered THEN Limiter!Leave(w) ELSE UNCHANGED limiterVars
  /\ UNCHANGED calls

Background ==
  \/ /\ \E old \in SUBSET Keys : CleanUp(old)
     /\ UNCHANGED <<limiterVars, calls>>
  \/ /\ Limiter!Tick \/ \E k \in Limiter!Windows : Limiter!Lapse(k)
     /\ UNCHANGED <<creationVars, calls>>

LimitedNext ==
  \/ \E w \in Workers : (\E a \in Addresses : Call(w, a)) \/ Count(w) \/ Route(w)
  \/ Background

LimitedSpec == LimitedInit /\ [][LimitedNext]_<<creationVars, limiterVars, calls>>
-----------------------------------------------------------------------------------
\* Both components are well typed, and a handler runs only inside of the limiter.
LimitedTypeOK ==
  /\ TypeOK
  /\ Limiter!LimiterTypeOK
  /\ calls \in 0 .. MaxCalls
  /\ \A w \in Workers : pc[w] \notin Answered => stage[w] = "next"

\* The limiter lets the first Limit requests of a window through, and no others,
\* whatever has failed in this window or before.
AdmitsTheFirst == Limiter!AdmitsTheFirst
===================================================================================
