------------------------------- MODULE RateLimiter -------------------------------
(***************************************************************************)
(* RateLimitMiddleware: what a request goes through before its route is    *)
(* called.  INCR and EXPIRE are two calls to Redis, and the minute of a    *)
(* request is read before either of them.                                  *)
(*                                                                         *)
(* Time is counted in minutes.  EXPIRE gives a counter 60 seconds, hence   *)
(* the counter may go at any time of a later minute.                       *)
(*                                                                         *)
(* LimitedCreation instantiates this and adds the route.  Paths under      *)
(* /health are not limited and do not come here.                           *)
(***************************************************************************)
EXTENDS Integers

CONSTANTS
  Workers,      \* requests that can be in progress at once
  Addresses,    \* request.client.host
  NoWindow,     \* a worker that dispatch is not counting
  Limit,        \* rate_limit_per_minute
  MaxMinute     \* bound: the clock stops

VARIABLES
  minute,       \* int(time.time() // 60)
  stage,        \* stage[w]: the next call of dispatch
  window,       \* window[w]: the address and the minute of the request
  counter,      \* Redis: the counters, 0 for a key that does not exist
  ttl,          \* Redis: the keys that have a time to live, each with the minute of
                \* its EXPIRE
  counted,      \* history: how many requests of a window were counted
  lapsed        \* history: the windows of which a counter has expired

limiterVars == <<minute, stage, window, counter, ttl, counted, lapsed>>
-----------------------------------------------------------------------------------
Windows == Addresses \X (0 .. MaxMinute)

NoTtl == -1

MutantKey(x) == <<x[1], 0>>

\* f"ratelimit:{client_ip}:{window}".
Key(x) == <<x[1], x[2]>>

Current(w) == Key(window[w])

Exceeds(n) == n > Limit

\* The request of w has been counted, or has failed.
Proceed(w, point) ==
  /\ stage' = [stage EXCEPT ![w] = point]
  /\ window' = [window EXCEPT ![w] = NoWindow]

LimiterInit ==
  /\ minute = 0
  /\ stage = [w \in Workers |-> "out"]
  /\ window = [w \in Workers |-> NoWindow]
  /\ counter = [k \in Windows |-> 0]
  /\ ttl = [k \in Windows |-> NoTtl]
  /\ counted = [x \in Windows |-> 0]
  /\ lapsed = {}

\* A request arrives, and its window is determined.
Arrive(w, a) ==
  /\ stage[w] = "out"
  /\ stage' = [stage EXCEPT ![w] = "incr"]
  /\ window' = [window EXCEPT ![w] = <<a, minute>>]
  /\ UNCHANGED <<minute, counter, ttl, counted, lapsed>>

\* INCR, which sets the window's counter to 1 if there is none.  The first request
\* goes on to EXPIRE, one too many is answered 429, the others go on to their route.
Incr(w) ==
  LET n == counter[Current(w)] + 1 IN
  /\ stage[w] = "incr"
  /\ counter' = [counter EXCEPT ![Current(w)] = n]
  /\ counted' = [counted EXCEPT ![window[w]] = @ + 1]
  /\ \/ n = 1 /\ stage' = [stage EXCEPT ![w] = "expire"] /\ UNCHANGED window
     \/ n > 1 /\ Exceeds(n) /\ Proceed(w, "out")
     \/ n > 1 /\ ~Exceeds(n) /\ Proceed(w, "next")
  /\ UNCHANGED <<minute, ttl, lapsed>>

\* EXPIRE, without effect on a key that is gone.
SetExpire(w) ==
  /\ stage[w] = "expire"
  /\ ttl' = [ttl EXCEPT ![Current(w)] = IF counter[Current(w)] = 0 THEN @ ELSE minute]
  /\ Proceed(w, IF Exceeds(1) THEN "out" ELSE "next")
  /\ UNCHANGED <<minute, counter, counted, lapsed>>

\* Redis fails or the process dies, before either call or between the two.
LimiterFails(w) ==
  /\ stage[w] \in {"incr", "expire"}
  /\ Proceed(w, "out")
  /\ UNCHANGED <<minute, counter, ttl, counted, lapsed>>

\* call_next has returned.
Leave(w) ==
  /\ stage[w] = "next"
  /\ stage' = [stage EXCEPT ![w] = "out"]
  /\ UNCHANGED <<minute, window, counter, ttl, counted, lapsed>>

Tick ==
  /\ minute < MaxMinute
  /\ minute' = minute + 1
  /\ UNCHANGED <<stage, window, counter, ttl, counted, lapsed>>

\* Redis removes a counter whose time is over.
Lapse(k) ==
  /\ ttl[k] \in 0 .. minute - 1
  /\ counter' = [counter EXCEPT ![k] = 0]
  /\ ttl' = [ttl EXCEPT ![k] = NoTtl]
  /\ lapsed' = lapsed \cup {k}
  /\ UNCHANGED <<minute, stage, window, counted>>
-----------------------------------------------------------------------------------
\* Counters count, and only a counter that exists has a time to live.
LimiterTypeOK ==
  /\ minute \in 0 .. MaxMinute
  /\ stage \in [Workers -> {"out", "incr", "expire", "next"}]
  /\ window \in [Workers -> Windows \cup {NoWindow}]
  /\ counter \in [Windows -> Nat]
  /\ ttl \in [Windows -> {NoTtl} \cup 0 .. MaxMinute]
  /\ counted \in [Windows -> Nat]
  /\ lapsed \subseteq Windows
  /\ \A k \in Windows : ttl[k] # NoTtl => counter[k] > 0

\* A request is let through only as one of the first Limit of its window, for as
\* long as the counter of the window has not expired, and is turned away only when
\* Limit others of its window came before it: a counter that was left behind by a
\* failure between INCR and EXPIRE never turns away requests of later minutes.
AdmitsTheFirst ==
  [][\A w \in Workers :
       stage[w] = "incr" /\ stage'[w] # "incr" /\ counted' # counted =>
         IF stage'[w] = "out" THEN counted[window[w]] >= Limit
         ELSE counted[window[w]] < Limit \/ window[w] \in lapsed]_limiterVars
===================================================================================
