------------------------------- MODULE DriverPool -------------------------------
(***************************************************************************)
(* Who can be matched: the drivers' requests (heartbeat, availability,     *)
(* own profile), the eviction job, table driver_profiles and the Redis GEO *)
(* set that matching searches.                                             *)
(*                                                                         *)
(* A request reads the profile, changes the pool, and commits the columns  *)
(* whose value it changed; the eviction job reads the stale profiles,      *)
(* removes each from the pool, and commits is_available = false for all.   *)
(* Neither locks what it has read, and Redis takes no part in a rollback.  *)
(*                                                                         *)
(* Positions are abstracted to whether there is one (located), times to    *)
(* whether last_heartbeat_at is recent enough for the job (fresh).         *)
(***************************************************************************)
EXTENDS Integers, FiniteSets

CONSTANTS
  Drivers,     \* ids of the users whose role is "driver"
  Workers,     \* drivers' requests that can be in progress at once
  MaxFailures, \* bound: sweeps that fail
  NoProfile,   \* the driver has no row in driver_profiles
  NoSession    \* a worker between two requests

Profile == [is_available : BOOLEAN, located : BOOLEAN, fresh : BOOLEAN]

Kinds == {"heartbeat", "available", "unavailable", "me"}

Session ==
  [driver : Drivers, kind : Kinds, read : Profile \cup {NoProfile}, created : BOOLEAN]

ASSUME PoolAssumption ==
  /\ NoProfile \notin Profile
  /\ NoSession \notin Session
  /\ MaxFailures \in Nat

VARIABLES
  profile,   \* Postgres: the committed profiles
  geo,       \* Redis: drivers:geo
  pc,        \* pc[w]: the next await of request w, or its answer
  session,   \* session[w]: its driver, kind, and the profile as it read it
  victims,   \* the drivers a sweep has selected and not yet removed
  swept,     \* the drivers it has removed
  sweeping,  \* a sweep is in progress
  failures   \* the sweeps that have failed

jobVars == <<victims, swept, sweeping, failures>>
vars == <<profile, geo, pc, session, jobVars>>

Answered == {"idle", "200", "400", "500"}

\* DriverProfile(user_id=...): the column defaults.
NewProfile == [is_available |-> FALSE, located |-> FALSE, fresh |-> FALSE]

Init ==
  /\ profile = [d \in Drivers |-> NoProfile]
  /\ geo = {}
  /\ pc = [w \in Workers |-> "idle"]
  /\ session = [w \in Workers |-> NoSession]
  /\ victims = {}
  /\ swept = {}
  /\ sweeping = FALSE
  /\ failures = 0
-----------------------------------------------------------------------------------
(* The requests.                                                           *)

MutantAfterRead(kind, p) ==
  IF kind = "available" \/ (kind = "heartbeat" /\ p.is_available) THEN "geoadd"
  ELSE IF kind = "unavailable" THEN "zrem"
  ELSE "commit"

\* Where a handler goes with the profile it has got.
AfterRead(kind, p) ==
  IF kind = "available" /\ ~p.located THEN "400"
  ELSE IF kind = "available" \/ (kind = "heartbeat" /\ p.is_available) THEN "geoadd"
  ELSE IF kind = "unavailable" THEN "zrem"
  ELSE "commit"

Move(w, point, s) ==
  /\ pc' = [pc EXCEPT ![w] = point]
  /\ session' = [session EXCEPT ![w] = IF point \in Answered THEN NoSession ELSE s]

\* _get_or_create_profile reads the row.
ReadProfile(w, d, kind) ==
  LET s == [driver |-> d, kind |-> kind, read |-> profile[d], created |-> FALSE] IN
  /\ pc[w] \in Answered
  /\ Move(w, IF profile[d] = NoProfile THEN "insert" ELSE AfterRead(kind, profile[d]), s)
  /\ UNCHANGED <<profile, geo, jobVars>>

\* Another transaction has inserted the row of d and is not over.
Inserting(d) ==
  \E v \in Workers : session[v] # NoSession /\ session[v].driver = d /\ session[v].created

MutantExists(d) == FALSE

\* A committed row has this user_id.
Exists(d) == profile[d] # NoProfile

MutantInserted(s) == [s EXCEPT !.read = NewProfile]

\* The session holds a new profile and its uncommitted row.
Inserted(s) == [s EXCEPT !.read = NewProfile, !.created = TRUE]

\* There was none: the flush inserts it.  It waits for another transaction that
\* inserted it, and fails on the unique user_id once that one has committed.
InsertProfile(w) ==
  LET s == session[w] IN
  /\ pc[w] = "insert"
  /\ ~Inserting(s.driver)
  /\ IF Exists(s.driver)
     THEN Move(w, "500", s)
     ELSE Move(w, AfterRead(s.kind, NewProfile), Inserted(s))
  /\ UNCHANGED <<profile, geo, jobVars>>

\* upsert_driver_location.
GeoAdd(w) ==
  /\ pc[w] = "geoadd"
  /\ geo' = geo \cup {session[w].driver}
  /\ Move(w, "commit", session[w])
  /\ UNCHANGED <<profile, jobVars>>

\* remove_driver_from_pool.
GeoRemove(w) ==
  /\ pc[w] = "zrem"
  /\ geo' = geo \ {session[w].driver}
  /\ Move(w, "commit", session[w])
  /\ UNCHANGED <<profile, jobVars>>

\* The columns the UPDATE of the commit sets in row p: only those whose value
\* differs from the one that was read.
Flushed(s, p) ==
  [is_available |-> /\ \/ p.is_available
                       \/ s.kind = "available" /\ ~s.read.is_available
                    /\ ~(s.kind = "unavailable" /\ s.read.is_available),
   located |-> p.located \/ s.kind = "heartbeat",
   fresh   |-> p.fresh \/ s.kind = "heartbeat"]

Commit(w) ==
  LET s == session[w] IN
  /\ pc[w] = "commit"
  /\ profile' = [profile EXCEPT ![s.driver] =
                   Flushed(s, IF s.created THEN s.read ELSE @)]
  /\ Move(w, "200", s)
  /\ UNCHANGED <<geo, jobVars>>

\* A failure rolls the transaction back; the pool stays as it is.
Abort(w) ==
  /\ pc[w] \notin Answered
  /\ Move(w, "500", session[w])
  /\ UNCHANGED <<profile, geo, jobVars>>
-----------------------------------------------------------------------------------
(* The eviction job.                                                       *)

\* A driver that should have been made unavailable.
Stale(d) == profile[d] # NoProfile /\ profile[d].is_available /\ ~profile[d].fresh

MutantStaleDrivers ==
  {d \in Drivers : profile[d] # NoProfile /\ profile[d].is_available /\ profile[d].fresh}

\* WHERE is_available AND last_heartbeat_at < cutoff.
StaleDrivers == {d \in Drivers : Stale(d)}

SweepSelect ==
  /\ ~sweeping
  /\ sweeping' = TRUE
  /\ victims' = StaleDrivers
  /\ swept' = {}
  /\ UNCHANGED <<profile, geo, pc, session, failures>>

SweepRemove(d) ==
  /\ d \in victims
  /\ geo' = geo \ {d}
  /\ victims' = victims \ {d}
  /\ swept' = swept \cup {d}
  /\ UNCHANGED <<profile, pc, session, sweeping, failures>>

EndSweep == sweeping' = FALSE /\ victims' = {} /\ swept' = {}

SweepCommit ==
  /\ sweeping
  /\ victims = {}
  /\ profile' = [d \in Drivers |->
       IF d \in swept THEN [profile[d] EXCEPT !.is_available = FALSE] ELSE profile[d]]
  /\ EndSweep
  /\ UNCHANGED <<geo, pc, session, failures>>

SweepFail ==
  /\ sweeping
  /\ failures < MaxFailures
  /\ failures' = failures + 1
  /\ EndSweep
  /\ UNCHANGED <<profile, geo, pc, session>>

\* Time passes, and the last heartbeat of d is no longer recent.
Age(d) ==
  /\ profile[d] # NoProfile
  /\ profile[d].fresh
  /\ profile' = [profile EXCEPT ![d].fresh = FALSE]
  /\ UNCHANGED <<geo, pc, session, jobVars>>
-----------------------------------------------------------------------------------
Handler(w) == InsertProfile(w) \/ GeoAdd(w) \/ GeoRemove(w) \/ Commit(w)

Sweep == SweepSelect \/ (\E d \in Drivers : SweepRemove(d)) \/ SweepCommit

Next ==
  \/ \E w \in Workers :
       \/ \E d \in Drivers, kind \in Kinds : ReadProfile(w, d, kind)
       \/ Handler(w)
       \/ Abort(w)
  \/ Sweep
  \/ SweepFail
  \/ \E d \in Drivers : Age(d)

Spec == Init /\ [][Next]_vars

\* Handlers go on, beat schedules the job for ever, and failures end.
FairSpec ==
  /\ Spec
  /\ \A w \in Workers : WF_vars(Handler(w))
  /\ WF_vars(Sweep)
-----------------------------------------------------------------------------------
\* Rows, sessions and the job's lists have their types, and whoever is beyond the
\* read has a profile to write to.
TypeOK ==
  /\ profile \in [Drivers -> Profile \cup {NoProfile}]
  /\ geo \in SUBSET Drivers
  /\ pc \in [Workers -> Answered \cup {"insert", "geoadd", "zrem", "commit"}]
  /\ session \in [Workers -> Session \cup {NoSession}]
  /\ victims \in SUBSET Drivers
  /\ swept \in SUBSET Drivers
  /\ sweeping \in BOOLEAN
  /\ failures \in 0 .. MaxFailures
  /\ \A w \in Workers : pc[w] \in {"geoadd", "zrem", "commit"} =>
       session[w].created \/ profile[session[w].driver] # NoProfile

\* Whoever is in the pool, or about to be put there, has a committed profile with
\* a position, although the pool is changed before anything is committed.
PoolMembersAreLocated ==
  \A d \in Drivers :
    d \in geo \/ (\E w \in Workers : pc[w] = "geoadd" /\ session[w].driver = d)
      => profile[d] # NoProfile /\ profile[d].located

\* What a driver has sent is never undone: no request that found no profile
\* replaces the one another request has created in the meantime.
LocationIsKept ==
  [][\A d \in Drivers : profile[d] # NoProfile =>
       /\ profile'[d] # NoProfile
       /\ profile[d].located => profile'[d].located]_profile

\* The job does its duty in Postgres: a driver whose heartbeat stays stale does
\* not stay available.
StaleDriversBecomeUnavailable ==
  \A d \in Drivers : Stale(d) ~> ~Stale(d)
-----------------------------------------------------------------------------------
(* Statements of the documentation that the code does not meet.            *)

\* "removes drivers from the Redis GEO matching pool if they haven't sent a
\* heartbeat recently".
StaleDriversLeaveThePool ==
  \A d \in Drivers :
    (d \in geo /\ profile[d] # NoProfile /\ ~profile[d].fresh)
      ~> (d \notin geo \/ profile[d].fresh)
===================================================================================
