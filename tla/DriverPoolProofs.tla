----------------------------- MODULE DriverPoolProofs -----------------------------
(***************************************************************************)
(* Proofs about DriverPool, for any number of drivers and of requests that *)
(* overlap: the pool holds drivers with a committed position, and what a   *)
(* driver has sent is not undone.                                          *)
(***************************************************************************)
EXTENDS DriverPool, TLAPS

-----------------------------------------------------------------------------------
(* The inductive invariant.                                                *)

Points == {"insert", "geoadd", "zrem", "commit"}

\* Only a driver with a position is available.
AvailableAreLocated ==
  \A d \in Drivers : profile[d] # NoProfile /\ profile[d].is_available => profile[d].located

\* A request in progress has a session.  If it has inserted the profile, nobody else
\* has, and it does not touch the pool with it; otherwise there is a profile.  Whoever
\* was let through as available has a position.
InPlace(w) ==
  pc[w] \notin Answered =>
    LET s == session[w] IN
    /\ s \in Session
    /\ pc[w] = "insert" => ~s.created
    /\ s.created => /\ s.read = NewProfile /\ s.kind # "available"
                    /\ pc[w] # "geoadd" /\ profile[s.driver] = NoProfile
    /\ pc[w] # "insert" /\ ~s.created => profile[s.driver] # NoProfile
    /\ pc[w] # "insert" /\ s.kind = "available" =>
         profile[s.driver] # NoProfile /\ profile[s.driver].located

Created(w) == pc[w] \notin Answered /\ session[w].created

\* One transaction at a time inserts the profile of a driver.
CreatedAlone ==
  \A v, w \in Workers : Created(v) /\ Created(w) /\ v # w =>
    session[v].driver # session[w].driver

\* The job's lists are of drivers that have a profile.
SweptExist == \A d \in victims \cup swept : profile[d] # NoProfile

PoolInv ==
  /\ TypeOK
  /\ PoolMembersAreLocated
  /\ AvailableAreLocated
  /\ \A w \in Workers : InPlace(w)
  /\ CreatedAlone
  /\ SweptExist
-----------------------------------------------------------------------------------
Others(w) ==
  \A v \in Workers \ {w} : pc'[v] = pc[v] /\ session'[v] = session[v]

\* The sessions and points of all requests have their types.
Typed ==
  /\ pc \in [Workers -> Answered \cup Points]
  /\ session \in [Workers -> Session \cup {NoSession}]

LEMMA MoveMoves ==
  ASSUME TypeOK, NEW w \in Workers, NEW point \in Answered \cup Points,
         NEW s \in Session, Move(w, point, s)
  PROVE  /\ pc'[w] = point /\ Others(w) /\ Typed'
         /\ point \notin Answered => session'[w] = s
<1>1. pc'[w] = point /\ Others(w)
  BY DEF Move, TypeOK, Others
<1>2. session'[w] = IF point \in Answered THEN NoSession ELSE s
  BY DEF Move, TypeOK
<1>3. Typed'
  BY DEF Move, TypeOK, Typed, Points
<1> QED
  BY <1>1, <1>2, <1>3

\* Where a request goes with a profile.
LEMMA AfterReadCases ==
  ASSUME NEW kind \in Kinds, NEW p
  PROVE  LET point == AfterRead(kind, p) IN
         /\ point \in {"400", "geoadd", "zrem", "commit"}
         /\ point = "geoadd" => p.located \/ (kind = "heartbeat" /\ p.is_available)
         /\ kind = "available" /\ point # "400" => p.located
BY DEF AfterRead, Kinds

LEMMA NewProfileType ==
  /\ NewProfile \in Profile /\ ~NewProfile.is_available /\ ~NewProfile.located
  /\ NewProfile # NoProfile
<1>1. NewProfile \in Profile /\ ~NewProfile.is_available /\ ~NewProfile.located
  BY DEF NewProfile, Profile
<1> QED
  BY <1>1, PoolAssumption
-----------------------------------------------------------------------------------
(* Steps that write no profile.                                            *)

LEMMA UncommittedStep ==
  ASSUME PoolInv, NEW w \in Workers, Others(w), Typed', UNCHANGED <<profile, jobVars>>,
         InPlace(w)',
         Created(w)' => \A v \in Workers \ {w} : Created(v) =>
                          session[v].driver # session'[w].driver,
         pc'[w] = "geoadd" => /\ profile[session'[w].driver] # NoProfile
                              /\ profile[session'[w].driver].located,
         geo' \in SUBSET Drivers,
         \A d \in geo' \ geo : profile[d] # NoProfile /\ profile[d].located
  PROVE  PoolInv'
<1>1. \A v \in Workers : InPlace(v)'
  BY DEF PoolInv, InPlace, Others
<1>2. CreatedAlone'
  BY DEF PoolInv, CreatedAlone, Created, Others
<1>3. PoolMembersAreLocated'
  <2>1. ASSUME NEW v \in Workers, pc'[v] = "geoadd"
        PROVE  /\ profile[session'[v].driver] # NoProfile
               /\ profile[session'[v].driver].located
    <3>1. CASE v = w
      BY <2>1, <3>1
    <3>2. CASE v # w
      <4>1. pc[v] = "geoadd" /\ session'[v] = session[v]
        BY <2>1, <3>2 DEF Others
      <4>2. session[v] \in Session
        BY <4>1 DEF PoolInv, InPlace, Answered
      <4>3. session[v].driver \in Drivers
        BY <4>2 DEF Session
      <4> QED
        BY <4>1, <4>3 DEF PoolInv, PoolMembersAreLocated
    <3> QED
      BY <3>1, <3>2
  <2>2. ASSUME NEW d \in geo' PROVE profile[d] # NoProfile /\ profile[d].located
    BY <2>2 DEF PoolInv, PoolMembersAreLocated
  <2> QED
    BY <2>1, <2>2 DEF PoolMembersAreLocated
<1>4. TypeOK'
  <2>1. \A v \in Workers : pc'[v] \in {"geoadd", "zrem", "commit"} =>
          session'[v].created \/ profile[session'[v].driver] # NoProfile
    BY <1>1 DEF InPlace, Answered
  <2> QED
    BY <2>1 DEF PoolInv, TypeOK, Typed, Points, jobVars
<1>5. AvailableAreLocated' /\ SweptExist'
  BY DEF PoolInv, AvailableAreLocated, SweptExist, jobVars
<1> QED
  BY <1>1, <1>2, <1>3, <1>4, <1>5 DEF PoolInv

LEMMA ReadProfileStep ==
  ASSUME PoolInv, NEW w \in Workers, NEW d \in Drivers, NEW kind \in Kinds,
         ReadProfile(w, d, kind)
  PROVE  PoolInv'
<1> DEFINE s == [driver |-> d, kind |-> kind, read |-> profile[d], created |-> FALSE]
           point == IF profile[d] = NoProfile THEN "insert" ELSE AfterRead(kind, profile[d])
<1>1. Move(w, point, s) /\ UNCHANGED <<profile, geo, jobVars>>
  BY DEF ReadProfile
<1>2. TypeOK /\ profile[d] \in Profile \cup {NoProfile} /\ geo \in SUBSET Drivers
  BY DEF PoolInv, TypeOK
<1>3. /\ s \in Session /\ s.driver = d /\ s.kind = kind /\ ~s.created
  BY <1>2 DEF Session
<1>4. /\ point \in Answered \cup Points
      /\ point # "insert" /\ point \notin Answered => profile[d] # NoProfile
      /\ point = "geoadd" =>
           profile[d].located \/ (kind = "heartbeat" /\ profile[d].is_available)
      /\ point \notin {"insert", "400"} /\ kind = "available" => profile[d].located
  BY AfterReadCases DEF Answered, Points
<1>5. point = "geoadd" => profile[d] # NoProfile /\ profile[d].located
  BY <1>4 DEF PoolInv, AvailableAreLocated, Answered
<1> HIDE DEF s, point
<1>6. /\ pc'[w] = point /\ Others(w) /\ Typed'
      /\ point \notin Answered => session'[w] = s
  BY <1>1, <1>2, <1>3, <1>4, MoveMoves
<1>7. InPlace(w)'
  BY <1>1, <1>3, <1>4, <1>6 DEF InPlace, Answered
<1>8. ~Created(w)'
  BY <1>3, <1>6 DEF Created
<1>9. pc'[w] = "geoadd" => /\ profile[session'[w].driver] # NoProfile
                           /\ profile[session'[w].driver].located
  BY <1>3, <1>5, <1>6 DEF Answered
<1> QED
  BY <1>1, <1>2, <1>6, <1>7, <1>8, <1>9, UncommittedStep

LEMMA InsertProfileStep ==
  ASSUME PoolInv, NEW w \in Workers, InsertProfile(w)
  PROVE  PoolInv'
<1> DEFINE s == session[w]
<1>1. /\ pc[w] = "insert" /\ ~Inserting(s.driver) /\ UNCHANGED <<profile, geo, jobVars>>
      /\ IF Exists(s.driver) THEN Move(w, "500", s)
         ELSE Move(w, AfterRead(s.kind, NewProfile), Inserted(s))
  BY DEF InsertProfile
<1>2. /\ TypeOK /\ s \in Session /\ ~s.created /\ geo \in SUBSET Drivers
  BY <1>1 DEF PoolInv, InPlace, TypeOK, Answered
<1>3. CASE Exists(s.driver)
  <2>1. pc'[w] = "500" /\ Others(w) /\ Typed'
    BY <1>1, <1>2, <1>3, MoveMoves DEF Answered
  <2>2. InPlace(w)' /\ ~Created(w)' /\ pc'[w] # "geoadd"
    BY <2>1 DEF InPlace, Created, Answered
  <2> QED
    BY <1>1, <1>2, <2>1, <2>2, UncommittedStep
<1>4. CASE ~Exists(s.driver)
  <2> DEFINE n == Inserted(s)
             point == AfterRead(s.kind, NewProfile)
  <2>1. n \in Session /\ n.driver = s.driver /\ n.kind = s.kind /\ n.created
        /\ n.read = NewProfile
    BY <1>2, NewProfileType DEF Inserted, Session
  <2>2. Move(w, point, n)
    BY <1>1, <1>4
  <2>3. s.kind \in Kinds
    BY <1>2 DEF Session
  <2>4. /\ point \in {"400", "zrem", "commit"}
        /\ s.kind = "available" => point = "400"
    BY <2>3, AfterReadCases, NewProfileType
  <2>5. profile[s.driver] = NoProfile
    BY <1>4 DEF Exists
  <2> HIDE DEF n, point
  <2>6. /\ pc'[w] = point /\ Others(w) /\ Typed'
        /\ point \notin Answered => session'[w] = n
    BY <1>2, <2>1, <2>2, <2>4, MoveMoves DEF Answered, Points
  <2>7. InPlace(w)'
    BY <1>1, <2>1, <2>4, <2>5, <2>6 DEF InPlace, Answered
  <2>8. ASSUME Created(w)', NEW v \in Workers \ {w}, Created(v)
        PROVE  session[v].driver # session'[w].driver
    <3>1. session'[w] = n
      BY <2>6, <2>8 DEF Created
    <3>2. session[v] \in Session
      BY <2>8 DEF PoolInv, InPlace, Created
    <3>3. session[v] # NoSession
      BY <3>2, PoolAssumption
    <3> QED
      BY <1>1, <2>1, <2>8, <3>1, <3>3 DEF Inserting, Created
  <2> QED
    BY <1>1, <1>2, <2>4, <2>6, <2>7, <2>8, UncommittedStep
<1> QED
  BY <1>3, <1>4

\* The calls to the pool, and a rollback.
LEMMA PoolCallStep ==
  ASSUME PoolInv, NEW w \in Workers, GeoAdd(w) \/ GeoRemove(w) \/ Abort(w)
  PROVE  PoolInv'
<1> DEFINE s == session[w]
<1>1. /\ TypeOK /\ pc[w] \notin Answered /\ s \in Session /\ geo \in SUBSET Drivers
  BY DEF GeoAdd, GeoRemove, Abort, PoolInv, InPlace, TypeOK, Answered
<1>2. s.driver \in Drivers
  BY <1>1 DEF Session
<1>3. UNCHANGED <<profile, jobVars>>
  BY DEF GeoAdd, GeoRemove, Abort
<1>4. CASE GeoAdd(w) \/ GeoRemove(w)
  <2>1. Move(w, "commit", s) /\ pc[w] \in {"geoadd", "zrem"}
    BY <1>4 DEF GeoAdd, GeoRemove
  <2>2. pc'[w] = "commit" /\ session'[w] = s /\ Others(w) /\ Typed'
    BY <1>1, <2>1, MoveMoves DEF Answered, Points
  <2>3. InPlace(w)'
    <3>1. InPlace(w)
      BY DEF PoolInv
    <3> QED
      BY <1>1, <1>3, <2>1, <2>2, <3>1 DEF InPlace
  <2>4. \A v \in Workers \ {w} : Created(v) /\ Created(w)' =>
          session[v].driver # session'[w].driver
    BY <1>1, <2>2 DEF PoolInv, CreatedAlone, Created
  <2>5. /\ geo' \in SUBSET Drivers
        /\ \A d \in geo' \ geo : pc[w] = "geoadd" /\ d = s.driver
    BY <1>1, <1>2, <1>4 DEF GeoAdd, GeoRemove
  <2>6. \A d \in geo' \ geo : profile[d] # NoProfile /\ profile[d].located
    BY <1>2, <2>5 DEF PoolInv, PoolMembersAreLocated
  <2> QED
    BY <1>3, <2>2, <2>3, <2>4, <2>5, <2>6, UncommittedStep
<1>5. CASE Abort(w)
  <2>1. Move(w, "500", s) /\ geo' = geo
    BY <1>5 DEF Abort
  <2>2. pc'[w] = "500" /\ Others(w) /\ Typed'
    BY <1>1, <2>1, MoveMoves DEF Answered
  <2>3. InPlace(w)' /\ ~Created(w)' /\ pc'[w] # "geoadd"
    BY <2>2 DEF InPlace, Created, Answered
  <2> QED
    BY <1>1, <1>3, <2>1, <2>2, <2>3, UncommittedStep
<1> QED
  BY <1>4, <1>5
-----------------------------------------------------------------------------------
(* Steps that write profiles.                                              *)

\* Profiles stay, and so do their positions.
ProfilesKept ==
  \A d \in Drivers : profile[d] # NoProfile =>
    /\ profile'[d] # NoProfile
    /\ profile[d].located => profile'[d].located

\* A step of w, or of nobody's request, that keeps the profiles; a new one is the one
\* that w has inserted and now commits.
LEMMA WriteStep ==
  ASSUME PoolInv, NEW w, Others(w), Typed', ProfilesKept, AvailableAreLocated',
         pc'[w] \in Answered \/ (pc' = pc /\ session' = session),
         profile' \in [Drivers -> Profile \cup {NoProfile}],
         \A d \in Drivers : profile[d] = NoProfile /\ profile'[d] # NoProfile =>
           w \in Workers /\ Created(w) /\ session[w].driver = d /\ pc'[w] \in Answered,
         geo' = geo, victims' \cup swept' \subseteq victims \cup swept,
         sweeping' \in BOOLEAN, failures' = failures
  PROVE  PoolInv'
<1>1. ASSUME NEW v \in Workers, pc'[v] \notin Answered
      PROVE  /\ pc[v] = pc'[v] /\ session[v] = session'[v]
             /\ session[v] \in Session /\ session[v].driver \in Drivers
  <2>1. pc[v] = pc'[v] /\ session[v] = session'[v]
    BY <1>1 DEF Others
  <2>2. session[v] \in Session
    BY <1>1, <2>1 DEF PoolInv, InPlace
  <2> QED
    BY <2>1, <2>2 DEF Session
<1>2. ASSUME NEW v \in Workers PROVE InPlace(v)'
  <2>1. CASE pc'[v] \in Answered
    BY <2>1 DEF InPlace
  <2>2. CASE pc'[v] \notin Answered
    <3> DEFINE s == session[v]
    <3>1. /\ pc[v] \notin Answered /\ pc'[v] = pc[v] /\ session'[v] = s
          /\ s.driver \in Drivers
      BY <1>1, <2>2
    <3>2. InPlace(v)
      BY DEF PoolInv
    <3>3. s.created => profile'[s.driver] = NoProfile
      <4> SUFFICES ASSUME s.created, profile'[s.driver] # NoProfile PROVE FALSE
        OBVIOUS
      <4>1. Created(v) /\ profile[s.driver] = NoProfile
        BY <3>1, <3>2 DEF Created, InPlace
      <4>2. w \in Workers /\ Created(w) /\ session[w].driver = s.driver
            /\ pc'[w] \in Answered
        BY <3>1, <4>1
      <4>3. v # w
        BY <2>2, <4>2
      <4> QED
        BY <4>1, <4>2, <4>3 DEF PoolInv, CreatedAlone
    <3> QED
      BY <3>1, <3>2, <3>3 DEF InPlace, ProfilesKept
  <2> QED
    BY <2>1, <2>2
<1>3. CreatedAlone'
  BY <1>1 DEF PoolInv, CreatedAlone, Created
<1>4. PoolMembersAreLocated'
  <2>1. \A v \in Workers : pc'[v] = "geoadd" => pc[v] = "geoadd" /\ session'[v] = session[v]
    BY <1>1 DEF Answered
  <2> QED
    BY <2>1 DEF PoolInv, PoolMembersAreLocated, ProfilesKept
<1>5. victims \in SUBSET Drivers /\ swept \in SUBSET Drivers
  BY DEF PoolInv, TypeOK
<1>6. SweptExist'
  BY <1>5 DEF PoolInv, SweptExist, ProfilesKept
<1>7. TypeOK'
  <2>1. \A v \in Workers : pc'[v] \in {"geoadd", "zrem", "commit"} =>
          session'[v].created \/ profile'[session'[v].driver] # NoProfile
    BY <1>2 DEF InPlace, Answered
  <2>2. geo' \in SUBSET Drivers /\ failures' \in 0 .. MaxFailures
    BY DEF PoolInv, TypeOK
  <2>3. victims' \in SUBSET Drivers /\ swept' \in SUBSET Drivers
    BY <1>5
  <2> QED
    BY <2>1, <2>2, <2>3 DEF TypeOK, Typed, Points
<1> QED
  BY <1>2, <1>3, <1>4, <1>6, <1>7 DEF PoolInv

LEMMA CommitStep ==
  ASSUME PoolInv, NEW w \in Workers, Commit(w)
  PROVE  PoolInv' /\ ProfilesKept
<1> DEFINE s == session[w]
           d == s.driver
           old == IF s.created THEN s.read ELSE profile[d]
           new == Flushed(s, old)
<1>1. /\ pc[w] = "commit" /\ Move(w, "200", s) /\ UNCHANGED <<geo, jobVars>>
      /\ profile' = [profile EXCEPT ![d] = IF s.created THEN Flushed(s, s.read)
                                          ELSE Flushed(s, profile[d])]
  BY DEF Commit
<1>2. /\ TypeOK /\ InPlace(w) /\ s \in Session /\ pc[w] \notin Answered
  BY <1>1 DEF PoolInv, InPlace, Answered
<1>3. /\ d \in Drivers /\ profile \in [Drivers -> Profile \cup {NoProfile}]
  BY <1>2 DEF Session, TypeOK
<1>4. /\ profile'[d] = new
      /\ \A c \in Drivers \ {d} : profile'[c] = profile[c]
      /\ profile' = [profile EXCEPT ![d] = new]
  BY <1>1, <1>3
<1>5. /\ s.created => profile[d] = NoProfile /\ old = NewProfile /\ s.kind # "available"
      /\ ~s.created => profile[d] # NoProfile /\ old = profile[d]
      /\ s.kind = "available" => profile[d] # NoProfile /\ profile[d].located
  BY <1>1, <1>2 DEF InPlace
<1>6. old \in Profile
  BY <1>3, <1>5, NewProfileType
<1>7. old.is_available => old.located
  BY <1>3, <1>5, NewProfileType DEF PoolInv, AvailableAreLocated
<1> HIDE DEF old
<1>8. /\ new \in Profile
      /\ new.is_available => old.is_available \/ s.kind = "available"
      /\ old.located => new.located
  BY <1>6 DEF Flushed, Profile
<1>9. new.is_available => new.located
  BY <1>5, <1>7, <1>8
<1>10. new # NoProfile
  BY <1>8, PoolAssumption
<1> HIDE DEF new
<1>11. ProfilesKept
  BY <1>4, <1>5, <1>8, <1>10 DEF ProfilesKept
<1>12. AvailableAreLocated'
  BY <1>4, <1>9 DEF PoolInv, AvailableAreLocated
<1>13. profile' \in [Drivers -> Profile \cup {NoProfile}]
  BY <1>3, <1>4, <1>8
<1>14. pc'[w] \in Answered /\ Others(w) /\ Typed'
  BY <1>1, <1>2, MoveMoves DEF Answered
<1>15. \A c \in Drivers : profile[c] = NoProfile /\ profile'[c] # NoProfile =>
         w \in Workers /\ Created(w) /\ session[w].driver = c /\ pc'[w] \in Answered
  BY <1>2, <1>4, <1>5, <1>14 DEF Created
<1>16. /\ geo' = geo /\ victims' \cup swept' \subseteq victims \cup swept
       /\ sweeping' \in BOOLEAN /\ failures' = failures
  BY <1>1, <1>2 DEF jobVars, TypeOK
<1> QED
  BY <1>11, <1>12, <1>13, <1>14, <1>15, <1>16, WriteStep

\* The job's commit, and the passing of time: profiles change only in is_available,
\* which becomes false, and in fresh.
LEMMA JobWriteStep ==
  ASSUME PoolInv, SweepCommit \/ \E d \in Drivers : Age(d)
  PROVE  PoolInv' /\ ProfilesKept
<1>1. /\ TypeOK /\ profile \in [Drivers -> Profile \cup {NoProfile}]
      /\ swept \subseteq Drivers
  BY DEF PoolInv, TypeOK
<1>2. ASSUME NEW p \in Profile
      PROVE  /\ [p EXCEPT !.is_available = FALSE] \in Profile
             /\ ~[p EXCEPT !.is_available = FALSE].is_available
             /\ [p EXCEPT !.is_available = FALSE].located = p.located
             /\ [p EXCEPT !.fresh = FALSE] \in Profile
             /\ [p EXCEPT !.fresh = FALSE].is_available = p.is_available
             /\ [p EXCEPT !.fresh = FALSE].located = p.located
  BY DEF Profile
<1>3. ASSUME NEW d \in Drivers
      PROVE  \/ profile'[d] = profile[d]
             \/ /\ profile[d] # NoProfile
                /\ \/ profile'[d] = [profile[d] EXCEPT !.is_available = FALSE]
                   \/ profile'[d] = [profile[d] EXCEPT !.fresh = FALSE]
  <2>1. CASE SweepCommit
    BY <1>1, <2>1 DEF SweepCommit, PoolInv, SweptExist
  <2>2. CASE \E c \in Drivers : Age(c)
    BY <1>1, <2>2 DEF Age
  <2> QED
    BY <2>1, <2>2
<1>4. ASSUME NEW d \in Drivers
      PROVE  \/ profile'[d] = profile[d]
             \/ /\ profile[d] # NoProfile /\ profile'[d] \in Profile
                /\ profile'[d].is_available => profile[d].is_available
                /\ profile'[d].located = profile[d].located
  <2>1. CASE profile'[d] = profile[d]
    BY <2>1
  <2>2. CASE profile'[d] # profile[d]
    <3> DEFINE p == profile[d]
    <3>1. p # NoProfile /\ p \in Profile
      BY <1>1, <1>3, <2>2
    <3>2. \/ profile'[d] = [p EXCEPT !.is_available = FALSE]
          \/ profile'[d] = [p EXCEPT !.fresh = FALSE]
      BY <1>3, <2>2
    <3>3. /\ [p EXCEPT !.is_available = FALSE] \in Profile
          /\ ~[p EXCEPT !.is_available = FALSE].is_available
          /\ [p EXCEPT !.is_available = FALSE].located = p.located
          /\ [p EXCEPT !.fresh = FALSE] \in Profile
          /\ [p EXCEPT !.fresh = FALSE].is_available = p.is_available
          /\ [p EXCEPT !.fresh = FALSE].located = p.located
      BY <1>2, <3>1
    <3> HIDE DEF p
    <3>4. /\ profile'[d] \in Profile
          /\ profile'[d].is_available => p.is_available
          /\ profile'[d].located = p.located
      BY <3>2, <3>3
    <3> QED
      BY <3>1, <3>4 DEF p
  <2> QED
    BY <2>1, <2>2
<1>5. ProfilesKept /\ \A d \in Drivers : profile[d] = NoProfile => profile'[d] = NoProfile
  BY <1>4, PoolAssumption DEF ProfilesKept
<1>6. AvailableAreLocated'
  BY <1>4 DEF PoolInv, AvailableAreLocated
<1>7. profile' \in [Drivers -> Profile \cup {NoProfile}]
  <2>1. \A d \in Drivers : profile'[d] \in Profile \cup {NoProfile}
    BY <1>1, <1>4
  <2>2. CASE SweepCommit
    BY <2>1, <2>2 DEF SweepCommit
  <2>3. CASE \E c \in Drivers : Age(c)
    BY <1>1, <2>1, <2>3 DEF Age
  <2> QED
    BY <2>2, <2>3
<1>8. /\ pc' = pc /\ session' = session /\ geo' = geo /\ failures' = failures
      /\ victims' \cup swept' \subseteq victims \cup swept /\ sweeping' \in BOOLEAN
  BY <1>1 DEF SweepCommit, Age, EndSweep, jobVars, TypeOK
<1>9. Typed' /\ Others(NoSession)
  BY <1>1, <1>8 DEF TypeOK, Typed, Points, Others
<1> QED
  BY <1>5, <1>6, <1>7, <1>8, <1>9, WriteStep

\* The job's query, its removals, and its failure.
LEMMA SweepStep ==
  ASSUME PoolInv, SweepSelect \/ SweepFail \/ \E d \in Drivers : SweepRemove(d)
  PROVE  PoolInv' /\ profile' = profile
<1>1. /\ TypeOK /\ geo' \subseteq geo
      /\ UNCHANGED <<profile, pc, session>> /\ sweeping' \in BOOLEAN
      /\ failures' \in 0 .. MaxFailures
  <2>1. TypeOK /\ failures \in 0 .. MaxFailures /\ sweeping \in BOOLEAN
    BY DEF PoolInv, TypeOK
  <2>2. geo' \subseteq geo /\ UNCHANGED <<profile, pc, session>>
    BY DEF SweepSelect, SweepFail, SweepRemove
  <2>3. sweeping' \in BOOLEAN
    BY <2>1 DEF SweepSelect, SweepFail, SweepRemove, EndSweep
  <2>4. failures' = failures \/ (failures < MaxFailures /\ failures' = failures + 1)
    BY DEF SweepSelect, SweepFail, SweepRemove
  <2>5. failures' \in 0 .. MaxFailures
    BY <2>1, <2>4, PoolAssumption
  <2> QED
    BY <2>1, <2>2, <2>3, <2>5
<1>2. /\ victims' \in SUBSET Drivers /\ swept' \in SUBSET Drivers
      /\ \A d \in victims' \cup swept' : profile[d] # NoProfile
  BY DEF SweepSelect, SweepFail, SweepRemove, EndSweep, StaleDrivers, Stale,
     PoolInv, TypeOK, SweptExist
<1>3. TypeOK'
  BY <1>1, <1>2 DEF TypeOK
<1>4. PoolMembersAreLocated' /\ AvailableAreLocated' /\ SweptExist'
  BY <1>1, <1>2 DEF PoolInv, PoolMembersAreLocated, AvailableAreLocated, SweptExist
<1>5. CreatedAlone' /\ \A w \in Workers : InPlace(w)'
  BY <1>1 DEF PoolInv, CreatedAlone, Created, InPlace
<1> QED
  BY <1>1, <1>3, <1>4, <1>5 DEF PoolInv
-----------------------------------------------------------------------------------
(* The theorems.                                                           *)

LEMMA PoolInvInit == Init => PoolInv
<1> SUFFICES ASSUME Init PROVE PoolInv
  OBVIOUS
<1>1. \A w \in Workers : pc[w] = "idle"
  BY DEF Init
<1>2. TypeOK
  <2>1. failures \in 0 .. MaxFailures
    BY PoolAssumption DEF Init
  <2>2. \A w \in Workers : pc[w] \notin {"geoadd", "zrem", "commit"}
    BY <1>1
  <2>3. /\ profile \in [Drivers -> Profile \cup {NoProfile}]
        /\ pc \in [Workers -> Answered \cup {"insert", "geoadd", "zrem", "commit"}]
        /\ session \in [Workers -> Session \cup {NoSession}]
    BY DEF Init, Answered
  <2>4. geo \in SUBSET Drivers /\ victims \in SUBSET Drivers /\ swept \in SUBSET Drivers
        /\ sweeping \in BOOLEAN
    BY DEF Init
  <2> QED
    BY <2>1, <2>2, <2>3, <2>4 DEF TypeOK
<1>3. PoolMembersAreLocated /\ AvailableAreLocated /\ SweptExist
  BY <1>1 DEF Init, PoolMembersAreLocated, AvailableAreLocated, SweptExist
<1>4. CreatedAlone /\ \A w \in Workers : InPlace(w)
  BY <1>1 DEF CreatedAlone, Created, InPlace, Answered
<1> QED
  BY <1>2, <1>3, <1>4 DEF PoolInv

LEMMA PoolStep ==
  ASSUME PoolInv, [Next]_vars
  PROVE  PoolInv' /\ ProfilesKept
<1>1. profile' = profile => ProfilesKept
  BY DEF ProfilesKept
<1>2. CASE UNCHANGED vars
  <2>1. UNCHANGED <<profile, geo, pc, session, victims, swept, sweeping, failures>>
    BY <1>2 DEF vars, jobVars
  <2> QED
    BY <1>1, <2>1 DEF PoolInv, TypeOK, PoolMembersAreLocated, AvailableAreLocated,
       InPlace, CreatedAlone, Created, SweptExist
<1>3. ASSUME NEW w \in Workers, NEW d \in Drivers, NEW kind \in Kinds,
             ReadProfile(w, d, kind)
      PROVE  PoolInv' /\ ProfilesKept
  BY <1>1, <1>3, ReadProfileStep DEF ReadProfile
<1>4. ASSUME NEW w \in Workers, InsertProfile(w) PROVE PoolInv' /\ ProfilesKept
  BY <1>1, <1>4, InsertProfileStep DEF InsertProfile
<1>5. ASSUME NEW w \in Workers, GeoAdd(w) \/ GeoRemove(w) \/ Abort(w)
      PROVE  PoolInv' /\ ProfilesKept
  BY <1>1, <1>5, PoolCallStep DEF GeoAdd, GeoRemove, Abort
<1>6. ASSUME NEW w \in Workers, Commit(w) PROVE PoolInv' /\ ProfilesKept
  BY <1>6, CommitStep
<1>7. CASE Sweep \/ SweepFail \/ \E d \in Drivers : Age(d)
  BY <1>1, <1>7, SweepStep, JobWriteStep DEF Sweep
<1> QED
  BY <1>2, <1>3, <1>4, <1>5, <1>6, <1>7 DEF Next, Handler

\* Profiles, the pool, the requests and the job keep their inductive invariant.
THEOREM PoolInvariance == Spec => []PoolInv
<1>1. PoolInv /\ [Next]_vars => PoolInv'
  BY PoolStep
<1> QED
  BY <1>1, PoolInvInit, PTL DEF Spec

\* Type correctness of profiles, pool, requests and job.
THEOREM PoolTypes == Spec => []TypeOK
<1>1. PoolInv => TypeOK
  BY DEF PoolInv
<1> QED
  BY <1>1, PoolInvariance, PTL

\* However requests overlap and fail, a driver is put into the pool only with a
\* committed position.
THEOREM MembersLocated == Spec => []PoolMembersAreLocated
<1>1. PoolInv => PoolMembersAreLocated
  BY DEF PoolInv
<1> QED
  BY <1>1, PoolInvariance, PTL

\* No request and no sweep undoes a profile or a position that was committed.
THEOREM LocationKept == Spec => LocationIsKept
<1>1. PoolInv /\ [Next]_vars =>
        [\A d \in Drivers : profile[d] # NoProfile =>
           /\ profile'[d] # NoProfile
           /\ profile[d].located => profile'[d].located]_profile
  BY PoolStep DEF ProfilesKept
<1> QED
  BY <1>1, PoolInvariance, PTL DEF Spec, LocationIsKept
===================================================================================
