-------------------------- MODULE JobManagerProofs ---------------------------
(***************************************************************************)
(* The properties of JobManager for any sets of jobs and timers. The       *)
(* invariants the runs check are inductive only together with two facts    *)
(* about the maps: no two jobs share a timer, and a job exists only once   *)
(* its creation has begun.                                                 *)
(***************************************************************************)
EXTENDS JobManager, TLAPS

DistinctTimers ==
    \A i, k \in JobID : i # k /\ timers[i] = timers[k] => timers[i] = NoTimer

\* Firing moves a timer: it is never pending and running at once.
NeverArmedAndFired == armed \cap fired = {}

UnbornIsUnknown == \A id \in JobID : user[id] = "none" => id \notin jobs

IInv ==
    /\ TypeOK
    /\ TimersWillExpire
    /\ NoStrayTimer
    /\ HeldHasNoTimer
    /\ IdleHasTimer
    /\ DistinctTimers
    /\ NeverArmedAndFired
    /\ UnbornIsUnknown

USE TimerAssumption DEF UserState

\* The empty registry satisfies every conjunct.
LEMMA InitInv == Init => IInv
BY DEF Init, MgrInit, IInv, TypeOK, TimersWillExpire, NoStrayTimer, HeldHasNoTimer,
       IdleHasTimer, DistinctTimers, NeverArmedAndFired, UnbornIsUnknown

\* ExpireAfter, whoever calls it, leaves the maps consistent, and a job that
\* exists has a timer afterwards.
LEMMA ExpireAfterMaps ==
    ASSUME NEW id \in JobID, IInv, ExpireAfter(id)
    PROVE  /\ timers' \in [JobID -> Timer \cup {NoTimer}]
           /\ armed' \subseteq Timer \X JobID
           /\ jobs' = jobs /\ fired' = fired
           /\ TimersWillExpire' /\ NoStrayTimer' /\ DistinctTimers' /\ NeverArmedAndFired'
           /\ \A i \in JobID : i # id => timers'[i] = timers[i]
           /\ id \in jobs => timers'[id] # NoTimer
<1>1. CASE id \notin jobs
  BY <1>1 DEF ExpireAfter, mgrVars, IInv, TypeOK, TimersWillExpire, NoStrayTimer,
              DistinctTimers, NeverArmedAndFired
<1>2. CASE id \in jobs
  <2>1. PICK t \in FreeTimers : /\ timers' = [timers EXCEPT ![id] = t]
                                /\ armed' = ArmedWithout(id) \cup {<<t, id>>}
    BY <1>2 DEF ExpireAfter
  <2>2. jobs' = jobs /\ fired' = fired
    BY <1>2 DEF ExpireAfter
  <2>3. /\ t \in Timer
        /\ \A i \in JobID : timers[i] # t
    BY DEF FreeTimers
  <2>4. timers' \in [JobID -> Timer \cup {NoTimer}] /\ armed' \subseteq Timer \X JobID
    BY <2>1, <2>3 DEF IInv, TypeOK, ArmedWithout
  <2>5. \A i \in JobID : timers'[i] = IF i = id THEN t ELSE timers[i]
    BY <2>1 DEF IInv, TypeOK
  <2>6. TimersWillExpire'
    <3> SUFFICES ASSUME NEW i \in JobID, timers'[i] # NoTimer
                 PROVE  i \in jobs /\ <<timers'[i], i>> \in armed' \cup fired
      BY <2>2 DEF TimersWillExpire
    <3>1. CASE i = id
      BY <3>1, <1>2, <2>1, <2>5
    <3>2. CASE i # id
      <4>1. timers'[i] = timers[i] /\ i \in jobs /\ <<timers[i], i>> \in armed \cup fired
        BY <3>2, <2>5 DEF IInv, TimersWillExpire
      <4>2. timers[i] # timers[id]
        BY <3>2, <4>1 DEF IInv, DistinctTimers
      <4>3. <<timers[i], i>> \in armed => <<timers[i], i>> \in ArmedWithout(id)
        BY <4>2 DEF ArmedWithout
      <4> QED BY <4>1, <4>3, <2>1
    <3> QED BY <3>1, <3>2
  <2>7. NoStrayTimer'
    <3> SUFFICES ASSUME NEW p \in armed'
                 PROVE  timers'[p[2]] = p[1]
      BY DEF NoStrayTimer
    <3>1. CASE p = <<t, id>>
      BY <3>1, <2>5
    <3>2. CASE p \in ArmedWithout(id)
      <4>1. p \in armed /\ p[1] # timers[id] /\ timers[p[2]] = p[1] /\ p[2] \in JobID
        BY <3>2 DEF ArmedWithout, IInv, TypeOK, NoStrayTimer
      <4> QED BY <4>1, <2>5
    <3> QED BY <3>1, <3>2, <2>1
  <2>8. DistinctTimers'
    BY <2>3, <2>5 DEF IInv, DistinctTimers
  <2>9. NeverArmedAndFired'
    BY <2>1, <2>2 DEF FreeTimers, ArmedWithout, IInv, NeverArmedAndFired
  <2> QED BY <2>2, <2>3, <2>4, <2>5, <2>6, <2>7, <2>8, <2>9
<1> QED BY <1>1, <1>2

\* The same for Hold, after which the job has no timer.
LEMMA HoldMaps ==
    ASSUME NEW id \in JobID, IInv, Hold(id)
    PROVE  /\ timers' \in [JobID -> Timer \cup {NoTimer}]
           /\ armed' \subseteq Timer \X JobID
           /\ jobs' = jobs /\ fired' = fired
           /\ TimersWillExpire' /\ NoStrayTimer' /\ DistinctTimers' /\ NeverArmedAndFired'
           /\ \A i \in JobID : timers'[i] = IF i = id THEN NoTimer ELSE timers[i]
<1>1. jobs' = jobs /\ fired' = fired /\ armed' = ArmedWithout(id)
  BY DEF Hold
<1>2. \A i \in JobID : timers'[i] = IF i = id THEN NoTimer ELSE timers[i]
  BY DEF Hold, IInv, TypeOK
<1>3. timers' \in [JobID -> Timer \cup {NoTimer}] /\ armed' \subseteq Timer \X JobID
  BY <1>1 DEF Hold, IInv, TypeOK, ArmedWithout
<1>4. TimersWillExpire'
  <2> SUFFICES ASSUME NEW i \in JobID, timers'[i] # NoTimer
               PROVE  i \in jobs /\ <<timers'[i], i>> \in armed' \cup fired
    BY <1>1 DEF TimersWillExpire
  <2>1. /\ i # id /\ timers'[i] = timers[i]
        /\ i \in jobs /\ <<timers[i], i>> \in armed \cup fired
    BY <1>2 DEF IInv, TimersWillExpire
  <2>2. timers[i] # timers[id]
    BY <2>1 DEF IInv, DistinctTimers
  <2>3. <<timers[i], i>> \in armed => <<timers[i], i>> \in ArmedWithout(id)
    BY <2>2 DEF ArmedWithout
  <2> QED BY <2>1, <2>3, <1>1
<1>5. NoStrayTimer'
  <2> SUFFICES ASSUME NEW p \in ArmedWithout(id)
               PROVE  timers'[p[2]] = p[1]
    BY <1>1 DEF NoStrayTimer
  <2>1. p \in armed /\ p[1] # timers[id] /\ timers[p[2]] = p[1] /\ p[2] \in JobID
    BY DEF ArmedWithout, IInv, TypeOK, NoStrayTimer
  <2> QED BY <2>1, <1>2
<1>6. DistinctTimers'
  BY <1>2 DEF IInv, DistinctTimers
<1>7. NeverArmedAndFired'
  BY <1>1 DEF ArmedWithout, IInv, NeverArmedAndFired
<1> QED BY <1>1, <1>2, <1>3, <1>4, <1>5, <1>6, <1>7

\* Every step of the registry, its callers and its timers preserves IInv.
LEMMA NextInv == IInv /\ [Next]_vars => IInv'
<1> SUFFICES ASSUME IInv, [Next]_vars PROVE IInv'
  OBVIOUS
<1>1. ASSUME NEW id \in JobID, CreateInsert(id) PROVE IInv'
  <2>1. /\ user[id] = "none" /\ user' = [user EXCEPT ![id] = "creating"]
        /\ jobs' = jobs \cup {id}
        /\ UNCHANGED <<timers, armed, fired>>
    BY <1>1 DEF CreateInsert, Insert
  <2>2. TypeOK' /\ HeldHasNoTimer' /\ IdleHasTimer' /\ UnbornIsUnknown'
    BY <2>1 DEF IInv, TypeOK, HeldHasNoTimer, IdleHasTimer, UnbornIsUnknown
  <2>3. TimersWillExpire' /\ NoStrayTimer' /\ DistinctTimers' /\ NeverArmedAndFired'
    BY <2>1 DEF IInv, TimersWillExpire, NoStrayTimer, DistinctTimers, NeverArmedAndFired
  <2> QED BY <2>2, <2>3 DEF IInv
<1>2. ASSUME NEW id \in JobID, CreateArm(id) PROVE IInv'
  <2>1. user[id] = "creating" /\ user' = [user EXCEPT ![id] = "idle"] /\ ExpireAfter(id)
    BY <1>2 DEF CreateArm
  <2>2. /\ timers' \in [JobID -> Timer \cup {NoTimer}]
        /\ armed' \subseteq Timer \X JobID
        /\ jobs' = jobs /\ fired' = fired
        /\ TimersWillExpire' /\ NoStrayTimer' /\ DistinctTimers' /\ NeverArmedAndFired'
        /\ \A i \in JobID : i # id => timers'[i] = timers[i]
        /\ id \in jobs => timers'[id] # NoTimer
    BY <2>1, ExpireAfterMaps
  <2>3. TypeOK' /\ HeldHasNoTimer' /\ IdleHasTimer' /\ UnbornIsUnknown'
    BY <2>1, <2>2 DEF IInv, TypeOK, HeldHasNoTimer, IdleHasTimer, UnbornIsUnknown
  <2> QED BY <2>2, <2>3 DEF IInv
<1>3. ASSUME NEW id \in JobID, BeginHold(id) PROVE IInv'
  <2>1. user[id] = "idle" /\ user' = [user EXCEPT ![id] = "holding"] /\ Hold(id)
    BY <1>3 DEF BeginHold
  <2>2. /\ timers' \in [JobID -> Timer \cup {NoTimer}]
        /\ armed' \subseteq Timer \X JobID
        /\ jobs' = jobs /\ fired' = fired
        /\ TimersWillExpire' /\ NoStrayTimer' /\ DistinctTimers' /\ NeverArmedAndFired'
        /\ \A i \in JobID : timers'[i] = IF i = id THEN NoTimer ELSE timers[i]
    BY <2>1, HoldMaps
  <2>3. TypeOK' /\ HeldHasNoTimer' /\ IdleHasTimer' /\ UnbornIsUnknown'
    BY <2>1, <2>2 DEF IInv, TypeOK, HeldHasNoTimer, IdleHasTimer, UnbornIsUnknown
  <2> QED BY <2>2, <2>3 DEF IInv
<1>4. ASSUME NEW id \in JobID, EndHold(id) PROVE IInv'
  <2>1. user[id] = "holding" /\ user' = [user EXCEPT ![id] = "idle"] /\ ExpireAfter(id)
    BY <1>4 DEF EndHold
  <2>2. /\ timers' \in [JobID -> Timer \cup {NoTimer}]
        /\ armed' \subseteq Timer \X JobID
        /\ jobs' = jobs /\ fired' = fired
        /\ TimersWillExpire' /\ NoStrayTimer' /\ DistinctTimers' /\ NeverArmedAndFired'
        /\ \A i \in JobID : i # id => timers'[i] = timers[i]
        /\ id \in jobs => timers'[id] # NoTimer
    BY <2>1, ExpireAfterMaps
  <2>3. TypeOK' /\ HeldHasNoTimer' /\ IdleHasTimer' /\ UnbornIsUnknown'
    BY <2>1, <2>2 DEF IInv, TypeOK, HeldHasNoTimer, IdleHasTimer, UnbornIsUnknown
  <2> QED BY <2>2, <2>3 DEF IInv
<1>5. ASSUME NEW t \in Timer, NEW id \in JobID, FireStep(t, id) PROVE IInv'
  BY <1>5 DEF FireStep, Fire, IInv, TypeOK, TimersWillExpire, NoStrayTimer, HeldHasNoTimer,
              IdleHasTimer, DistinctTimers, NeverArmedAndFired, UnbornIsUnknown
<1>6. ASSUME NEW t \in Timer, NEW id \in JobID, ExpireStep(t, id) PROVE IInv'
  <2>1. /\ <<t, id>> \in fired /\ fired' = fired \ {<<t, id>>}
        /\ UNCHANGED <<armed, user>>
    BY <1>6 DEF ExpireStep, Expire
  <2>2. CASE timers[id] # t
    <3>1. UNCHANGED <<jobs, timers>>
      BY <1>6, <2>2 DEF ExpireStep, Expire, Current
    <3>2. TimersWillExpire'
      BY <2>1, <2>2, <3>1 DEF IInv, TimersWillExpire
    <3> QED
      BY <2>1, <3>1, <3>2 DEF IInv, TypeOK, NoStrayTimer, HeldHasNoTimer, IdleHasTimer,
                              DistinctTimers, NeverArmedAndFired, UnbornIsUnknown
  <2>3. CASE timers[id] = t
    <3>1. jobs' = jobs \ {id} /\ timers' = [timers EXCEPT ![id] = NoTimer]
      BY <1>6, <2>3 DEF ExpireStep, Expire, Current
    <3>2. \A i \in JobID : timers'[i] = IF i = id THEN NoTimer ELSE timers[i]
      BY <3>1 DEF IInv, TypeOK
    <3>3. TypeOK'
      BY <2>1, <3>1 DEF IInv, TypeOK
    <3>4. TimersWillExpire'
      BY <2>1, <3>1, <3>2 DEF IInv, TimersWillExpire
    <3>5. NoStrayTimer'
      \* An armed timer of id would be m.timers[id], which is t: t's expire
      \* leaves armed alone, so t would be both armed and fired.
      <4> SUFFICES ASSUME NEW p \in armed PROVE timers'[p[2]] = p[1]
        BY <2>1 DEF NoStrayTimer
      <4>1. timers[p[2]] = p[1] /\ p[2] \in JobID /\ p = <<p[1], p[2]>>
        BY DEF IInv, TypeOK, NoStrayTimer
      <4>2. p[2] # id
        BY <4>1, <2>1, <2>3 DEF IInv, NeverArmedAndFired
      <4> QED BY <4>1, <4>2, <3>2
    <3>6. /\ HeldHasNoTimer' /\ IdleHasTimer' /\ DistinctTimers'
          /\ NeverArmedAndFired' /\ UnbornIsUnknown'
      BY <2>1, <3>1, <3>2 DEF IInv, HeldHasNoTimer, IdleHasTimer, DistinctTimers,
                                  NeverArmedAndFired, UnbornIsUnknown
    <3> QED BY <3>3, <3>4, <3>5, <3>6 DEF IInv
  <2> QED BY <2>2, <2>3
<1>7. CASE UNCHANGED vars
  BY <1>7 DEF vars, IInv, TypeOK, TimersWillExpire, NoStrayTimer, HeldHasNoTimer,
              IdleHasTimer, DistinctTimers, NeverArmedAndFired, UnbornIsUnknown
<1> QED BY <1>1, <1>2, <1>3, <1>4, <1>5, <1>6, <1>7 DEF Next

\* The strengthened invariant holds of every behaviour.
THEOREM Invariant == Spec => []IInv
BY InitInv, NextInv, PTL DEF Spec

\* The maps and the callers always have their types.
THEOREM TypeCorrect == Spec => []TypeOK
<1>1. IInv => TypeOK
  BY DEF IInv
<1> QED BY <1>1, Invariant, PTL

\* A timer in the map always belongs to a job that exists, and will run its
\* expire; a held job has no timer: no job expires while it streams.
THEOREM ExpiryCorrect == Spec => [](TimersWillExpire /\ HeldHasNoTimer)
<1>1. IInv => TimersWillExpire /\ HeldHasNoTimer
  BY DEF IInv
<1> QED BY <1>1, Invariant, PTL

\* A timer that was replaced or stopped never stays armed beside the one in the
\* map, even while its expire waits for the lock (expireAfter, Hold).
THEOREM NoStrayTimerCorrect == Spec => []NoStrayTimer
<1>1. IInv => NoStrayTimer
  BY DEF IInv
<1> QED BY <1>1, Invariant, PTL

\* A job that nobody holds has a timer, so none is kept for ever: whichever of
\* Create, Hold's release and an expire of an earlier timer came last.
THEOREM IdleJobsExpire == Spec => []IdleHasTimer
<1>1. IInv => IdleHasTimer
  BY DEF IInv
<1> QED BY <1>1, Invariant, PTL

\* No step removes a job whose handler holds it.
THEOREM HeldJobsStay == Spec => HeldJobStays
<1>1. IInv /\ [Next]_vars => [\A id \in jobs : user[id] = "holding" => id \in jobs']_vars
  <2> SUFFICES ASSUME IInv, Next, NEW k \in jobs, user[k] = "holding"
               PROVE  k \in jobs'
    OBVIOUS
  <2>1. k \in JobID /\ timers[k] = NoTimer
    BY DEF IInv, TypeOK, HeldHasNoTimer
  <2>2. ASSUME NEW t \in Timer, NEW id \in JobID, ExpireStep(t, id) PROVE k \in jobs'
    BY <2>1, <2>2 DEF ExpireStep, Expire, Current
  <2>3. ASSUME NEW t \in Timer, NEW id \in JobID, FireStep(t, id) PROVE k \in jobs'
    BY <2>3 DEF FireStep, Fire
  <2>4. ASSUME NEW id \in JobID, CreateInsert(id) PROVE k \in jobs'
    BY <2>4 DEF CreateInsert, Insert
  <2>5. ASSUME NEW id \in JobID, CreateArm(id) \/ BeginHold(id) \/ EndHold(id) PROVE k \in jobs'
    BY <2>5 DEF CreateArm, BeginHold, EndHold, ExpireAfter, Hold, mgrVars
  <2> QED BY <2>2, <2>3, <2>4, <2>5 DEF Next
<1> QED BY <1>1, Invariant, PTL DEF Spec, HeldJobStays

\* The manager implements the abstract registry: in particular a job is
\* forgotten at most once, and only when no handler holds it.
THEOREM RefinesRegistry == Spec => ImplementsRegistry
<1> DEFINE Phase == [id \in JobID |-> IF id \in jobs THEN "known"
                                      ELSE IF user[id] = "none" THEN "unborn" ELSE "gone"]
           Held  == { id \in JobID : user[id] = "holding" }
<1>1. Init => Registry!RegInit
  BY DEF Init, MgrInit, Registry!RegInit
<1>2. IInv /\ [Next]_vars => [Registry!RegNext]_Registry!regVars
  <2> SUFFICES ASSUME IInv, [Next]_vars
               PROVE  Registry!RegNext \/ UNCHANGED <<Phase, Held>>
    BY DEF Registry!regVars
  <2>1. ASSUME NEW id \in JobID, CreateInsert(id) PROVE Registry!Register(id)
    <3>1. /\ user[id] = "none" /\ user' = [user EXCEPT ![id] = "creating"]
          /\ jobs' = jobs \cup {id}
          /\ id \notin jobs
      BY <2>1 DEF CreateInsert, Insert, IInv, UnbornIsUnknown
    <3>2. Phase[id] = "unborn" /\ Phase' = [Phase EXCEPT ![id] = "known"]
      BY <3>1 DEF IInv, TypeOK
    <3>3. Held' = Held
      BY <3>1 DEF IInv, TypeOK
    <3> QED BY <3>2, <3>3 DEF Registry!Register
  <2>2. ASSUME NEW id \in JobID, CreateArm(id) PROVE UNCHANGED <<Phase, Held>>
    <3>1. user[id] = "creating" /\ user' = [user EXCEPT ![id] = "idle"] /\ jobs' = jobs
      BY <2>2 DEF CreateArm, ExpireAfter, mgrVars
    <3>2. Phase' = Phase
      BY <3>1 DEF IInv, TypeOK
    <3>3. Held' = Held
      BY <3>1 DEF IInv, TypeOK
    <3> QED BY <3>2, <3>3
  <2>3. ASSUME NEW id \in JobID, BeginHold(id) PROVE Registry!Take(id)
    <3>1. user[id] = "idle" /\ user' = [user EXCEPT ![id] = "holding"] /\ jobs' = jobs
      BY <2>3 DEF BeginHold, Hold
    <3>2. Phase[id] # "unborn" /\ Phase' = Phase
      BY <3>1 DEF IInv, TypeOK
    <3>3. id \notin Held /\ Held' = Held \cup {id}
      BY <3>1 DEF IInv, TypeOK
    <3> QED BY <3>2, <3>3 DEF Registry!Take
  <2>4. ASSUME NEW id \in JobID, EndHold(id) PROVE Registry!Release(id)
    <3>1. user[id] = "holding" /\ user' = [user EXCEPT ![id] = "idle"] /\ jobs' = jobs
      BY <2>4 DEF EndHold, ExpireAfter, mgrVars
    <3>2. Phase' = Phase
      BY <3>1 DEF IInv, TypeOK
    <3>3. id \in Held /\ Held' = Held \ {id}
      BY <3>1 DEF IInv, TypeOK
    <3> QED BY <3>2, <3>3 DEF Registry!Release
  <2>5. ASSUME NEW t \in Timer, NEW id \in JobID, FireStep(t, id)
        PROVE  UNCHANGED <<Phase, Held>>
    BY <2>5 DEF FireStep, Fire
  <2>6. ASSUME NEW t \in Timer, NEW id \in JobID, ExpireStep(t, id)
        PROVE  Registry!Forget(id) \/ UNCHANGED <<Phase, Held>>
    <3>1. CASE jobs' = jobs
      BY <2>6, <3>1 DEF ExpireStep
    <3>2. CASE jobs' # jobs
      <4>1. jobs' = jobs \ {id} /\ timers[id] = t /\ user' = user
        BY <2>6, <3>2 DEF ExpireStep, Expire, Current
      <4>2. id \in jobs /\ user[id] # "none" /\ user[id] # "holding"
        BY <3>2, <4>1 DEF IInv, UnbornIsUnknown, HeldHasNoTimer
      <4>3. Phase[id] = "known" /\ Phase' = [Phase EXCEPT ![id] = "gone"]
        BY <4>1, <4>2 DEF IInv, TypeOK
      <4>4. id \notin Held /\ Held' = Held
        BY <4>1, <4>2
      <4> QED BY <4>3, <4>4 DEF Registry!Forget
    <3> QED BY <3>1, <3>2
  <2>7. CASE UNCHANGED vars
    BY <2>7 DEF vars
  <2> QED BY <2>1, <2>2, <2>3, <2>4, <2>5, <2>6, <2>7 DEF Next, Registry!RegNext
<1> QED BY <1>1, <1>2, Invariant, PTL DEF Spec, ImplementsRegistry, Registry!RegSpec
=============================================================================
