----------------------------- MODULE JobManager ------------------------------
(***************************************************************************)
(* jobs.Manager (internal/jobs/manager.go): the jobs by ID and, for each,  *)
(* at most one expiry timer. Every method is one critical section of m.mu  *)
(* and is one action here, except Create, which takes the lock twice: once *)
(* to insert the job and once, in ExpireAfter, to arm its first timer.     *)
(*                                                                         *)
(* time.AfterFunc is modelled by what the runtime promises: an armed timer *)
(* may fire at any time; firing starts a goroutine that runs expire later; *)
(* Stop prevents the firing of an armed timer and does nothing to a timer  *)
(* whose goroutine has been started.                                       *)
(*                                                                         *)
(* user[id] is the state of the callers of id: a job that is being created *)
(* has not been returned to anybody, and the file handler calls Hold and,  *)
(* when it returns, ExpireAfter, one handler at a time because of Claim    *)
(* (api/stream.go). Download shows that the handlers keep to this.         *)
(***************************************************************************)

CONSTANTS JobID,    \* identifiers newID can return
          Timer,    \* identities of *time.Timer; bounds the timers that exist at once
          NoTimer   \* the zero value of a lookup in m.timers

ASSUME TimerAssumption == NoTimer \notin Timer

VARIABLES jobs,     \* the keys of m.jobs
          timers,   \* m.timers; NoTimer for a missing key
          armed,    \* timers the runtime will fire, with the id their callback captured
          fired,    \* the same for those whose goroutine runs, before it locks m.mu
          user      \* where the callers of an ID are

mgrVars == <<jobs, timers, armed, fired>>
vars    == <<jobs, timers, armed, fired, user>>

UserState == {"none", "creating", "idle", "holding"}

TypeOK ==
    /\ jobs \subseteq JobID
    /\ timers \in [JobID -> Timer \cup {NoTimer}]
    /\ armed \subseteq Timer \X JobID
    /\ fired \subseteq Timer \X JobID
    /\ user \in [JobID -> UserState]

\* A timer that is neither pending nor running nor in the map is garbage, and
\* its identity can be the next one allocated.
FreeTimers == { t \in Timer : \A id \in JobID :
                    timers[id] # t /\ <<t, id>> \notin armed \cup fired }

MgrInit ==
    /\ jobs = {}
    /\ timers = [id \in JobID |-> NoTimer]
    /\ armed = {}
    /\ fired = {}

Init ==
    /\ MgrInit
    /\ user = [id \in JobID |-> "none"]

-----------------------------------------------------------------------------
(* The methods. *)

Insert(id) ==
    /\ jobs' = jobs \cup {id}
    /\ UNCHANGED <<timers, armed, fired>>

\* Wrong: forgets to stop the timer.
ArmedAll(id) == armed

\* What stays armed when m.timers[id], if there is one, is stopped.
ArmedWithout(id) == { p \in armed : p[1] # timers[id] }

\* Wrong: re-arms the timer in the map instead of making one, even if there is none.
ResetTimer(id) ==
    \/ /\ id \notin jobs
       /\ UNCHANGED mgrVars
    \/ /\ id \in jobs
       /\ armed' = armed \cup {<<timers[id], id>>}
       /\ UNCHANGED <<jobs, timers, fired>>

\* Wrong: arms a timer for a job that is gone.
ExpireAnyAfter(id) ==
    \E t \in FreeTimers :
        /\ timers' = [timers EXCEPT ![id] = t]
        /\ armed' = ArmedWithout(id) \cup {<<t, id>>}
        /\ UNCHANGED <<jobs, fired>>

\* Wrong: replaces a timer, but starts none where there was none.
ReplaceTimer(id) ==
    \/ /\ timers[id] = NoTimer
       /\ UNCHANGED mgrVars
    \/ /\ timers[id] # NoTimer
       /\ ExpireAnyAfter(id)

ExpireAfter(id) ==
    \/ /\ id \notin jobs
       /\ UNCHANGED mgrVars
    \/ /\ id \in jobs
       /\ \E t \in FreeTimers :
             /\ timers' = [timers EXCEPT ![id] = t]
             /\ armed' = ArmedWithout(id) \cup {<<t, id>>}
       /\ UNCHANGED <<jobs, fired>>

\* Wrong: stops the timer, but leaves it in the map.
StopOnly(id) ==
    /\ armed' = ArmedWithout(id)
    /\ UNCHANGED <<jobs, timers, fired>>

Hold(id) ==
    /\ timers' = [timers EXCEPT ![id] = NoTimer]
    /\ armed' = ArmedWithout(id)
    /\ UNCHANGED <<jobs, fired>>

Fire(t, id) ==
    /\ <<t, id>> \in armed
    /\ armed' = armed \ {<<t, id>>}
    /\ fired' = fired \cup {<<t, id>>}
    /\ UNCHANGED <<jobs, timers>>

\* Wrong: any timer of the job removes it.
AnyTimer(t, id) == TRUE

\* expire's comparison: a timer that was replaced or held after it fired is
\* not the one in the map, and is ignored.
Current(t, id) == timers[id] = t

\* Wrong: deletes the map's timer before the comparison.
ExpireDeletesFirst(t, id) ==
    /\ <<t, id>> \in fired
    /\ fired' = fired \ {<<t, id>>}
    /\ timers' = [timers EXCEPT ![id] = NoTimer]
    /\ jobs' = IF Current(t, id) THEN jobs \ {id} ELSE jobs
    /\ UNCHANGED armed

Expire(t, id) ==
    /\ <<t, id>> \in fired
    /\ fired' = fired \ {<<t, id>>}
    /\ \/ /\ ~Current(t, id)
          /\ UNCHANGED <<jobs, timers>>
       \/ /\ Current(t, id)
          /\ jobs' = jobs \ {id}
          /\ timers' = [timers EXCEPT ![id] = NoTimer]
    /\ UNCHANGED armed

-----------------------------------------------------------------------------
(* The methods under the discipline of their callers. *)

CreateInsert(id) ==
    /\ user[id] = "none"
    /\ Insert(id)
    /\ user' = [user EXCEPT ![id] = "creating"]

CreateArm(id) ==
    /\ user[id] = "creating"
    /\ ExpireAfter(id)
    /\ user' = [user EXCEPT ![id] = "idle"]

\* The handler got the job with Get earlier: it may be gone by now.
BeginHold(id) ==
    /\ user[id] = "idle"
    /\ Hold(id)
    /\ user' = [user EXCEPT ![id] = "holding"]

EndHold(id) ==
    /\ user[id] = "holding"
    /\ ExpireAfter(id)
    /\ user' = [user EXCEPT ![id] = "idle"]

FireStep(t, id)   == Fire(t, id) /\ UNCHANGED user
ExpireStep(t, id) == Expire(t, id) /\ UNCHANGED user

Next ==
    \/ \E id \in JobID : CreateInsert(id) \/ CreateArm(id) \/ BeginHold(id) \/ EndHold(id)
    \/ \E t \in Timer, id \in JobID : FireStep(t, id) \/ ExpireStep(t, id)

Spec == Init /\ [][Next]_vars

\* The runtime fires timers and runs their goroutines, and Create returns. A
\* handler is not obliged to finish: it may stream forever. Strong fairness of
\* CreateArm only makes up for the bound on Timer: in the code an allocation
\* never waits for another job's callback to run.
Fairness ==
    /\ \A t \in Timer, id \in JobID : WF_vars(FireStep(t, id)) /\ WF_vars(ExpireStep(t, id))
    /\ \A id \in JobID : SF_vars(CreateArm(id))

FairSpec == Spec /\ Fairness

-----------------------------------------------------------------------------
(* Properties. *)

\* An entry of m.timers belongs to a job that is still in m.jobs and is a
\* timer that will run expire for that job: neither map leaks an entry.
TimersWillExpire ==
    \A id \in JobID : timers[id] # NoTimer =>
        /\ id \in jobs
        /\ <<timers[id], id>> \in armed \cup fired

\* A timer that was replaced or held never stays armed (manager.go:39, :55).
NoStrayTimer == \A p \in armed : timers[p[2]] = p[1]

\* A job held by its handler has no timer: nothing can expire it. Needs both
\* Hold's delete and the order of Hold and ExpireAfter.
HeldHasNoTimer == \A id \in JobID : user[id] = "holding" => timers[id] = NoTimer

\* A job nobody holds has a timer: none stays in memory forever.
IdleHasTimer == \A id \in jobs : user[id] = "idle" => timers[id] # NoTimer

\* While the handler of a job holds it, no step of any timer removes it
\* ("for a job still running past its TTL", manager.go:55).
HeldJobStays ==
    [][ \A id \in jobs : user[id] = "holding" => id \in jobs' ]_vars

\* Every job is eventually removed or held.
EventuallyForgotten ==
    \A id \in JobID : id \in jobs ~> (id \notin jobs \/ user[id] = "holding")

\* The manager implements JobRegistry: forgetting a job is only ever a step
\* that happens to a job nobody holds, and only once.
Registry == INSTANCE JobRegistry WITH
    phase <- [id \in JobID |-> IF id \in jobs THEN "known"
                               ELSE IF user[id] = "none" THEN "unborn" ELSE "gone"],
    held  <- { id \in JobID : user[id] = "holding" }

ImplementsRegistry == Registry!RegSpec
=============================================================================
