----------------------------- MODULE JobRegistry -----------------------------
(***************************************************************************)
(* What the rest of the backend relies on when it uses jobs.Manager: a job *)
(* becomes known once, stays known for as long as somebody holds it, and   *)
(* is forgotten at some time after nobody does. How expiry is scheduled    *)
(* (timers, replaced timers, callbacks that are already running) does not  *)
(* appear here; JobManager implements this module.                         *)
(***************************************************************************)

CONSTANT JobID

VARIABLES phase,   \* "unborn", then "known", then "gone", for each ID
          held     \* the IDs whose file handler called Hold, not yet ExpireAfter

regVars == <<phase, held>>

RegInit ==
    /\ phase = [id \in JobID |-> "unborn"]
    /\ held = {}

Register(id) ==
    /\ phase[id] = "unborn"
    /\ phase' = [phase EXCEPT ![id] = "known"]
    /\ UNCHANGED held

\* Also possible for an ID that is gone: the caller's pointer outlives the entry.
Take(id) ==
    /\ phase[id] # "unborn"
    /\ id \notin held
    /\ held' = held \cup {id}
    /\ UNCHANGED phase

Release(id) ==
    /\ id \in held
    /\ held' = held \ {id}
    /\ UNCHANGED phase

Forget(id) ==
    /\ phase[id] = "known"
    /\ id \notin held
    /\ phase' = [phase EXCEPT ![id] = "gone"]
    /\ UNCHANGED held

RegNext == \E id \in JobID : Register(id) \/ Take(id) \/ Release(id) \/ Forget(id)

RegSpec == RegInit /\ [][RegNext]_regVars
=============================================================================
