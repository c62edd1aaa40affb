------------------------------ MODULE MCShared -------------------------------
(* What the handlers of all requests share: the registry of the jobs and the  *)
(* three limiters of internal/middleware. They share no state with each       *)
(* other, so a behaviour here runs one of them, chosen by the initial state,  *)
(* and leaves the others alone: their states add up instead of multiplying.   *)
(*                                                                            *)
(* The registry has two jobs and three timers: one more than the jobs, so     *)
(* that a job can have a timer in the map while one it had before still runs. *)
EXTENDS JobManager, InFlightLimiter, ConcurrencyLimiter, RateLimiter

VARIABLE which      \* the part that runs

mcVars == <<vars, ipVars, clVars, rlVars, which>>

MCInit ==
    /\ which \in {"registry", "inflight", "concurrency", "rate"}
    /\ Init /\ IPInit /\ CLInit /\ RLInit

MCNext ==
    \/ which = "registry"    /\ Next   /\ UNCHANGED <<ipVars, clVars, rlVars, which>>
    \/ which = "inflight"    /\ IPNext /\ UNCHANGED <<vars, clVars, rlVars, which>>
    \/ which = "concurrency" /\ CLNext /\ UNCHANGED <<vars, ipVars, rlVars, which>>
    \/ which = "rate"        /\ RLNext /\ UNCHANGED <<vars, ipVars, clVars, which>>

\* The fairness of JobManager (while another part runs, none of its actions is
\* enabled) and of ConcurrencyLimiter: its waits time out.
MCSpec ==
    /\ MCInit /\ [][MCNext]_mcVars
    /\ Fairness
    /\ \A c \in Worker : WF_clVars(GiveUp(c))

\* The limiters' variables keep their types; tokens stay between none and the
\* burst, in bounds that are not the types' own.
MiddlewareTypeOK == IPTypeOK /\ CLTypeOK /\ RLTypeOK
=============================================================================
