------------------------------ MODULE MCEvents -------------------------------
(* Events on small instances, where every request is about one job.           *)
EXTENDS Events, TLC

CONSTANTS j1, k1

OneJob       == [r \in FileReq |-> j1]
CancelOneJob == [c \in CancelReq |-> j1]
OneClient    == [r \in FileReq |-> k1]
WatchOneJob  == [w \in Sub |-> j1]

\* The behaviours in which the job is forgotten by nobody, TTL being long; the
\* ones where it is are those of Download. A watcher only meets them in its Get.
BeforeTTL     == EvInit /\ [][(HandlerNext /\ UNCHANGED watchVars) \/ WatchNext]_evVars
FairBeforeTTL == BeforeTTL /\ EvFairness

\* The behaviours in which the client of /file stays until it is answered, and
\* the stage fails with an error of one kind, the one of a stage that is stopped
\* at its deadline included: no watcher tells apart the ways a stream fails.
OneFailure ==
    EvInit /\ [][ \/ /\ Next /\ UNCHANGED <<watchVars, gone>>
                     /\ \A r \in FileReq : err'[r] \in {"none", "streamErr"}
                  \/ WatchNext ]_evVars

Symmetry == Permutations(Sub) \cup Permutations(Timer)
=============================================================================
