----------------------------- MODULE MCDownload ------------------------------
(* Download on small instances. The requests name their jobs and clients by   *)
(* the functions below; which one is used is in the configuration.            *)
EXTENDS Download, TLC

CONSTANTS j1, j2, r1, r2, r3, k1, k2

\* Two requests of /file for one job (the second is a retry or a second tab),
\* from one client.
OneJob       == [r \in FileReq |-> j1]
CancelOneJob == [c \in CancelReq |-> j1]
OneClient    == [r \in FileReq |-> k1]

\* Three requests: a client with one job, and another with both.
TwoJobs    == (r1 :> j1) @@ (r2 :> j2) @@ (r3 :> j2)
TwoClients == (r1 :> k1) @@ (r2 :> k1) @@ (r3 :> k2)

\* The behaviours in which no timer fires, TTL being long.
BeforeTTL == Init /\ [][HandlerNext]_vars

Symmetry == Permutations(FileReq) \cup Permutations(Timer)
TimerSymmetry == Permutations(Timer)
=============================================================================
