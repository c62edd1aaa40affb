------------------------------ MODULE Delivery -------------------------------
(***************************************************************************)
(* What the download endpoints promise about each job: at most one request *)
(* produces its bytes at a time, its file is delivered at most once, and   *)
(* once it was delivered or stopped no request begins to produce it again. *)
(* How requests fail, wait, retry and race does not appear here; Download  *)
(* implements this module.                                                 *)
(***************************************************************************)

CONSTANTS JobID, FileReq

VARIABLES streams,     \* the requests that are producing the job's bytes
          delivered,   \* its last byte has been sent
          stopped      \* it has been canceled

dlvVars == <<streams, delivered, stopped>>

DlvInit ==
    /\ streams = [id \in JobID |-> {}]
    /\ delivered = [id \in JobID |-> FALSE]
    /\ stopped = [id \in JobID |-> FALSE]

Start(id, r) ==
    /\ streams[id] = {} /\ ~delivered[id] /\ ~stopped[id]
    /\ streams' = [streams EXCEPT ![id] = {r}]
    /\ UNCHANGED <<delivered, stopped>>

\* A cancel that comes after the last byte was read loses: both may be true.
Deliver(id) ==
    /\ streams[id] # {} /\ ~delivered[id]
    /\ delivered' = [delivered EXCEPT ![id] = TRUE]
    /\ UNCHANGED <<streams, stopped>>

Stop(id) ==
    /\ ~delivered[id] /\ ~stopped[id]
    /\ stopped' = [stopped EXCEPT ![id] = TRUE]
    /\ UNCHANGED <<streams, delivered>>

Finish(id) ==
    /\ streams[id] # {}
    /\ streams' = [streams EXCEPT ![id] = {}]
    /\ UNCHANGED <<delivered, stopped>>

DlvNext ==
    \E id \in JobID :
        \/ \E r \in FileReq : Start(id, r)
        \/ Deliver(id) \/ Stop(id) \/ Finish(id)

DlvSpec == DlvInit /\ [][DlvNext]_dlvVars
=============================================================================
