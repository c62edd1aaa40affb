------------------------- MODULE DownloadRefinements --------------------------
(***************************************************************************)
(* The handlers of Download implement four specifications: the delivery of *)
(* a file, as its clients see it, and the job manager, the per-client      *)
(* limiter and the server-wide one, as their callers must use them.        *)
(***************************************************************************)
EXTENDS DownloadProofs, FiniteSetTheorems

USE RequestAssumption, JobAssumption, LimitAssumption, NilAssumption

-----------------------------------------------------------------------------
(* The abstract delivery. *)

\* Seen as streams, deliveries and stops, every step of the handlers is one the
\* abstract specification allows.
THEOREM RefinesDelivery == Spec => ImplementsDelivery
<1> DEFINE S == [id \in JobID |-> { r \in FileReq : FileJob[r] = id /\ Streaming(r) }]
           D == [id \in JobID |-> job[id].status = "completed"]
           C == [id \in JobID |-> job[id].canceled]
<1>1. Init => Dlv!DlvInit
  <2> SUFFICES ASSUME Init PROVE Dlv!DlvInit
    OBVIOUS
  <2>1. /\ \A r \in FileReq : ~Streaming(r)
        /\ \A id \in JobID : job[id].status = "pending" /\ job[id].canceled = FALSE
    BY DEF Init, NewJob, Streaming
  <2> QED BY <2>1 DEF Dlv!DlvInit
<1>2. ASSUME IInv, IInv', [Next]_vars PROVE [Dlv!DlvNext]_(Dlv!dlvVars)
  <2>t. /\ pc \in [FileReq -> FilePC] /\ job \in [JobID -> JobRecord]
        /\ FileJob \in [FileReq -> JobID] /\ CancelJob \in [CancelReq -> JobID]
    BY <1>2, RequestAssumption DEF IInv, Types, FileTyped, SharedTyped
  <2>1. CASE HandlersAlike /\ JobsAlike
    <3>1. S' = S
      BY <2>1 DEF HandlersAlike
    <3>2. D' = D /\ C' = C
      BY <2>1 DEF JobsAlike
    <3> QED BY <3>1, <3>2 DEF Dlv!dlvVars
  <2>2. ASSUME NEW r \in FileReq, FileClaim(r), ~(HandlersAlike /\ JobsAlike)
        PROVE  Dlv!Start(FileJob[r], r)
    <3>1. /\ pc[r] = "claim" /\ pc' = [pc EXCEPT ![r] = "hold"]
          /\ Claimable(job[FileJob[r]])
          /\ job' = [job EXCEPT ![FileJob[r]] = Claim(@)]
      BY <1>2, <2>2, ClaimStep
    <3>2. \A q \in FileReq : /\ Streaming(q) => FileJob[q] # FileJob[r]
                             /\ Streaming(q)' <=> Streaming(q) \/ q = r
      BY <1>2, <2>t, <3>1 DEF IInv, OneStreamPerJob, Claimable, Streaming
    <3>3. S[FileJob[r]] = {} /\ S' = [S EXCEPT ![FileJob[r]] = {r}]
      <4>1. S[FileJob[r]] = {}
        BY <2>t, <3>2
      <4>2. { q \in FileReq : FileJob[q] = FileJob[r] /\ Streaming(q)' } = {r}
        BY <2>t, <3>2
      <4>3. \A id \in JobID : id # FileJob[r] =>
               { q \in FileReq : FileJob[q] = id /\ Streaming(q)' }
                  = { q \in FileReq : FileJob[q] = id /\ Streaming(q) }
        BY <2>t, <3>2
      <4>4. S' = [id \in JobID |-> IF id = FileJob[r] THEN {r} ELSE S[id]]
        BY <4>2, <4>3
      <4> QED BY <4>1, <4>4, Zenon
    <3>4. D' = D /\ C' = C
      BY <2>t, <3>1 DEF Claim, JobRecord
    <3>5. ~D[FileJob[r]] /\ ~C[FileJob[r]]
      BY <2>t, <3>1 DEF Claimable
    <3> QED BY <3>3, <3>4, <3>5 DEF Dlv!Start
  <2>3. ASSUME NEW r \in FileReq, FileUnclaim(r) PROVE Dlv!Finish(FileJob[r])
    <3>1. /\ pc[r] = "unclaim" /\ pc' = [pc EXCEPT ![r] = "replied"]
          /\ job' = [job EXCEPT ![FileJob[r]] = Unclaim(@)]
      BY <2>3 DEF FileUnclaim, Goto
    <3>2. \A q \in FileReq : /\ Streaming(q) /\ FileJob[q] = FileJob[r] => q = r
                             /\ Streaming(q)' <=> Streaming(q) /\ q # r
      BY <1>2, <2>t, <3>1 DEF IInv, OneStreamPerJob, Streaming
    <3>3. r \in S[FileJob[r]] /\ S' = [S EXCEPT ![FileJob[r]] = {}]
      <4>1. r \in S[FileJob[r]]
        BY <2>t, <3>1 DEF Streaming
      <4>2. { q \in FileReq : FileJob[q] = FileJob[r] /\ Streaming(q)' } = {}
        BY <2>t, <3>2
      <4>3. \A id \in JobID : id # FileJob[r] =>
               { q \in FileReq : FileJob[q] = id /\ Streaming(q)' }
                  = { q \in FileReq : FileJob[q] = id /\ Streaming(q) }
        BY <2>t, <3>2
      <4>4. S' = [id \in JobID |-> IF id = FileJob[r] THEN {} ELSE S[id]]
        BY <4>2, <4>3
      <4> QED BY <4>1, <4>4, Zenon
    <3>4. D' = D /\ C' = C
      BY <2>t, <3>1 DEF Unclaim, JobRecord
    <3> QED BY <3>3, <3>4 DEF Dlv!Finish
  <2>4. ASSUME NEW r \in FileReq, Done(r) PROVE Dlv!Deliver(FileJob[r])
    <3>1. /\ pc[r] = "done" /\ pc' = [pc EXCEPT ![r] = "announceDone"]
          /\ job' = [job EXCEPT ![FileJob[r]] = SetStatus(@, "completed")]
      BY <2>4 DEF Done, SetTo, Goto
    <3>2. \A q \in FileReq : Streaming(q)' <=> Streaming(q)
      BY <2>t, <3>1 DEF Streaming
    <3>3. S' = S /\ r \in S[FileJob[r]]
      BY <2>t, <3>1, <3>2 DEF Streaming
    <3>4. D' = [D EXCEPT ![FileJob[r]] = TRUE] /\ C' = C
      <4>1. \A id \in JobID : /\ job'[id].canceled = job[id].canceled
                              /\ id = FileJob[r] => job'[id].status = "completed"
                              /\ id # FileJob[r] => job'[id].status = job[id].status
        BY <2>t, <3>1 DEF SetStatus, JobRecord
      <4>2. C' = C
        BY <4>1
      <4>3. D' = [id \in JobID |-> IF id = FileJob[r] THEN TRUE ELSE D[id]]
        BY <4>1
      <4> QED BY <4>2, <4>3, Zenon
    <3>5. ~D[FileJob[r]]
      BY <1>2, <2>t, <3>1 DEF IInv, EndsOnce, Streaming, Ending
    <3> QED BY <3>3, <3>4, <3>5 DEF Dlv!Deliver
  <2>5. ASSUME NEW c \in CancelReq, CancelLock(c), ~(HandlersAlike /\ JobsAlike)
        PROVE  Dlv!Stop(CancelJob[c])
    <3>1. /\ Cancelable(job[CancelJob[c]]) /\ HandlersAlike
          /\ job' = [job EXCEPT ![CancelJob[c]] = Cancel(@)]
      BY <1>2, <2>5, CancelLockStep
    <3>2. S' = S
      BY <3>1 DEF HandlersAlike
    <3>3. D' = D /\ C' = [C EXCEPT ![CancelJob[c]] = TRUE]
      <4>1. \A id \in JobID : job'[id].status = "completed" <=> job[id].status = "completed"
        BY <2>t, <3>1 DEF Cancelable, Cancel, JobRecord
      <4>2. D' = D
        BY <4>1
      <4>3. job'[CancelJob[c]].canceled = TRUE
        <5>1. \A j \in JobRecord : Cancel(j).canceled = TRUE
          BY DEF Cancel, JobRecord
        <5>2. job'[CancelJob[c]] = Cancel(job[CancelJob[c]])
          BY <2>t, <3>1
        <5> QED BY <2>t, <5>1, <5>2
      <4>4. \A id \in JobID : id # CancelJob[c] => job'[id] = job[id]
        BY <2>t, <3>1
      <4>5. C' = [id \in JobID |-> IF id = CancelJob[c] THEN TRUE ELSE C[id]]
        BY <4>3, <4>4
      <4> QED BY <4>2, <4>5, Zenon
    <3>4. ~D[CancelJob[c]] /\ ~C[CancelJob[c]]
      BY <2>t, <3>1 DEF Cancelable
    <3> QED BY <3>2, <3>3, <3>4 DEF Dlv!Stop
  <2> QED
    BY <1>2, <2>t, <2>1, <2>2, <2>3, <2>4, <2>5, CriticalSteps DEF Dlv!DlvNext
<1> QED BY <1>1, <1>2, Invariance, PTL DEF Spec, ImplementsDelivery, Dlv!DlvSpec

-----------------------------------------------------------------------------
(* What the manager and the limiters see of a step. *)

\* Where a handler has taken nothing yet, or has given everything back.
Bare == {"start", "claim", "hold", "ip", "unclaim", "replied"}

\* The job is held: from Hold to ExpireAfter.
Holding(r) == pc[r] \notin {"start", "claim", "hold", "unclaim", "replied"}

\* Both limiters have let the handler in, and it has not failed: it runs
\* yt-dlp, or may.
Working(r) ==
    pc[r] \notin Bare \cup {"slot", "fail", "announceFail", "unwind"}

\* What a handler has, where it is; its job has been created.
Holdings(r) ==
    /\ Working(r) => has[r] = {"ip", "slot"}
    /\ pc[r] \in Bare => has[r] = {}
    /\ pc[r] = "slot" => has[r] = {"ip"}
    /\ pc[r] # "start" => made[FileJob[r]] = "idle"

HInv == \A r \in FileReq : Holdings(r)

\* A step that neither the manager nor a limiter sees.
Passes(r) ==
    /\ UNCHANGED <<mgrVars, made, perIP, slots, has>>
    /\ \A q \in FileReq : q # r => pc'[q] = pc[q]
    /\ Holding(r)' <=> Holding(r)
    /\ pc'[r] = "slot" <=> pc[r] = "slot"
    /\ pc'[r] \in Bare => pc[r] \in Bare
    /\ Working(r)' => Working(r)
    /\ pc'[r] # "start" => pc[r] # "start" \/ Known(FileJob[r])

\* The handler's steps that one of them sees.
Seen(r) == \/ FileHold(r) \/ FileExpireAfter(r)
           \/ AcquireIP(r) \/ ReleaseIP(r)
           \/ AcquireSlot(r) \/ GiveUpSlot(r) \/ ReleaseSlot(r)

LEMMA UnseenPasses ==
    ASSUME Types, NEW r \in FileReq, FileStep(r) \/ FileChance(r) \/ Deadline(r), ~Seen(r)
    PROVE  Passes(r)
<1> USE DEF Passes, Holding, Working, Bare, Goto
<1>0. pc \in [FileReq -> FilePC]
  BY DEF Types, FileTyped
<1>1. CASE FileGet(r)
  BY <1>0, <1>1 DEF FileGet
<1>2. CASE FileClaim(r)
  BY <1>0, <1>2 DEF FileClaim
<1>3. CASE RefuseIP(r)
  BY <1>0, <1>3 DEF RefuseIP, Reject
<1>4. CASE Register(r)
  BY <1>0, <1>4 DEF Register
<1>5. CASE CheckCanceled(r)
  BY <1>0, <1>5 DEF CheckCanceled
<1>6. CASE ResolveFx(r)
  BY <1>0, <1>6 DEF ResolveFx, Reject
<1>7. CASE Begin(r)
  BY <1>0, <1>7 DEF Begin, SetTo
<1>8. CASE Announce(r)
  BY <1>0, <1>8 DEF Announce, Launch
<1>9. CASE FetchFails(r)
  BY <1>0, <1>9 DEF FetchFails, StageReturns
<1>10. CASE FetchDone(r)
  BY <1>0, <1>10 DEF FetchDone
<1>11. CASE Process(r)
  BY <1>0, <1>11 DEF Process, SetTo
<1>12. CASE AnnounceProcess(r)
  BY <1>0, <1>12 DEF AnnounceProcess, Launch
<1>13. CASE Progress(r)
  BY <1>0, <1>13 DEF Progress, reqVars
<1>14. CASE BeginWrite(r)
  BY <1>0, <1>14 DEF BeginWrite
<1>15. CASE BodyFails(r)
  BY <1>0, <1>15 DEF BodyFails, StageReturns
<1>16. CASE BodyDone(r)
  BY <1>0, <1>16 DEF BodyDone, StageReturns
<1>17. CASE Done(r)
  BY <1>0, <1>17 DEF Done, SetTo
<1>18. CASE AnnounceDone(r)
  BY <1>0, <1>18 DEF AnnounceDone
<1>19. CASE Classify(r)
  BY <1>0, <1>19 DEF Classify, Reject
<1>20. CASE Fail(r)
  BY <1>0, <1>20 DEF Fail, SetTo
<1>21. CASE AnnounceFail(r)
  BY <1>0, <1>21 DEF AnnounceFail
<1>22. CASE FileUnclaim(r)
  BY <1>0, <1>22 DEF FileUnclaim
<1>23. CASE ClientGone(r)
  BY <1>0, <1>23 DEF ClientGone
<1>24. CASE Deadline(r)
  BY <1>0, <1>24 DEF Deadline
<1>25. CASE Written(r)
  BY <1>0, <1>25 DEF Written
<1>26. CASE WriteFails(r)
  BY <1>0, <1>26 DEF WriteFails, StageReturns
<1> QED
  BY <1>1, <1>2, <1>3, <1>4, <1>5, <1>6, <1>7, <1>8, <1>9, <1>10, <1>11, <1>12, <1>13,
     <1>14, <1>15, <1>16, <1>17, <1>18, <1>19, <1>20, <1>21, <1>22, <1>23, <1>24, <1>25, <1>26 DEF
     FileStep, FileChance, StageKilled, Seen

LEMMA HInvInit == Init => HInv
BY RequestAssumption DEF Init, HInv, Holdings, Working, Bare

LEMMA HInvStep == Types /\ HInv /\ [Next]_vars => HInv'
<1> SUFFICES ASSUME Types, HInv, [Next]_vars PROVE HInv'
  OBVIOUS
<1> USE DEF HInv, Holdings, Working, Bare, Goto
<1>0. /\ pc \in [FileReq -> FilePC] /\ has \in [FileReq -> SUBSET {"ip", "slot"}]
      /\ made \in [JobID -> {"none", "creating", "idle"}]
      /\ \A r \in FileReq : Holdings(r) /\ FileJob[r] \in JobID
  BY RequestAssumption DEF Types, FileTyped, SharedTyped
<1>1. ASSUME NEW r \in FileReq, Passes(r) PROVE HInv'
  BY <1>0, <1>1 DEF Passes, Known
<1>2. ASSUME NEW r \in FileReq, Seen(r) PROVE HInv'
  <2>1. CASE FileHold(r)
    BY <1>0, <2>1 DEF FileHold
  <2>2. CASE FileExpireAfter(r)
    BY <1>0, <2>2 DEF FileExpireAfter
  <2>3. CASE AcquireIP(r)
    BY <1>0, <2>3 DEF AcquireIP
  <2>4. CASE ReleaseIP(r)
    BY <1>0, <2>4 DEF ReleaseIP
  <2>5. CASE AcquireSlot(r)
    BY <1>0, <2>5 DEF AcquireSlot
  <2>6. CASE GiveUpSlot(r)
    BY <1>0, <2>6 DEF GiveUpSlot, Reject
  <2>7. CASE ReleaseSlot(r)
    BY <1>0, <2>7 DEF ReleaseSlot
  <2> QED BY <1>2, <2>1, <2>2, <2>3, <2>4, <2>5, <2>6, <2>7 DEF Seen
<1>3. ASSUME NEW id \in JobID, CreateInsert(id) \/ CreateArm(id) PROVE HInv'
  BY <1>0, <1>3 DEF CreateInsert, CreateArm, reqVars
<1>4. CASE \/ \E t \in Timer, id \in JobID : TimerStep(t, id)
           \/ \E c \in CancelReq : CancelGet(c) \/ CancelStep(c)
           \/ UNCHANGED vars
  <2> UNCHANGED <<pc, has, made>>
    BY <1>4 DEF TimerStep, TimerFires, TimerExpires, CancelGet, CancelStep, CancelLock,
                CallCancelFn, AnnounceCancel, vars, reqVars
  <2> QED BY <1>0
<1> QED BY <1>1, <1>2, <1>3, <1>4, StepsByActor, UnseenPasses

LEMMA HInvariance == Spec => [](IInv /\ HInv)
<1>1. IInv => Types
  BY DEF IInv
<1> QED BY <1>1, IInvInit, IInvStep, HInvInit, HInvStep, PTL DEF Spec

-----------------------------------------------------------------------------
(* The job manager. *)

\* What the manager sees of the callers of a job.
User == [id \in JobID |->
            IF \E r \in FileReq : /\ FileJob[r] = id
                                  /\ pc[r] \notin {"start", "claim", "hold", "unclaim", "replied"}
            THEN "holding" ELSE made[id]]

LEMMA ManagerStep == IInv /\ HInv /\ [Next]_vars => [Mgr!Next]_(Mgr!vars)
<1> SUFFICES ASSUME IInv, HInv, [Next]_vars PROVE [Mgr!Next]_(Mgr!vars)
  OBVIOUS
<1>0. /\ pc \in [FileReq -> FilePC]
      /\ made \in [JobID -> {"none", "creating", "idle"}]
      /\ FileJob \in [FileReq -> JobID]
      /\ \A r \in FileReq : Holdings(r)
      /\ \A id \in JobID :
            User[id] = IF \E r \in FileReq : FileJob[r] = id /\ Holding(r) THEN "holding" ELSE made[id]
      /\ \A id \in JobID : made[id] # "idle" => User[id] = made[id]
  BY RequestAssumption DEF IInv, Types, FileTyped, SharedTyped, HInv, User, Holding, Holdings
<1>u. ASSUME NEW id \in JobID, NEW u,
             \A i \in JobID : User'[i] = IF i = id THEN u ELSE User[i]
      PROVE  User' = [User EXCEPT ![id] = u]
  <2>1. User = [i \in JobID |-> User[i]] /\ User' = [i \in JobID |-> User'[i]]
    BY Zenon DEF User
  <2> QED BY <1>u, <2>1
<1>1. ASSUME UNCHANGED <<mgrVars, made>>,
             \A r \in FileReq : Holding(r)' <=> Holding(r)
      PROVE  UNCHANGED Mgr!vars
  <2>1. User' = User
    BY <1>1 DEF User, Holding
  <2> QED BY <1>1, <2>1 DEF Mgr!vars, mgrVars, User
<1>2. ASSUME NEW r \in FileReq, FileHold(r) PROVE Mgr!BeginHold(FileJob[r])
  <2>1. /\ pc[r] = "hold" /\ pc' = [pc EXCEPT ![r] = "ip"] /\ made' = made
        /\ Mgr!Hold(FileJob[r])
    BY <1>2 DEF FileHold, Goto
  <2>2. made[FileJob[r]] = "idle"
    BY <1>0, <2>1 DEF Holdings
  <2>3. \A q \in FileReq : q # r /\ FileJob[q] = FileJob[r] => ~Holding(q)
    BY <2>1, OthersElsewhere DEF Holding, Streaming
  <2>4. User[FileJob[r]] = "idle"
    BY <1>0, <2>1, <2>2, <2>3 DEF Holding
  <2>5. \A q \in FileReq : Holding(q)' <=> Holding(q) \/ q = r
    BY <1>0, <2>1 DEF Holding
  <2>6. User' = [User EXCEPT ![FileJob[r]] = "holding"]
    <3>1. \A i \in JobID : User'[i] = IF i = FileJob[r] THEN "holding" ELSE User[i]
      BY <1>0, <2>1, <2>5 DEF User, Holding
    <3> QED BY <1>0, <1>u, <3>1
  <2> QED BY <2>1, <2>4, <2>6 DEF Mgr!BeginHold, User
<1>3. ASSUME NEW r \in FileReq, FileExpireAfter(r) PROVE Mgr!EndHold(FileJob[r])
  <2>1. /\ pc[r] = "unwind" /\ pc' = [pc EXCEPT ![r] = "unclaim"] /\ made' = made
        /\ Mgr!ExpireAfter(FileJob[r])
    BY <1>3 DEF FileExpireAfter, Goto
  <2>2. made[FileJob[r]] = "idle"
    BY <1>0, <2>1 DEF Holdings
  <2>3. \A q \in FileReq : q # r /\ FileJob[q] = FileJob[r] => ~Holding(q)
    BY <2>1, OthersElsewhere DEF Holding, Streaming
  <2>4. User[FileJob[r]] = "holding"
    BY <1>0, <2>1 DEF Holding
  <2>5. \A q \in FileReq : Holding(q)' <=> Holding(q) /\ q # r
    BY <1>0, <2>1 DEF Holding
  <2>6. User' = [User EXCEPT ![FileJob[r]] = "idle"]
    <3>1. \A i \in JobID : User'[i] = IF i = FileJob[r] THEN "idle" ELSE User[i]
      BY <1>0, <2>1, <2>2, <2>3, <2>5 DEF User, Holding
    <3> QED BY <1>0, <1>u, <3>1
  <2> QED BY <2>1, <2>4, <2>6 DEF Mgr!EndHold, User
<1>4. ASSUME NEW r \in FileReq, Seen(r), ~FileHold(r), ~FileExpireAfter(r)
      PROVE  UNCHANGED Mgr!vars
  <2>1. /\ UNCHANGED <<mgrVars, made>>
        /\ \A q \in FileReq : Holding(q)' <=> Holding(q)
    BY <1>0, <1>4 DEF Seen, AcquireIP, ReleaseIP, AcquireSlot, GiveUpSlot, Reject, ReleaseSlot,
                      Goto, Holding
  <2> QED BY <1>1, <2>1
<1>5. ASSUME NEW r \in FileReq, Passes(r) PROVE UNCHANGED Mgr!vars
  <2>1. \A q \in FileReq : Holding(q)' <=> Holding(q)
    BY <1>5 DEF Passes, Holding
  <2> QED BY <1>1, <1>5, <2>1 DEF Passes
<1>6. ASSUME NEW id \in JobID, CreateInsert(id) PROVE Mgr!CreateInsert(id)
  <2>1. /\ made[id] = "none" /\ made' = [made EXCEPT ![id] = "creating"] /\ pc' = pc
        /\ Mgr!Insert(id)
    BY <1>6 DEF CreateInsert, reqVars
  <2>2. User[id] = "none" /\ \A r \in FileReq : FileJob[r] = id => ~Holding(r)
    BY <1>0, <2>1 DEF Holdings, Holding
  <2>3. \A i \in JobID : User'[i] = IF i = id THEN "creating" ELSE User[i]
    BY <1>0, <2>1, <2>2 DEF User, Holding
  <2> QED BY <1>u, <2>1, <2>2, <2>3 DEF Mgr!CreateInsert, User
<1>7. ASSUME NEW id \in JobID, CreateArm(id) PROVE Mgr!CreateArm(id)
  <2>1. /\ made[id] = "creating" /\ made' = [made EXCEPT ![id] = "idle"] /\ pc' = pc
        /\ Mgr!ExpireAfter(id)
    BY <1>7 DEF CreateArm, reqVars
  <2>2. User[id] = "creating" /\ \A r \in FileReq : FileJob[r] = id => ~Holding(r)
    BY <1>0, <2>1 DEF Holdings, Holding
  <2>3. \A i \in JobID : User'[i] = IF i = id THEN "idle" ELSE User[i]
    BY <1>0, <2>1, <2>2 DEF User, Holding
  <2> QED BY <1>u, <2>1, <2>2, <2>3 DEF Mgr!CreateArm, User
<1>8. ASSUME NEW t \in Timer, NEW id \in JobID, TimerStep(t, id)
      PROVE  Mgr!FireStep(t, id) \/ Mgr!ExpireStep(t, id)
  <2>1. User' = User /\ (Mgr!Fire(t, id) \/ Mgr!Expire(t, id))
    BY <1>8 DEF TimerStep, TimerFires, TimerExpires, User, reqVars
  <2> QED BY <2>1 DEF Mgr!FireStep, Mgr!ExpireStep, User
<1>9. CASE \/ \E c \in CancelReq : CancelGet(c) \/ CancelStep(c)
           \/ UNCHANGED vars
  <2>1. UNCHANGED <<mgrVars, made, pc>>
    BY <1>9 DEF CancelGet, CancelStep, CancelLock, CallCancelFn, AnnounceCancel, vars, reqVars
  <2> QED BY <1>1, <2>1 DEF Holding
<1> QED
  BY <1>0, <1>2, <1>3, <1>4, <1>5, <1>6, <1>7, <1>8, <1>9, StepsByActor, UnseenPasses
  DEF Mgr!Next, IInv

LEMMA ManagerInit == Init => Mgr!Init
<1> SUFFICES ASSUME Init PROVE Mgr!Init
  OBVIOUS
<1>1. User = [id \in JobID |-> "none"]
  BY DEF Init, User
<1> QED BY <1>1 DEF Init, Mgr!Init, User

\* The handlers keep to the discipline the manager's properties assume: Hold and
\* ExpireAfter alternate, whatever the order of claims, cancels and retries.
THEOREM RefinesManager == Spec => ImplementsManager
BY ManagerInit, ManagerStep, HInvariance, PTL DEF Spec, ImplementsManager, Mgr!Spec

-----------------------------------------------------------------------------
(* The two limiters. *)

Holder == [r \in FileReq |-> IF "ip" \in has[r] THEN ClientOf[r] ELSE NoClient]

Place == [r \in FileReq |-> IF "slot" \in has[r] THEN "inside"
                            ELSE IF pc[r] = "slot" THEN "waiting" ELSE "outside"]

LEMMA LimitersInit == Init => IPs!IPInit /\ Slots!CLInit
BY DEF Init, IPs!IPInit, Slots!CLInit

\* A handler other than r is seen as before.
LEMMA OthersSeenAlike ==
    ASSUME Types, NEW r \in FileReq, Goto(r, pc[r], pc'[r]),
           NEW H, has' = [has EXCEPT ![r] = H]
    PROVE  /\ Holder' = [Holder EXCEPT ![r] = IF "ip" \in H THEN ClientOf[r] ELSE NoClient]
           /\ Place' = [Place EXCEPT ![r] = IF "slot" \in H THEN "inside"
                            ELSE IF pc'[r] = "slot" THEN "waiting" ELSE "outside"]
<1>1. /\ \A q \in FileReq : q # r => pc'[q] = pc[q] /\ has'[q] = has[q]
      /\ has'[r] = H
  BY DEF Types, FileTyped, Goto
<1>2. Holder' = [q \in FileReq |-> IF q = r THEN IF "ip" \in H THEN ClientOf[r] ELSE NoClient
                                   ELSE Holder[q]]
  BY <1>1 DEF Holder
<1>3. Place' = [q \in FileReq |->
                   IF q = r THEN IF "slot" \in H THEN "inside"
                                 ELSE IF pc'[r] = "slot" THEN "waiting" ELSE "outside"
                   ELSE Place[q]]
  BY <1>1 DEF Place
<1>4. Holder = [q \in FileReq |-> Holder[q]] /\ Place = [q \in FileReq |-> Place[q]]
  BY DEF Holder, Place
<1> QED BY <1>2, <1>3, <1>4, Zenon

LEMMA LimitersStep ==
    Types /\ HInv /\ [Next]_vars => [IPs!IPNext]_(IPs!ipVars) /\ [Slots!CLNext]_(Slots!clVars)
<1> SUFFICES ASSUME Types, HInv, [Next]_vars
             PROVE  [IPs!IPNext]_(IPs!ipVars) /\ [Slots!CLNext]_(Slots!clVars)
  OBVIOUS
<1> USE DEF Holder, Place
<1>0. /\ pc \in [FileReq -> FilePC] /\ has \in [FileReq -> SUBSET {"ip", "slot"}]
      /\ \A r \in FileReq : Holdings(r) /\ ClientOf[r] \in Client
  BY RequestAssumption DEF Types, FileTyped, HInv
<1>1. UNCHANGED <<perIP, Holder>> => UNCHANGED IPs!ipVars
  BY DEF IPs!ipVars
<1>2. UNCHANGED <<slots, Place>> => UNCHANGED Slots!clVars
  BY DEF Slots!clVars
<1>3. ASSUME NEW r \in FileReq, Passes(r) PROVE UNCHANGED <<IPs!ipVars, Slots!clVars>>
  <2>1. UNCHANGED <<perIP, slots, has>> /\ \A q \in FileReq : pc'[q] = "slot" <=> pc[q] = "slot"
    BY <1>3 DEF Passes
  <2>2. Holder' = Holder /\ Place' = Place
    BY <2>1
  <2> QED BY <1>1, <1>2, <2>1, <2>2
<1>4. ASSUME NEW r \in FileReq, FileHold(r) \/ FileExpireAfter(r)
      PROVE  UNCHANGED <<IPs!ipVars, Slots!clVars>>
  <2>1. UNCHANGED <<perIP, slots, has>> /\ \A q \in FileReq : pc'[q] = "slot" <=> pc[q] = "slot"
    BY <1>0, <1>4 DEF FileHold, FileExpireAfter, Goto
  <2>2. Holder' = Holder /\ Place' = Place
    BY <2>1
  <2> QED BY <1>1, <1>2, <2>1, <2>2
<1>5. ASSUME NEW r \in FileReq, AcquireIP(r)
      PROVE  IPs!Acquire(r, ClientOf[r]) /\ Slots!Wait(r)
  <2>1. /\ pc[r] = "ip" /\ pc' = [pc EXCEPT ![r] = "slot"]
        /\ has' = [has EXCEPT ![r] = {"ip"}] /\ slots' = slots
        /\ ~IPs!Full(ClientOf[r]) /\ IPs!Enter(ClientOf[r]) /\ has[r] = {}
    BY <1>0, <1>5 DEF AcquireIP, Goto, Holdings, Bare
  <2>2. /\ Holder[r] = NoClient /\ Place[r] = "outside"
        /\ Holder' = [Holder EXCEPT ![r] = ClientOf[r]]
        /\ Place' = [Place EXCEPT ![r] = "waiting"]
    BY <1>0, <2>1, OthersSeenAlike DEF Goto
  <2> QED BY <2>1, <2>2 DEF IPs!Acquire, Slots!Wait, Slots!Move
<1>6. ASSUME NEW r \in FileReq, ReleaseIP(r)
      PROVE  IPs!Release(r, ClientOf[r]) /\ UNCHANGED Slots!clVars
  <2>1. /\ pc[r] = "unwind" /\ pc' = [pc EXCEPT ![r] = "unwind"]
        /\ has' = [has EXCEPT ![r] = {}] /\ slots' = slots
        /\ IPs!Leave(ClientOf[r]) /\ has[r] = {"ip"}
    BY <1>6 DEF ReleaseIP, Goto
  <2>2. /\ Holder[r] = ClientOf[r] /\ Place[r] = "outside"
        /\ Holder' = [Holder EXCEPT ![r] = NoClient]
        /\ Place' = [Place EXCEPT ![r] = "outside"]
    BY <1>0, <2>1, OthersSeenAlike DEF Goto
  <2>3. Place' = Place
    BY <2>2
  <2> QED BY <1>2, <2>1, <2>2, <2>3 DEF IPs!Release
<1>7. ASSUME NEW r \in FileReq, AcquireSlot(r)
      PROVE  UNCHANGED IPs!ipVars /\ Slots!EnterSlot(r)
  <2>1. /\ pc[r] = "slot" /\ pc' = [pc EXCEPT ![r] = "register"]
        /\ has[r] = {"ip"} /\ has' = [has EXCEPT ![r] = {"ip", "slot"}] /\ perIP' = perIP
        /\ Slots!TakeSlot
    BY <1>0, <1>7 DEF AcquireSlot, Goto, Holdings
  <2>2. /\ Place[r] = "waiting" /\ Place' = [Place EXCEPT ![r] = "inside"]
        /\ Holder[r] = ClientOf[r] /\ Holder' = [Holder EXCEPT ![r] = ClientOf[r]]
    BY <1>0, <2>1, OthersSeenAlike DEF Goto
  <2>3. Holder' = Holder
    BY <2>2
  <2> QED BY <1>1, <2>1, <2>2, <2>3 DEF Slots!EnterSlot, Slots!Move
<1>8. ASSUME NEW r \in FileReq, GiveUpSlot(r)
      PROVE  UNCHANGED IPs!ipVars /\ Slots!GiveUp(r)
  <2>1. /\ pc[r] = "slot" /\ pc' = [pc EXCEPT ![r] = "fail"]
        /\ has[r] = {"ip"} /\ has' = has /\ perIP' = perIP /\ slots' = slots
    BY <1>0, <1>8 DEF GiveUpSlot, Reject, Goto, Holdings
  <2>2. has' = [has EXCEPT ![r] = {"ip"}]
    BY <1>0, <2>1
  <2>3. /\ Place[r] = "waiting" /\ Place' = [Place EXCEPT ![r] = "outside"]
    BY <1>0, <2>1, <2>2, OthersSeenAlike DEF Goto
  <2>4. Holder' = Holder
    BY <2>1
  <2> QED BY <1>1, <2>1, <2>3, <2>4 DEF Slots!GiveUp, Slots!Move
<1>9. ASSUME NEW r \in FileReq, ReleaseSlot(r)
      PROVE  UNCHANGED IPs!ipVars /\ Slots!LeaveSlot(r)
  <2>1. /\ pc[r] = "unwind" /\ pc' = [pc EXCEPT ![r] = "unwind"] /\ "slot" \in has[r]
        /\ has' = [has EXCEPT ![r] = has[r] \ {"slot"}] /\ perIP' = perIP
        /\ Slots!GiveSlot
    BY <1>9 DEF ReleaseSlot, Goto
  <2>2. /\ Place[r] = "inside" /\ Place' = [Place EXCEPT ![r] = "outside"]
        /\ Holder' = [Holder EXCEPT ![r] = Holder[r]]
    BY <1>0, <2>1, OthersSeenAlike DEF Goto
  <2>3. Holder' = Holder
    BY <2>2
  <2> QED BY <1>1, <2>1, <2>2, <2>3 DEF Slots!LeaveSlot, Slots!Move
<1>10. CASE \/ \E id \in JobID : CreateInsert(id) \/ CreateArm(id)
            \/ \E t \in Timer, id \in JobID : TimerStep(t, id)
            \/ \E c \in CancelReq : CancelGet(c) \/ CancelStep(c)
            \/ UNCHANGED vars
  <2>1. UNCHANGED <<perIP, slots, has, pc>>
    BY <1>10 DEF CreateInsert, CreateArm, TimerStep, TimerFires, TimerExpires, CancelGet,
                 CancelStep, CancelLock, CallCancelFn, AnnounceCancel, vars, reqVars
  <2> QED BY <1>1, <1>2, <2>1
<1> QED
  BY <1>0, <1>3, <1>4, <1>5, <1>6, <1>7, <1>8, <1>9, <1>10, StepsByActor, UnseenPasses
  DEF Seen, IPs!IPNext, Slots!CLNext

\* Every way through the handler takes from each limiter once, if at all, and
\* gives it back once: the limits the limiters promise hold for the downloads.
THEOREM RefinesLimiters == Spec => ImplementsLimiters
<1>1. IInv => Types
  BY DEF IInv
<1> QED BY <1>1, LimitersInit, LimitersStep, HInvariance, PTL
        DEF Spec, ImplementsLimiters, IPs!IPSpec, Slots!CLSpec

-----------------------------------------------------------------------------
(* What the download inherits: the theorems of the manager and of the limiters *)
(* are instantiated with its handlers.                                         *)

MgrThm == INSTANCE JobManagerProofs WITH user <- User

LimThm == INSTANCE LimiterProofs WITH
    Caller <- FileReq, Key <- Client, MaxPerKey <- MaxPerClient, Outside <- NoClient,
    n <- perIP, holds <- Holder,
    Worker <- FileReq, MaxSlots <- MaxConcurrent, place <- Place

LEMMA ManagerInherited == Spec => MgrThm!Spec
<1> USE DEF User
<1>1. Mgr!Init => MgrThm!Init
  BY DEF Mgr!Init, MgrThm!Init, Mgr!MgrInit, MgrThm!MgrInit
<1>2. Mgr!Next => MgrThm!Next
  BY DEF Mgr!Insert, MgrThm!Insert, Mgr!CreateInsert, MgrThm!CreateInsert,
         Mgr!CreateArm, MgrThm!CreateArm, Mgr!BeginHold, MgrThm!BeginHold,
         Mgr!EndHold, MgrThm!EndHold, Mgr!FireStep, MgrThm!FireStep,
         Mgr!ExpireStep, MgrThm!ExpireStep, Mgr!ExpireAfter, MgrThm!ExpireAfter,
         Mgr!Hold, MgrThm!Hold, Mgr!Fire, MgrThm!Fire, Mgr!Expire, MgrThm!Expire,
         Mgr!Current, MgrThm!Current, Mgr!FreeTimers, MgrThm!FreeTimers,
         Mgr!ArmedWithout, MgrThm!ArmedWithout, Mgr!mgrVars, MgrThm!mgrVars,
         Mgr!Next, MgrThm!Next
<1>3. UNCHANGED Mgr!vars => UNCHANGED MgrThm!vars
  BY DEF Mgr!vars, MgrThm!vars
<1> QED BY <1>1, <1>2, <1>3, RefinesManager, PTL DEF ImplementsManager, Mgr!Spec, MgrThm!Spec

LEMMA LimitersInherited == Spec => LimThm!IPSpec /\ LimThm!CLSpec
<1> USE DEF Holder, Place
<1>1. IPs!IPInit => LimThm!IPInit
  BY DEF IPs!IPInit, LimThm!IPInit
<1>2. IPs!IPNext => LimThm!IPNext
  BY DEF IPs!Acquire, LimThm!Acquire, IPs!Release, LimThm!Release,
         IPs!Enter, LimThm!Enter, IPs!Leave, LimThm!Leave, IPs!Full, LimThm!Full,
         IPs!Count, LimThm!Count, IPs!Limited, LimThm!Limited, IPs!Put, LimThm!Put,
         IPs!Delete, LimThm!Delete, IPs!Restrict, LimThm!Restrict, IPs!IPNext, LimThm!IPNext
<1>3. UNCHANGED IPs!ipVars => UNCHANGED LimThm!ipVars
  BY DEF IPs!ipVars, LimThm!ipVars
<1>4. Slots!CLInit => LimThm!CLInit
  BY DEF Slots!CLInit, LimThm!CLInit
<1>5. Slots!CLNext => LimThm!CLNext
  BY DEF Slots!Move, LimThm!Move, Slots!Wait, LimThm!Wait,
         Slots!EnterSlot, LimThm!EnterSlot, Slots!GiveUp, LimThm!GiveUp,
         Slots!LeaveSlot, LimThm!LeaveSlot, Slots!TakeSlot, LimThm!TakeSlot,
         Slots!GiveSlot, LimThm!GiveSlot, Slots!CLNext, LimThm!CLNext
<1>6. UNCHANGED Slots!clVars => UNCHANGED LimThm!clVars
  BY DEF Slots!clVars, LimThm!clVars
<1> QED
  BY <1>1, <1>2, <1>3, <1>4, <1>5, <1>6, RefinesLimiters, PTL
  DEF ImplementsLimiters, IPs!IPSpec, Slots!CLSpec, LimThm!IPSpec, LimThm!CLSpec

\* The assumptions of the limiters' theorems hold of the handlers.
LEMMA LimiterAssumptions ==
    /\ LimThm!CallerAssumption /\ LimThm!MaxPerKeyAssumption /\ LimThm!OutsideAssumption
    /\ LimThm!WorkerAssumption /\ LimThm!MaxSlotsAssumption
BY NilAssumption, FiniteAssumption, LimitAssumption
   DEF LimThm!CallerAssumption, LimThm!MaxPerKeyAssumption, LimThm!OutsideAssumption,
       LimThm!WorkerAssumption, LimThm!MaxSlotsAssumption, LimThm!IsFiniteSet, IsFiniteSet

LEMMA InstanceCardinality == \A S : LimThm!Cardinality(S) = Cardinality(S)
BY DEF LimThm!Cardinality, Cardinality

\* A job that was known when its handler held it stays known until the handler
\* calls ExpireAfter, whatever timers fire in between (manager.go:55).
HeldStays == [][\A r \in FileReq : Holding(r) /\ FileJob[r] \in jobs => FileJob[r] \in jobs']_vars

THEOREM StreamedJobsStay == Spec => HeldStays
<1> DEFINE A == \A id \in jobs : User[id] = "holding" => id \in jobs'
           B == \A r \in FileReq : Holding(r) /\ FileJob[r] \in jobs => FileJob[r] \in jobs'
<1>1. MgrThm!TimerAssumption
  BY NilAssumption DEF MgrThm!TimerAssumption
<1>2. A \/ UNCHANGED MgrThm!vars => B
  <2> SUFFICES ASSUME A \/ UNCHANGED MgrThm!vars, NEW r \in FileReq,
                      Holding(r), FileJob[r] \in jobs
               PROVE  FileJob[r] \in jobs'
    OBVIOUS
  <2>1. User[FileJob[r]] = "holding"
    BY RequestAssumption DEF Holding, User
  <2> QED BY <2>1 DEF MgrThm!vars
<1> QED BY <1>1, <1>2, ManagerInherited, MgrThm!HeldJobsStay, PTL DEF HeldStays, MgrThm!HeldJobStays

\* A job that no handler holds has a timer: every job is forgotten once its
\* downloads are over (ExpireAfter, manager.go:40).
IdleExpires ==
    \A id \in jobs : made[id] = "idle" /\ (\A r \in FileReq : FileJob[r] = id => ~Holding(r))
                     => timers[id] # NoTimer

THEOREM UnusedJobsExpire == Spec => []IdleExpires
<1>1. MgrThm!TimerAssumption
  BY NilAssumption DEF MgrThm!TimerAssumption
<1>2. IInv /\ MgrThm!IdleHasTimer => IdleExpires
  BY DEF IdleExpires, MgrThm!IdleHasTimer, User, Holding, IInv, Types, MgrTyped
<1> QED BY <1>1, <1>2, ManagerInherited, HInvariance, MgrThm!IdleJobsExpire, PTL

\* Never more handlers at work than cfg.MaxConcurrentYtDlp, nor, of one client,
\* than its limit (stream.go:68, stream.go:76).
WithinLimits ==
    /\ Cardinality({ r \in FileReq : Working(r) }) <= MaxConcurrent
    /\ MaxPerClient > 0 =>
          \A c \in Client :
              Cardinality({ r \in FileReq : Working(r) /\ ClientOf[r] = c }) <= MaxPerClient

THEOREM DownloadsWithinLimits == Spec => []WithinLimits
<1>1. ASSUME IInv, HInv, LimThm!AtMostMaxSlots, LimThm!AtMostMaxPerKey PROVE WithinLimits
  <2>w. \A r \in FileReq : Working(r) => has[r] = {"ip", "slot"}
    BY <1>1 DEF HInv, Holdings
  <2>1. /\ IsFiniteSet(LimThm!Inside) /\ Cardinality(LimThm!Inside) \in Nat
        /\ { r \in FileReq : Working(r) } \subseteq LimThm!Inside
    BY <2>w, FiniteAssumption, FS_Subset, FS_CardinalityType DEF LimThm!Inside, Place
  <2>2. Cardinality({ r \in FileReq : Working(r) }) <= MaxConcurrent
    <3>1. /\ Cardinality({ r \in FileReq : Working(r) }) <= Cardinality(LimThm!Inside)
          /\ Cardinality({ r \in FileReq : Working(r) }) \in Nat
      BY <2>1, FS_Subset, FS_CardinalityType
    <3> QED BY InstanceCardinality, <1>1, <2>1, <3>1, LimitAssumption DEF LimThm!AtMostMaxSlots
  <2>3. ASSUME MaxPerClient > 0, NEW c \in Client
        PROVE  Cardinality({ r \in FileReq : Working(r) /\ ClientOf[r] = c }) <= MaxPerClient
    <3> DEFINE H == LimThm!Holders(c)
               W == { r \in FileReq : Working(r) /\ ClientOf[r] = c }
    <3>1. W \subseteq H
      BY <2>w DEF LimThm!Holders, Holder
    <3>2. IsFiniteSet(H)
      BY FiniteAssumption, FS_Subset DEF LimThm!Holders, Holder
    <3>3. Cardinality(W) <= Cardinality(H) /\ Cardinality(W) \in Nat /\ Cardinality(H) \in Nat
      BY <3>1, <3>2, FS_Subset, FS_CardinalityType
    <3>4. Cardinality(H) <= MaxPerClient
      BY InstanceCardinality, <1>1, <2>3 DEF LimThm!AtMostMaxPerKey, LimThm!Limited
    <3> QED BY <3>3, <3>4, LimitAssumption
  <2> QED BY <2>2, <2>3 DEF WithinLimits
<1> QED
  BY LimiterAssumptions, <1>1, LimitersInherited, HInvariance, LimThm!CapKept, LimThm!LimitKept, PTL

\* When no handler is between its admission and its last deferred call, every
\* slot is free and the map of clients is empty: no way through the handler
\* leaks or gives back twice (stream.go:72).
NothingLeaks == (\A r \in FileReq : pc[r] \in Bare) => slots = 0 /\ DOMAIN perIP = {}

THEOREM DownloadsLeakNothing == Spec => []NothingLeaks
<1>1. ASSUME HInv, LimThm!IPTypeOK, LimThm!OnlyBusyKeys, LimThm!SlotsAreHolders,
             \A r \in FileReq : pc[r] \in Bare
      PROVE  slots = 0 /\ DOMAIN perIP = {}
  <2>1. \A r \in FileReq : has[r] = {}
    BY <1>1 DEF HInv, Holdings
  <2>2. LimThm!Inside = {}
    BY <2>1 DEF LimThm!Inside, Place
  <2>3. slots = 0
    BY <1>1, <2>2, FS_EmptySet, InstanceCardinality DEF LimThm!SlotsAreHolders
  <2>4. ASSUME NEW k \in DOMAIN perIP PROVE FALSE
    BY <1>1, <2>1, <2>4, NilAssumption DEF LimThm!OnlyBusyKeys, LimThm!IPTypeOK, Holder
  <2> QED BY <2>3, <2>4
<1>2. HInv /\ LimThm!IPTypeOK /\ LimThm!OnlyBusyKeys /\ LimThm!SlotsAreHolders => NothingLeaks
  BY <1>1 DEF NothingLeaks
<1> QED
  BY <1>2, LimiterAssumptions, LimitersInherited, HInvariance, LimThm!LimiterCorrect,
     LimThm!IdleClientsForgotten, LimThm!SemaphoreCorrect, PTL
=============================================================================
