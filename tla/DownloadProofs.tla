--------------------------- MODULE DownloadProofs ----------------------------
(***************************************************************************)
(* Whatever the requests, their jobs and the limits: the variables keep    *)
(* their types, one handler at a time streams a job, a job is completed    *)
(* exactly when one response delivered it, a cancel stops every stream,    *)
(* and no job is left at work without a handler.                           *)
(***************************************************************************)
EXTENDS Download, TLAPS

USE RequestAssumption, JobAssumption, LimitAssumption, NilAssumption

-----------------------------------------------------------------------------
(* Types. *)

\* TypeOK without the derived user of the manager.
MgrTyped ==
    /\ jobs \subseteq JobID
    /\ timers \in [JobID -> Timer \cup {NoTimer}]
    /\ armed \subseteq Timer \X JobID
    /\ fired \subseteq Timer \X JobID

FileTyped ==
    /\ pc \in [FileReq -> FilePC]
    /\ has \in [FileReq -> SUBSET {"ip", "slot"}]
    /\ ctx \in [FileReq -> CtxState]
    /\ gone \in [FileReq -> BOOLEAN]
    /\ started \in [FileReq -> BOOLEAN]
    /\ err \in [FileReq -> Err]
    /\ reply \in [FileReq -> Reply]

SharedTyped ==
    /\ made \in [JobID -> {"none", "creating", "idle"}]
    /\ job \in [JobID -> JobRecord]
    /\ slots \in Int

CancelTyped ==
    /\ cpc \in [CancelReq -> CancelPC]
    /\ fn \in [CancelReq -> FileReq \cup {NoFn}]

SubTyped ==
    /\ watching \in [JobID -> SUBSET Sub]
    /\ buf \in [Sub -> [queue : Seq(EventStatus), missed : BOOLEAN]]

Types == MgrTyped /\ SharedTyped /\ FileTyped /\ CancelTyped /\ SubTyped

LEMMA TypesSuffice == Types <=> TypeOK
BY DEF Types, TypeOK, MgrTyped, SharedTyped, FileTyped, CancelTyped, SubTyped,
       Mgr!TypeOK, Mgr!UserState

LEMMA PublishTyped ==
    ASSUME SubTyped, NEW id \in JobID, NEW ev \in EventStatus, PublishTo(id, ev)
    PROVE  SubTyped'
<1>1. \A s \in Sub : Send(buf[s], ev) \in [queue : Seq(EventStatus), missed : BOOLEAN]
  <2> SUFFICES ASSUME NEW s \in Sub
               PROVE  Send(buf[s], ev) \in [queue : Seq(EventStatus), missed : BOOLEAN]
    OBVIOUS
  <2>1. /\ buf[s] \in [queue : Seq(EventStatus), missed : BOOLEAN]
        /\ Append(buf[s].queue, ev) \in Seq(EventStatus)
    BY DEF SubTyped
  <2>2. \/ Send(buf[s], ev) = [buf[s] EXCEPT !.queue = Append(@, ev)]
        \/ Send(buf[s], ev) = [buf[s] EXCEPT !.missed = TRUE]
    BY DEF Send
  <2> QED BY <2>1, <2>2
<1> QED BY <1>1 DEF SubTyped, PublishTo, Publish

\* Each method of the manager keeps the types of its variables.
LEMMA MgrStepTyped ==
    ASSUME MgrTyped, NEW id \in JobID,
           \/ Mgr!Insert(id) \/ Mgr!ExpireAfter(id) \/ Mgr!Hold(id)
           \/ \E t \in Timer : Mgr!Fire(t, id) \/ Mgr!Expire(t, id)
    PROVE  MgrTyped'
<1> USE DEF MgrTyped
<1>1. CASE Mgr!Insert(id)
  BY <1>1 DEF Mgr!Insert
<1>2. CASE Mgr!ExpireAfter(id)
  BY <1>2 DEF Mgr!ExpireAfter, Mgr!ArmedWithout, Mgr!FreeTimers, Mgr!mgrVars
<1>3. CASE Mgr!Hold(id)
  BY <1>3 DEF Mgr!Hold, Mgr!ArmedWithout
<1>4. ASSUME NEW t \in Timer, Mgr!Fire(t, id) PROVE MgrTyped'
  BY <1>4 DEF Mgr!Fire
<1>5. ASSUME NEW t \in Timer, Mgr!Expire(t, id) PROVE MgrTyped'
  BY <1>5 DEF Mgr!Expire, Mgr!Current
<1> QED BY <1>1, <1>2, <1>3, <1>4, <1>5

\* Each method of Job keeps the type of its record.
LEMMA JobMethodsTyped ==
    ASSUME NEW j \in JobRecord
    PROVE  /\ Claim(j) \in JobRecord
           /\ Unclaim(j) \in JobRecord
           /\ Cancel(j) \in JobRecord
           /\ \A s \in Status : SetStatus(j, s) \in JobRecord
           /\ \A r \in FileReq : SetCancelFunc(j, r) \in JobRecord
BY DEF JobRecord, Claim, Unclaim, Cancel, SetStatus, SetCancelFunc, Status

\* The steps of a /file handler.
LEMMA FileStepTyped ==
    ASSUME Types, NEW r \in FileReq, FileStep(r) \/ FileChance(r) \/ Deadline(r)
    PROVE  Types'
<1> USE DEF Types, SharedTyped, FileTyped, mgrVars, reqVars, stopVars, subVars,
            FilePC, Reply, Err, CtxState, Goto, Answer, Forget
<1>0. FileJob[r] \in JobID /\ ClientOf[r] \in Client
  BY RequestAssumption
<1>1. CASE FileGet(r)
  BY <1>0, <1>1 DEF FileGet, MgrTyped, SubTyped, CancelTyped
<1>2. CASE FileClaim(r)
  <2>1. pc' \in [FileReq -> FilePC] /\ reply' \in [FileReq -> Reply]
    BY <1>2 DEF FileClaim
  <2>2. job' \in [JobID -> JobRecord]
    BY <1>0, <1>2, JobMethodsTyped DEF FileClaim
  <2> QED BY <1>2, <2>1, <2>2 DEF FileClaim, MgrTyped, SubTyped, CancelTyped
<1>3. CASE FileHold(r)
  BY <1>0, <1>3, MgrStepTyped DEF FileHold, SubTyped, CancelTyped
<1>4. CASE AcquireIP(r)
  BY <1>0, <1>4 DEF AcquireIP, MgrTyped, SubTyped, CancelTyped
<1>5. CASE RefuseIP(r)
  BY <1>0, <1>5 DEF RefuseIP, Reject, MgrTyped, SubTyped, CancelTyped
<1>6. CASE AcquireSlot(r)
  BY <1>0, <1>6 DEF AcquireSlot, Slots!TakeSlot, MgrTyped, SubTyped, CancelTyped
<1>7. CASE GiveUpSlot(r)
  BY <1>0, <1>7 DEF GiveUpSlot, Reject, MgrTyped, SubTyped, CancelTyped
<1>8. CASE Register(r)
  BY <1>0, <1>8, JobMethodsTyped DEF Register, MgrTyped, SubTyped, CancelTyped
<1>9. CASE CheckCanceled(r)
  <2>1. CASE job[FileJob[r]].canceled
    <3>1. /\ UNCHANGED <<mgrVars, made, job, perIP, slots, has, ctx, stopVars, subVars>>
          /\ Goto(r, "check", "unwind") /\ Answer(r, "499") /\ Forget(r)
      BY <1>9, <2>1 DEF CheckCanceled
    <3> QED BY <3>1 DEF MgrTyped, SubTyped, CancelTyped
  <2>2. CASE ~job[FileJob[r]].canceled
    <3>1. /\ UNCHANGED <<mgrVars, made, job, perIP, slots, has, ctx, stopVars, subVars,
                         reply, gone, started, err>>
          /\ Goto(r, "check", "resolve") \/ Goto(r, "check", "begin")
      BY <1>9, <2>2 DEF CheckCanceled
    <3> QED BY <3>1 DEF MgrTyped, SubTyped, CancelTyped
  <2> QED BY <2>1, <2>2
<1>10. CASE ResolveFx(r)
  <2>1. CASE Reject(r, "resolve", "422")
    BY <1>10, <2>1 DEF ResolveFx, Reject, MgrTyped, SubTyped, CancelTyped
  <2>2. CASE ~Reject(r, "resolve", "422")
    BY <1>10, <2>2 DEF ResolveFx, MgrTyped, SubTyped, CancelTyped
  <2> QED BY <2>1, <2>2
<1>11. CASE Begin(r)
  BY <1>0, <1>11, JobMethodsTyped DEF Begin, SetTo, MgrTyped, SubTyped, CancelTyped, Status
<1>12. CASE Announce(r)
  BY <1>0, <1>12, PublishTyped DEF Announce, Launch, MgrTyped, EventStatus, CancelTyped
<1>13. CASE FetchFails(r)
  BY <1>0, <1>13 DEF FetchFails, StageReturns, MgrTyped, SubTyped, CancelTyped
<1>14. CASE FetchDone(r)
  BY <1>0, <1>14 DEF FetchDone, MgrTyped, SubTyped, CancelTyped
<1>15. CASE Process(r)
  BY <1>0, <1>15, JobMethodsTyped DEF Process, SetTo, MgrTyped, SubTyped, CancelTyped, Status
<1>16. CASE AnnounceProcess(r)
  BY <1>0, <1>16, PublishTyped DEF AnnounceProcess, Launch, MgrTyped, EventStatus, CancelTyped
<1>17. CASE Progress(r)
  BY <1>0, <1>17, PublishTyped DEF Progress, MgrTyped, EventStatus, CancelTyped
<1>18. CASE BeginWrite(r)
  BY <1>0, <1>18 DEF BeginWrite, MgrTyped, SubTyped, CancelTyped
<1>19. CASE BodyFails(r)
  BY <1>0, <1>19 DEF BodyFails, StageReturns, MgrTyped, SubTyped, CancelTyped
<1>20. CASE BodyDone(r)
  <2>1. CASE StageReturns(r, "body", "streamErr")
    BY <2>1 DEF StageReturns, MgrTyped, SubTyped, CancelTyped
  <2>2. CASE ~StageReturns(r, "body", "streamErr")
    <3>1. /\ UNCHANGED <<mgrVars, made, job, perIP, slots, has, ctx, reply, stopVars, subVars>>
          /\ Goto(r, "body", "done") /\ Forget(r)
      BY <1>20, <2>2 DEF BodyDone
    <3> QED BY <3>1 DEF MgrTyped, SubTyped, CancelTyped
  <2> QED BY <2>1, <2>2
<1>21. CASE Done(r)
  BY <1>0, <1>21, JobMethodsTyped DEF Done, SetTo, MgrTyped, SubTyped, CancelTyped, Status
<1>22. CASE AnnounceDone(r)
  BY <1>0, <1>22, PublishTyped DEF AnnounceDone, MgrTyped, EventStatus, CancelTyped
<1>23. CASE Classify(r)
  <2>1. FailureCode(r) \in Reply
    BY DEF FailureCode
  <2>2. CASE job[FileJob[r]].canceled
    <3>1. /\ UNCHANGED <<mgrVars, made, job, perIP, slots, has, ctx, stopVars, subVars>>
          /\ Goto(r, "classify", "unwind") /\ Forget(r)
          /\ Answer(r, IF started[r] THEN "aborted" ELSE "499")
      BY <1>23, <2>2 DEF Classify
    <3> QED BY <3>1 DEF MgrTyped, SubTyped, CancelTyped
  <2>3. CASE ~job[FileJob[r]].canceled
    <3>1. /\ UNCHANGED <<mgrVars, made, job, perIP, slots, has, ctx, stopVars, subVars>>
          /\ Reject(r, "classify", FailureCode(r))
      BY <1>23, <2>3 DEF Classify
    <3> QED BY <2>1, <3>1 DEF Reject, MgrTyped, SubTyped, CancelTyped
  <2> QED BY <2>2, <2>3
<1>24. CASE Fail(r)
  BY <1>0, <1>24, JobMethodsTyped DEF Fail, SetTo, MgrTyped, SubTyped, CancelTyped, Status
<1>25. CASE AnnounceFail(r)
  BY <1>0, <1>25, PublishTyped DEF AnnounceFail, MgrTyped, EventStatus, CancelTyped
<1>26. CASE ReleaseSlot(r)
  BY <1>0, <1>26 DEF ReleaseSlot, Slots!GiveSlot, MgrTyped, SubTyped, CancelTyped
<1>27. CASE ReleaseIP(r)
  BY <1>0, <1>27 DEF ReleaseIP, MgrTyped, SubTyped, CancelTyped
<1>28. CASE FileExpireAfter(r)
  BY <1>0, <1>28, MgrStepTyped DEF FileExpireAfter, SubTyped, CancelTyped
<1>29. CASE FileUnclaim(r)
  BY <1>0, <1>29, JobMethodsTyped DEF FileUnclaim, MgrTyped, SubTyped, CancelTyped
<1>30. CASE ClientGone(r)
  BY <1>0, <1>30 DEF ClientGone, Kill, MgrTyped, SubTyped, CancelTyped
<1>31. CASE Deadline(r)
  BY <1>0, <1>31 DEF Deadline, Kill, MgrTyped, SubTyped, CancelTyped
<1>32. CASE Written(r)
  BY <1>0, <1>32 DEF Written, MgrTyped, SubTyped, CancelTyped
<1>33. CASE WriteFails(r)
  BY <1>0, <1>33 DEF WriteFails, StageReturns, MgrTyped, SubTyped, CancelTyped
<1> QED
  BY <1>1, <1>2, <1>3, <1>4, <1>5, <1>6, <1>7, <1>8, <1>9, <1>10, <1>11, <1>12, <1>13, <1>14, <1>15, <1>16, <1>17, <1>18, <1>19, <1>20, <1>21, <1>22, <1>23, <1>24, <1>25, <1>26, <1>27, <1>28, <1>29, <1>30, <1>31, <1>32, <1>33 DEF FileStep, FileChance, StageKilled

\* The steps of Create, of the timers and of a /cancel handler.
LEMMA OtherStepTyped ==
    ASSUME Types,
           \/ \E id \in JobID : CreateInsert(id) \/ CreateArm(id)
           \/ \E t \in Timer, id \in JobID : TimerStep(t, id)
           \/ \E c \in CancelReq : CancelGet(c) \/ CancelStep(c)
           \/ UNCHANGED vars
    PROVE  Types'
<1> USE DEF Types, FileTyped, CancelTyped, mgrVars, reqVars, stopVars, subVars
<1>1. ASSUME NEW id \in JobID, CreateInsert(id) \/ CreateArm(id) PROVE Types'
  <2>1. MgrTyped'
    BY <1>1, MgrStepTyped DEF CreateInsert, CreateArm
  <2> QED BY <1>1, <2>1 DEF CreateInsert, CreateArm, SharedTyped, SubTyped
<1>2. ASSUME NEW t \in Timer, NEW id \in JobID, TimerStep(t, id) PROVE Types'
  <2>1. MgrTyped'
    BY <1>2, MgrStepTyped DEF TimerStep, TimerFires, TimerExpires
  <2> QED BY <1>2, <2>1 DEF TimerStep, TimerFires, TimerExpires, SharedTyped, SubTyped
<1>3. ASSUME NEW c \in CancelReq, CancelGet(c) PROVE Types'
  BY <1>3 DEF CancelGet, CancelGoto, CancelPC, MgrTyped, SharedTyped, SubTyped
<1>4. ASSUME NEW c \in CancelReq, CancelLock(c) PROVE Types'
  <2>1. CancelJob[c] \in JobID /\ job[CancelJob[c]] \in JobRecord
    BY RequestAssumption DEF SharedTyped
  <2>2. job' \in [JobID -> JobRecord]
    BY <1>4, <2>1, JobMethodsTyped DEF CancelLock, SharedTyped
  <2>3. fn' \in [CancelReq -> FileReq \cup {NoFn}]
    BY <1>4, <2>1 DEF CancelLock, JobRecord
  <2>4. cpc' \in [CancelReq -> CancelPC]
    BY <1>4 DEF CancelLock, CancelGoto, CancelPC
  <2> QED BY <1>4, <2>2, <2>3, <2>4 DEF CancelLock, MgrTyped, SharedTyped, SubTyped
<1>5. ASSUME NEW c \in CancelReq, CallCancelFn(c) PROVE Types'
  BY <1>5 DEF CallCancelFn, Kill, CtxState, CancelGoto, CancelPC, MgrTyped, SharedTyped, SubTyped
<1>6. ASSUME NEW c \in CancelReq, AnnounceCancel(c) PROVE Types'
  <2>1. SubTyped'
    BY <1>6, RequestAssumption, PublishTyped DEF AnnounceCancel, EventStatus
  <2> QED BY <1>6, <2>1 DEF AnnounceCancel, CancelGoto, CancelPC, MgrTyped, SharedTyped
<1>7. CASE UNCHANGED vars
  BY <1>7 DEF vars, MgrTyped, SharedTyped, SubTyped
<1> QED BY <1>1, <1>2, <1>3, <1>4, <1>5, <1>6, <1>7 DEF CancelStep

\* The steps of Next, sorted by the actor that takes them.
LEMMA StepsByActor ==
    ASSUME [Next]_vars
    PROVE  \/ \E r \in FileReq : FileStep(r) \/ FileChance(r) \/ Deadline(r)
           \/ \E id \in JobID : CreateInsert(id) \/ CreateArm(id)
           \/ \E t \in Timer, id \in JobID : TimerStep(t, id)
           \/ \E c \in CancelReq : CancelGet(c) \/ CancelStep(c)
           \/ UNCHANGED vars
BY DEF Next, HandlerNext, Quiet

LEMMA TypesInit == Init => Types
BY DEF Init, Types, MgrTyped, SharedTyped, FileTyped, CancelTyped, SubTyped, Mgr!MgrInit,
       FilePC, Reply, Err, CtxState, CancelPC, JobRecord, NewJob, Status, EmptyChan

LEMMA TypesStep == Types /\ [Next]_vars => Types'
BY StepsByActor, FileStepTyped, OtherStepTyped

\* Every variable keeps its type: a handler is never at a place, nor a job in a
\* state, that the code does not have.
THEOREM TypeCorrect == Spec => []TypeOK
BY TypesInit, TypesStep, TypesSuffice, PTL DEF Spec

-----------------------------------------------------------------------------
(* One stream and one delivery for each job. *)

\* The response was, or is just being, delivered.
Delivered(r) == reply[r] = "200" \/ pc[r] = "announceDone"

\* All that is left to do after Done.
Ending(r) == pc[r] \in {"announceDone", "unwind", "unclaim"}

\* A reply is decided on the way out, and the handler that completed its job
\* only has its deferred calls left: what it does cannot reopen the job.
EndsOnce ==
    \A r \in FileReq :
        /\ reply[r] = "200" => pc[r] \in {"unwind", "unclaim", "replied"}
        /\ Streaming(r) /\ job[FileJob[r]].status = "completed" => Ending(r)

IInv == Types /\ OneStreamPerJob /\ CompletedIffDelivered /\ EndsOnce

\* Most steps change nothing of what the invariant is about.
HandlersAlike ==
    \A r \in FileReq :
        /\ Streaming(r)' <=> Streaming(r)
        /\ Delivered(r)' <=> Delivered(r)
        /\ Ending(r) => Ending(r)'
        /\ reply'[r] = "200" => pc'[r] \in {"unwind", "unclaim", "replied"}

JobsAlike ==
    \A id \in JobID :
        /\ job'[id].status = "completed" <=> job[id].status = "completed"
        /\ job'[id].streaming = job[id].streaming
        /\ job'[id].canceled = job[id].canceled

LEMMA AlikeKeeps ==
    ASSUME IInv, Types', HandlersAlike, JobsAlike
    PROVE  IInv'
<1>1. OneStreamPerJob'
  BY RequestAssumption DEF IInv, OneStreamPerJob, HandlersAlike, JobsAlike
<1>2. CompletedIffDelivered'
  BY RequestAssumption DEF IInv, CompletedIffDelivered, HandlersAlike, JobsAlike, Delivered
<1>3. EndsOnce'
  BY RequestAssumption DEF IInv, EndsOnce, HandlersAlike, JobsAlike
<1> QED BY <1>1, <1>2, <1>3 DEF IInv

\* All the steps of a /file handler but Claim, Unclaim and Done are of this kind.
LEMMA FileStepAlike ==
    ASSUME IInv, NEW r \in FileReq, FileStep(r) \/ FileChance(r) \/ Deadline(r),
           ~FileClaim(r), ~FileUnclaim(r), ~Done(r)
    PROVE  HandlersAlike /\ JobsAlike
<1> USE DEF HandlersAlike, JobsAlike, Streaming, Delivered, Ending, Goto, Answer
<1>0. /\ pc \in [FileReq -> FilePC] /\ reply \in [FileReq -> Reply]
      /\ job \in [JobID -> JobRecord] /\ FileJob[r] \in JobID
      /\ \A q \in FileReq : reply[q] = "200" => pc[q] \in {"unwind", "unclaim", "replied"}
      /\ Streaming(r) /\ job[FileJob[r]].status = "completed" => Ending(r)
  BY RequestAssumption DEF IInv, Types, FileTyped, SharedTyped, EndsOnce
<1>1. CASE FileGet(r)
  BY <1>0, <1>1 DEF FileGet
<1>2. CASE FileHold(r)
  BY <1>0, <1>2 DEF FileHold
<1>3. CASE AcquireIP(r)
  BY <1>0, <1>3 DEF AcquireIP
<1>4. CASE RefuseIP(r)
  BY <1>0, <1>4 DEF RefuseIP, Reject
<1>5. CASE AcquireSlot(r)
  BY <1>0, <1>5 DEF AcquireSlot
<1>6. CASE GiveUpSlot(r)
  BY <1>0, <1>6 DEF GiveUpSlot, Reject
<1>7. CASE Register(r)
  BY <1>0, <1>7 DEF Register, SetCancelFunc, JobRecord
<1>8. CASE CheckCanceled(r)
  BY <1>0, <1>8 DEF CheckCanceled
<1>9. CASE ResolveFx(r)
  BY <1>0, <1>9 DEF ResolveFx, Reject
<1>10. CASE Begin(r)
  BY <1>0, <1>10 DEF Begin, SetTo, SetStatus, JobRecord
<1>11. CASE Announce(r)
  BY <1>0, <1>11 DEF Announce, Launch
<1>12. CASE FetchFails(r)
  BY <1>0, <1>12 DEF FetchFails, StageReturns
<1>13. CASE FetchDone(r)
  BY <1>0, <1>13 DEF FetchDone
<1>14. CASE Process(r)
  BY <1>0, <1>14 DEF Process, SetTo, SetStatus, JobRecord
<1>15. CASE AnnounceProcess(r)
  BY <1>0, <1>15 DEF AnnounceProcess, Launch
<1>16. CASE Progress(r)
  BY <1>0, <1>16 DEF Progress, reqVars
<1>17. CASE BeginWrite(r)
  BY <1>0, <1>17 DEF BeginWrite
<1>18. CASE BodyFails(r)
  BY <1>0, <1>18 DEF BodyFails, StageReturns
<1>19. CASE BodyDone(r)
  BY <1>0, <1>19 DEF BodyDone, StageReturns
<1>20. CASE AnnounceDone(r)
  BY <1>0, <1>20 DEF AnnounceDone
<1>21. CASE Classify(r)
  BY <1>0, <1>21 DEF Classify, Reject, FailureCode
<1>22. CASE Fail(r)
  BY <1>0, <1>22 DEF Fail, SetTo, SetStatus, JobRecord
<1>23. CASE AnnounceFail(r)
  BY <1>0, <1>23 DEF AnnounceFail
<1>24. CASE ReleaseSlot(r)
  BY <1>0, <1>24 DEF ReleaseSlot
<1>25. CASE ReleaseIP(r)
  BY <1>0, <1>25 DEF ReleaseIP
<1>26. CASE FileExpireAfter(r)
  BY <1>0, <1>26 DEF FileExpireAfter
<1>27. CASE ClientGone(r)
  BY <1>0, <1>27 DEF ClientGone
<1>28. CASE Deadline(r)
  BY <1>0, <1>28 DEF Deadline
<1>29. CASE Written(r)
  BY <1>0, <1>29 DEF Written
<1>30. CASE WriteFails(r)
  BY <1>0, <1>30 DEF WriteFails, StageReturns
<1> QED
  BY <1>1, <1>2, <1>3, <1>4, <1>5, <1>6, <1>7, <1>8, <1>9, <1>10, <1>11, <1>12, <1>13, <1>14, <1>15, <1>16, <1>17, <1>18, <1>19, <1>20, <1>21, <1>22, <1>23, <1>24, <1>25, <1>26, <1>27, <1>28, <1>29, <1>30 DEF FileStep, FileChance, StageKilled

LEMMA OtherStepAlike ==
    ASSUME IInv,
           \/ \E id \in JobID : CreateInsert(id) \/ CreateArm(id)
           \/ \E t \in Timer, id \in JobID : TimerStep(t, id)
           \/ \E c \in CancelReq : CancelGet(c) \/ CallCancelFn(c) \/ AnnounceCancel(c)
           \/ UNCHANGED vars
    PROVE  HandlersAlike /\ JobsAlike
<1>1. UNCHANGED <<pc, reply, job>>
  BY DEF CreateInsert, CreateArm, TimerStep, TimerFires, TimerExpires, CancelGet,
         CallCancelFn, AnnounceCancel, vars, reqVars
<1> QED
  BY <1>1 DEF HandlersAlike, JobsAlike, Streaming, Delivered, Ending, IInv, EndsOnce

\* What the four steps do that the invariant is about, in terms of its parts.
LEMMA ClaimStep ==
    ASSUME IInv, NEW r \in FileReq, FileClaim(r), ~(HandlersAlike /\ JobsAlike)
    PROVE  /\ pc[r] = "claim" /\ pc' = [pc EXCEPT ![r] = "hold"] /\ reply' = reply
           /\ Claimable(job[FileJob[r]])
           /\ job' = [job EXCEPT ![FileJob[r]] = Claim(@)]
<1>1. CASE ~Claimable(job[FileJob[r]])
  <2>1. /\ pc[r] = "claim" /\ pc' = [pc EXCEPT ![r] = "replied"]
        /\ reply' = [reply EXCEPT ![r] = "409"] /\ job' = job
    BY <1>1 DEF FileClaim, Goto, Answer
  <2>2. /\ pc \in [FileReq -> FilePC] /\ reply \in [FileReq -> Reply]
        /\ \A q \in FileReq : reply[q] = "200" => pc[q] \in {"unwind", "unclaim", "replied"}
    BY DEF IInv, Types, FileTyped, EndsOnce
  <2> QED BY <2>1, <2>2 DEF HandlersAlike, JobsAlike, Streaming, Delivered, Ending
<1>2. CASE Claimable(job[FileJob[r]])
  BY <1>2 DEF FileClaim, Goto
<1> QED BY <1>1, <1>2

LEMMA CancelLockStep ==
    ASSUME IInv, NEW c \in CancelReq, CancelLock(c), ~(HandlersAlike /\ JobsAlike)
    PROVE  /\ Cancelable(job[CancelJob[c]])
           /\ job' = [job EXCEPT ![CancelJob[c]] = Cancel(@)]
           /\ HandlersAlike
<1>1. UNCHANGED <<pc, reply>>
  BY DEF CancelLock, reqVars
<1>2. HandlersAlike
  BY <1>1 DEF HandlersAlike, Streaming, Delivered, Ending, IInv, EndsOnce
<1>3. CASE ~Cancelable(job[CancelJob[c]])
  BY <1>2, <1>3 DEF CancelLock, JobsAlike
<1>4. CASE Cancelable(job[CancelJob[c]])
  BY <1>2, <1>4 DEF CancelLock
<1> QED BY <1>3, <1>4

LEMMA CriticalSteps ==
    ASSUME IInv, [Next]_vars, ~(HandlersAlike /\ JobsAlike)
    PROVE  \/ \E r \in FileReq : FileClaim(r) \/ FileUnclaim(r) \/ Done(r)
           \/ \E c \in CancelReq : CancelLock(c)
BY StepsByActor, FileStepAlike, OtherStepAlike DEF CancelStep

LEMMA IInvInit == Init => IInv
<1> SUFFICES ASSUME Init PROVE IInv
  OBVIOUS
<1>1. /\ \A r \in FileReq : ~Streaming(r) /\ ~Delivered(r) /\ reply[r] = "none"
      /\ \A id \in JobID : job[id].status = "pending" /\ job[id].streaming = FALSE
  BY DEF Init, NewJob, Streaming, Delivered
<1> QED
  BY <1>1, TypesInit DEF IInv, OneStreamPerJob, CompletedIffDelivered, EndsOnce, Delivered

LEMMA IInvStep == IInv /\ [Next]_vars => IInv'
<1> SUFFICES ASSUME IInv, [Next]_vars PROVE IInv'
  OBVIOUS
<1>t. /\ Types'
      /\ pc \in [FileReq -> FilePC] /\ reply \in [FileReq -> Reply]
      /\ job \in [JobID -> JobRecord] /\ FileJob \in [FileReq -> JobID]
  BY TypesStep, RequestAssumption DEF IInv, Types, FileTyped, SharedTyped
<1>1. CASE HandlersAlike /\ JobsAlike
  BY <1>1, <1>t, AlikeKeeps
<1>2. ASSUME NEW r \in FileReq, FileClaim(r), ~(HandlersAlike /\ JobsAlike) PROVE IInv'
  <2>1. /\ pc[r] = "claim" /\ pc' = [pc EXCEPT ![r] = "hold"] /\ reply' = reply
        /\ Claimable(job[FileJob[r]])
        /\ job' = [job EXCEPT ![FileJob[r]] = Claim(@)]
    BY <1>2, ClaimStep
  <2>2. \A q \in FileReq : Streaming(q) => FileJob[q] # FileJob[r]
    BY <1>t, <2>1 DEF IInv, OneStreamPerJob, Claimable
  <2>3. /\ \A q \in FileReq : Streaming(q)' <=> Streaming(q) \/ q = r
        /\ \A q \in FileReq : Delivered(q)' <=> Delivered(q)
        /\ \A q \in FileReq : Ending(q) => Ending(q)'
    BY <1>t, <2>1 DEF Streaming, Delivered, Ending
  <2>4. \A id \in JobID : /\ job'[id].status = job[id].status
                          /\ job'[id].streaming <=> job[id].streaming \/ id = FileJob[r]
    BY <1>t, <2>1 DEF Claim, JobRecord
  <2>5. OneStreamPerJob'
    BY <1>t, <2>2, <2>3, <2>4 DEF IInv, OneStreamPerJob
  <2>6. CompletedIffDelivered'
    BY <1>t, <2>3, <2>4 DEF IInv, CompletedIffDelivered, Delivered
  <2>7. EndsOnce'
    BY <1>t, <2>1, <2>3, <2>4 DEF IInv, EndsOnce, Claimable
  <2> QED BY <1>t, <2>5, <2>6, <2>7 DEF IInv
<1>3. ASSUME NEW r \in FileReq, FileUnclaim(r) PROVE IInv'
  <2>1. /\ pc[r] = "unclaim" /\ pc' = [pc EXCEPT ![r] = "replied"] /\ reply' = reply
        /\ job' = [job EXCEPT ![FileJob[r]] = Unclaim(@)]
    BY <1>3 DEF FileUnclaim, Goto
  <2>2. \A q \in FileReq : Streaming(q) /\ FileJob[q] = FileJob[r] => q = r
    BY <1>t, <2>1 DEF IInv, OneStreamPerJob, Streaming
  <2>3. /\ \A q \in FileReq : Streaming(q)' <=> Streaming(q) /\ q # r
        /\ \A q \in FileReq : Delivered(q)' <=> Delivered(q)
        /\ \A q \in FileReq : q # r => (Ending(q)' <=> Ending(q))
    BY <1>t, <2>1 DEF Streaming, Delivered, Ending
  <2>4. \A id \in JobID : /\ job'[id].status = job[id].status
                          /\ job'[id].streaming <=> job[id].streaming /\ id # FileJob[r]
    BY <1>t, <2>1 DEF Unclaim, JobRecord
  <2>5. OneStreamPerJob'
    BY <1>t, <2>2, <2>3, <2>4 DEF IInv, OneStreamPerJob
  <2>6. CompletedIffDelivered'
    BY <1>t, <2>3, <2>4 DEF IInv, CompletedIffDelivered, Delivered
  <2>7. EndsOnce'
    BY <1>t, <2>1, <2>3, <2>4 DEF IInv, EndsOnce
  <2> QED BY <1>t, <2>5, <2>6, <2>7 DEF IInv
<1>4. ASSUME NEW r \in FileReq, Done(r) PROVE IInv'
  <2>1. /\ pc[r] = "done" /\ pc' = [pc EXCEPT ![r] = "announceDone"] /\ reply' = reply
        /\ job' = [job EXCEPT ![FileJob[r]] = SetStatus(@, "completed")]
    BY <1>4 DEF Done, SetTo, Goto
  <2>2. \A q \in FileReq : Streaming(q) /\ FileJob[q] = FileJob[r] => q = r
    BY <1>t, <2>1 DEF IInv, OneStreamPerJob, Streaming
  <2>3. /\ \A q \in FileReq : Streaming(q)' <=> Streaming(q)
        /\ \A q \in FileReq : Delivered(q)' <=> Delivered(q) \/ q = r
        /\ \A q \in FileReq : Ending(q)' <=> Ending(q) \/ q = r
    BY <1>t, <2>1 DEF Streaming, Delivered, Ending
  <2>4. \A id \in JobID :
           /\ job'[id].status = IF id = FileJob[r] THEN "completed" ELSE job[id].status
           /\ job'[id].streaming = job[id].streaming
    BY <1>t, <2>1 DEF SetStatus, JobRecord
  <2>5. OneStreamPerJob'
    BY <1>t, <2>3, <2>4 DEF IInv, OneStreamPerJob
  <2>6. CompletedIffDelivered'
    BY <1>t, <2>3, <2>4 DEF IInv, CompletedIffDelivered, Delivered
  <2>7. EndsOnce'
    BY <1>t, <2>1, <2>2, <2>3, <2>4 DEF IInv, EndsOnce
  <2> QED BY <1>t, <2>5, <2>6, <2>7 DEF IInv
<1>5. ASSUME NEW c \in CancelReq, CancelLock(c), ~(HandlersAlike /\ JobsAlike) PROVE IInv'
  <2>1. /\ Cancelable(job[CancelJob[c]]) /\ HandlersAlike
        /\ job' = [job EXCEPT ![CancelJob[c]] = Cancel(@)]
    BY <1>5, CancelLockStep
  <2>2. \A id \in JobID : /\ job'[id].status = "completed" <=> job[id].status = "completed"
                          /\ job'[id].streaming = job[id].streaming
    BY <1>t, <2>1, RequestAssumption DEF Cancelable, Cancel, JobRecord
  <2>3. OneStreamPerJob' /\ CompletedIffDelivered' /\ EndsOnce'
    BY <1>t, <2>1, <2>2
    DEF IInv, OneStreamPerJob, CompletedIffDelivered, EndsOnce, HandlersAlike, Delivered
  <2> QED BY <1>t, <2>3 DEF IInv
<1> QED BY <1>1, <1>2, <1>3, <1>4, <1>5, CriticalSteps

LEMMA Invariance == Spec => []IInv
BY IInvInit, IInvStep, PTL DEF Spec

\* The streaming flag of a job is set exactly while one handler is between Claim
\* and Unclaim: no two handlers produce the bytes of one job.
THEOREM OneStreamAtATime == Spec => []OneStreamPerJob
BY Invariance, PTL DEF IInv

\* A job is completed exactly when one response for it ended cleanly.
THEOREM CompletedMeansDelivered == Spec => []CompletedIffDelivered
BY Invariance, PTL DEF IInv

\* A completed job stays completed: no retry claims it, and no cancel, failure
\* or late status of another handler is written over it ("a finished or canceled
\* one can't", job.go:70).
CompletedForGood ==
    [][\A id \in JobID : job[id].status = "completed" => job'[id].status = "completed"]_vars

THEOREM CompletedStays == Spec => CompletedForGood
<1>1. ASSUME IInv, [Next]_vars, NEW r \in FileReq, Delivered(r) PROVE Delivered(r)'
  <2>t. pc \in [FileReq -> FilePC]
    BY <1>1 DEF IInv, Types, FileTyped
  <2>1. CASE HandlersAlike
    BY <1>1, <2>1 DEF HandlersAlike
  <2>2. ASSUME NEW q \in FileReq, FileClaim(q), ~(HandlersAlike /\ JobsAlike) PROVE Delivered(r)'
    BY <1>1, <2>t, <2>2, ClaimStep DEF Delivered
  <2>3. ASSUME NEW q \in FileReq, FileUnclaim(q) PROVE Delivered(r)'
    BY <1>1, <2>t, <2>3 DEF FileUnclaim, Goto, Delivered
  <2>4. ASSUME NEW q \in FileReq, Done(q) PROVE Delivered(r)'
    BY <1>1, <2>t, <2>4 DEF Done, SetTo, Goto, Delivered
  <2>5. ASSUME NEW c \in CancelReq, CancelLock(c), ~(HandlersAlike /\ JobsAlike)
        PROVE  Delivered(r)'
    BY <1>1, <2>1, <2>5, CancelLockStep
  <2> QED BY <1>1, <2>1, <2>2, <2>3, <2>4, <2>5, CriticalSteps
<1>2. ASSUME IInv, IInv', [Next]_vars, NEW id \in JobID, job[id].status = "completed"
      PROVE  job'[id].status = "completed"
  <2>1. PICK r \in FileReq : FileJob[r] = id /\ Delivered(r)
    BY <1>2 DEF IInv, CompletedIffDelivered, Delivered
  <2>2. Delivered(r)'
    BY <1>1, <1>2, <2>1
  <2> QED BY <1>2, <2>1, <2>2 DEF IInv, CompletedIffDelivered, Delivered
<1>3. IInv /\ IInv' /\ [Next]_vars =>
         [\A id \in JobID : job[id].status = "completed" => job'[id].status = "completed"]_vars
  BY <1>2
<1> QED BY <1>3, Invariance, PTL DEF Spec, CompletedForGood

-----------------------------------------------------------------------------
(* How a handler ends, and how a cancel reaches it. *)

\* On its way out a handler has said how its job ended, unless the job was
\* canceled: then it leaves the status alone.
Settled(r) ==
    LET j == job[FileJob[r]] IN
    /\ pc[r] = "announceDone" => j.status = "completed"
    /\ pc[r] = "announceFail" => j.status = "error"
    /\ pc[r] \in {"unwind", "unclaim"} => j.canceled \/ j.status \in Terminal

\* A live context belongs to a handler that has its slot and has left its
\* cancel function in the job.
Reachable(r) ==
    LET j == job[FileJob[r]] IN
    /\ pc[r] = "register" => "slot" \in has[r]
    /\ ctx[r] = "live" =>
          /\ Streaming(r) /\ pc[r] \notin {"hold", "ip", "slot", "register", "unclaim"}
          /\ "slot" \in has[r] /\ j.cancelFn = r
          /\ j.canceled => \E c \in CancelReq : cpc[c] = "call" /\ fn[c] = r

\* What a job says of itself and of its cancel.
Honest(id) ==
    LET j == job[id] IN
    /\ j.status \in {"downloading", "processing"} => j.streaming \/ j.canceled
    /\ j.status = "canceled" => j.canceled

CancelMarked(c) == cpc[c] \in {"call", "announce"} => job[CancelJob[c]].canceled

JInv ==
    /\ \A r \in FileReq : Settled(r) /\ Reachable(r)
    /\ \A id \in JobID : Honest(id)
    /\ \A c \in CancelReq : CancelMarked(c)

\* What a step of r leaves alone: the other handlers, the other jobs and the
\* cancels; and whether its own job is canceled.
OnlyMine(r) ==
    /\ \A q \in FileReq : q # r => pc'[q] = pc[q] /\ has'[q] = has[q] /\ ctx'[q] = ctx[q]
    /\ \A id \in JobID : id # FileJob[r] => job'[id] = job[id]
    /\ job'[FileJob[r]].canceled = job[FileJob[r]].canceled
    /\ UNCHANGED stopVars

\* No other handler is between Claim and Unclaim of the same job.
LEMMA OthersElsewhere ==
    ASSUME IInv, NEW r \in FileReq, pc[r] # "start", pc[r] # "replied",
           pc[r] = "claim" => Claimable(job[FileJob[r]]),
           NEW q \in FileReq, q # r, FileJob[q] = FileJob[r]
    PROVE  ~Streaming(q)
BY RequestAssumption DEF IInv, OneStreamPerJob, Streaming, Claimable

\* A step of r that leaves the rest alone need only be looked at where r is.
LEMMA MineSuffices ==
    ASSUME IInv, IInv', JInv, NEW r \in FileReq, OnlyMine(r),
           (pc[r] # "start" /\ pc[r] # "replied") \/ job' = job,
           pc[r] = "claim" => Claimable(job[FileJob[r]]) \/ job' = job,
           Settled(r)', Reachable(r)', Honest(FileJob[r])'
    PROVE  JInv'
<1>1. ASSUME NEW q \in FileReq, q # r, FileJob[q] = FileJob[r], job' # job
      PROVE  ~Streaming(q)
  BY <1>1, OthersElsewhere
<1>2. ASSUME NEW q \in FileReq PROVE Settled(q)' /\ Reachable(q)'
  <2>1. CASE q = r
    BY <2>1
  <2>2. CASE q # r /\ job'[FileJob[q]] = job[FileJob[q]]
    BY <2>2 DEF JInv, OnlyMine, Settled, Reachable, Streaming, stopVars
  <2>3. CASE q # r /\ job'[FileJob[q]] # job[FileJob[q]]
    <3>1. ~Streaming(q) /\ pc'[q] = pc[q] /\ ctx'[q] = ctx[q] /\ has'[q] = has[q]
      BY <1>1, <2>3, RequestAssumption DEF OnlyMine
    <3>2. ctx[q] # "live" /\ pc[q] \in {"start", "claim", "replied"}
      BY <3>1 DEF JInv, Reachable, Streaming
    <3> QED BY <3>1, <3>2 DEF Settled, Reachable
  <2> QED BY <2>1, <2>2, <2>3
<1>3. ASSUME NEW id \in JobID PROVE Honest(id)'
  BY DEF JInv, OnlyMine, Honest
<1>4. ASSUME NEW c \in CancelReq PROVE CancelMarked(c)'
  BY RequestAssumption DEF JInv, OnlyMine, CancelMarked, stopVars
<1> QED BY <1>2, <1>3, <1>4 DEF JInv

\* Each step of a /file handler is of that kind.
LEMMA FileStepSettled ==
    ASSUME IInv, IInv', JInv, NEW r \in FileReq, FileStep(r) \/ FileChance(r) \/ Deadline(r)
    PROVE  JInv' /\ OnlyMine(r)
<1> DEFINE j == job[FileJob[r]]
           Mine == /\ OnlyMine(r) /\ Settled(r)' /\ Reachable(r)' /\ Honest(FileJob[r])'
                   /\ (pc[r] # "start" /\ pc[r] # "replied") \/ job' = job
                   /\ pc[r] = "claim" => Claimable(j) \/ job' = job
<1> USE DEF OnlyMine, Settled, Reachable, Honest, Streaming, Goto, Answer, stopVars
<1>0. /\ pc \in [FileReq -> FilePC] /\ has \in [FileReq -> SUBSET {"ip", "slot"}]
      /\ ctx \in [FileReq -> CtxState]
      /\ job \in [JobID -> JobRecord] /\ FileJob[r] \in JobID
      /\ Streaming(r) => j.streaming
      /\ Settled(r) /\ Reachable(r) /\ Honest(FileJob[r])
  BY RequestAssumption DEF IInv, Types, FileTyped, SharedTyped, OneStreamPerJob, JInv
<1>1. CASE FileGet(r)
  <2>1. Mine
    BY <1>0, <1>1 DEF FileGet, JobRecord, Terminal
  <2> QED BY <2>1, MineSuffices
<1>2. CASE FileClaim(r)
  <2>1. Mine
    BY <1>0, <1>2 DEF FileClaim, Claim, Claimable, JobRecord, Terminal
  <2> QED BY <2>1, MineSuffices
<1>3. CASE FileHold(r)
  <2>1. Mine
    BY <1>0, <1>3 DEF FileHold, JobRecord, Terminal
  <2> QED BY <2>1, MineSuffices
<1>4. CASE AcquireIP(r)
  <2>1. Mine
    BY <1>0, <1>4 DEF AcquireIP, JobRecord, Terminal
  <2> QED BY <2>1, MineSuffices
<1>5. CASE RefuseIP(r)
  <2>1. Mine
    BY <1>0, <1>5 DEF RefuseIP, Reject, JobRecord, Terminal
  <2> QED BY <2>1, MineSuffices
<1>6. CASE AcquireSlot(r)
  <2>1. Mine
    BY <1>0, <1>6 DEF AcquireSlot, JobRecord, Terminal
  <2> QED BY <2>1, MineSuffices
<1>7. CASE GiveUpSlot(r)
  <2>1. Mine
    BY <1>0, <1>7 DEF GiveUpSlot, Reject, JobRecord, Terminal
  <2> QED BY <2>1, MineSuffices
<1>8. CASE Register(r)
  <2>1. Mine
    BY <1>0, <1>8 DEF Register, SetCancelFunc, JobRecord, Terminal
  <2> QED BY <2>1, MineSuffices
<1>9. CASE CheckCanceled(r)
  <2>1. Mine
    BY <1>0, <1>9 DEF CheckCanceled, JobRecord, Terminal
  <2> QED BY <2>1, MineSuffices
<1>10. CASE ResolveFx(r)
  <2>1. Mine
    BY <1>0, <1>10 DEF ResolveFx, Reject, JobRecord, Terminal
  <2> QED BY <2>1, MineSuffices
<1>11. CASE Begin(r)
  <2>1. Mine
    BY <1>0, <1>11 DEF Begin, SetTo, SetStatus, JobRecord, Terminal
  <2> QED BY <2>1, MineSuffices
<1>12. CASE Announce(r)
  <2>1. Mine
    BY <1>0, <1>12 DEF Announce, Launch, JobRecord, Terminal
  <2> QED BY <2>1, MineSuffices
<1>13. CASE FetchFails(r)
  <2>1. Mine
    BY <1>0, <1>13 DEF FetchFails, StageReturns, JobRecord, Terminal
  <2> QED BY <2>1, MineSuffices
<1>14. CASE FetchDone(r)
  <2>1. Mine
    BY <1>0, <1>14 DEF FetchDone, JobRecord, Terminal
  <2> QED BY <2>1, MineSuffices
<1>15. CASE Process(r)
  <2>1. Mine
    BY <1>0, <1>15 DEF Process, SetTo, SetStatus, JobRecord, Terminal
  <2> QED BY <2>1, MineSuffices
<1>16. CASE AnnounceProcess(r)
  <2>1. Mine
    BY <1>0, <1>16 DEF AnnounceProcess, Launch, JobRecord, Terminal
  <2> QED BY <2>1, MineSuffices
<1>17. CASE Progress(r)
  <2>1. Mine
    BY <1>0, <1>17 DEF Progress, reqVars, JobRecord, Terminal
  <2> QED BY <2>1, MineSuffices
<1>18. CASE BeginWrite(r)
  <2>1. Mine
    BY <1>0, <1>18 DEF BeginWrite, JobRecord, Terminal
  <2> QED BY <2>1, MineSuffices
<1>19. CASE BodyFails(r)
  <2>1. Mine
    BY <1>0, <1>19 DEF BodyFails, StageReturns, JobRecord, Terminal
  <2> QED BY <2>1, MineSuffices
<1>20. CASE BodyDone(r)
  <2>1. Mine
    BY <1>0, <1>20 DEF BodyDone, StageReturns, JobRecord, Terminal
  <2> QED BY <2>1, MineSuffices
<1>21. CASE Done(r)
  <2>1. Mine
    BY <1>0, <1>21 DEF Done, SetTo, SetStatus, JobRecord, Terminal
  <2> QED BY <2>1, MineSuffices
<1>22. CASE AnnounceDone(r)
  <2>1. Mine
    BY <1>0, <1>22 DEF AnnounceDone, JobRecord, Terminal
  <2> QED BY <2>1, MineSuffices
<1>23. CASE Classify(r)
  <2>1. Mine
    BY <1>0, <1>23 DEF Classify, Reject, JobRecord, Terminal
  <2> QED BY <2>1, MineSuffices
<1>24. CASE Fail(r)
  <2>1. Mine
    BY <1>0, <1>24 DEF Fail, SetTo, SetStatus, JobRecord, Terminal
  <2> QED BY <2>1, MineSuffices
<1>25. CASE AnnounceFail(r)
  <2>1. Mine
    BY <1>0, <1>25 DEF AnnounceFail, JobRecord, Terminal
  <2> QED BY <2>1, MineSuffices
<1>26. CASE ReleaseSlot(r)
  <2>1. Mine
    BY <1>0, <1>26 DEF ReleaseSlot, JobRecord, Terminal
  <2> QED BY <2>1, MineSuffices
<1>27. CASE ReleaseIP(r)
  <2>1. Mine
    BY <1>0, <1>27 DEF ReleaseIP, JobRecord, Terminal
  <2> QED BY <2>1, MineSuffices
<1>28. CASE FileExpireAfter(r)
  <2>1. Mine
    BY <1>0, <1>28 DEF FileExpireAfter, JobRecord, Terminal
  <2> QED BY <2>1, MineSuffices
<1>29. CASE FileUnclaim(r)
  <2>1. Mine
    BY <1>0, <1>29 DEF FileUnclaim, Unclaim, JobRecord, Terminal
  <2> QED BY <2>1, MineSuffices
<1>30. CASE ClientGone(r)
  <2>1. Mine
    BY <1>0, <1>30 DEF ClientGone, Kill, JobRecord, Terminal
  <2> QED BY <2>1, MineSuffices
<1>31. CASE Deadline(r)
  <2>1. Mine
    BY <1>0, <1>31 DEF Deadline, Kill, JobRecord, Terminal
  <2> QED BY <2>1, MineSuffices
<1>32. CASE Written(r)
  <2>1. Mine
    BY <1>0, <1>32 DEF Written, JobRecord, Terminal
  <2> QED BY <2>1, MineSuffices
<1>33. CASE WriteFails(r)
  <2>1. Mine
    BY <1>0, <1>33 DEF WriteFails, StageReturns, JobRecord, Terminal
  <2> QED BY <2>1, MineSuffices
<1> QED
  BY <1>1, <1>2, <1>3, <1>4, <1>5, <1>6, <1>7, <1>8, <1>9, <1>10, <1>11, <1>12, <1>13,
     <1>14, <1>15, <1>16, <1>17, <1>18, <1>19, <1>20, <1>21, <1>22, <1>23, <1>24, <1>25,
     <1>26, <1>27, <1>28, <1>29, <1>30, <1>31, <1>32, <1>33 DEF FileStep, FileChance, StageKilled

LEMMA OtherStepSettled ==
    ASSUME IInv, JInv,
           \/ \E id \in JobID : CreateInsert(id) \/ CreateArm(id)
           \/ \E t \in Timer, id \in JobID : TimerStep(t, id)
           \/ \E c \in CancelReq : CancelGet(c) \/ CancelStep(c)
           \/ UNCHANGED vars
    PROVE  JInv'
<1> USE DEF Settled, Reachable, Honest, CancelMarked, Streaming, CancelGoto
<1>0. /\ ctx \in [FileReq -> CtxState] /\ job \in [JobID -> JobRecord]
      /\ cpc \in [CancelReq -> CancelPC] /\ fn \in [CancelReq -> FileReq \cup {NoFn}]
      /\ \A r \in FileReq : FileJob[r] \in JobID /\ Settled(r) /\ Reachable(r) /\ r # NoFn
      /\ \A id \in JobID : Honest(id)
      /\ \A c \in CancelReq : CancelJob[c] \in JobID /\ CancelMarked(c)
  BY RequestAssumption, NilAssumption DEF IInv, Types, FileTyped, SharedTyped, CancelTyped, JInv
<1>1. CASE \/ \E id \in JobID : CreateInsert(id) \/ CreateArm(id)
           \/ \E t \in Timer, id \in JobID : TimerStep(t, id)
           \/ UNCHANGED vars
  <2> UNCHANGED <<pc, has, ctx, job, cpc, fn>>
    BY <1>1 DEF CreateInsert, CreateArm, TimerStep, TimerFires, TimerExpires, vars, reqVars, stopVars
  <2> QED BY <1>0 DEF JInv
<1>2. ASSUME NEW c \in CancelReq, CancelGet(c) PROVE JInv'
  BY <1>0, <1>2 DEF CancelGet, reqVars, JInv
<1>3. ASSUME NEW c \in CancelReq, CancelLock(c), ~Cancelable(job[CancelJob[c]]) PROVE JInv'
  BY <1>0, <1>3 DEF CancelLock, reqVars, JInv
<1>4. ASSUME NEW c \in CancelReq, CancelLock(c), Cancelable(job[CancelJob[c]]) PROVE JInv'
  <2> DEFINE j == job[CancelJob[c]]
  <2>1. /\ UNCHANGED <<pc, has, ctx>>
        /\ cpc[c] = "lock"
        /\ cpc' = [cpc EXCEPT ![c] = IF j.cancelFn = NoFn THEN "announce" ELSE "call"]
        /\ fn' = [fn EXCEPT ![c] = j.cancelFn]
    BY <1>4 DEF CancelLock, reqVars
  <2>2. /\ \A id \in JobID : id # CancelJob[c] => job'[id] = job[id]
        /\ job'[CancelJob[c]].canceled = TRUE
        /\ job'[CancelJob[c]].status = "canceled"
        /\ job'[CancelJob[c]].cancelFn = j.cancelFn
        /\ job'[CancelJob[c]].streaming = j.streaming
    <3>1. \A x \in JobRecord : /\ Cancel(x).canceled = TRUE
                              /\ Cancel(x).status = "canceled"
                              /\ Cancel(x).cancelFn = x.cancelFn
                              /\ Cancel(x).streaming = x.streaming
      BY DEF Cancel, JobRecord
    <3>2. job' = [job EXCEPT ![CancelJob[c]] = Cancel(j)]
      BY <1>4 DEF CancelLock
    <3>3. job'[CancelJob[c]] = Cancel(j) /\ \A id \in JobID : id # CancelJob[c] => job'[id] = job[id]
      BY <1>0, <3>2
    <3> QED BY <1>0, <3>1, <3>3
  <2>3. ASSUME NEW r \in FileReq PROVE Settled(r)' /\ Reachable(r)'
    <3>1. Settled(r)'
      BY <1>0, <1>4, <2>1, <2>2 DEF Cancelable, Terminal
    <3>2. Reachable(r)'
      <4>1. CASE FileJob[r] = CancelJob[c]
        BY <1>0, <4>1, <2>1, <2>2
      <4>2. CASE FileJob[r] # CancelJob[c]
        BY <1>0, <4>2, <2>1, <2>2
      <4> QED BY <4>1, <4>2
    <3> QED BY <3>1, <3>2
  <2>4. \A id \in JobID : Honest(id)'
    BY <1>0, <2>2
  <2>5. \A d \in CancelReq : CancelMarked(d)'
    BY <1>0, <2>1, <2>2
  <2> QED BY <2>3, <2>4, <2>5 DEF JInv
<1>5. ASSUME NEW c \in CancelReq, CallCancelFn(c) PROVE JInv'
  <2>1. /\ UNCHANGED <<pc, has, job, fn>> /\ cpc[c] = "call" /\ cpc' = [cpc EXCEPT ![c] = "announce"]
        /\ \A r \in FileReq : /\ r = fn[c] => ctx'[r] # "live"
                              /\ ctx'[r] = "live" => ctx[r] = "live"
    BY <1>0, <1>5 DEF CallCancelFn, Kill
  <2> QED BY <1>0, <2>1 DEF JInv
<1>6. ASSUME NEW c \in CancelReq, AnnounceCancel(c) PROVE JInv'
  BY <1>0, <1>6 DEF AnnounceCancel, reqVars, JInv
<1> QED BY <1>1, <1>2, <1>3, <1>4, <1>5, <1>6 DEF CancelStep

LEMMA JInvInit == Init => JInv
BY DEF Init, NewJob, JInv, Settled, Reachable, Honest, CancelMarked

LEMMA JInvStep == IInv /\ IInv' /\ JInv /\ [Next]_vars => JInv'
BY StepsByActor, FileStepSettled, OtherStepSettled

LEMMA JInvariance == Spec => [](IInv /\ JInv)
BY IInvInit, IInvStep, JInvInit, JInvStep, PTL DEF Spec

\* No cancel is lost to a handler that is starting: once the function it found
\* has run, no stream of the job has a live context (Cancel, SetCancelFunc).
THEOREM CancelStopsEveryStream == Spec => []CancelReachesStream
<1>1. IInv /\ JInv => CancelReachesStream
  BY DEF JInv, Reachable, CancelReachesStream
<1> QED BY <1>1, JInvariance, PTL

\* No way out of the handler leaves a job at work that nobody cancels without
\* a handler.
THEOREM NoJobIsStuck == Spec => []NotStuckUnlessCanceled
<1>1. IInv /\ JInv => NotStuckUnlessCanceled
  BY DEF JInv, Honest, NotStuckUnlessCanceled
<1> QED BY <1>1, JInvariance, PTL
=============================================================================
