---------------------------- MODULE EventsProofs -----------------------------
(***************************************************************************)
(* The watchers of the downloads, for any number of watchers, requests and *)
(* jobs and any limits: slots and channels are given back, no end of a job *)
(* is missed, and no watcher is told what is not so.                       *)
(***************************************************************************)
EXTENDS Events, DownloadProofs, FiniteSetTheorems

USE RequestAssumption, JobAssumption, LimitAssumption, NilAssumption,
    WatchAssumption, SubscriberAssumption

-----------------------------------------------------------------------------
(* The back of the server, with watchers. *)

\* The invariants of Download are kept by the steps of the watchers too.
LEMMA WatchersLeaveBack ==
    ASSUME IInv, JInv, UNCHANGED backVars, SubTyped'
    PROVE  IInv' /\ JInv'
<1> USE DEF backVars, mgrVars, reqVars, stopVars
<1>1. Types'
  BY DEF IInv, Types, MgrTyped, SharedTyped, FileTyped, CancelTyped
<1>2. OneStreamPerJob' /\ CompletedIffDelivered' /\ EndsOnce'
  BY DEF IInv, OneStreamPerJob, CompletedIffDelivered, EndsOnce, Streaming, Ending
<1>3. JInv'
  BY DEF JInv, Settled, Reachable, Honest, CancelMarked, Streaming
<1> QED BY <1>1, <1>2, <1>3 DEF IInv

-----------------------------------------------------------------------------
(* What the back tells the watchers. *)

\* The handler has changed the status and is about to say so.
FileVoice(r) == pc[r] \in {"announceDone", "announceFail"}

CancelVoice(c) == cpc[c] \in {"call", "announce"}

\* A step of r either tells nothing, and leaves a new end of its job to be
\* told, or publishes what is true, and changes nothing.
Quietly(r) ==
    LET j == job[FileJob[r]] IN
    /\ UNCHANGED subVars
    /\ FileVoice(r) => FileVoice(r)'
    /\ job'[FileJob[r]].status # j.status /\ job'[FileJob[r]].status \in Terminal => FileVoice(r)'

Aloud(r) ==
    \E ev \in EventStatus \ {"canceled"} :
        /\ PublishTo(FileJob[r], ev)
        /\ ev = "done" => job[FileJob[r]].status = "completed"
        /\ FileVoice(r) => ev \in TerminalEvent
        /\ UNCHANGED job

LEMMA FileStepTells ==
    ASSUME IInv, JInv, NEW r \in FileReq, FileStep(r) \/ FileChance(r) \/ Deadline(r)
    PROVE  Quietly(r) \/ Aloud(r)
<1> USE DEF Quietly, Aloud, FileVoice, Goto, EventStatus, TerminalEvent
<1>0. /\ pc \in [FileReq -> FilePC]
      /\ job \in [JobID -> JobRecord] /\ FileJob[r] \in JobID
      /\ Settled(r)
  BY RequestAssumption DEF IInv, Types, FileTyped, SharedTyped, JInv
<1>1. CASE FileGet(r)
  BY <1>0, <1>1 DEF FileGet
<1>2. CASE FileClaim(r)
  BY <1>0, <1>2 DEF FileClaim, Claim, JobRecord, Terminal
<1>3. CASE FileHold(r)
  BY <1>0, <1>3 DEF FileHold
<1>4. CASE AcquireIP(r)
  BY <1>0, <1>4 DEF AcquireIP
<1>5. CASE RefuseIP(r)
  BY <1>0, <1>5 DEF RefuseIP, Reject
<1>6. CASE AcquireSlot(r)
  BY <1>0, <1>6 DEF AcquireSlot
<1>7. CASE GiveUpSlot(r)
  BY <1>0, <1>7 DEF GiveUpSlot, Reject
<1>8. CASE Register(r)
  BY <1>0, <1>8 DEF Register, SetCancelFunc, JobRecord, Terminal
<1>9. CASE CheckCanceled(r)
  BY <1>0, <1>9 DEF CheckCanceled
<1>10. CASE ResolveFx(r)
  BY <1>0, <1>10 DEF ResolveFx, Reject
<1>11. CASE Begin(r)
  BY <1>0, <1>11 DEF Begin, SetTo, SetStatus, JobRecord, Terminal
<1>12. CASE Announce(r)
  BY <1>0, <1>12 DEF Announce, Launch
<1>13. CASE FetchFails(r)
  BY <1>0, <1>13 DEF FetchFails, StageReturns
<1>14. CASE FetchDone(r)
  BY <1>0, <1>14 DEF FetchDone
<1>15. CASE Process(r)
  BY <1>0, <1>15 DEF Process, SetTo, SetStatus, JobRecord, Terminal
<1>16. CASE AnnounceProcess(r)
  BY <1>0, <1>16 DEF AnnounceProcess, Launch
<1>17. CASE Progress(r)
  BY <1>0, <1>17 DEF Progress, reqVars
<1>18. CASE BeginWrite(r)
  BY <1>0, <1>18 DEF BeginWrite
<1>19. CASE BodyFails(r)
  BY <1>0, <1>19 DEF BodyFails, StageReturns
<1>20. CASE BodyDone(r)
  BY <1>0, <1>20 DEF BodyDone, StageReturns
<1>21. CASE Done(r)
  BY <1>0, <1>21 DEF Done, SetTo, SetStatus, JobRecord, Terminal
<1>22. CASE AnnounceDone(r)
  BY <1>0, <1>22 DEF AnnounceDone, Settled
<1>23. CASE Classify(r)
  BY <1>0, <1>23 DEF Classify, Reject
<1>24. CASE Fail(r)
  BY <1>0, <1>24 DEF Fail, SetTo, SetStatus, JobRecord, Terminal
<1>25. CASE AnnounceFail(r)
  BY <1>0, <1>25 DEF AnnounceFail
<1>26. CASE ReleaseSlot(r)
  BY <1>0, <1>26 DEF ReleaseSlot
<1>27. CASE ReleaseIP(r)
  BY <1>0, <1>27 DEF ReleaseIP
<1>28. CASE FileExpireAfter(r)
  BY <1>0, <1>28 DEF FileExpireAfter
<1>29. CASE FileUnclaim(r)
  BY <1>0, <1>29 DEF FileUnclaim, Unclaim, JobRecord, Terminal
<1>30. CASE ClientGone(r)
  BY <1>0, <1>30 DEF ClientGone
<1>31. CASE Deadline(r)
  BY <1>0, <1>31 DEF Deadline
<1>32. CASE Written(r)
  BY <1>0, <1>32 DEF Written
<1>33. CASE WriteFails(r)
  BY <1>0, <1>33 DEF WriteFails, StageReturns
<1> QED
  BY <1>1, <1>2, <1>3, <1>4, <1>5, <1>6, <1>7, <1>8, <1>9, <1>10, <1>11, <1>12, <1>13,
     <1>14, <1>15, <1>16, <1>17, <1>18, <1>19, <1>20, <1>21, <1>22, <1>23, <1>24, <1>25,
     <1>26, <1>27, <1>28, <1>29, <1>30, <1>31, <1>32, <1>33 DEF FileStep, FileChance, StageKilled

LEMMA AnnouncedAlike ==
    ASSUME NEW id, job'[id].status = job[id].status \/ job'[id].status \notin Terminal,
           \A r \in FileReq : FileJob[r] = id /\ FileVoice(r) => FileVoice(r)',
           \A c \in CancelReq : CancelJob[c] = id /\ CancelVoice(c) => CancelVoice(c)'
    PROVE  Announced(id)' => Announced(id)
BY DEF Announced, FileVoice, CancelVoice

\* A step of the back publishes nothing and leaves the ends of the jobs as
\* announced as they were, or publishes what is true.
Tells ==
    \/ /\ UNCHANGED subVars
       /\ \A id \in JobID : Announced(id)' => Announced(id)
    \/ \E id \in JobID, ev \in EventStatus :
          /\ PublishTo(id, ev)
          /\ ev = "done" => job[id].status = "completed"
          /\ ev = "canceled" => job[id].canceled
          /\ \A i \in JobID : Announced(i)' => Announced(i) \/ (i = id /\ ev \in TerminalEvent)

LEMMA BackTells ==
    ASSUME IInv, JInv, [Next]_vars
    PROVE  Tells
<1>0. /\ FileJob \in [FileReq -> JobID] /\ CancelJob \in [CancelReq -> JobID]
      /\ pc \in [FileReq -> FilePC] /\ cpc \in [CancelReq -> CancelPC]
      /\ job \in [JobID -> JobRecord]
  BY RequestAssumption DEF IInv, Types, FileTyped, SharedTyped, CancelTyped
<1>1. ASSUME NEW r \in FileReq, FileStep(r) \/ FileChance(r) \/ Deadline(r) PROVE Tells
  <2>1. Quietly(r) \/ Aloud(r)
    BY <1>1, FileStepTells
  <2>2. OnlyMine(r)
    BY <1>1, FileStepSettled, IInvStep
  <2>3. /\ \A q \in FileReq : q # r => (FileVoice(q)' <=> FileVoice(q))
        /\ \A c \in CancelReq : CancelVoice(c)' <=> CancelVoice(c)
    BY <2>2 DEF OnlyMine, FileVoice, CancelVoice, stopVars
  <2>4. CASE Quietly(r)
    <3>1. ASSUME NEW id \in JobID PROVE Announced(id)' => Announced(id)
      <4>1. CASE id = FileJob[r] /\ job'[id].status # job[id].status /\ job'[id].status \in Terminal
        BY <2>4, <4>1 DEF Quietly, Announced, FileVoice
      <4>2. CASE job'[id].status = job[id].status \/ job'[id].status \notin Terminal
        BY <2>3, <2>4, <4>2, AnnouncedAlike DEF Quietly
      <4>3. CASE id # FileJob[r] /\ job'[id].status # job[id].status
        BY <2>2, <4>3 DEF OnlyMine
      <4> QED BY <4>1, <4>2, <4>3
    <3> QED BY <2>4, <3>1 DEF Tells, Quietly
  <2>5. CASE Aloud(r)
    <3>1. PICK ev \in EventStatus \ {"canceled"} :
             /\ PublishTo(FileJob[r], ev)
             /\ ev = "done" => job[FileJob[r]].status = "completed"
             /\ FileVoice(r) => ev \in TerminalEvent
             /\ UNCHANGED job
      BY <2>5 DEF Aloud
    <3>2. ASSUME NEW i \in JobID, ~(i = FileJob[r] /\ ev \in TerminalEvent)
          PROVE  Announced(i)' => Announced(i)
      BY <2>3, <3>1, <3>2, AnnouncedAlike
    <3> QED BY <1>0, <3>1, <3>2 DEF Tells
  <2> QED BY <2>1, <2>4, <2>5
<1>2. CASE \/ \E id \in JobID : CreateInsert(id) \/ CreateArm(id)
           \/ \E t \in Timer, id \in JobID : TimerStep(t, id)
           \/ \E c \in CancelReq : CancelGet(c)
           \/ UNCHANGED vars
  <2>1. UNCHANGED <<job, pc, subVars>> /\ \A c \in CancelReq : CancelVoice(c)' <=> CancelVoice(c)
    BY <1>0, <1>2 DEF CreateInsert, CreateArm, TimerStep, TimerFires, TimerExpires, CancelGet,
                CancelGoto, CancelVoice, vars, reqVars, stopVars
  <2> QED BY <2>1, AnnouncedAlike DEF Tells, FileVoice
<1>3. ASSUME NEW c \in CancelReq, CancelLock(c) PROVE Tells
  <2>1. UNCHANGED <<pc, subVars>>
    BY <1>3 DEF CancelLock, reqVars
  <2>2. /\ \A d \in CancelReq : CancelVoice(d) => CancelVoice(d)'
        /\ \A id \in JobID : job'[id] # job[id] => id = CancelJob[c] /\ CancelVoice(c)'
    BY <1>0, <1>3 DEF CancelLock, CancelGoto, CancelVoice
  <2>3. ASSUME NEW id \in JobID PROVE Announced(id)' => Announced(id)
    <3>1. CASE job'[id] = job[id]
      BY <2>1, <2>2, <3>1, AnnouncedAlike DEF FileVoice
    <3>2. CASE job'[id] # job[id]
      BY <2>2, <3>2 DEF Announced, CancelVoice
    <3> QED BY <3>1, <3>2
  <2> QED BY <2>1, <2>3 DEF Tells
<1>4. ASSUME NEW c \in CancelReq, CallCancelFn(c) PROVE Tells
  <2>1. /\ UNCHANGED <<job, pc, subVars>>
        /\ \A d \in CancelReq : CancelVoice(d) => CancelVoice(d)'
    BY <1>0, <1>4 DEF CallCancelFn, CancelGoto, CancelVoice
  <2> QED BY <2>1, AnnouncedAlike DEF Tells, FileVoice
<1>5. ASSUME NEW c \in CancelReq, AnnounceCancel(c) PROVE Tells
  <2>1. /\ UNCHANGED <<job, pc>> /\ PublishTo(CancelJob[c], "canceled")
        /\ cpc[c] = "announce"
        /\ \A d \in CancelReq : d # c /\ CancelVoice(d) => CancelVoice(d)'
    BY <1>0, <1>5 DEF AnnounceCancel, CancelGoto, CancelVoice, reqVars
  <2>2. job[CancelJob[c]].canceled
    BY <2>1 DEF JInv, CancelMarked
  <2>3. \A i \in JobID : Announced(i)' => Announced(i) \/ i = CancelJob[c]
    BY <2>1, AnnouncedAlike DEF FileVoice
  <2> QED BY <1>0, <2>1, <2>2, <2>3 DEF Tells, EventStatus, TerminalEvent
<1> QED BY <1>1, <1>2, <1>3, <1>4, <1>5, StepsByActor DEF CancelStep

\* A job that was delivered stays completed, and a canceled one canceled.
LEMMA EndsStay ==
    ASSUME IInv, [Next]_vars, NEW id \in JobID
    PROVE  /\ job[id].status = "completed" => job'[id].status = "completed"
           /\ job[id].canceled => job'[id].canceled
<1>0. /\ job \in [JobID -> JobRecord]
      /\ FileJob \in [FileReq -> JobID] /\ CancelJob \in [CancelReq -> JobID]
  BY RequestAssumption DEF IInv, Types, SharedTyped
<1>1. CASE HandlersAlike /\ JobsAlike
  BY <1>1 DEF JobsAlike
<1>2. ASSUME NEW r \in FileReq, FileClaim(r) \/ FileUnclaim(r) \/ Done(r)
      PROVE  /\ job'[id].status = job[id].status \/ job'[id].status = "completed"
             /\ job'[id].canceled = job[id].canceled
  <2>1. CASE FileClaim(r)
    BY <1>0, <2>1 DEF FileClaim, Claim, JobRecord
  <2>2. CASE FileUnclaim(r)
    BY <1>0, <2>2 DEF FileUnclaim, Unclaim, JobRecord
  <2>3. CASE Done(r)
    BY <1>0, <2>3 DEF Done, SetTo, SetStatus, JobRecord
  <2> QED BY <1>2, <2>1, <2>2, <2>3
<1>3. ASSUME NEW c \in CancelReq, CancelLock(c)
      PROVE  \/ job'[id] = job[id]
             \/ job[id].status # "completed" /\ ~job[id].canceled
  BY <1>0, <1>3 DEF CancelLock, Cancelable
<1> QED BY <1>1, <1>2, <1>3, CriticalSteps

-----------------------------------------------------------------------------
(* The watchers. *)

\* What an event says of a job is so.
So(ev, id) ==
    /\ ev = "done" => job[id].status = "completed"
    /\ ev = "canceled" => job[id].canceled

\* Nothing else is on its way to a client, either.
OnlyTruth ==
    \A w \in Sub :
        /\ So(told[w], WatchJob[w])
        /\ \A i \in DOMAIN buf[w].queue : So(buf[w].queue[i], WatchJob[w])

EvInv == IInv /\ JInv /\ EvTypeOK /\ WatchersAccounted /\ EndingIsSeen /\ OnlyTruth

InSlot(w) == Watching(w) \/ wpc[w] \in {"subscribe", "release"}

InSlots == { w \in Sub : InSlot(w) }

LEMMA SubsFinite ==
    ASSUME NEW S \in SUBSET Sub PROVE IsFiniteSet(S) /\ Cardinality(S) \in Nat
BY FS_Subset, FS_CardinalityType

\* A step that moves nobody in or out keeps the accounts.
LEMMA SeatsAlike ==
    ASSUME WatchersAccounted, UNCHANGED <<sse, watching>>,
           \A w \in Sub : (InSlot(w)' <=> InSlot(w)) /\ (Watching(w)' <=> Watching(w))
    PROVE  WatchersAccounted'
<1>1. { w \in Sub : Watching(w) \/ wpc[w] \in {"subscribe", "release"} }'
         = { w \in Sub : Watching(w) \/ wpc[w] \in {"subscribe", "release"} }
  BY DEF InSlot
<1>2. \A id \in JobID : { w \in Sub : WatchJob[w] = id /\ Watching(w) }'
                           = { w \in Sub : WatchJob[w] = id /\ Watching(w) }
  OBVIOUS
<1> QED BY <1>1, <1>2 DEF WatchersAccounted

LEMMA WatcherAccounts ==
    ASSUME Types, EvTypeOK, WatchersAccounted, NEW w \in Sub,
           WatchGet(w) \/ WatchStep(w) \/ WatchDeadline(w) \/ WatchLeaves(w)
    PROVE  UNCHANGED backVars /\ SubTyped' /\ EvTypeOK' /\ WatchersAccounted'
<1> USE DEF EvTypeOK, WatchPC, Told, WatchGoto, Tell, Watching, InSlot, subVars
<1>0. /\ wpc \in [Sub -> WatchPC] /\ told \in [Sub -> Told]
      /\ watching \in [JobID -> SUBSET Sub]
      /\ buf \in [Sub -> [queue : Seq(EventStatus), missed : BOOLEAN]]
      /\ WatchJob[w] \in JobID
  BY WatchAssumption DEF Types, SubTyped
<1>1. CASE WatchGet(w)
  BY <1>0, <1>1, SeatsAlike DEF WatchGet, Types, SubTyped
<1>2. CASE WatchSlot(w)
  <2>1. CASE SSEFull
    <3>1. /\ UNCHANGED <<backVars, subVars, pending, sse>> /\ wpc[w] = "slot"
          /\ wpc' = [wpc EXCEPT ![w] = "closed"] /\ told' = [told EXCEPT ![w] = "503"]
      BY <1>2, <2>1 DEF WatchSlot
    <3> QED BY <1>0, <3>1, SeatsAlike DEF Types, SubTyped
  <2>2. CASE ~SSEFull
    <3>1. /\ UNCHANGED <<backVars, subVars, pending, told>> /\ wpc[w] = "slot"
          /\ wpc' = [wpc EXCEPT ![w] = "subscribe"] /\ sse' = sse + 1
          /\ MaxSSE > 0 => sse < MaxSSE
      BY <1>2, <2>2, WatchAssumption DEF WatchSlot, SSEFull
    <3>2. /\ InSlots' = InSlots \cup {w} /\ w \notin InSlots
          /\ \A v \in Sub : Watching(v)' <=> Watching(v)
      BY <1>0, <3>1 DEF InSlots
    <3>3. Cardinality(InSlots') = Cardinality(InSlots) + 1
      <4>1. IsFiniteSet(InSlots)
        BY SubsFinite DEF InSlots
      <4>2. Cardinality(InSlots \cup {w}) = Cardinality(InSlots) + 1
        BY <3>2, <4>1, FS_AddElement
      <4> QED BY <3>2, <4>2
    <3>4. sse = Cardinality(InSlots) /\ sse' = Cardinality(InSlots')
      BY <3>1, <3>3 DEF WatchersAccounted, InSlots
    <3>5. \A id \in JobID : /\ watching'[id] = { v \in Sub : WatchJob[v] = id /\ Watching(v)' }
                            /\ Cardinality(watching'[id]) <= MaxSubscribers
      BY <3>1, <3>2 DEF WatchersAccounted
    <3>6. WatchersAccounted'
      BY <3>1, <3>4, <3>5, WatchAssumption DEF WatchersAccounted, InSlots
    <3> QED BY <1>0, <3>1, <3>6 DEF Types, SubTyped
  <2> QED BY <2>1, <2>2
<1>3. CASE WatchSubscribe(w)
  <2> DEFINE id == WatchJob[w]
  <2>1. CASE ~MaySubscribe(watching[id])
    <3>1. /\ UNCHANGED <<backVars, subVars, pending, sse>> /\ wpc[w] = "subscribe"
          /\ wpc' = [wpc EXCEPT ![w] = "release"] /\ told' = [told EXCEPT ![w] = "429"]
      BY <1>3, <2>1 DEF WatchSubscribe
    <3> QED BY <1>0, <3>1, SeatsAlike DEF Types, SubTyped
  <2>2. CASE MaySubscribe(watching[id])
    <3>1. /\ UNCHANGED <<backVars, buf, pending, sse, told>> /\ wpc[w] = "subscribe"
          /\ wpc' = [wpc EXCEPT ![w] = "check"]
          /\ watching' = [watching EXCEPT ![id] = @ \cup {w}]
          /\ Cardinality(watching[id]) < MaxSubscribers
      BY <1>3, <2>2 DEF WatchSubscribe, MaySubscribe
    <3>2. /\ \A v \in Sub : InSlot(v)' <=> InSlot(v)
          /\ \A v \in Sub : Watching(v)' <=> Watching(v) \/ v = w
          /\ w \notin watching[id]
      BY <1>0, <3>1 DEF WatchersAccounted
    <3>3. /\ watching'[id] = watching[id] \cup {w}
          /\ \A i \in JobID : i # id => watching'[i] = watching[i]
      BY <1>0, <3>1
    <3>4. Cardinality(watching'[id]) <= MaxSubscribers
      <4>1. Cardinality(watching[id] \cup {w}) = Cardinality(watching[id]) + 1
        BY <1>0, <3>2, SubsFinite, FS_AddElement
      <4>2. Cardinality(watching[id]) \in Nat
        BY <1>0, SubsFinite
      <4>3. Cardinality(watching[id]) < MaxSubscribers
        BY <3>1
      <4> QED BY <3>3, <4>1, <4>2, <4>3
    <3>5. ASSUME NEW i \in JobID
          PROVE  /\ watching'[i] = { v \in Sub : WatchJob[v] = i /\ Watching(v)' }
                 /\ Cardinality(watching'[i]) <= MaxSubscribers
      <4>0. watching[i] = { v \in Sub : WatchJob[v] = i /\ Watching(v) }
        BY DEF WatchersAccounted
      <4>1. CASE i = id
        <5>1. watching'[i] = { v \in Sub : WatchJob[v] = i /\ (Watching(v) \/ v = w) }
          BY <3>3, <4>0, <4>1
        <5> QED BY <3>2, <3>4, <4>1, <5>1
      <4>2. CASE i # id
        <5>1. { v \in Sub : WatchJob[v] = i /\ Watching(v) }
                 = { v \in Sub : WatchJob[v] = i /\ Watching(v)' }
          BY <3>2, <4>2
        <5> QED BY <3>3, <4>0, <4>2, <5>1 DEF WatchersAccounted
      <4> QED BY <4>1, <4>2
    <3>6. InSlots' = InSlots
      BY <3>2 DEF InSlots
    <3>7. WatchersAccounted'
      BY <3>1, <3>5, <3>6 DEF WatchersAccounted, InSlots
    <3>8. SubTyped'
      BY <1>0, <3>1 DEF SubTyped
    <3> QED BY <1>0, <3>1, <3>7, <3>8
  <2> QED BY <2>1, <2>2
<1>4. CASE WatchCheck(w)
  <2>1. CASE job[WatchJob[w]].status \in Terminal
    <3>1. /\ UNCHANGED <<backVars, subVars, pending, sse, told>> /\ wpc[w] = "check"
          /\ wpc' = [wpc EXCEPT ![w] = "tell"]
      BY <1>4, <2>1 DEF WatchCheck
    <3> QED BY <1>0, <3>1, SeatsAlike DEF Types, SubTyped
  <2>2. CASE job[WatchJob[w]].status \notin Terminal
    <3>1. /\ UNCHANGED <<backVars, subVars, pending, sse, told>> /\ wpc[w] = "check"
          /\ wpc' = [wpc EXCEPT ![w] = "loop"]
      BY <1>4, <2>2 DEF WatchCheck
    <3> QED BY <1>0, <3>1, SeatsAlike DEF Types, SubTyped
  <2> QED BY <2>1, <2>2
<1>10. CASE WatchTell(w)
  <2>1. /\ UNCHANGED <<backVars, subVars, pending, sse>> /\ wpc[w] = "tell"
        /\ wpc' = [wpc EXCEPT ![w] = "cancel"]
        /\ told' = [told EXCEPT ![w] = Event(job[WatchJob[w]])]
    BY <1>10 DEF WatchTell
  <2>2. job[WatchJob[w]].status \in Status
    BY <1>0 DEF Types, SharedTyped, JobRecord
  <2>3. Event(job[WatchJob[w]]) \in Told
    BY <2>2 DEF Event, Status, EventStatus
  <2> QED BY <1>0, <2>1, <2>3, SeatsAlike DEF Types, SubTyped
<1>5. CASE WatchReceive(w)
  <2> DEFINE q == buf[w].queue
  <2>1. /\ UNCHANGED <<backVars, watching, pending, sse>> /\ wpc[w] = "loop" /\ q # <<>>
        /\ wpc' = [wpc EXCEPT ![w] = "cancel"] \/ wpc' = [wpc EXCEPT ![w] = "loop"]
        /\ told' = [told EXCEPT ![w] = Head(q)]
        /\ buf' = [buf EXCEPT ![w].queue = Tail(q)]
    BY <1>5 DEF WatchReceive
  <2>2. /\ q \in Seq(EventStatus) /\ Head(q) \in EventStatus /\ Tail(q) \in Seq(EventStatus)
        /\ [buf[w] EXCEPT !.queue = Tail(q)] \in [queue : Seq(EventStatus), missed : BOOLEAN]
    <3>1. buf[w] \in [queue : Seq(EventStatus), missed : BOOLEAN] /\ q # <<>>
      BY <1>0, <2>1
    <3>2. q \in Seq(EventStatus) /\ Head(q) \in EventStatus /\ Tail(q) \in Seq(EventStatus)
      BY <3>1
    <3> QED BY <3>1, <3>2
  <2>3. wpc' \in [Sub -> WatchPC] /\ told' \in [Sub -> Told]
    <3>1. Head(q) \in Told
      BY <2>2
    <3>2. told' \in [Sub -> Told]
      BY <1>0, <2>1, <3>1
    <3>3. wpc' \in [Sub -> WatchPC]
      BY <1>0, <2>1
    <3> QED BY <3>2, <3>3
  <2>4. SubTyped'
    <3>1. buf' = [buf EXCEPT ![w] = [buf[w] EXCEPT !.queue = Tail(q)]]
      BY <1>0, <2>1
    <3> QED BY <1>0, <2>1, <2>2, <3>1 DEF SubTyped
  <2>5. WatchersAccounted'
    BY <1>0, <2>1, SeatsAlike
  <2> QED BY <2>1, <2>3, <2>4, <2>5
<1>6. CASE PendingTimeout(w)
  BY <1>0, <1>6, SeatsAlike DEF PendingTimeout, Types, SubTyped
<1>7. CASE WatchDeadline(w) \/ WatchLeaves(w)
  BY <1>0, <1>7, SeatsAlike DEF WatchDeadline, WatchLeaves, Types, SubTyped
<1>8. CASE WatchCancel(w)
  <2> DEFINE id == WatchJob[w]
  <2>1. /\ UNCHANGED <<backVars, told, sse>> /\ wpc[w] = "cancel"
        /\ wpc' = [wpc EXCEPT ![w] = "release"] /\ pending' = [pending EXCEPT ![w] = FALSE]
        /\ watching' = [watching EXCEPT ![id] = @ \ {w}]
        /\ buf' = [buf EXCEPT ![w] = EmptyChan]
    BY <1>8 DEF WatchCancel
  <2>2. /\ \A v \in Sub : InSlot(v)' <=> InSlot(v)
        /\ \A v \in Sub : Watching(v)' <=> Watching(v) /\ v # w
    BY <1>0, <2>1
  <2>3. /\ watching'[id] = watching[id] \ {w}
        /\ \A i \in JobID : i # id => watching'[i] = watching[i]
    BY <1>0, <2>1
  <2>4. ASSUME NEW i \in JobID
        PROVE  /\ watching'[i] = { v \in Sub : WatchJob[v] = i /\ Watching(v)' }
               /\ Cardinality(watching'[i]) <= MaxSubscribers
    <3>0. watching[i] = { v \in Sub : WatchJob[v] = i /\ Watching(v) }
      BY DEF WatchersAccounted
    <3>1. watching'[i] \subseteq watching[i]
      BY <2>3
    <3>2. Cardinality(watching'[i]) <= Cardinality(watching[i])
      BY <1>0, <3>1, SubsFinite, FS_Subset
    <3>3. Cardinality(watching'[i]) <= MaxSubscribers
      <4>1. Cardinality(watching'[i]) \in Nat /\ Cardinality(watching[i]) \in Nat
        BY <1>0, <3>1, SubsFinite
      <4> QED BY <3>2, <4>1, SubscriberAssumption DEF WatchersAccounted
    <3>4. watching'[i] = { v \in Sub : WatchJob[v] = i /\ Watching(v)' }
      <4>1. CASE i = id
        BY <2>2, <2>3, <3>0, <4>1
      <4>2. CASE i # id
        BY <2>2, <2>3, <3>0, <4>2
      <4> QED BY <4>1, <4>2
    <3> QED BY <3>3, <3>4
  <2>5. InSlots' = InSlots
    BY <2>2 DEF InSlots
  <2>6. WatchersAccounted'
    BY <2>1, <2>4, <2>5 DEF WatchersAccounted, InSlots
  <2>7. SubTyped'
    BY <1>0, <2>1 DEF SubTyped, EmptyChan
  <2> QED BY <1>0, <2>1, <2>6, <2>7
<1>9. CASE WatchRelease(w)
  <2>1. /\ UNCHANGED <<backVars, subVars, pending, told>> /\ wpc[w] = "release"
        /\ wpc' = [wpc EXCEPT ![w] = "closed"] /\ sse' = sse - 1
    BY <1>9 DEF WatchRelease
  <2>2. /\ InSlots' = InSlots \ {w} /\ w \in InSlots
        /\ \A v \in Sub : Watching(v)' <=> Watching(v)
    BY <1>0, <2>1 DEF InSlots
  <2>3. /\ Cardinality(InSlots') = Cardinality(InSlots) - 1
        /\ Cardinality(InSlots') \in Nat
    <3>1. IsFiniteSet(InSlots) /\ InSlots \ {w} \in SUBSET Sub
      BY SubsFinite DEF InSlots
    <3>2. /\ Cardinality(InSlots \ {w}) = Cardinality(InSlots) - 1
          /\ Cardinality(InSlots \ {w}) \in Nat
      BY <2>2, <3>1, SubsFinite, FS_RemoveElement
    <3> QED BY <2>2, <3>2
  <2>4. sse = Cardinality(InSlots) /\ sse' = Cardinality(InSlots')
    BY <2>1, <2>3 DEF WatchersAccounted, InSlots
  <2>5. \A id \in JobID : /\ watching'[id] = { v \in Sub : WatchJob[v] = id /\ Watching(v)' }
                          /\ Cardinality(watching'[id]) <= MaxSubscribers
    BY <2>1, <2>2 DEF WatchersAccounted
  <2>6. MaxSSE > 0 => sse' <= MaxSSE
    BY <2>1, WatchAssumption DEF WatchersAccounted
  <2>7. WatchersAccounted'
    BY <2>4, <2>5, <2>6 DEF WatchersAccounted, InSlots
  <2> QED BY <1>0, <2>1, <2>3, <2>4, <2>7 DEF Types, SubTyped
<1> QED BY <1>1, <1>2, <1>3, <1>4, <1>5, <1>6, <1>7, <1>8, <1>9, <1>10 DEF WatchStep

\* A watcher enters its loop only if the job has not ended, and leaves it with
\* the first end it receives.
LEMMA WatcherSees ==
    ASSUME Types, EvTypeOK, EndingIsSeen, NEW w \in Sub, UNCHANGED backVars,
           WatchGet(w) \/ WatchStep(w) \/ WatchDeadline(w) \/ WatchLeaves(w)
    PROVE  EndingIsSeen'
<1> USE DEF WatchGoto, subVars
<1>0. /\ wpc \in [Sub -> WatchPC]
      /\ \A v \in Sub : buf[v].queue \in Seq(EventStatus)
      /\ buf \in [Sub -> [queue : Seq(EventStatus), missed : BOOLEAN]]
  BY DEF Types, SubTyped, EvTypeOK
<1>1. \A id \in JobID : Announced(id)' <=> Announced(id)
  BY DEF Announced, backVars, reqVars, stopVars
<1>2. ASSUME NEW v \in Sub, wpc'[v] = "loop", Announced(WatchJob[v]), ~buf'[v].missed
      PROVE  \E i \in DOMAIN buf'[v].queue : buf'[v].queue[i] \in TerminalEvent
  <2>1. CASE wpc[v] = "loop" /\ buf'[v] = buf[v]
    BY <1>2, <2>1 DEF EndingIsSeen
  <2>2. CASE WatchReceive(w) /\ v = w
    <3> DEFINE q == buf[w].queue
    <3>1. /\ q # <<>> /\ Head(q) \notin TerminalEvent /\ wpc[w] = "loop"
          /\ buf' = [buf EXCEPT ![w].queue = Tail(q)]
      BY <1>0, <1>2, <2>2 DEF WatchReceive
    <3>2. buf'[w].queue = Tail(q) /\ buf'[w].missed = buf[w].missed
      BY <1>0, <3>1
    <3>3. PICK i \in DOMAIN q : q[i] \in TerminalEvent
      BY <1>2, <2>2, <3>1, <3>2 DEF EndingIsSeen
    <3>4. i \in 2..Len(q) /\ i - 1 \in DOMAIN Tail(q) /\ Tail(q)[i - 1] = q[i]
      BY <1>0, <3>1, <3>3
    <3> QED BY <2>2, <3>2, <3>3, <3>4
  <2>3. CASE WatchCheck(w) /\ v = w
    BY <1>0, <1>2, <2>3 DEF WatchCheck, Announced
  <2>4. \/ wpc[v] = "loop" /\ buf'[v] = buf[v]
        \/ WatchReceive(w) /\ v = w
        \/ WatchCheck(w) /\ v = w
    BY <1>0, <1>2 DEF WatchStep, WatchGet, WatchSlot, WatchSubscribe, WatchCheck, WatchTell,
        WatchReceive, PendingTimeout, WatchCancel, WatchRelease, WatchDeadline, WatchLeaves
  <2> QED BY <2>1, <2>2, <2>3, <2>4
<1> QED BY <1>1, <1>2, WatchAssumption DEF EndingIsSeen

LEMMA WatcherTellsTruth ==
    ASSUME Types, JInv, EvTypeOK, OnlyTruth, NEW w \in Sub, UNCHANGED backVars,
           WatchGet(w) \/ WatchStep(w) \/ WatchDeadline(w) \/ WatchLeaves(w)
    PROVE  OnlyTruth'
<1> USE DEF Tell, subVars
<1>0. /\ told \in [Sub -> Told]
      /\ buf \in [Sub -> [queue : Seq(EventStatus), missed : BOOLEAN]]
      /\ WatchJob[w] \in JobID
  BY WatchAssumption DEF Types, SubTyped, EvTypeOK
<1>1. \A ev, id : So(ev, id)' <=> So(ev, id)
  BY DEF So, backVars
<1>2. ASSUME NEW v \in Sub PROVE So(told'[v], WatchJob[v])
  <2>1. CASE told'[v] = told[v] \/ told'[v] \in {"404", "503", "429"}
    BY <2>1 DEF OnlyTruth, So
  <2>2. CASE v = w /\ told'[w] = Event(job[WatchJob[w]])
    <3>1. job[WatchJob[w]].status \in Status
      BY <1>0 DEF Types, SharedTyped, JobRecord
    <3> QED BY <1>0, <2>2, <3>1 DEF Event, Status, So, JInv, Honest
  <2>3. CASE v = w /\ buf[w].queue # <<>> /\ told'[w] = Head(buf[w].queue)
    <3>1. 1 \in DOMAIN buf[w].queue /\ Head(buf[w].queue) = buf[w].queue[1]
      BY <1>0, <2>3
    <3> QED BY <2>3, <3>1 DEF OnlyTruth
  <2>4. \/ told'[v] = told[v] \/ told'[v] \in {"404", "503", "429"}
        \/ v = w /\ told'[w] = Event(job[WatchJob[w]])
        \/ v = w /\ buf[w].queue # <<>> /\ told'[w] = Head(buf[w].queue)
    BY <1>0 DEF WatchStep, WatchGet, WatchSlot, WatchSubscribe, WatchCheck, WatchTell,
        WatchReceive, PendingTimeout, WatchCancel, WatchRelease, WatchDeadline, WatchLeaves
  <2> QED BY <2>1, <2>2, <2>3, <2>4
<1>3. ASSUME NEW v \in Sub, NEW i \in DOMAIN buf'[v].queue
      PROVE  So(buf'[v].queue[i], WatchJob[v])
  <2>1. CASE buf'[v] = buf[v]
    BY <1>3, <2>1 DEF OnlyTruth
  <2>2. CASE v = w /\ buf[w].queue # <<>> /\ buf' = [buf EXCEPT ![w].queue = Tail(buf[w].queue)]
    <3>1. buf'[w].queue = Tail(buf[w].queue)
      BY <1>0, <2>2
    <3>2. i + 1 \in DOMAIN buf[w].queue /\ buf'[w].queue[i] = buf[w].queue[i + 1]
      BY <1>0, <1>3, <2>2, <3>1
    <3> QED BY <2>2, <3>2 DEF OnlyTruth
  <2>3. CASE v = w /\ buf' = [buf EXCEPT ![w] = EmptyChan]
    BY <1>0, <1>3, <2>3 DEF EmptyChan
  <2>4. \/ buf'[v] = buf[v]
        \/ v = w /\ buf[w].queue # <<>> /\ buf' = [buf EXCEPT ![w].queue = Tail(buf[w].queue)]
        \/ v = w /\ buf' = [buf EXCEPT ![w] = EmptyChan]
    BY <1>0 DEF WatchStep, WatchGet, WatchSlot, WatchSubscribe, WatchCheck, WatchTell,
        WatchReceive, PendingTimeout, WatchCancel, WatchRelease, WatchDeadline, WatchLeaves
  <2> QED BY <2>1, <2>2, <2>3, <2>4
<1> QED BY <1>1, <1>2, <1>3 DEF OnlyTruth

\* A published event arrives in the channel, or is missed.
LEMMA SendAdds ==
    ASSUME NEW c \in [queue : Seq(EventStatus), missed : BOOLEAN], NEW ev \in EventStatus
    PROVE  \/ Send(c, ev).queue = Append(c.queue, ev) /\ Send(c, ev).missed = c.missed
           \/ Send(c, ev).queue = c.queue /\ Send(c, ev).missed = TRUE
BY DEF Send

\* No step of the back takes an end from a watcher or tells it an untruth.
LEMMA BackKeepsWatchers ==
    ASSUME EvInv, [Next]_vars, UNCHANGED watchVars
    PROVE  EvInv'
<1>0. /\ IInv /\ JInv /\ IInv' /\ JInv'
      /\ buf \in [Sub -> [queue : Seq(EventStatus), missed : BOOLEAN]]
      /\ WatchJob \in [Sub -> JobID]
  BY IInvStep, JInvStep, WatchAssumption DEF EvInv, IInv, Types, SubTyped
<1>1. Tells
  BY <1>0, BackTells
<1>2. watching' = watching
  BY <1>1 DEF Tells, PublishTo, subVars
<1>3. EvTypeOK' /\ WatchersAccounted'
  BY <1>2, SeatsAlike DEF EvInv, EvTypeOK, watchVars, InSlot, Watching
<1>4. \A ev : \A w \in Sub : So(ev, WatchJob[w]) => So(ev, WatchJob[w])'
  BY <1>0, EndsStay DEF So
<1>5. CASE UNCHANGED subVars /\ \A id \in JobID : Announced(id)' => Announced(id)
  <2>1. EndingIsSeen'
    BY <1>0, <1>5 DEF EvInv, EndingIsSeen, subVars, watchVars
  <2>2. OnlyTruth'
    BY <1>4, <1>5 DEF EvInv, OnlyTruth, subVars, watchVars
  <2> QED BY <1>0, <1>3, <2>1, <2>2 DEF EvInv
<1>6. ASSUME NEW id \in JobID, NEW ev \in EventStatus, PublishTo(id, ev), So(ev, id),
             \A i \in JobID : Announced(i)' => Announced(i) \/ (i = id /\ ev \in TerminalEvent)
      PROVE  EvInv'
  <2>1. ASSUME NEW w \in Sub
        PROVE  \/ buf'[w] = buf[w] /\ w \notin watching[id]
               \/ /\ w \in watching[id] /\ WatchJob[w] = id
                  /\ \/ /\ buf'[w].queue = Append(buf[w].queue, ev)
                        /\ buf'[w].missed = buf[w].missed
                     \/ buf'[w].queue = buf[w].queue /\ buf'[w].missed = TRUE
    <3>1. CASE w \notin watching[id]
      BY <1>6, <3>1 DEF PublishTo, Publish
    <3>2. CASE w \in watching[id]
      <4>1. WatchJob[w] = id
        BY <3>2 DEF EvInv, WatchersAccounted
      <4>2. buf'[w] = Send(buf[w], ev)
        BY <1>6, <3>2 DEF PublishTo, Publish
      <4>3. \/ Send(buf[w], ev).queue = Append(buf[w].queue, ev)
               /\ Send(buf[w], ev).missed = buf[w].missed
            \/ Send(buf[w], ev).queue = buf[w].queue /\ Send(buf[w], ev).missed = TRUE
        BY <1>0, SendAdds
      <4> QED BY <3>2, <4>1, <4>2, <4>3
    <3> QED BY <3>1, <3>2
  <2>2. ASSUME NEW w \in Sub, wpc'[w] = "loop", Announced(WatchJob[w])', ~buf'[w].missed
        PROVE  \E i \in DOMAIN buf'[w].queue : buf'[w].queue[i] \in TerminalEvent
    <3> DEFINE q == buf[w].queue
    <3>0. wpc[w] = "loop" /\ q \in Seq(EventStatus) /\ w \in watching[WatchJob[w]]
      BY <1>0, <2>2 DEF watchVars, EvInv, WatchersAccounted, Watching
    <3>1. CASE Announced(WatchJob[w]) /\ buf'[w] = buf[w]
      BY <2>2, <3>0, <3>1 DEF EvInv, EndingIsSeen
    <3>2. CASE Announced(WatchJob[w]) /\ buf'[w] # buf[w]
      <4>1. buf'[w].queue = Append(q, ev) /\ ~buf[w].missed
        BY <2>1, <2>2, <3>2
      <4>2. PICK i \in DOMAIN q : q[i] \in TerminalEvent
        BY <3>0, <3>2, <4>1 DEF EvInv, EndingIsSeen
      <4>3. i \in DOMAIN Append(q, ev) /\ Append(q, ev)[i] = q[i]
        BY <3>0, <4>2
      <4> QED BY <4>1, <4>2, <4>3
    <3>3. CASE ~Announced(WatchJob[w])
      <4>1. WatchJob[w] = id /\ ev \in TerminalEvent
        BY <1>0, <1>6, <2>2, <3>3
      <4>2. buf'[w].queue = Append(q, ev)
        BY <2>1, <2>2, <3>0, <4>1
      <4>3. Len(q) + 1 \in DOMAIN Append(q, ev) /\ Append(q, ev)[Len(q) + 1] = ev
        BY <3>0
      <4> QED BY <4>1, <4>2, <4>3
    <3> QED BY <3>1, <3>2, <3>3
  <2>3. EndingIsSeen'
    BY <2>2 DEF EndingIsSeen
  <2>4. ASSUME NEW w \in Sub, NEW i \in DOMAIN buf'[w].queue
        PROVE  So(buf'[w].queue[i], WatchJob[w])
    <3> DEFINE q == buf[w].queue
    <3>0. q \in Seq(EventStatus) /\ \A k \in DOMAIN q : So(q[k], WatchJob[w])
      BY <1>0 DEF EvInv, OnlyTruth
    <3>1. CASE buf'[w].queue = q
      BY <2>4, <3>0, <3>1
    <3>2. CASE buf'[w].queue = Append(q, ev) /\ WatchJob[w] = id
      <4>1. (i \in DOMAIN q /\ Append(q, ev)[i] = q[i]) \/ Append(q, ev)[i] = ev
        BY <2>4, <3>0, <3>2
      <4> QED BY <1>6, <3>0, <3>2, <4>1
    <3> QED BY <2>1, <3>1, <3>2
  <2>5. OnlyTruth'
    <3>1. \A w \in Sub : So(told[w], WatchJob[w])'
      BY <1>4 DEF EvInv, OnlyTruth, watchVars
    <3> QED BY <1>4, <2>4, <3>1 DEF OnlyTruth
  <2> QED BY <1>0, <1>3, <2>3, <2>5 DEF EvInv
<1> QED BY <1>1, <1>5, <1>6 DEF Tells, So

-----------------------------------------------------------------------------

LEMMA EvInitInv == EvInit => EvInv
<1> SUFFICES ASSUME EvInit PROVE EvInv
  OBVIOUS
<1>1. IInv /\ JInv
  BY IInvInit, JInvInit DEF EvInit
<1>2. EvTypeOK /\ OnlyTruth /\ EndingIsSeen
  BY DEF EvInit, Init, EmptyChan, EvTypeOK, WatchPC, Told, OnlyTruth, So, EndingIsSeen
<1>3. WatchersAccounted
  <2>1. InSlots = {} /\ \A id \in JobID : { w \in Sub : WatchJob[w] = id /\ Watching(w) } = {}
    BY DEF InSlots, EvInit, InSlot, Watching
  <2>2. \A id \in JobID : watching[id] = {}
    BY DEF EvInit, Init
  <2> QED BY <2>1, <2>2, FS_EmptySet DEF EvInit, WatchersAccounted, InSlots, InSlot
<1> QED BY <1>1, <1>2, <1>3 DEF EvInv

LEMMA EvNextInv == EvInv /\ [EvNext]_evVars => EvInv'
<1> SUFFICES ASSUME EvInv, [EvNext]_evVars PROVE EvInv'
  OBVIOUS
<1>1. CASE Next /\ UNCHANGED watchVars
  BY <1>1, BackKeepsWatchers
<1>2. ASSUME NEW w \in Sub, WatchGet(w) \/ WatchStep(w) \/ WatchDeadline(w) \/ WatchLeaves(w)
      PROVE  EvInv'
  <2>1. Types /\ EvTypeOK /\ WatchersAccounted /\ EndingIsSeen /\ OnlyTruth /\ IInv /\ JInv
    BY DEF EvInv, IInv
  <2>2. UNCHANGED backVars /\ SubTyped' /\ EvTypeOK' /\ WatchersAccounted'
    BY <1>2, <2>1, WatcherAccounts
  <2>3. IInv' /\ JInv'
    BY <2>1, <2>2, WatchersLeaveBack
  <2>4. EndingIsSeen'
    BY <1>2, <2>1, <2>2, WatcherSees
  <2>5. OnlyTruth'
    BY <1>2, <2>1, <2>2, WatcherTellsTruth
  <2> QED BY <2>2, <2>3, <2>4, <2>5 DEF EvInv
<1>3. CASE UNCHANGED evVars
  BY <1>3, BackKeepsWatchers DEF evVars
<1> QED BY <1>1, <1>2, <1>3 DEF EvNext, WatchNext

LEMMA EvInvariance == EvSpec => []EvInv
BY EvInitInv, EvNextInv, PTL DEF EvSpec

\* However many watch, subscribe late or leave, the downloads keep what Download
\* promises of them without watchers.
THEOREM WatchersDisturbNothing ==
    EvSpec => [](/\ OneStreamPerJob /\ CompletedIffDelivered
                 /\ CancelReachesStream /\ NotStuckUnlessCanceled)
<1>1. EvInv => /\ OneStreamPerJob /\ CompletedIffDelivered
               /\ CancelReachesStream /\ NotStuckUnlessCanceled
  BY DEF EvInv, IInv, JInv, Reachable, Honest, CancelReachesStream, NotStuckUnlessCanceled
<1> QED BY <1>1, EvInvariance, PTL

\* Each watcher is at a place of the code, and was told something it can say.
THEOREM WatchersTyped == EvSpec => []EvTypeOK
BY EvInvariance, PTL DEF EvInv

\* Every way out of the handler gives back the slot and the channel it took, and
\* neither limit is ever exceeded.
THEOREM WatchersCounted == EvSpec => []WatchersAccounted
BY EvInvariance, PTL DEF EvInv

\* Subscribe first, look at the status then: no end of a job, announced at any
\* moment, is missed by a watcher whose channel has room.
THEOREM NoEndingMissed == EvSpec => []EndingIsSeen
BY EvInvariance, PTL DEF EvInv

\* Whatever overtakes an event on its way, done is told only of a job that was
\* delivered and canceled only of one that somebody canceled.
THEOREM WatchersToldTruth == EvSpec => []ToldTheTruth
<1>1. EvInv => ToldTheTruth
  BY DEF EvInv, OnlyTruth, So, ToldTheTruth
<1> QED BY <1>1, EvInvariance, PTL
=============================================================================
