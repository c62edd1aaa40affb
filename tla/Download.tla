------------------------------ MODULE Download -------------------------------
(***************************************************************************)
(* The life of a download in the server: POST /downloads creates a job, a  *)
(* GET of its /file claims the job and streams it (api/stream.go, file),   *)
(* POST /cancel stops it (api/handlers.go, cancel), and the manager's      *)
(* timers forget it. Handlers run concurrently; each step below is one     *)
(* critical section, channel operation or wait of the code, so a handler   *)
(* may be overtaken between any two of them.                               *)
(*                                                                         *)
(* The module composes the job records (Job), the registry (JobManager),   *)
(* the per-client limiter (InFlightLimiter) and the server-wide semaphore  *)
(* (ConcurrencyLimiter), and is shown to implement the last three. The     *)
(* stages that produce bytes (streamSingle, streamMerged, streamMP3) are   *)
(* seen from the handler: bytes may start to flow, and the stage returns   *)
(* nil or one of the errors the handler tells apart.                       *)
(***************************************************************************)
EXTENDS Job, Integers

CONSTANTS JobID, Timer, NoTimer,      \* as in JobManager
          FileReq,                    \* requests of /file
          CancelReq,                  \* requests of /cancel
          Client, NoClient,           \* as ClientKey tells them apart
          FileJob, CancelJob,         \* the job each request names
          ClientOf,                   \* the client each /file comes from
          AudioOnly,                  \* the jobs that are converted to mp3
          FxJobs,                     \* the jobs whose media URL must be resolved first
          MaxPerClient,               \* config MaxJobsPerIP
          MaxConcurrent,              \* the capacity of the server-wide semaphore
          HasDeadline                 \* config MaxJobDuration > 0

ASSUME RequestAssumption ==
    /\ FileJob \in [FileReq -> JobID]
    /\ CancelJob \in [CancelReq -> JobID]
    /\ ClientOf \in [FileReq -> Client]
ASSUME JobAssumption == AudioOnly \subseteq JobID /\ FxJobs \subseteq JobID
ASSUME LimitAssumption == MaxPerClient \in Int /\ MaxConcurrent \in Nat /\ HasDeadline \in BOOLEAN
ASSUME NilAssumption == NoFn \notin FileReq /\ NoTimer \notin Timer /\ NoClient \notin Client
ASSUME FiniteAssumption == IsFiniteSet(FileReq)

VARIABLES
    jobs, timers, armed, fired,   \* the registry, as in JobManager
    made,      \* how far the creation of each job is
    job,       \* the job records
    perIP,     \* the map of the per-client limiter
    slots,     \* the semaphore
    pc,        \* where each /file handler is
    has,       \* what it must give back: "ip", "slot"
    ctx,       \* the state of the context it created
    gone,      \* its client has disconnected: r.Context() is done
    started,   \* out.started: the headers and some bytes have been sent
    err,       \* the error the stage that produces the bytes returned
    reply,     \* the outcome of /file, from the moment it is decided
    cpc,       \* where each /cancel handler is
    fn,        \* the cancel function it took from the job
    watching,  \* the subscribers of each job
    buf        \* their channels

mgrVars  == <<jobs, timers, armed, fired>>
subVars  == <<watching, buf>>
reqVars  == <<pc, has, ctx, gone, started, err, reply>>
stopVars == <<cpc, fn>>
vars == <<mgrVars, made, job, perIP, slots, reqVars, stopVars, subVars>>

Mgr == INSTANCE JobManager WITH
    user <- [id \in JobID |->
                IF \E r \in FileReq : /\ FileJob[r] = id
                                      /\ pc[r] \notin {"start", "claim", "hold", "unclaim", "replied"}
                THEN "holding" ELSE made[id]]

IPs == INSTANCE InFlightLimiter WITH
    Caller <- FileReq, Key <- Client, MaxPerKey <- MaxPerClient, Outside <- NoClient,
    n <- perIP,
    holds <- [r \in FileReq |-> IF "ip" \in has[r] THEN ClientOf[r] ELSE NoClient]

Slots == INSTANCE ConcurrencyLimiter WITH
    Worker <- FileReq, MaxSlots <- MaxConcurrent,
    place <- [r \in FileReq |-> IF "slot" \in has[r] THEN "inside"
                                ELSE IF pc[r] = "slot" THEN "waiting" ELSE "outside"]

-----------------------------------------------------------------------------
FilePC == {"start", "claim", "hold", "ip", "slot", "register", "check", "resolve",
           "begin", "announce", "fetch", "process", "announceProcess", "body", "write",
           "classify", "done", "announceDone", "fail", "announceFail", "unwind",
           "unclaim", "replied"}

Err == {"none", "overLimit", "streamErr", "other"}

\* "200" is a response that ended cleanly; "aborted" one that was cut off.
Reply == {"none", "200", "404", "409", "422", "429", "499", "500", "503", "aborted"}

CtxState == {"none", "live", "canceled", "deadline"}

CancelPC == {"start", "lock", "call", "announce", "replied", "notFound"}

JobRecord == [status : Status, streaming : BOOLEAN, canceled : BOOLEAN,
              cancelFn : FileReq \cup {NoFn}]

TypeOK ==
    /\ Mgr!TypeOK
    /\ made \in [JobID -> {"none", "creating", "idle"}]
    /\ job \in [JobID -> JobRecord]
    /\ slots \in Int
    /\ pc \in [FileReq -> FilePC]
    /\ has \in [FileReq -> SUBSET {"ip", "slot"}]
    /\ ctx \in [FileReq -> CtxState]
    /\ gone \in [FileReq -> BOOLEAN]
    /\ started \in [FileReq -> BOOLEAN]
    /\ err \in [FileReq -> Err]
    /\ reply \in [FileReq -> Reply]
    /\ cpc \in [CancelReq -> CancelPC]
    /\ fn \in [CancelReq -> FileReq \cup {NoFn}]
    /\ watching \in [JobID -> SUBSET Sub]
    /\ buf \in [Sub -> [queue : Seq(EventStatus), missed : BOOLEAN]]

Init ==
    /\ Mgr!MgrInit
    /\ made = [id \in JobID |-> "none"]
    /\ job = [id \in JobID |-> NewJob]
    /\ perIP = [k \in {} |-> 0]
    /\ slots = 0
    /\ pc = [r \in FileReq |-> "start"]
    /\ has = [r \in FileReq |-> {}]
    /\ ctx = [r \in FileReq |-> "none"]
    /\ gone = [r \in FileReq |-> FALSE]
    /\ started = [r \in FileReq |-> FALSE]
    /\ err = [r \in FileReq |-> "none"]
    /\ reply = [r \in FileReq |-> "none"]
    /\ cpc = [c \in CancelReq |-> "start"]
    /\ fn = [c \in CancelReq |-> NoFn]
    /\ watching = [id \in JobID |-> {}]
    /\ buf = [s \in Sub |-> EmptyChan]

-----------------------------------------------------------------------------
(* POST /downloads and the timers. *)

CreateInsert(id) ==
    /\ made[id] = "none"
    /\ Mgr!Insert(id)
    /\ made' = [made EXCEPT ![id] = "creating"]
    /\ UNCHANGED <<job, perIP, slots, reqVars, stopVars, subVars>>

CreateArm(id) ==
    /\ made[id] = "creating"
    /\ Mgr!ExpireAfter(id)
    /\ made' = [made EXCEPT ![id] = "idle"]
    /\ UNCHANGED <<job, perIP, slots, reqVars, stopVars, subVars>>

TimerFires(t, id) ==
    /\ Mgr!Fire(t, id)
    /\ UNCHANGED <<made, job, perIP, slots, reqVars, stopVars, subVars>>

TimerExpires(t, id) ==
    /\ Mgr!Expire(t, id)
    /\ UNCHANGED <<made, job, perIP, slots, reqVars, stopVars, subVars>>

-----------------------------------------------------------------------------
(* GET /downloads/{id}/file, up to the point where bytes are produced. *)

\* A job's ID is known to clients once Create has returned.
Known(id) == made[id] = "idle"

Goto(r, from, to) == pc[r] = from /\ pc' = [pc EXCEPT ![r] = to]

Answer(r, code) == reply' = [reply EXCEPT ![r] = code]

\* What the handler reads no more goes back to its initial value.
Forget(r) ==
    /\ gone' = [gone EXCEPT ![r] = FALSE]
    /\ started' = [started EXCEPT ![r] = FALSE]
    /\ err' = [err EXCEPT ![r] = "none"]

\* reject: the job fails before the deferred calls run.
Reject(r, from, code) == Goto(r, from, "fail") /\ Answer(r, code) /\ Forget(r)

FileGet(r) ==
    /\ Known(FileJob[r])
    /\ \/ /\ FileJob[r] \in jobs
          /\ Goto(r, "start", "claim")
          /\ UNCHANGED reply
       \/ /\ FileJob[r] \notin jobs
          /\ Goto(r, "start", "replied")
          /\ Answer(r, "404")
    /\ UNCHANGED <<mgrVars, made, job, perIP, slots, has, ctx, gone, started, err, stopVars, subVars>>

FileClaim(r) ==
    LET j == job[FileJob[r]] IN
    /\ \/ /\ Claimable(j)
          /\ job' = [job EXCEPT ![FileJob[r]] = Claim(j)]
          /\ Goto(r, "claim", "hold")
          /\ UNCHANGED reply
       \/ /\ ~Claimable(j)
          /\ Goto(r, "claim", "replied")
          /\ Answer(r, "409")
          /\ UNCHANGED job
    /\ UNCHANGED <<mgrVars, made, perIP, slots, has, ctx, gone, started, err, stopVars, subVars>>

FileHold(r) ==
    /\ Goto(r, "hold", "ip")
    /\ Mgr!Hold(FileJob[r])
    /\ UNCHANGED <<made, job, perIP, slots, has, ctx, gone, started, err, reply, stopVars, subVars>>

AcquireIP(r) ==
    /\ ~IPs!Full(ClientOf[r])
    /\ IPs!Enter(ClientOf[r])
    /\ Goto(r, "ip", "slot")
    /\ has' = [has EXCEPT ![r] = @ \cup {"ip"}]
    /\ UNCHANGED <<mgrVars, made, job, slots, ctx, gone, started, err, reply, stopVars, subVars>>

RefuseIP(r) ==
    /\ IPs!Full(ClientOf[r])
    /\ Reject(r, "ip", "429")
    /\ UNCHANGED <<mgrVars, made, job, perIP, slots, has, ctx, stopVars, subVars>>

AcquireSlot(r) ==
    /\ Goto(r, "slot", "register")
    /\ Slots!TakeSlot
    /\ has' = [has EXCEPT ![r] = @ \cup {"slot"}]
    /\ UNCHANGED <<mgrVars, made, job, perIP, ctx, gone, started, err, reply, stopVars, subVars>>

\* Wrong: returns without the release that Acquire returned.
GiveUpKeepingIP(r) ==
    /\ Reject(r, "slot", "503")
    /\ has' = [has EXCEPT ![r] = {}]
    /\ UNCHANGED <<mgrVars, made, job, perIP, slots, ctx, stopVars, subVars>>

\* maxWait has passed, or the client is gone.
GiveUpSlot(r) ==
    /\ Reject(r, "slot", "503")
    /\ UNCHANGED <<mgrVars, made, job, perIP, slots, has, ctx, stopVars, subVars>>

\* Wrong: stores the function without looking whether the job is canceled.
RegisterUnchecked(r) ==
    /\ Goto(r, "register", "check")
    /\ ctx' = [ctx EXCEPT ![r] = IF gone[r] THEN "canceled" ELSE "live"]
    /\ job' = [job EXCEPT ![FileJob[r]].cancelFn = r]
    /\ UNCHANGED <<mgrVars, made, perIP, slots, has, gone, started, err, reply, stopVars, subVars>>

\* The context is derived from the request's: it is dead at birth if the
\* client is gone, and SetCancelFunc cancels it if the job is canceled.
Register(r) ==
    LET j == job[FileJob[r]] IN
    /\ Goto(r, "register", "check")
    /\ ctx' = [ctx EXCEPT ![r] = IF j.canceled \/ gone[r] THEN "canceled" ELSE "live"]
    /\ job' = [job EXCEPT ![FileJob[r]] = SetCancelFunc(j, r)]
    /\ UNCHANGED <<mgrVars, made, perIP, slots, has, gone, started, err, reply, stopVars, subVars>>

CheckCanceled(r) ==
    /\ \/ /\ job[FileJob[r]].canceled
          /\ Goto(r, "check", "unwind")
          /\ Answer(r, "499")
          /\ Forget(r)
       \/ /\ ~job[FileJob[r]].canceled
          /\ Goto(r, "check", IF FileJob[r] \in FxJobs THEN "resolve" ELSE "begin")
          /\ UNCHANGED <<reply, gone, started, err>>
    /\ UNCHANGED <<mgrVars, made, job, perIP, slots, has, ctx, stopVars, subVars>>

ResolveFx(r) ==
    /\ \/ Goto(r, "resolve", "begin") /\ UNCHANGED <<reply, gone, started, err>>
       \/ Reject(r, "resolve", "422")
    /\ UNCHANGED <<mgrVars, made, job, perIP, slots, has, ctx, stopVars, subVars>>

\* One locked update of the status, then one Publish, here and below.
SetTo(r, from, to, status) ==
    /\ Goto(r, from, to)
    /\ job' = [job EXCEPT ![FileJob[r]] = SetStatus(@, status)]
    /\ UNCHANGED <<mgrVars, made, perIP, slots, has, ctx, gone, started, err, reply, stopVars, subVars>>

PublishTo(id, ev) ==
    /\ buf' = Publish(buf, watching[id], ev)
    /\ UNCHANGED watching

Begin(r) == SetTo(r, "begin", "announce", "downloading")

\* The process that produces the bytes is started: it is not, and the stage
\* fails with e, if the context is done by now.
Launch(r, from, to, e) ==
    \/ /\ ctx[r] = "live"
       /\ Goto(r, from, to)
       /\ UNCHANGED err
    \/ /\ ctx[r] # "live"
       /\ Goto(r, from, "classify")
       /\ err' = [err EXCEPT ![r] = e]

Announce(r) ==
    /\ IF FileJob[r] \in AudioOnly THEN Launch(r, "announce", "fetch", "other")
                                   ELSE Launch(r, "announce", "body", "streamErr")
    /\ PublishTo(FileJob[r], "downloading")
    /\ UNCHANGED <<mgrVars, made, job, perIP, slots, has, ctx, gone, started, reply, stopVars>>

-----------------------------------------------------------------------------
(* The stage: streamMP3 fetches, then converts; the others stream at once. *)

StageReturns(r, from, e) ==
    /\ Goto(r, from, "classify")
    /\ err' = [err EXCEPT ![r] = e]
    /\ UNCHANGED <<mgrVars, made, job, perIP, slots, has, ctx, gone, started, reply, stopVars, subVars>>

FetchFails(r) == \E e \in {"streamErr", "other"} : StageReturns(r, "fetch", e)

FetchDone(r) ==
    /\ Goto(r, "fetch", "process")
    /\ UNCHANGED <<mgrVars, made, job, perIP, slots, has, ctx, gone, started, err, reply, stopVars, subVars>>

Process(r) == SetTo(r, "process", "announceProcess", "processing")

AnnounceProcess(r) ==
    /\ Launch(r, "announceProcess", "body", "streamErr")
    /\ PublishTo(FileJob[r], "processing")
    /\ UNCHANGED <<mgrVars, made, job, perIP, slots, has, ctx, gone, started, reply, stopVars>>

\* yt-dlp reports its progress on another goroutine while it runs.
Progress(r) ==
    /\ pc[r] = "fetch" \/ (pc[r] \in {"body", "write"} /\ FileJob[r] \notin AudioOnly)
    /\ \E ev \in {"downloading", "processing"} : PublishTo(FileJob[r], ev)
    /\ UNCHANGED <<mgrVars, made, job, perIP, slots, reqVars, stopVars>>

\* streamOut.Write: the headers, and the bytes, which wait for a client that
\* does not read. No context ends that wait.
BeginWrite(r) ==
    /\ Goto(r, "body", "write")
    /\ started' = [started EXCEPT ![r] = TRUE]
    /\ UNCHANGED <<mgrVars, made, job, perIP, slots, has, ctx, gone, err, reply, stopVars, subVars>>

\* The client has read on.
Written(r) ==
    /\ Goto(r, "write", "body")
    /\ UNCHANGED <<mgrVars, made, job, perIP, slots, has, ctx, gone, started, err, reply, stopVars, subVars>>

\* The connection is broken: the error of the write is that of the stage.
WriteFails(r) == gone[r] /\ StageReturns(r, "write", "other")

BodyFails(r) == \E e \in {"overLimit", "streamErr", "other"} : StageReturns(r, "body", e)

\* A stage that returns nil without having written anything is an error too.
BodyDone(r) ==
    \/ ~started[r] /\ StageReturns(r, "body", "streamErr")
    \/ /\ started[r]
       /\ Goto(r, "body", "done")
       /\ Forget(r)
       /\ UNCHANGED <<mgrVars, made, job, perIP, slots, has, ctx, reply, stopVars, subVars>>

\* Once the context is done the children are killed and the stage returns an
\* error, unless the last byte was already through, or the stage is in a write.
StageKilled(r) == ctx[r] # "live" /\ (FetchFails(r) \/ BodyFails(r))

-----------------------------------------------------------------------------
(* How the handler ends: Done, an error, and then the deferred calls, last  *)
(* deferred first.                                                          *)

\* Wrong: stores the status of the event.
DoneAsEvent(r) == SetTo(r, "done", "announceDone", "done")

\* Wrong: tells the watchers, and not the job.
DoneUnsaid(r) ==
    /\ Goto(r, "done", "announceDone")
    /\ PublishTo(FileJob[r], "done")
    /\ UNCHANGED <<mgrVars, made, job, perIP, slots, has, ctx, gone, started, err, reply, stopVars>>

Done(r) == SetTo(r, "done", "announceDone", "completed")

AnnounceDone(r) ==
    /\ Goto(r, "announceDone", "unwind")
    /\ PublishTo(FileJob[r], "done")
    /\ Answer(r, "200")
    /\ UNCHANGED <<mgrVars, made, job, perIP, slots, has, ctx, gone, started, err, stopVars>>

\* The status of an error that reaches the client; the order is the code's.
FailureCode(r) ==
    IF started[r] \/ gone[r] THEN "aborted"
    ELSE IF ctx[r] = "deadline" \/ err[r] # "other" THEN "422" ELSE "500"

\* Wrong: a client that has gone is no failure of the job.
ClassifyGone(r) ==
    /\ \/ /\ job[FileJob[r]].canceled \/ gone[r]
          /\ Goto(r, "classify", "unwind")
          /\ Answer(r, "aborted")
          /\ Forget(r)
       \/ /\ ~job[FileJob[r]].canceled /\ ~gone[r]
          /\ Reject(r, "classify", FailureCode(r))
    /\ UNCHANGED <<mgrVars, made, job, perIP, slots, has, ctx, stopVars, subVars>>

\* A canceled job keeps its state; every other failure becomes its state.
Classify(r) ==
    /\ \/ /\ job[FileJob[r]].canceled
          /\ Goto(r, "classify", "unwind")
          /\ Answer(r, IF started[r] THEN "aborted" ELSE "499")
          /\ Forget(r)
       \/ /\ ~job[FileJob[r]].canceled
          /\ Reject(r, "classify", FailureCode(r))
    /\ UNCHANGED <<mgrVars, made, job, perIP, slots, has, ctx, stopVars, subVars>>

Fail(r) == SetTo(r, "fail", "announceFail", "error")

AnnounceFail(r) ==
    /\ Goto(r, "announceFail", "unwind")
    /\ PublishTo(FileJob[r], "error")
    /\ UNCHANGED <<mgrVars, made, job, perIP, slots, has, ctx, gone, started, err, reply, stopVars>>

\* cancel(), deferred after releaseSlot, runs just before it, and ends the use
\* of the context.
ReleaseSlot(r) ==
    /\ Goto(r, "unwind", "unwind") /\ "slot" \in has[r]
    /\ Slots!GiveSlot
    /\ has' = [has EXCEPT ![r] = @ \ {"slot"}]
    /\ ctx' = [ctx EXCEPT ![r] = "none"]
    /\ UNCHANGED <<mgrVars, made, job, perIP, gone, started, err, reply, stopVars, subVars>>

\* Wrong: once the slot and the client's share are back, the timer is forgotten.
ReleaseIPOnly(r) ==
    /\ Goto(r, "unwind", "unclaim") /\ has[r] = {"ip"}
    /\ IPs!Leave(ClientOf[r])
    /\ has' = [has EXCEPT ![r] = {}]
    /\ UNCHANGED <<mgrVars, made, job, slots, ctx, gone, started, err, reply, stopVars, subVars>>

ReleaseIP(r) ==
    /\ Goto(r, "unwind", "unwind") /\ has[r] = {"ip"}
    /\ IPs!Leave(ClientOf[r])
    /\ has' = [has EXCEPT ![r] = {}]
    /\ UNCHANGED <<mgrVars, made, job, slots, ctx, gone, started, err, reply, stopVars, subVars>>

\* Before Unclaim: a retry that claims the job next must not have its Hold
\* undone by this handler.
FileExpireAfter(r) ==
    /\ Goto(r, "unwind", "unclaim") /\ has[r] = {}
    /\ Mgr!ExpireAfter(FileJob[r])
    /\ UNCHANGED <<made, job, perIP, slots, has, ctx, gone, started, err, reply, stopVars, subVars>>

FileUnclaim(r) ==
    /\ Goto(r, "unclaim", "replied")
    /\ job' = [job EXCEPT ![FileJob[r]] = Unclaim(@)]
    /\ UNCHANGED <<mgrVars, made, perIP, slots, has, ctx, gone, started, err, reply, stopVars, subVars>>

-----------------------------------------------------------------------------
(* What happens to a handler. *)

Kill(r, why) == IF ctx[r] = "live" THEN [ctx EXCEPT ![r] = why] ELSE ctx

\* While the handler can still notice.
Undecided == {"hold", "ip", "slot", "register", "check", "resolve", "begin", "announce",
              "fetch", "process", "announceProcess", "body", "write", "classify"}

ClientGone(r) ==
    /\ pc[r] \in Undecided /\ ~gone[r]
    /\ gone' = [gone EXCEPT ![r] = TRUE]
    /\ ctx' = Kill(r, "canceled")
    /\ UNCHANGED <<mgrVars, made, job, perIP, slots, pc, has, started, err, reply, stopVars, subVars>>

Deadline(r) ==
    /\ HasDeadline /\ ctx[r] = "live" /\ pc[r] \in Undecided
    /\ ctx' = Kill(r, "deadline")
    /\ UNCHANGED <<mgrVars, made, job, perIP, slots, pc, has, gone, started, err, reply, stopVars, subVars>>

-----------------------------------------------------------------------------
(* POST /downloads/{id}/cancel. *)

CancelGoto(c, from, to) == cpc[c] = from /\ cpc' = [cpc EXCEPT ![c] = to]

CancelGet(c) ==
    /\ Known(CancelJob[c])
    /\ CancelGoto(c, "start", IF CancelJob[c] \in jobs THEN "lock" ELSE "notFound")
    /\ UNCHANGED <<mgrVars, made, job, perIP, slots, reqVars, fn, subVars>>

CancelLock(c) ==
    LET j == job[CancelJob[c]] IN
    /\ \/ /\ ~Cancelable(j)
          /\ CancelGoto(c, "lock", "replied")
          /\ UNCHANGED <<job, fn>>
       \/ /\ Cancelable(j)
          /\ job' = [job EXCEPT ![CancelJob[c]] = Cancel(j)]
          /\ fn' = [fn EXCEPT ![c] = j.cancelFn]
          /\ CancelGoto(c, "lock", IF j.cancelFn = NoFn THEN "announce" ELSE "call")
    /\ UNCHANGED <<mgrVars, made, perIP, slots, reqVars, subVars>>

\* Wrong: the function it found is not run.
CallNothing(c) ==
    /\ CancelGoto(c, "call", "announce")
    /\ UNCHANGED <<mgrVars, made, job, perIP, slots, reqVars, fn, subVars>>

CallCancelFn(c) ==
    /\ CancelGoto(c, "call", "announce")
    /\ ctx' = Kill(fn[c], "canceled")
    /\ UNCHANGED <<mgrVars, made, job, perIP, slots, pc, has, gone, started, err, reply, fn, subVars>>

AnnounceCancel(c) ==
    /\ CancelGoto(c, "announce", "replied")
    /\ PublishTo(CancelJob[c], "canceled")
    /\ fn' = [fn EXCEPT ![c] = NoFn]
    /\ UNCHANGED <<mgrVars, made, job, perIP, slots, reqVars>>

-----------------------------------------------------------------------------

\* The steps a handler takes on its own, and those it owes once it can.
FileStep(r) ==
    \/ FileClaim(r) \/ FileHold(r) \/ AcquireIP(r) \/ RefuseIP(r) \/ GiveUpSlot(r)
    \/ Register(r) \/ CheckCanceled(r) \/ ResolveFx(r) \/ Begin(r) \/ Announce(r)
    \/ Process(r) \/ AnnounceProcess(r) \/ StageKilled(r) \/ WriteFails(r)
    \/ Done(r) \/ AnnounceDone(r) \/ Classify(r) \/ Fail(r) \/ AnnounceFail(r)
    \/ ReleaseSlot(r) \/ ReleaseIP(r) \/ FileExpireAfter(r) \/ FileUnclaim(r)

\* The steps nothing obliges to happen: a slot that is free in time, bytes, a
\* client that reads them, the end of a stage that is left alone, and a client
\* that leaves.
FileChance(r) ==
    \/ FileGet(r) \/ AcquireSlot(r) \/ FetchFails(r) \/ FetchDone(r) \/ Progress(r)
    \/ BeginWrite(r) \/ Written(r) \/ BodyFails(r) \/ BodyDone(r) \/ ClientGone(r)

CancelStep(c) == CancelLock(c) \/ CallCancelFn(c) \/ AnnounceCancel(c)

TimerStep(t, id) == TimerFires(t, id) \/ TimerExpires(t, id)

\* When every request has been answered and every job forgotten, the system
\* only waits for more.
Quiet ==
    /\ \A r \in FileReq : pc[r] = "replied"
    /\ \A c \in CancelReq : cpc[c] \in {"replied", "notFound"}
    /\ \A id \in JobID : made[id] = "idle"
    /\ jobs = {} /\ UNCHANGED vars

\* What the requests do; the rest is the timers of the registry.
HandlerNext ==
    \/ \E id \in JobID : CreateInsert(id) \/ CreateArm(id)
    \/ \E r \in FileReq : FileStep(r) \/ FileChance(r) \/ Deadline(r)
    \/ \E c \in CancelReq : CancelGet(c) \/ CancelStep(c)

Next ==
    \/ HandlerNext
    \/ \E t \in Timer, id \in JobID : TimerStep(t, id)
    \/ Quiet

Spec == Init /\ [][Next]_vars

\* Goroutines make progress, timers fire and killed children die, after which
\* only what is left in a pipe is still to be written: a stage does not go on
\* from write to write forever. A stream that nobody stops may, and a client
\* may stop reading without going away.
Fairness ==
    /\ \A id \in JobID : WF_vars(CreateArm(id))
    /\ \A r \in FileReq :
          WF_vars(FileStep(r)) /\ SF_vars(StageKilled(r)) /\ WF_vars(Deadline(r))
    /\ \A c \in CancelReq : WF_vars(CancelStep(c))
    /\ \A t \in Timer, id \in JobID : WF_vars(TimerStep(t, id))

FairSpec == Spec /\ Fairness

-----------------------------------------------------------------------------
(* Properties. *)

Streaming(r) == pc[r] \notin {"start", "claim", "replied"}

\* The streaming flag is exactly "one handler is between Claim and Unclaim":
\* two never produce the same job's bytes ("only one caller streams this job's
\* bytes at a time", job.go:68), and no ending leaves the job claimed.
OneStreamPerJob ==
    \A id \in JobID :
        /\ job[id].streaming <=> \E r \in FileReq : FileJob[r] = id /\ Streaming(r)
        /\ \A q, r \in FileReq :
              Streaming(q) /\ Streaming(r) /\ FileJob[q] = FileJob[r] => q = r

\* A job that was held while it was still known stays known until its handler
\* re-arms its timer, whatever timers were pending or running when it was held,
\* and no handler's ExpireAfter undoes the Hold of the next one.
ImplementsManager == Mgr!Spec

\* The handlers use both limiters as they are meant to be used: every path
\* gives back exactly what it took, once.
ImplementsLimiters == IPs!IPSpec /\ Slots!CLSpec

\* A job is completed exactly when one of its responses ended cleanly, or is
\* about to: no retry, late cancel or failure reopens a job whose file was
\* delivered, and none is marked completed for a file that was cut off.
CompletedIffDelivered ==
    \A id \in JobID :
        job[id].status = "completed" <=>
            \E r \in FileReq : FileJob[r] = id /\ (reply[r] = "200" \/ pc[r] = "announceDone")

\* Once Cancel has run the function it found, no stream of the job has a live
\* context, whichever of SetCancelFunc and Cancel came first.
CancelReachesStream ==
    \A r \in FileReq :
        job[FileJob[r]].canceled /\ ctx[r] = "live" =>
            \E c \in CancelReq : cpc[c] = "call" /\ fn[c] = r

\* Each job is delivered at most once, by one request at a time, and never
\* starts again once it is delivered or canceled ("a finished or canceled one
\* can't" be claimed again, job.go:70).
Dlv == INSTANCE Delivery WITH
    streams   <- [id \in JobID |-> { r \in FileReq : FileJob[r] = id /\ Streaming(r) }],
    delivered <- [id \in JobID |-> job[id].status = "completed"],
    stopped   <- [id \in JobID |-> job[id].canceled]

ImplementsDelivery == Dlv!DlvSpec

\* A job that nobody streams shows how it ended, unless a cancel came in the
\* middle: its status says downloading or processing only while a handler is
\* at work on it.
NotStuckUnlessCanceled ==
    \A id \in JobID :
        job[id].status \in {"downloading", "processing"} =>
            job[id].streaming \/ job[id].canceled

\* The handler is in a write to a client that is connected: it gets on when
\* the client reads.
Blocked(r) == pc[r] = "write" /\ ~gone[r]

\* A cancel stops a stream whose client reads or goes away, although a stream
\* that nobody cancels may run forever, and the handler gives everything back.
CancelStopsStream ==
    \A r \in FileReq :
        []<>~Blocked(r) => (job[FileJob[r]].canceled /\ Streaming(r) ~> pc[r] = "replied")

-----------------------------------------------------------------------------
(* What the comments of the code say, and the code does not do.             *)

\* "A stream can outlast JOB_TTL; the job must stay reachable meanwhile"
\* (stream.go:57): /events, a status query and a cancel find the job of every
\* handler that has called Hold.
StreamingIsReachable ==
    \A r \in FileReq :
        Streaming(r) /\ pc[r] \notin {"hold", "unclaim"} => FileJob[r] \in jobs

\* "whole transfer, incl. a slow client" (config.go:46), "a download (including
\* the transfer to the client) running longer is stopped" (README.md:113):
\* once its deadline has passed, a stream ends, whatever its client does.
DeadlineEndsTransfer == \A r \in FileReq : ctx[r] = "deadline" ~> pc[r] = "replied"

\* "catch up on a job that ended meanwhile" (handlers.go:265): after a stream
\* has ended, the job's status is a terminal one.
EndedJobSaysSo ==
    \A r \in FileReq :
        /\ pc[r] = "replied" /\ reply[r] \notin {"404", "409"}
        /\ ~job[FileJob[r]].streaming
        => job[FileJob[r]].status \in Terminal

\* "if Cancel was already called before the process started, ... so the process
\* never runs" (job.go:131): a Cancel that runs while a handler is on its way to
\* SetCancelFunc marks the job, so that SetCancelFunc sees it.
CancelBeforeStartCounts ==
    [][ \A c \in CancelReq, r \in FileReq :
            /\ cpc[c] = "lock" /\ cpc'[c] # "lock" /\ CancelJob[c] = FileJob[r]
            /\ pc[r] \in {"hold", "ip", "slot", "register"}
            => job'[FileJob[r]].canceled ]_vars
=============================================================================
