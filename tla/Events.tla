-------------------------------- MODULE Events -------------------------------
(***************************************************************************)
(* GET /downloads/{id}/events (internal/api/handlers.go, events): the SSE  *)
(* handlers that watch the jobs of Download. A watcher takes a server-wide *)
(* slot, subscribes to the job, looks at its status once, and then relays  *)
(* what is published until an event ends the job, a timer or its client    *)
(* ends the wait. A slow client is a watcher that takes long to receive.   *)
(*                                                                         *)
(* Subscribe's cancel deletes the channel and closes it in one critical    *)
(* section of j.subMu, and only its own handler calls it: nobody sends on  *)
(* a closed channel, and the handler never receives from one.              *)
(***************************************************************************)
EXTENDS Download

CONSTANTS WatchJob,   \* the job each watcher asks for; a watcher is named by its channel
          MaxSSE      \* config MaxSSEConnections; 0 is no limit

ASSUME WatchAssumption == WatchJob \in [Sub -> JobID] /\ MaxSSE \in Nat

VARIABLES wpc,       \* where each watcher is
          pending,   \* its pendingTimeout has not fired
          told,      \* what its client was told last
          sse        \* the slots taken

watchVars == <<wpc, pending, told, sse>>
evVars == <<vars, watchVars>>

WatchPC == {"start", "slot", "subscribe", "check", "tell", "loop", "cancel", "release", "closed"}

Told == {"nothing", "404", "503", "429"} \cup EventStatus

EvTypeOK ==
    /\ wpc \in [Sub -> WatchPC]
    /\ pending \in [Sub -> BOOLEAN]
    /\ told \in [Sub -> Told]
    /\ sse \in Nat

EvInit ==
    /\ Init
    /\ wpc = [w \in Sub |-> "start"]
    /\ pending = [w \in Sub |-> TRUE]
    /\ told = [w \in Sub |-> "nothing"]
    /\ sse = 0

-----------------------------------------------------------------------------

WatchGoto(w, from, to) == wpc[w] = from /\ wpc' = [wpc EXCEPT ![w] = to]

Tell(w, what) == told' = [told EXCEPT ![w] = what]

\* The variables of Download that no watcher touches.
backVars == <<mgrVars, made, job, perIP, slots, reqVars, stopVars>>

WatchGet(w) ==
    /\ Known(WatchJob[w])
    /\ \/ /\ WatchJob[w] \in jobs
          /\ WatchGoto(w, "start", "slot")
          /\ UNCHANGED told
       \/ /\ WatchJob[w] \notin jobs
          /\ WatchGoto(w, "start", "closed")
          /\ Tell(w, "404")
    /\ UNCHANGED <<backVars, subVars, pending, sse>>

SSEFull == MaxSSE > 0 /\ sse >= MaxSSE

\* Wrong: the release is deferred before the slot is taken.
WatchSlotDeferred(w) ==
    /\ \/ /\ ~SSEFull
          /\ sse' = sse + 1
          /\ WatchGoto(w, "slot", "subscribe")
          /\ UNCHANGED told
       \/ /\ SSEFull
          /\ WatchGoto(w, "slot", "release")
          /\ Tell(w, "503")
          /\ UNCHANGED sse
    /\ UNCHANGED <<backVars, subVars, pending>>

\* A select with a default: a watcher never waits for a slot.
WatchSlot(w) ==
    /\ \/ /\ ~SSEFull
          /\ sse' = sse + 1
          /\ WatchGoto(w, "slot", "subscribe")
          /\ UNCHANGED told
       \/ /\ SSEFull
          /\ WatchGoto(w, "slot", "closed")
          /\ Tell(w, "503")
          /\ UNCHANGED sse
    /\ UNCHANGED <<backVars, subVars, pending>>

\* Wrong: a watcher too many keeps its slot.
SubscribeOrKeep(w) ==
    /\ \/ /\ MaySubscribe(watching[WatchJob[w]])
          /\ watching' = [watching EXCEPT ![WatchJob[w]] = @ \cup {w}]
          /\ WatchGoto(w, "subscribe", "check")
          /\ UNCHANGED told
       \/ /\ ~MaySubscribe(watching[WatchJob[w]])
          /\ WatchGoto(w, "subscribe", "closed")
          /\ Tell(w, "429")
          /\ UNCHANGED watching
    /\ UNCHANGED <<backVars, buf, pending, sse>>

WatchSubscribe(w) ==
    /\ \/ /\ MaySubscribe(watching[WatchJob[w]])
          /\ watching' = [watching EXCEPT ![WatchJob[w]] = @ \cup {w}]
          /\ WatchGoto(w, "subscribe", "check")
          /\ UNCHANGED told
       \/ /\ ~MaySubscribe(watching[WatchJob[w]])
          /\ WatchGoto(w, "subscribe", "release")
          /\ Tell(w, "429")
          /\ UNCHANGED watching
    /\ UNCHANGED <<backVars, buf, pending, sse>>

\* Wrong: waits for the next event, without a look at the status.
WatchUnchecked(w) ==
    /\ WatchGoto(w, "check", "loop")
    /\ UNCHANGED <<backVars, subVars, pending, told, sse>>

\* Only now does the handler look at the status: the job may have ended before
\* the channel existed.
WatchCheck(w) ==
    LET j == job[WatchJob[w]] IN
    /\ \/ /\ j.status \in Terminal
          /\ WatchGoto(w, "check", "tell")
       \/ /\ j.status \notin Terminal
          /\ WatchGoto(w, "check", "loop")
    /\ UNCHANGED <<backVars, subVars, pending, told, sse>>

\* The ended job is asked once more, for its event: a retry may have begun.
WatchTell(w) ==
    /\ WatchGoto(w, "tell", "cancel")
    /\ Tell(w, Event(job[WatchJob[w]]))
    /\ UNCHANGED <<backVars, subVars, pending, sse>>

WatchReceive(w) ==
    LET ev == Head(buf[w].queue) IN
    /\ buf[w].queue # <<>>
    /\ WatchGoto(w, "loop", IF ev \in TerminalEvent THEN "cancel" ELSE "loop")
    /\ Tell(w, ev)
    /\ buf' = [buf EXCEPT ![w].queue = Tail(@)]
    /\ UNCHANGED <<backVars, watching, pending, sse>>

\* Wrong: the timeout ends nothing.
PendingIgnored(w) ==
    /\ pending[w]
    /\ WatchGoto(w, "loop", "loop")
    /\ pending' = [pending EXCEPT ![w] = FALSE]
    /\ UNCHANGED <<backVars, subVars, told, sse>>

\* pendingTimeout ends the watch of a job whose /file never started, once.
PendingTimeout(w) ==
    /\ pending[w]
    /\ WatchGoto(w, "loop", IF job[WatchJob[w]].status = "pending" THEN "cancel" ELSE "loop")
    /\ pending' = [pending EXCEPT ![w] = FALSE]
    /\ UNCHANGED <<backVars, subVars, told, sse>>

WatchDeadline(w) ==
    /\ HasDeadline
    /\ WatchGoto(w, "loop", "cancel")
    /\ UNCHANGED <<backVars, subVars, pending, told, sse>>

WatchLeaves(w) ==
    /\ WatchGoto(w, "loop", "cancel")
    /\ UNCHANGED <<backVars, subVars, pending, told, sse>>

\* The deferred calls: unsubscribe and close the channel, then free the slot.
WatchCancel(w) ==
    /\ WatchGoto(w, "cancel", "release")
    /\ watching' = [watching EXCEPT ![WatchJob[w]] = @ \ {w}]
    /\ buf' = [buf EXCEPT ![w] = EmptyChan]
    /\ pending' = [pending EXCEPT ![w] = FALSE]
    /\ UNCHANGED <<backVars, told, sse>>

WatchRelease(w) ==
    /\ WatchGoto(w, "release", "closed")
    /\ sse' = sse - 1
    /\ UNCHANGED <<backVars, subVars, pending, told>>

-----------------------------------------------------------------------------

\* Steps nobody but the watcher itself can hold up.
WatchStep(w) ==
    \/ WatchSlot(w) \/ WatchSubscribe(w) \/ WatchCheck(w) \/ WatchTell(w) \/ WatchReceive(w)
    \/ PendingTimeout(w) \/ WatchCancel(w) \/ WatchRelease(w)

WatchNext == \E w \in Sub : WatchGet(w) \/ WatchStep(w) \/ WatchDeadline(w) \/ WatchLeaves(w)

EvNext == (Next /\ UNCHANGED watchVars) \/ WatchNext

EvSpec == EvInit /\ [][EvNext]_evVars

\* The fairness of Download, and watchers whose clients read what they are sent.
EvFairness ==
    /\ \A id \in JobID : WF_evVars(CreateArm(id) /\ UNCHANGED watchVars)
    /\ \A r \in FileReq : WF_evVars(FileStep(r) /\ UNCHANGED watchVars)
    /\ \A c \in CancelReq : WF_evVars(CancelStep(c) /\ UNCHANGED watchVars)
    /\ \A w \in Sub : WF_evVars(WatchStep(w))

EvFairSpec == EvSpec /\ EvFairness

-----------------------------------------------------------------------------
(* Properties. *)

Watching(w) == wpc[w] \in {"check", "tell", "loop", "cancel"}

\* Each open connection holds one slot and, once subscribed, one of its job's
\* channels; every way out gives both back, and both limits are kept.
WatchersAccounted ==
    /\ sse = Cardinality({ w \in Sub : Watching(w) \/ wpc[w] \in {"subscribe", "release"} })
    /\ MaxSSE > 0 => sse <= MaxSSE
    /\ \A id \in JobID :
          /\ watching[id] = { w \in Sub : WatchJob[w] = id /\ Watching(w) }
          /\ Cardinality(watching[id]) <= MaxSubscribers

\* The job has ended, and whoever ended it has said so.
Announced(id) ==
    /\ job[id].status \in Terminal
    /\ \A r \in FileReq : FileJob[r] = id => pc[r] \notin {"announceDone", "announceFail"}
    /\ \A c \in CancelReq : CancelJob[c] = id => cpc[c] \notin {"call", "announce"}

\* No ending falls between the look at the status and the subscription: a
\* watcher in its loop has an end of the job in its channel as soon as it was
\* announced, unless the channel has overflowed before.
EndingIsSeen ==
    \A w \in Sub :
        wpc[w] = "loop" /\ Announced(WatchJob[w]) /\ ~buf[w].missed =>
            \E i \in DOMAIN buf[w].queue : buf[w].queue[i] \in TerminalEvent

\* What a client was told is so: done only if the file was delivered, canceled
\* only if somebody canceled.
ToldTheTruth ==
    \A w \in Sub :
        /\ told[w] = "done" => job[WatchJob[w]].status = "completed"
        /\ told[w] = "canceled" => job[WatchJob[w]].canceled

\* Without any deadline, a watcher leaves a job that has ended (if it keeps up
\* with the events) and a job that nobody starts ("don't hold the connection
\* past its TTL", handlers.go:222).
WatchersLeave ==
    \A w \in Sub :
        /\ wpc[w] = "loop" /\ job[WatchJob[w]].status \in Terminal
              ~> wpc[w] = "closed" \/ buf[w].missed
        /\ wpc[w] = "loop" ~> wpc[w] = "closed" \/ job[WatchJob[w]].status # "pending"
=============================================================================
