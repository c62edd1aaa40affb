# vndl in TLA+

vndl is a self-hosted web service that downloads videos: a Go server runs
yt-dlp and ffmpeg as child processes and streams what they produce to a
browser, and a React page follows the progress. Nothing is persisted: all the
server's state is in memory, behind mutexes and channels, and every request is a
goroutine. What makes it hard is that a download is touched by four kinds of
actors at once (the request that streams it, the requests that watch it, those
that cancel it, and the timers that forget it), and that each of them takes
several locks one after the other.

Source paths below are relative to `src/backend/internal/` unless they start with `frontend/`.

## Inventory

| Component | State | Operations | Hard behaviour | What makes it correct |
|---|---|---|---|---|
| Job registry, `jobs/manager.go` | two maps, `jobs` and `timers`; the runtime's timers | Create, Get, ExpireAfter, Hold, expire | a fired timer cannot be stopped and must notice that it is stale; Create takes the lock twice | a held job stays; every other job expires; no map leaks |
| Job record, `jobs/job.go` | status, streaming, canceled, cancelFn (`mu`); subscribers (`subMu`) | Claim, Unclaim, SetStatus, Fail, Done, Cancel, SetCancelFunc, Subscribe, Publish | each of Fail, Done and Cancel is two critical sections and a callback | one stream at a time; a cancel reaches the stream; the status says how the job ended |
| File handler, `api/stream.go` | locals and deferred calls; a context | claim, hold, two limits, begin, stream, end | six early returns; a client that leaves, one that reads no more, a deadline, a cancel at any line | gives back what it took; delivers at most once |
| Events handler, `api/handlers.go` | a slot, a subscription, two timers | subscribe, look, relay, leave | a job that ends between two lines; a full channel | the ending is not lost; slots and subscriptions are accounted for |
| Create, cancel, status, `api/handlers.go` | none | one call each on the registry and the job | race with all of the above | |
| Per-client limiter, `middleware/inflight.go` | a map of counts | Acquire, release | entries come and go | count = holders, within the limit |
| Concurrency limiter, `middleware/concurrency.go` | a buffered channel | Acquire with a timeout, release | the timeout against a free slot | slots = holders, every wait ends even if no slot comes free |
| Rate limiter, `middleware/ratelimit.go` | a map of buckets; a sweeper | allow, sweep | the sweeper forgets a debt | the rate holds over every window |
| Stages, `api/stream.go`, `downloader/stream.go` | child processes, pipes, a scratch directory | streamSingle, streamMerged, streamMP3 | a truncated input that looks like success; three processes that wait for each other; a start that fails half-way; a crash | a file that ends cleanly is whole; the stage returns; nothing is left behind |
| Probe and its cache, `api/handlers.go`, `downloader/probecache.go` | a map of results | Get, Set, evict, sweep | concurrent misses, the limit, expiry | bounded; a result that counts is dropped only for room |
| fxtwitter, `downloader/fxtwitter.go` | a map of lookups | lookup with retries | retries under a context; a cache shared by probes and downloads | bounded; every request is answered |
| Log file, `logging/rotatingfile.go` | the open file and its date | Write, rotate, prune | a rotation or a write that fails, a sweep under an open file | lines go to the file of their day and stay there as long as promised |
| Configuration, CORS, logging of events, `cmd/server` | none that changes | | | |
| Progress hook, `frontend/src/hooks/use-download-progress.ts` | a source, a timer, `finished` | connect, recover, onVisible | two recoveries at once, a reply after the end, lost streams and queries, a job that is retried | comes to an ending of the job and keeps showing it; no connection or timer is left over |
| Video converter, `frontend/src/lib/video-convert.ts` | the shared ffmpeg | getFFmpeg, convertVideo | an abort at any await, of a conversion that may share the instance with the next | no terminated or failed instance is used, none in use is disturbed |
| Rest of the page, load tests, stub | | | | |

How they interact. `POST /downloads` calls `Manager.Create`. `GET .../file`
gets the job from the registry, claims it, holds it in the registry, acquires a
share of the client and a slot of the server, registers a cancel function with
the job, and runs a stage whose progress it publishes to the job's channels;
its deferred calls undo all that in reverse. `POST .../cancel` marks the job and
runs the cancel function. `GET .../events` subscribes to the job. Timers remove
jobs from the registry; handlers that have a pointer keep using the job. The
rate limiter stands before every route; the concurrency limiter before the
probe, and inside the file handler.

## Modules

| Module | What it is |
|---|---|
| `JobRegistry` | abstract: an ID is known from its registration until it is forgotten, which never happens while somebody holds it |
| `JobManager` | `Manager` with the runtime's timers; implements `JobRegistry` |
| `InFlightLimiter`, `ConcurrencyLimiter` | the two limiters |
| `TokenBucket` | abstract: a bucket for each client, always there, refilled by the clock |
| `RateLimiter` | lazy buckets and the sweeper; implements `TokenBucket` |
| `Job` | the job's record and channels, as operators; no variables |
| `Delivery` | abstract: a job is streamed by one request at a time and delivered at most once |
| `Download` | the life of a download: create, file, cancel, timers. Uses the actions of `JobManager`, `InFlightLimiter` and `ConcurrencyLimiter` through INSTANCE, and implements these three and `Delivery` |
| `Events` | extends `Download` with the SSE watchers |
| `Stream` | one stage of a download: processes, pipes, limit, and the handler's copy and waits |
| `Probe` | the probe handler, `ProbeCache`, and the fxtwitter lookup with its cache |
| `RotatingFile` | `MultiHandler` and `RotatingFile` |
| `ProgressPage` | the hook `useDownloadProgress` |
| `VideoConvert` | `convertVideo` and the page that starts and aborts it |
| `*Proofs`, `DownloadRefinements` | the theorems, as below |
| `MC*` | instances for TLC; `MCParts` runs one of the last five in each behaviour, `MCShared` the registry or one limiter |

Definitions marked "Wrong:" stand before the definition they falsify: each is a
plausible bug of the code at that place, and putting it in its place makes one
of the properties fail. No specification uses them.

### How state and actions correspond to the code

*JobManager.* `jobs` and `timers` are the two maps. A `*time.Timer` is an
identity from `Timer`; `armed` are those the runtime will fire and `fired` those
whose goroutine has started and has not taken the lock, each with the ID its
callback captured. `Stop` removes a timer from `armed` and has no effect on one
that has fired, as in Go. Timers that nothing refers to are reused. The methods
are `Insert`, `ExpireAfter`, `Hold` and `Expire`; `Next` adds the discipline of
their callers (`user`), which `Download` then shows its handlers to keep
(`ImplementsManager`).

*InFlightLimiter, ConcurrencyLimiter.* `n` is the map of counts and `slots` the
number of elements in the channel. `holds` and `place` say who holds what; the
code has that only as closures. `sync.Once` around the release is modelled by
callers that release once, which is what every caller does.

*RateLimiter.* Tokens are exact integers, in units of which a token has `One`;
the code has a float64, so rounding is not modelled. `win` is a history
variable: it opens a window at any instant and counts what is granted in it.
`SweepAssumption` is what the code's constants give: a bucket idle for ten
minutes is full again (the defaults bring 600 tokens to a burst of 5). With a
rate so low, or a burst so high, that ten minutes do not refill the bucket, the
sweeper would hand out a fresh burst. `BurstAssumption` excludes a burst of 0,
with which `allow` still admits each client's first request.

*Job.* A job is a record (`status`, `streaming`, `canceled`, `cancelFn`); each
critical section of `j.mu` is one operator. A channel is a queue with a capacity,
and a history bit, `missed`, that says it has overflowed. ID, title, format and
the texts of errors are left out.

*Download.* `pc` is where each `/file` handler is; a step of it is a critical
section, a channel operation or a wait of the code, so that any other actor may
come in between any two. `has` is what its deferred calls must give back,
`ctx` its context, `gone` that its client has disconnected, `started` that
the headers and bytes have been written, `err` the kind of error the stage returned, and `reply`
the outcome its client will see, from the step that decides it. `Fail`, `Done` and `Cancel` are two steps each: the
status under one lock, then `Publish` under the other. The deferred calls are
`ReleaseSlot` (with `cancel()`, which is called just before it), `ReleaseIP`,
`FileExpireAfter` and `FileUnclaim`, in this order. The stage is seen from the
handler: it may fetch first (mp3), report progress, write bytes, and return nil
or one of the errors the handler tells apart. A process is not started once the
context is done (`Launch`), and one that runs is killed, after which the stage
ends (`StageKilled`) unless the handler is in a write: `pc` is then "write", from
`BeginWrite` until the client reads on (`Written`) or is gone (`WriteFails`), and
nothing else ends that.
What a handler has finished reading is reset, which merges states that do not
differ for anybody.

*Events.* `wpc` is where each watcher is; its channel is `buf[w]`. A slow client
is a watcher that takes long between two receives. `pending` is its pending
timer and `told` what its client heard last. Watchers may leave at any point of
the loop. A watcher that comes late reads the status (`WatchCheck`) and then,
under the lock again, the event it is told (`WatchTell`).

*Stream.* `kind` selects streamSingle, streamMerged or streamMP3; `spc` is the
line the handler is at; `proc` and `code` are the children and what `Wait` will
say of them. Bytes are chunks: what a yt-dlp has written and ffmpeg has taken
(`sent`, `taken`), what ffmpeg holds (`mem`) and what is in its stdout (`outq`).
A pipe blocks its writer when full, a read end that no process holds breaks a
write, and a write end that the handler still holds (`held`) keeps the reader
from seeing the end. yt-dlp and ffmpeg are external: they may fail at any time;
exit code 0 of yt-dlp means all of the source or (`--max-filesize`) none of it;
ffmpeg takes a cut input for a complete one, and fails on one without a stream.
A process that exited with 0 may still count as killed if the context was done
before `Wait` reaped it, as in os/exec. A crash takes the whole container with
it; the restart runs `removeStaleScratchDirs`. The two `os.Pipe` and the
`StdoutPipe` calls do not fail here: they return before anything has started.

*Probe.* A caller is a goroutine with a probe or with the part of `/file` that
resolves a tweet. The caches are functions from the cached keys to their age;
ages stop one past the TTL. The two caches differ, as in the code, in when they
make room: `fxCacheSet` first drops what is stale, and evicts even when it
replaces an entry. Whether a tweet has a video is a constant set; what an answer
says is left out. A client that leaves, the timeout of yt-dlp and the errors
that are not retried are all the last disjunct of their step.

*RotatingFile.* A record is a number; `line` is the record a goroutine has given
to stdout and is about to write to the file. `disk` has the records of each
day's file, `fileDate` the day of the open one. A sweep may delete a file that
is still open, whose later records are then lost: that takes a file whose day
ended more than `LOG_RETENTION_DAYS` ago, so no record that counts. A write to
the file may fail, after the rotation that made room for it or without one
(`WriteCutShort`): the record is then not one that `Write` returned no error for,
and the part of it that may be in the file is left out. Stdout is left out.

*ProgressPage.* One action per callback; `recover` is two, split at its await.
`source` and `retryTimer` are the variables of those names: an EventSource or a
timer they no longer refer to may still exist, unless it was closed or cleared
before, which is what `EndingIsFinal` is about. A closed EventSource delivers
nothing more. The server here is what the job's status says (`server`) and the
endings it has come to (`past`); `Download` and `Events` have the rest. A job that
failed may be claimed again and stream (`Job.Claim`; the retry button), but the
page has ended with the failure: it does not follow the retry, and shows the
failure while the retry streams, and when it is done. An event may be on its way
for as long, so that one of an earlier attempt may come while the next one runs.
A status that a stream stores after its cancel (`EndedJobSaysSo` below) is a move
from `ended` back. The delays between attempts are left out.

*VideoConvert.* A step runs from one await to the next. `loading` is the
instance of the promise of that name; `life` says what became of each instance,
`inputDir` whose file is mounted in it. A load, or the `createDir` after it, that
fails leaves the instance `abandoned`: `getFFmpeg` forgets it without terminating
its worker, if that has started, so a worker stays for each such failure until
the page goes. No property says otherwise: `OwnInstance` is about the instances
that conversions are given. A page starts a conversion when it has
none of its own; one that the user left aborts its own, which may then still be
waiting for the load or cleaning up. In that last case the new conversion may
find the directory mounted and fail: it reports an error and the next try
succeeds. Whether an instance survives an ffmpeg that ran out of memory is not
modelled.

## Runs

| Run | Bounds | Shows |
|---|---|---|
| `shared` | registry: 2 jobs, 3 timers; limiters: 4 requests, 2 clients, 2 shares; 4 workers, 2 slots; 1 client, burst 2, half a token a tick, 8 ticks | `TypeOK`, `TimersWillExpire`, `NoStrayTimer`, `IdleHasTimer`, `HeldJobStays`, `ImplementsRegistry`, `EventuallyForgotten`; the limiters: `CountsHolders`, `AtMostMaxPerKey`, `OnlyBusyKeys`, `SlotsAreHolders`, `AtMostMaxSlots`, `RateBound`, `EveryWaitEnds`, `ImplementsTokenBucket`, `MiddlewareTypeOK` |
| `download` | 1 job (mp3, media URL to resolve), 2 requests of `/file`, 1 cancel, 3 timers, 1 share, 1 slot, a deadline | `OneStreamPerJob`, `CompletedIffDelivered`, `CancelReachesStream`, `NotStuckUnlessCanceled`, `ImplementsDelivery`, `ImplementsManager` |
| `download_limits` | 2 jobs (one a tweet to resolve), 3 requests, 1 cancel, 2 clients, 1 share each, 1 slot | `ImplementsLimiters` |
| `download_live` | 1 job, 2 requests, 1 cancel, 3 timers, no deadline | `CancelStopsStream`, for a client that reads on or goes away |
| `events` | 3 watchers, 2 SSE slots, 1 subscription, channels of 1, 1 request of `/file` | `WatchersAccounted` |
| `events_live` | 1 watcher, channel of 2, 1 request, 1 cancel, no deadline | `EndingIsSeen`, `ToldTheTruth`, `WatchersLeave` |
| `parts` | `Stream`: the three kinds, 2 chunks a source, pipes of 1, no limit or a limit of 1. `Probe`: 2 callers, 3 URLs (2 tweets, one with a video), 2 and 1 places in the caches, TTLs of 1 and 0 ticks, 2 attempts. `RotatingFile`: 2 loggers, 3 records, days of 2 ticks, 4 days, 1 day kept. `ProgressPage`: 2 EventSources, 2 queries, 2 timers. `VideoConvert`: 3 conversions, 2 instances | `WholeFileOrError`, `NothingLeftBehind`, `StageEnds`; `EvictsOnlyForRoom`, `EveryProbeAnswered`; `LinesAreKept`; `EndingIsFinal`, `PageLearnsEnding`; `OwnInstance`; the types of all five |
| `stage_over_limit` | `Stream` as in `parts` | the disagreement about the output limit |
| `download_deadline` | 1 job, 1 request, a deadline | the disagreement about the time limit |
| `download_status`, `download_cancel_retry`, `download_reachable` | as `download`, without mp3 | the other three disagreements below |

Why the bounds are enough. The three timers of one job are one in the map, one
that fired and is stale, and one free to be the next: a fourth could only be a
second stale one, and stale timers are alike. Two requests for one job are what
a retry or a second tab needs; a third is in the place of the first when that
has ended. `download_limits` needs two jobs because only different jobs of one
client compete for its share, and a third request so that the slot is contended
while the share is not; the cancel and the tweet give it every way out. No timer fires in it (`BeforeTTL`), since the limiters
and the registry do not touch each other, and it may stop, since a job that
nobody forgets leaves nothing to wait for. Channels of one and two overflow
after one or two events where the code's hold sixteen; the subscribers of a job
are limited to one where the code has eight. Three watchers are one too many for
each of the two limits. In `events` the client of `/file` stays and its stage
fails with one error only (`OneFailure`), since no watcher can tell the ways apart,
and with one timer an arming waits for a stale callback to finish, which costs
only orders of the registry's own steps that `download` goes through. In
`events_live` no timer of the registry fires (`FairBeforeTTL`), for a watcher
meets the registry only in its first step.
Two chunks and pipes of one are the least that fill a pipe and leave more to
write, with ffmpeg holding one more; a limit of one is exceeded by the second
chunk of any stage. A third URL does not fit into the cache of two, nor the
second tweet into the cache of one, and two callers may miss together. With days
of two ticks the first record of a day may come in the middle of it, and four
days see a file grow old, and a rotation that is skipped altogether. The page
needs one timer and one query while another is pending; a query that finds both
places taken waits, which the browser would not. The third conversion starts
while the first still cleans up and the second was aborted.
Requests, watchers and timers are symmetric where they are model values of one
kind, and symmetry is used only in runs without liveness.

Fairness. Weak fairness of the steps a goroutine takes on its own (the Go
scheduler runs every runnable goroutine) and of timers (the runtime fires them).
`StageKilled` is strongly fair: `exec.CommandContext` kills the children of a
context that is done, what is left in a pipe is finite, and the copy ends when the
handler has written it, which takes one write after the other. None of what
clients do is fair: no request has to come, no client has to leave, and none has
to read: `Written` may never happen, so `CancelStopsStream` states it as its
premise, that the handler is not blocked in a write for good. A stage that nobody
stops may run forever, and so may its hold on a slot: `EveryWaitEnds` assumes of
the limiter only that a wait times out (`GiveUp`), not that a holder leaves, nor
that a free slot is handed to anyone. Watchers
are fair only in `WatchStep`: their clients read what they are sent. `JobManager`
has a strong fairness condition on `CreateArm`; it makes up for the bound on
timers, since an allocation in the code never waits for a callback. In `Stream`
bytes move, the client reads, a child whose context is done is killed, and a
crashed server is started again (`restart: unless-stopped` in
`docker-compose.yml`); no child has to fail and no deadline has to come. In
`Probe` a yt-dlp ends (20 s), a request times out, a delay passes. In
`ProgressPage` timers fire, a connection opens or fails, and one to a job that
runs no more comes to its end: by the ending, or, where the watcher's channel had
no room for it, by the deadline of `events`, which needs `MAX_JOB_DURATION` > 0
(the default); status queries that are sent for ever are answered
one day (strong fairness of `Reply`): a network that is down for ever would teach
the page nothing. A connection that is dead without the browser noticing is
excluded by the same condition; the hook has no timeout of its own, and relies on
the browser and on the return to the tab.

## Where the code and its comments disagree

Each of these is a run that TLC finds violated.

* `EndedJobSaysSo` (`api/stream.go:119`). The handler checks `IsCanceled` and
  later stores `downloading` (or `processing`) in another critical section. A
  cancel in between is overwritten; since a canceled job is left alone when the
  stream ends, the job reports `downloading` until it is forgotten, and a page
  that reconnects keeps waiting. `api/handlers.go:264` says that the status query
  lets a client "catch up on a job that ended meanwhile".
* `CancelBeforeStartCounts` (`jobs/job.go:148`). A retry keeps the status `error`
  of the attempt before from its claim until it begins to stream, and `Cancel`
  ignores a job in that status, although the handler replies "canceled".
  `jobs/job.go:131` says that a cancel before the start means that "the process
  never runs".
* `OverLimitEnds` (`api/stream.go:261`). When the copy of a merge stops because the
  output limit is exceeded, the handler waits for ffmpeg before it cancels. The
  read end of ffmpeg's stdout stays open until that wait returns, so ffmpeg
  blocks on a full pipe, both yt-dlp block on ffmpeg, and the stage keeps its
  slot until the deadline (`MAX_JOB_DURATION`, which may be none) or until the
  client leaves. `api/stream.go:263` says that the cancel "unblocks yt-dlp if
  ffmpeg stopped reading", and `api/stream.go:355` that the limit "caps the
  stream". The two other stages cancel first. `StageEnds` is what holds in spite
  of it.
* `DeadlineEndsTransfer` (`api/stream.go:382`). The time limit ends the context and
  with it the processes, but not a write: a handler that waits in `o.w.Write` for a
  client that stays connected and reads no more keeps its slot and its share for
  as long as that client likes, and so does a stream that was canceled. There is
  no write deadline, and the server has no `WriteTimeout` (`cmd/server/main.go:61`;
  `loadtest/README.md:89` says why, for clients that are slow but do read).
  `config/config.go:46` says that the limit is on the "whole transfer, incl. a slow
  client", and `README.md:113` that a download "(including the transfer to the
  client) running longer is stopped".
* `StreamingIsReachable` (`api/stream.go:58`). A timer that expires the job after
  the handler's `Get` and before its `Hold` leaves a stream whose job is in no
  map. `api/stream.go:57` says that "the job must stay reachable meanwhile".

The properties of the passing runs are what holds in spite of these: a job is
stuck only if somebody canceled it (`NotStuckUnlessCanceled`); a cancel that did
mark the job reaches the stream (`CancelReachesStream`), and ends it if the client
reads or leaves (`CancelStopsStream`); a
job that was known when it was held stays known (`HeldJobStays`, `ImplementsManager`).

One comment is contradicted by its caller without a run to show it:
`middleware/concurrency.go:22` says that a slot should be released "not after any
subsequent response streaming", and `file` holds its slot to the last byte, on
purpose (`api/stream.go:75`, `README.md:111`). What follows for the limiter is what
`EveryWaitEnds` does not assume.

## Proofs

Every safety invariant, action property and refinement that a passing run checks
is also a theorem. The theorems hold for every value of the constants that
satisfies the assumptions named in the modules: sets of jobs, timers, requests,
clients, watchers and records of any size, any limits, any chunks and pipes. The
assumptions say that sets which are counted are finite (`FiniteAssumption`,
`CallerAssumption`, `WorkerAssumption`, `SubscriberAssumption`), that a null value is
none of the others, that limits are numbers, and, for what the code's own
constants guarantee, the two of `RateLimiter` described above. `OverAssumption` of
`MCParts` only says that its model values are there.

* `JobManagerProofs`. `IInv` says, in addition to the four properties of the
  manager, that a timer belongs to one ID only, which is what lets `expire` decide
  by comparing identities, and that an ID in creation has no timer. From it:
  the types, `ExpiryCorrect`, `NoStrayTimerCorrect`, `IdleJobsExpire`,
  `HeldJobsStay` and `RefinesRegistry`.
* `LimiterProofs`. The properties of the two counting limiters are inductive
  together with the types and one fact each: an entry of the map is positive
  (so a release that brings it to zero deletes it), and the slots taken are within
  the channel's capacity. A step adds one element to a set of holders or removes
  one; the lemmas about cardinality are those of `FiniteSetTheorems`.
* `RateLimiterProofs`. `RateBound` is not inductive: the invariant relates what a
  window has granted to what the bucket holds now, refilled to this instant, so
  that a grant takes from one what it adds to the other, and a sweep, which
  `SweepAssumption` allows only of a full bucket, changes neither.
  `RefinesTokenBucket` maps each lazy bucket to its level now. `MiddlewareTyped` puts
  the three limiters together.
* `DownloadProofs`. Two invariants, one on top of the other. `IInv` has the types,
  that the claim is exactly one handler between `Claim` and `Unclaim`, and that a
  completed job has a request that delivered it: only the claimant stores a status
  that is not `canceled`, and none can claim a completed job. From it:
  `OneStreamAtATime`, `CompletedMeansDelivered`, and `CompletedStays`: no step
  reopens a completed job. `JInv` has what the handler
  leaves behind: on its way out it has said how the job ended, unless the job was
  canceled (`Settled`); a live context belongs to a handler whose cancel function is
  the one in the job, and if the job is canceled some cancel has taken that
  function and is about to call it (`Reachable`); a job that says it is downloading
  is streamed or was canceled (`Honest`). From it: `CancelStopsEveryStream` and
  `NoJobIsStuck`. The disjunction in `Honest` cannot be dropped: `EndedJobSaysSo` is
  what it would say without it, and is violated.
* `DownloadRefinements`. The steps of the handlers map to those of `Delivery`
  (`RefinesDelivery`), of `JobManager` (`RefinesManager`) and of both limiters
  (`RefinesLimiters`). Most kinds of steps are seen by none of the
  last three (`UnseenPasses`), which leaves Hold, ExpireAfter, the takings and the
  givings back. The invariant `HInv` says what a handler holds at each point. The
  theorems of the parts are then instantiated with the handlers, and give what the
  whole server promises: `StreamedJobsStay`, `UnusedJobsExpire`,
  `DownloadsWithinLimits` (never more handlers at work than the server-wide limit,
  nor more of one client than its own) and `DownloadsLeakNothing` (when no handler
  is inside, every slot is free and the map of clients is empty).
* `EventsProofs`. A step of a handler or of a cancel either tells the watchers
  nothing and leaves a new ending still to be told, or publishes what is true
  (`FileStepTells` and its like). `EvInv` adds to the invariants of `DownloadProofs`
  that the slots and channels are those of the watchers who have not left, that an
  ending which was announced is in the channel of each watcher in its loop, unless
  that channel has overflowed, and that no event in any channel says what is not so. From it: `WatchersCounted`,
  `NoEndingMissed`, `WatchersToldTruth`, for any buffer; and `WatchersDisturbNothing`: the downloads
  keep their own invariants however many watch.
* `StreamProofs`. `WholeFileOrError` needs most of the state. `StInv` says which
  processes exist at each point of the handler (`Handled`); who still has a pipe, a
  directory or an error (`Belongings`); that no chunk appears and, until the copy
  fails, none is lost: what was copied and what is in ffmpeg and in its stdout is
  what was taken from the sources (`Conserved`); what an exit code of 0 tells: all
  of a source or none of it, and of ffmpeg that it has passed on all it was
  given and was given something of each (`ExitsTell`); and that a copy without an
  error has seen the end of an emptied pipe (`CopiedAll`). A nil result has found
  every code 0, so that nothing is on its way, and each source is whole (`Whole`).
  Also `StageLeavesNothing`.
* `PartsProofs`. *The log*: a record handed to `Write` is in the file of its day
  unless that file was deleted for its age; needed for it is that the open file is
  not one that was deleted (`OpenFileStays`), so that whatever `Write` appends goes
  to today's file (`AppendToday`), the file that a failing write opens included. *The caches*: their sizes stay within
  their limits, and an answer that still counts is evicted only for a new URL in a
  full cache, and then is the oldest. *The converter*: while a conversion is not aborted, nobody terminates the
  instance it waits for or uses, for only one is active and only the active one
  terminates (`OneActive`, `Undisturbed`), so each reads what it wrote itself; and
  the instance in `loading` is the one that loads or is ready (`InUse`), so the next
  conversion is given neither one that failed nor one that was terminated. *The
  page*: only the last EventSource is open and only the last timer pending; what a
  query brings back, or the page shows, of an ending the job has come to
  (`Learned`), whatever retries follow; and after an ending nothing of the hook
  is at work (`Over`). `PartsTyped` puts the five parts of `MCParts`
  together.

What only TLC shows is liveness, which is outside the prover's reach together
with ENABLED: `EventuallyForgotten`, `EveryWaitEnds`, `CancelStopsStream`,
`WatchersLeave`, `StageEnds`, `EveryProbeAnswered` and `PageLearnsEnding`. The five
violations are TLC's too.

## Not modelled

Texts, formats, file names, headers and the layout of log records; URL
validation, format selectors, sizes, progress lines, the smoothing of the ETA and
yt-dlp command lines (pure functions of a request or of a line of output); the
sampling of log events; CORS; the values of timeouts (a timeout may come at any
time); the wall clock except in `RateLimiter`, `Probe` and `RotatingFile`; panics
other than the deliberate abort; a process that ignores its kill; stdout of the log.
The configuration is read once: its values are the CONSTANTS. The server
reads nothing back from disk, so a restart is an empty start, but for the
scratch directories that it removes (`Restart` in `Stream`).

Of the web interface: the image converter (a canvas and no state of its own), the
console around the hook, the object URL of a converted file, themes, preferences
and layout. The load scripts are not modelled; the stub for yt-dlp is, in so far
as it shows what a yt-dlp writes and how it exits.

## Plan

Done, in this order: the registry, the limiters, the job, the download, its
watchers; the stages, the probes with their caches, the log file, the page and
the video converter; the theorems above. What is left to prove:

1. What the handlers inherit from the manager and the limiters, under the watchers
   of `Events` too.
2. Safety halves of the liveness properties that TLC checks: that a handler whose
   context is done has only steps towards its reply, and that a stage which is not
   over its limit is never in a state where every process and the handler wait for
   one another.
3. The action properties that the code promises and no run states, as
   `CompletedStays` is one: that a canceled job stays canceled, that a reply once
   decided is not changed.
