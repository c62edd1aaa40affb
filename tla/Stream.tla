------------------------------- MODULE Stream --------------------------------
(* One stage of GET .../file (internal/api/stream.go): the yt-dlp and ffmpeg  *)
(* processes that produce the bytes of a job, the pipes between them, and the *)
(* handler that copies ffmpeg's (or yt-dlp's) output to the client, waits for *)
(* the processes in a fixed order and decides which of their failures counts. *)
(*                                                                            *)
(*   single:  yt-dlp ===> handler                                             *)
(*   merge:   yt-dlp video ===> ffmpeg ===> handler                           *)
(*            yt-dlp audio ===>                                               *)
(*   mp3:     yt-dlp audio -> scratch file -> ffmpeg ===> handler             *)
(*                                                                            *)
(* Bytes are counted in chunks; ===> is a pipe that holds PipeCap of them and *)
(* blocks its writer when it is full, its reader when it is empty.            *)
EXTENDS Naturals, FiniteSets

CONSTANTS
    Kinds,      \* the kinds of stage: a subset of {"single", "merge", "mp3"}
    Chunks,     \* chunks in each source
    PipeCap,    \* chunks in a pipe
    Limits      \* values of maxOutput; 0 is no limit

ASSUME StreamAssumption ==
    /\ Kinds \subseteq {"single", "merge", "mp3"}
    /\ Chunks \in Nat \ {0} /\ PipeCap \in Nat \ {0} /\ Limits \subseteq Nat

Source == {"video", "audio"}        \* the yt-dlp processes
Proc   == Source \cup {"ffmpeg"}

VARIABLES
    kind,       \* the stage that runs
    limit,      \* streamOut.limit
    spc,        \* where the handler is
    proc,       \* [Proc -> none, running, exited, reaped (by Wait)]
    code,       \* [Proc -> ok, failed, killed]: the result of Wait
    ended,      \* ctx is done
    held,       \* the handler still holds its copies of the pipes' ends
    sent,       \* [Source -> chunks a yt-dlp has written]
    taken,      \* [Source -> chunks ffmpeg has read]
    want,       \* the source ffmpeg reads next
    mem,        \* chunks ffmpeg has read and not yet written
    outq,       \* chunks in the stdout pipe
    tooLarge,   \* [Source -> ytDlpLog.tooLarge]
    scratch,    \* the scratch directory exists
    written,    \* streamOut.written
    copyErr,    \* the error of io.Copy
    result      \* what the stage returns, as file() takes it

procVars == <<proc, code>>
dataVars == <<sent, taken, want, mem, outq, tooLarge>>
fixVars  == <<kind, limit>>
outVars  == <<written, copyErr>>
stVars   == <<fixVars, spc, procVars, ended, held, dataVars, scratch, outVars, result>>

Sources == CASE kind = "single" -> {"video"}
             [] kind = "merge"  -> {"video", "audio"}
             [] kind = "mp3"    -> {"audio"}

\* The process whose stdout the handler reads.
Last == IF kind = "single" THEN "video" ELSE "ffmpeg"

\* The processes of the stage in the order of their Start.
Order == CASE kind = "single" -> <<"video">>
           [] kind = "merge"  -> <<"ffmpeg", "video", "audio">>
           [] kind = "mp3"    -> <<"audio", "ffmpeg">>

Stages == { Order[i] : i \in DOMAIN Order }

Running(p) == proc[p] = "running"
Gone(p)    == proc[p] \in {"exited", "reaped"}

\* A reader sees the end of a pipe when no process holds its write end.
AtEnd(s) == taken[s] = sent[s] /\ Gone(s) /\ ~held

StTypeOK ==
    /\ kind \in Kinds /\ limit \in Limits
    /\ spc \in {"mkdir", "start", "close", "fetched", "copy", "wait", "waitVideo",
                "waitAudio", "finish", "abort", "crashed", "returned"}
    /\ proc \in [Proc -> {"none", "running", "exited", "reaped"}]
    /\ code \in [Proc -> {"ok", "failed", "killed"}]
    /\ ended \in BOOLEAN /\ held \in BOOLEAN /\ scratch \in BOOLEAN
    /\ sent \in [Source -> 0..Chunks] /\ taken \in [Source -> 0..Chunks]
    /\ want \in Source /\ mem \in 0..1 /\ outq \in 0..PipeCap
    /\ tooLarge \in [Source -> BOOLEAN]
    /\ written \in 0..(IF limit > 0 THEN limit ELSE 2 * Chunks)
    /\ copyErr \in {"none", "over", "client"}
    /\ result \in {"none", "nil", "start", "over", "client", "ctx", "ytdlp", "tooLarge",
                   "mux", "nothing", "other"}

StInit ==
    /\ kind \in Kinds /\ limit \in Limits
    /\ spc = IF kind = "mp3" THEN "mkdir" ELSE "start"
    /\ proc = [p \in Proc |-> "none"] /\ code = [p \in Proc |-> "ok"]
    /\ ended = FALSE /\ held = (kind = "merge")
    /\ sent = [s \in Source |-> 0] /\ taken = [s \in Source |-> 0]
    /\ want \in Sources /\ mem = 0 /\ outq = 0
    /\ tooLarge = [s \in Source |-> FALSE]
    /\ scratch = FALSE /\ written = 0 /\ copyErr = "none" /\ result = "none"

-----------------------------------------------------------------------------
(* yt-dlp. *)

\* What a yt-dlp writes to: the stdout pipe, a pipe to ffmpeg, or a file.
Room(s) == CASE kind = "single" -> outq < PipeCap
             [] kind = "merge"  -> sent[s] - taken[s] < PipeCap
             [] kind = "mp3"    -> TRUE

\* Nobody can read the pipe any more: a write to it fails.
Broken(s) == kind = "merge" /\ ~Running("ffmpeg") /\ ~held

Exit(p, c) ==
    /\ proc' = [proc EXCEPT ![p] = "exited"]
    /\ code' = [code EXCEPT ![p] = c]

YtWrite(s) ==
    /\ Running(s) /\ sent[s] < Chunks /\ ~tooLarge[s] /\ Room(s) /\ ~Broken(s)
    /\ sent' = [sent EXCEPT ![s] = @ + 1]
    /\ outq' = IF kind = "single" THEN outq + 1 ELSE outq
    /\ UNCHANGED <<fixVars, spc, procVars, ended, held, taken, want, mem, tooLarge,
                   scratch, outVars, result>>

\* The source is larger than --max-filesize: yt-dlp says so and writes nothing.
YtSkips(s) ==
    /\ Running(s) /\ sent[s] = 0 /\ ~tooLarge[s]
    /\ tooLarge' = [tooLarge EXCEPT ![s] = TRUE]
    /\ UNCHANGED <<fixVars, spc, procVars, ended, held, sent, taken, want, mem, outq,
                   scratch, outVars, result>>

\* yt-dlp exits with 0 after all of the source (a fragment it cannot get is a
\* failure, --abort-on-unavailable-fragments), or after none of it.
YtExits(s) ==
    /\ Running(s) /\ sent[s] \in {0, Chunks}
    /\ Exit(s, "ok")
    /\ UNCHANGED <<fixVars, spc, ended, held, dataVars, scratch, outVars, result>>

\* A failure of the network or of the site, at any time.
YtFails(s) ==
    /\ Running(s)
    /\ Exit(s, "failed")
    /\ UNCHANGED <<fixVars, spc, ended, held, dataVars, scratch, outVars, result>>

\* A write to a pipe that has no reader any more.
YtBreaks(s) ==
    /\ Running(s) /\ sent[s] < Chunks /\ ~tooLarge[s] /\ Broken(s)
    /\ Exit(s, "failed")
    /\ UNCHANGED <<fixVars, spc, ended, held, dataVars, scratch, outVars, result>>

-----------------------------------------------------------------------------
(* ffmpeg. It reads the source whose next packet it needs, and blocks on it.  *)

FfRead(s) ==
    /\ Running("ffmpeg") /\ want = s /\ mem = 0 /\ taken[s] < sent[s]
    /\ taken' = [taken EXCEPT ![s] = @ + 1]
    /\ mem' = 1
    /\ want' \in Sources
    /\ UNCHANGED <<fixVars, spc, procVars, ended, held, sent, outq, tooLarge, scratch,
                   outVars, result>>

FfSeesEnd(s) ==
    /\ Running("ffmpeg") /\ want = s /\ AtEnd(s)
    /\ want' \in { o \in Sources : ~AtEnd(o) }
    /\ UNCHANGED <<fixVars, spc, procVars, ended, held, sent, taken, mem, outq, tooLarge,
                   scratch, outVars, result>>

FfWrite ==
    /\ Running("ffmpeg") /\ mem = 1 /\ outq < PipeCap
    /\ mem' = 0 /\ outq' = outq + 1
    /\ UNCHANGED <<fixVars, spc, procVars, ended, held, sent, taken, want, tooLarge,
                   scratch, outVars, result>>

\* At the end of its inputs ffmpeg exits with 0, whether or not they were cut
\* short, if each of them had the stream that -map names.
FfExits ==
    /\ Running("ffmpeg") /\ mem = 0
    /\ \A s \in Sources : AtEnd(s) /\ taken[s] > 0
    /\ Exit("ffmpeg", "ok")
    /\ UNCHANGED <<fixVars, spc, ended, held, dataVars, scratch, outVars, result>>

\* One of its inputs ended without a stream.
FfNoStream ==
    /\ Running("ffmpeg") /\ \E s \in Sources : AtEnd(s) /\ taken[s] = 0
    /\ Exit("ffmpeg", "failed")
    /\ UNCHANGED <<fixVars, spc, ended, held, dataVars, scratch, outVars, result>>

\* A container that cannot hold the streams, a broken packet: at any time.
FfFails ==
    /\ Running("ffmpeg")
    /\ Exit("ffmpeg", "failed")
    /\ UNCHANGED <<fixVars, spc, ended, held, dataVars, scratch, outVars, result>>

\* Once ctx is done, os/exec kills the process group of each command.
KillGroup(p) ==
    /\ ended /\ Running(p)
    /\ Exit(p, "killed")
    /\ UNCHANGED <<fixVars, spc, ended, held, dataVars, scratch, outVars, result>>

\* The deadline, a cancel, or a client that has gone.
CtxDone ==
    /\ spc \notin {"crashed", "returned"} /\ ~ended
    /\ ended' = TRUE
    /\ UNCHANGED <<fixVars, spc, procVars, held, dataVars, scratch, outVars, result>>

-----------------------------------------------------------------------------
(* The handler. *)

\* Every return runs the deferred calls: cancel, closePipes, RemoveAll. A stage
\* without an error and without output is one for file().
Return(r) ==
    /\ spc' = "returned"
    /\ result' = IF r = "nil" /\ written = 0 THEN "nothing" ELSE r
    /\ ended' = TRUE /\ held' = FALSE /\ scratch' = FALSE

MakeScratch ==
    /\ spc = "mkdir"
    /\ \/ spc' = "start" /\ scratch' = TRUE /\ UNCHANGED <<ended, held, result>>
       \/ Return("other")
    /\ UNCHANGED <<fixVars, procVars, dataVars, outVars>>

\* The process to start next.
NextStart(p) ==
    \E i \in DOMAIN Order :
        /\ Order[i] = p /\ proc[p] = "none"
        /\ \A k \in 1..(i - 1) : proc[Order[k]] # "none"

AfterStart(p) ==
    CASE kind = "mp3" /\ p = "audio"   -> "fetched"
      [] kind = "merge" /\ p # "audio" -> "start"
      [] kind = "merge" /\ p = "audio" -> "close"
      [] OTHER                         -> "copy"

Start(p) ==
    /\ spc = "start" /\ NextStart(p) /\ ~ended
    /\ proc' = [proc EXCEPT ![p] = "running"]
    /\ spc' = AfterStart(p)
    /\ UNCHANGED <<fixVars, code, ended, held, dataVars, scratch, outVars, result>>

\* Wrong: a merge leaves what it has started to the kill.
StartFailsAlone(p) ==
    /\ spc = "start" /\ NextStart(p)
    /\ Return(IF kind = "mp3" /\ p = "audio" THEN "ytdlp" ELSE "start")
    /\ UNCHANGED <<fixVars, procVars, dataVars, outVars>>

\* A merge kills what it has started, and waits for it; the fetch of an mp3 is
\* a Run, whose failure is that of yt-dlp.
StartFails(p) ==
    /\ spc = "start" /\ NextStart(p)
    /\ \/ /\ kind = "merge"
          /\ spc' = "abort" /\ ended' = TRUE
          /\ UNCHANGED <<held, scratch, result>>
       \/ kind = "mp3" /\ p = "audio" /\ Return(IF ended THEN "ctx" ELSE "ytdlp")
       \/ kind # "merge" /\ p = Last /\ Return("start")
    /\ UNCHANGED <<fixVars, procVars, dataVars, outVars>>

\* Wait: the exit of p, or the error of ctx for a process that exited with 0
\* and whose group was killed before it was reaped.
Reap(p, c) ==
    /\ proc[p] = "exited"
    /\ c \in {code[p]} \cup (IF ended /\ code[p] = "ok" THEN {"killed"} ELSE {})
    /\ proc' = [proc EXCEPT ![p] = "reaped"]
    /\ code' = [code EXCEPT ![p] = c]

AbortMerge ==
    /\ spc = "abort"
    /\ \/ /\ \E p \in Stages, c \in {"ok", "failed", "killed"} : Reap(p, c)
          /\ UNCHANGED <<spc, ended, held, scratch, result>>
       \/ /\ \A p \in Stages : proc[p] \in {"none", "reaped"}
          /\ Return("start")
          /\ UNCHANGED procVars
    /\ UNCHANGED <<fixVars, dataVars, outVars>>

\* Wrong: the handler keeps its copies of the pipes until it returns.
KeepPipes ==
    /\ spc = "close"
    /\ spc' = "copy"
    /\ UNCHANGED <<fixVars, procVars, ended, held, dataVars, scratch, outVars, result>>

\* All have started: with the handler's copies closed, ffmpeg sees the end of
\* its inputs, and a yt-dlp that ffmpeg has gone.
ClosePipes ==
    /\ spc = "close"
    /\ spc' = "copy" /\ held' = FALSE
    /\ UNCHANGED <<fixVars, procVars, ended, dataVars, scratch, outVars, result>>

\* streamMP3's fetch.Run, and what it left in the scratch directory.
Fetched(c) ==
    /\ spc = "fetched" /\ Reap("audio", c)
    /\ \/ c # "ok" /\ Return(IF ended THEN "ctx" ELSE "ytdlp")
       \/ /\ c = "ok" /\ sent["audio"] = 0
          /\ Return(IF tooLarge["audio"] THEN "tooLarge" ELSE "nothing")
       \/ /\ c = "ok" /\ sent["audio"] > 0
          /\ spc' = "start" /\ UNCHANGED <<ended, held, scratch, result>>
    /\ UNCHANGED <<fixVars, dataVars, outVars>>

-----------------------------------------------------------------------------
(* io.Copy(out, stdout), and what comes after it. *)

\* Wrong: the limit is checked once it has been passed.
OverLimitAfter == limit > 0 /\ written > limit

OverLimit == limit > 0 /\ written + 1 > limit

\* A stage of one process cancels as soon as the copy fails, a merge does not.
EndCopy(e) ==
    /\ spc' = "wait" /\ copyErr' = e
    /\ ended' = (ended \/ e = "client" \/ (e # "none" /\ kind # "merge"))

CopyChunk ==
    /\ spc = "copy" /\ outq > 0 /\ ~OverLimit
    /\ outq' = outq - 1 /\ written' = written + 1
    /\ UNCHANGED <<fixVars, spc, procVars, ended, held, sent, taken, want, mem, tooLarge,
                   scratch, copyErr, result>>

CopyOver ==
    /\ spc = "copy" /\ outq > 0 /\ OverLimit
    /\ outq' = outq - 1
    /\ EndCopy("over")
    /\ UNCHANGED <<fixVars, procVars, held, sent, taken, want, mem, tooLarge, scratch,
                   written, result>>

\* The connection is broken: the write fails, or the flush after it. net/http
\* ends the request's context with the connection.
CopyClientGone ==
    /\ spc = "copy" /\ outq > 0 /\ ~OverLimit
    /\ outq' = outq - 1 /\ written' \in {written, written + 1}
    /\ EndCopy("client")
    /\ UNCHANGED <<fixVars, procVars, held, sent, taken, want, mem, tooLarge, scratch,
                   result>>

CopyEOF ==
    /\ spc = "copy" /\ outq = 0 /\ Gone(Last)
    /\ EndCopy("none")
    /\ UNCHANGED <<fixVars, procVars, held, dataVars, scratch, written, result>>

\* The wait for the process that was read. A merge only now cancels.
WaitLast(c) ==
    /\ spc = "wait" /\ Reap(Last, c)
    /\ spc' = IF kind = "merge" THEN "waitVideo" ELSE "finish"
    /\ ended' = (ended \/ (kind = "merge" /\ (copyErr # "none" \/ c # "ok")))
    /\ UNCHANGED <<fixVars, held, dataVars, scratch, outVars, result>>

WaitSource(s, c) ==
    /\ spc = IF s = "video" THEN "waitVideo" ELSE "waitAudio"
    /\ Reap(s, c)
    /\ spc' = IF s = "video" THEN "waitAudio" ELSE "finish"
    /\ UNCHANGED <<fixVars, ended, held, dataVars, scratch, outVars, result>>

\* Wrong: ffmpeg read its inputs to their end, so all went well.
MuxOutcome == IF code["ffmpeg"] = "ok" THEN "nil" ELSE "mux"

\* ffmpeg takes a yt-dlp that died for a stream that ended: yt-dlp's exit wins.
MergeOutcome ==
    IF \E s \in Source : code[s] # "ok" THEN "ytdlp"
    ELSE IF \E s \in Source : tooLarge[s] THEN "tooLarge"
    ELSE IF code["ffmpeg"] # "ok" THEN "mux"
    ELSE "nil"

SingleOutcome ==
    IF code["video"] # "ok" THEN "ytdlp"
    ELSE IF tooLarge["video"] /\ written = 0 THEN "tooLarge"
    ELSE "nil"

MP3Outcome == IF code["ffmpeg"] # "ok" THEN "mux" ELSE "nil"

Settle ==
    /\ spc = "finish"
    /\ Return(IF copyErr # "none" THEN copyErr
              ELSE CASE kind = "merge"  -> MergeOutcome
                     [] kind = "single" -> SingleOutcome
                     [] kind = "mp3"    -> MP3Outcome)
    /\ UNCHANGED <<fixVars, procVars, dataVars, outVars>>

-----------------------------------------------------------------------------
(* The server itself. *)

\* It crashes or is killed, and its container, so every process, with it: only
\* the scratch directory stays.
Crash ==
    /\ spc \notin {"crashed", "returned"}
    /\ spc' = "crashed" /\ result' = "none" /\ ended' = TRUE /\ held' = FALSE
    /\ proc' = [p \in Proc |-> "none"] /\ code' = [p \in Proc |-> "ok"]
    /\ sent' = [s \in Source |-> 0] /\ taken' = [s \in Source |-> 0]
    /\ mem' = 0 /\ outq' = 0 /\ written' = 0 /\ copyErr' = "none"
    /\ tooLarge' = [s \in Source |-> FALSE]
    /\ UNCHANGED <<fixVars, want, scratch>>

\* It is started again: removeStaleScratchDirs.
Restart ==
    /\ spc = "crashed"
    /\ spc' = "returned" /\ scratch' = FALSE
    /\ UNCHANGED <<fixVars, procVars, ended, held, dataVars, outVars, result>>

-----------------------------------------------------------------------------

WaitCode == {"ok", "failed", "killed"}

HandlerStep ==
    \/ MakeScratch \/ AbortMerge \/ ClosePipes \/ Settle
    \/ CopyChunk \/ CopyOver \/ CopyEOF
    \/ \E p \in Proc : Start(p)
    \/ \E c \in WaitCode : Fetched(c) \/ WaitLast(c) \/ (\E s \in Source : WaitSource(s, c))

StNext ==
    \/ HandlerStep \/ CopyClientGone \/ CtxDone \/ Crash \/ Restart
    \/ \E p \in Proc : StartFails(p) \/ KillGroup(p)
    \/ \E s \in Source : YtWrite(s) \/ YtSkips(s) \/ YtExits(s) \/ YtFails(s) \/ YtBreaks(s)
    \/ \E s \in Source : FfRead(s) \/ FfSeesEnd(s)
    \/ FfWrite \/ FfExits \/ FfNoStream \/ FfFails

StSpec == StInit /\ [][StNext]_stVars

\* yt-dlp downloads on (its socket timeout ends a connection that stalls) and
\* the kernel moves bytes; the client reads; a server that crashed is started
\* again (restart: unless-stopped). No process has to fail, and ctx need not
\* end: there may be no deadline (MAX_JOB_DURATION=0).
StFairness ==
    /\ WF_stVars(HandlerStep) /\ WF_stVars(Restart)
    /\ \A p \in Proc : WF_stVars(KillGroup(p)) /\ WF_stVars(ended /\ StartFails(p))
    /\ \A s \in Source :
          /\ WF_stVars(YtWrite(s)) /\ WF_stVars(YtBreaks(s))
          /\ WF_stVars((sent[s] = Chunks \/ tooLarge[s]) /\ YtExits(s))
          /\ WF_stVars(FfRead(s)) /\ WF_stVars(FfSeesEnd(s))
    /\ WF_stVars(FfWrite) /\ WF_stVars(FfExits) /\ WF_stVars(FfNoStream)

StFairSpec == StSpec /\ StFairness

-----------------------------------------------------------------------------
(* Properties. *)

\* A stage without an error has delivered every chunk of every source: no
\* process that died, was killed or skipped its download on the way passes for
\* one that ended ("yt-dlp's result wins", stream.go:268).
WholeFileOrError ==
    result = "nil" =>
        /\ \A s \in Sources : sent[s] = Chunks
        /\ written = Chunks * Cardinality(Sources)

\* No child process, pipe or scratch directory outlives its stage, whichever
\* way it returns; nor the crash of a server that has been started again.
NothingLeftBehind ==
    spc = "returned" =>
        /\ \A p \in Proc : proc[p] \in {"none", "reaped"}
        /\ ~held /\ ~scratch

\* Every stage returns, whichever process fails, blocks on a full pipe or waits
\* for an empty one, except a merge that has exceeded the limit (OverLimitEnds).
StageEnds == []<>(spc = "returned" \/ (kind = "merge" /\ copyErr = "over"))

\* "cancel() // unblocks yt-dlp if ffmpeg stopped reading" (stream.go:263), and
\* the limit "caps the stream" (stream.go:355): a stage that has exceeded it
\* returns. A merge waits for ffmpeg before it cancels, and ffmpeg waits for a
\* reader of its stdout: nothing but a deadline or the client ends that.
OverLimitEnds == copyErr = "over" ~> spc = "returned"
=============================================================================
