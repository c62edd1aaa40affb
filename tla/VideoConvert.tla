---------------------------- MODULE VideoConvert -----------------------------
(* convertVideo (frontend/src/lib/video-convert.ts): conversions that share   *)
(* one ffmpeg instance (a worker with a file system of its own), loaded by    *)
(* the first of them and terminated by one that is canceled in the middle.    *)
(* Every step runs from one await to the next.                                *)
(*                                                                            *)
(* The page (video-converter.tsx) starts a conversion when it has none; one   *)
(* that was left aborts its own, which may still be on its way out.           *)
EXTENDS Naturals, FiniteSets

CONSTANTS
    Conv,       \* calls of convertVideo
    Inst,       \* FFmpeg objects
    NoInst, NoConv

ASSUME ConvertAssumption == NoInst \notin Inst /\ NoConv \notin Conv

VARIABLES
    cpc,        \* [Conv -> the await it is at]
    aborted,    \* [Conv -> signal.aborted]
    inst,       \* [Conv -> the instance it waits for or uses]
    mine,       \* [Conv -> its variable mounted]
    outcome,    \* [Conv -> how it settled or will, after its cleanup]
    loading,    \* the instance of the promise in the variable loading
    life,       \* [Inst -> new, pending, ready, abandoned, terminated]
    inputDir    \* [Inst -> the conversion whose file is mounted there]

cvVars == <<cpc, aborted, inst, mine, outcome, loading, life, inputDir>>

Listening == {"mount", "exec", "read"}     \* abort has its listener

CvTypeOK ==
    /\ cpc \in [Conv -> {"idle", "load", "delete", "unmount", "done"} \cup Listening]
    /\ aborted \in [Conv -> BOOLEAN] /\ mine \in [Conv -> BOOLEAN]
    /\ inst \in [Conv -> Inst \cup {NoInst}] /\ loading \in Inst \cup {NoInst}
    /\ outcome \in [Conv -> {"none", "blob", "error", "canceled"}]
    /\ life \in [Inst -> {"new", "pending", "ready", "abandoned", "terminated"}]
    /\ inputDir \in [Inst -> Conv \cup {NoConv}]

CvInit ==
    /\ cpc = [c \in Conv |-> "idle"] /\ aborted = [c \in Conv |-> FALSE]
    /\ inst = [c \in Conv |-> NoInst] /\ mine = [c \in Conv |-> FALSE]
    /\ outcome = [c \in Conv |-> "none"]
    /\ loading = NoInst
    /\ life = [i \in Inst |-> "new"] /\ inputDir = [i \in Inst |-> NoConv]

At(c, p)        == cpc' = [cpc EXCEPT ![c] = p]
SettleAs(c, o)  == outcome' = [outcome EXCEPT ![c] = o]

-----------------------------------------------------------------------------
(* getFFmpeg. *)

GetFFmpeg(c) ==
    \/ /\ loading # NoInst
       /\ inst' = [inst EXCEPT ![c] = loading]
       /\ UNCHANGED <<loading, life>>
    \/ \E i \in Inst :
          /\ loading = NoInst /\ life[i] = "new"
          /\ loading' = i
          /\ life' = [life EXCEPT ![i] = "pending"]
          /\ inst' = [inst EXCEPT ![c] = i]

Loaded(i) ==
    /\ life[i] = "pending"
    /\ life' = [life EXCEPT ![i] = "ready"]
    /\ UNCHANGED <<cpc, aborted, inst, mine, outcome, loading, inputDir>>

\* load or createDir fails: the promise rejects and is forgotten. Nobody calls
\* terminate, so that a worker that has started lives on, abandoned.
LoadFails(i) ==
    /\ life[i] = "pending"
    /\ life' = [life EXCEPT ![i] = "abandoned"]
    /\ loading' = NoInst
    /\ UNCHANGED <<cpc, aborted, inst, mine, outcome, inputDir>>

-----------------------------------------------------------------------------
(* convertVideo. *)

Convert(c) ==
    /\ cpc[c] = "idle"
    /\ \A o \in Conv : cpc[o] \in {"idle", "done"} \/ aborted[o]
    /\ GetFFmpeg(c)
    /\ At(c, "load")
    /\ UNCHANGED <<aborted, mine, outcome, inputDir>>

CannotLoad(c) ==
    /\ cpc[c] = "load" /\ life[inst[c]] = "abandoned"
    /\ At(c, "done") /\ SettleAs(c, "error")
    /\ UNCHANGED <<aborted, inst, mine, loading, life, inputDir>>

\* A cancel during the load is seen after it, and leaves the instance alone.
\* The instance may have been terminated since it was ready: not seen here.
Resume(c) ==
    /\ cpc[c] = "load" /\ life[inst[c]] \in {"ready", "terminated"}
    /\ IF aborted[c] THEN At(c, "done") /\ SettleAs(c, "canceled")
                     ELSE At(c, "mount") /\ UNCHANGED outcome
    /\ UNCHANGED <<aborted, inst, mine, loading, life, inputDir>>

\* Wrong: the next conversion is given the instance that was terminated.
AbortKeepingLoading(c) ==
    /\ cpc[c] \notin {"idle", "done"} /\ ~aborted[c]
    /\ aborted' = [aborted EXCEPT ![c] = TRUE]
    /\ IF cpc[c] \in Listening
       THEN /\ life' = [life EXCEPT ![inst[c]] = "terminated"]
            /\ At(c, "done") /\ SettleAs(c, "canceled")
       ELSE UNCHANGED <<life, cpc, outcome>>
    /\ UNCHANGED <<inst, mine, loading, inputDir>>

\* The cancel button, or the page is left. The listener is there from the
\* mount to the read: the calls that ffmpeg has not answered are rejected, and
\* the cleanup is left out. Before and after that nothing happens at once.
Abort(c) ==
    /\ cpc[c] \notin {"idle", "done"} /\ ~aborted[c]
    /\ aborted' = [aborted EXCEPT ![c] = TRUE]
    /\ IF cpc[c] \in Listening
       THEN /\ life' = [life EXCEPT ![inst[c]] = "terminated"]
            /\ loading' = NoInst
            /\ At(c, "done") /\ SettleAs(c, "canceled")
       ELSE UNCHANGED <<life, loading, cpc, outcome>>
    /\ UNCHANGED <<inst, mine, inputDir>>

\* A directory with a mount cannot be mounted on.
Mount(c) ==
    /\ cpc[c] = "mount" /\ life[inst[c]] = "ready" /\ inputDir[inst[c]] = NoConv
    /\ inputDir' = [inputDir EXCEPT ![inst[c]] = c]
    /\ mine' = [mine EXCEPT ![c] = TRUE]
    /\ At(c, "exec")
    /\ UNCHANGED <<aborted, inst, outcome, loading, life>>

Exec(c) ==
    /\ cpc[c] = "exec" /\ life[inst[c]] = "ready"
    /\ At(c, "read")
    /\ UNCHANGED <<aborted, inst, mine, outcome, loading, life, inputDir>>

Read(c) ==
    /\ cpc[c] = "read" /\ life[inst[c]] = "ready"
    /\ At(c, "delete") /\ SettleAs(c, "blob")
    /\ UNCHANGED <<aborted, inst, mine, loading, life, inputDir>>

\* ffmpeg's exit code, an empty output, memory, a mount on a mount.
Fails(c) ==
    /\ cpc[c] \in Listening
    /\ At(c, "delete") /\ SettleAs(c, "error")
    /\ UNCHANGED <<aborted, inst, mine, loading, life, inputDir>>

\* The cleanup ignores errors: another conversion may have terminated the
\* instance by now.
Deleted(c) ==
    /\ cpc[c] = "delete"
    /\ At(c, IF mine[c] THEN "unmount" ELSE "done")
    /\ UNCHANGED <<aborted, inst, mine, outcome, loading, life, inputDir>>

Unmounted(c) ==
    /\ cpc[c] = "unmount"
    /\ inputDir' = [inputDir EXCEPT ![inst[c]] = NoConv]
    /\ At(c, "done")
    /\ UNCHANGED <<aborted, inst, mine, outcome, loading, life>>

-----------------------------------------------------------------------------

CvNext ==
    \/ \E i \in Inst : Loaded(i) \/ LoadFails(i)
    \/ \E c \in Conv :
          \/ Convert(c) \/ CannotLoad(c) \/ Resume(c) \/ Abort(c)
          \/ Mount(c) \/ Exec(c) \/ Read(c) \/ Fails(c) \/ Deleted(c) \/ Unmounted(c)

CvSpec == CvInit /\ [][CvNext]_cvVars

-----------------------------------------------------------------------------
(* Properties. *)

\* The next conversion is given an instance that loads or is ready, never one
\* that was terminated or abandoned ("Canceling terminates its worker, so the
\* next conversion loads a fresh one", video-convert.ts:53), and the page never
\* loses the one that is. No conversion runs on an instance that another's
\* cancel has terminated, and what it reads is its own file: also when one was
\* canceled while the instance loaded for both, or is still cleaning up. The
\* worker of an abandoned instance is never terminated, and nothing is said of it.
OwnInstance ==
    /\ loading # NoInst => life[loading] \in {"pending", "ready"}
    /\ \A i \in Inst : life[i] \in {"pending", "ready"} => i = loading
    /\ \A c \in Conv :
          cpc[c] \in Listening /\ ~aborted[c] =>
              /\ life[inst[c]] = "ready"
              /\ cpc[c] # "mount" => inputDir[inst[c]] = c
=============================================================================
