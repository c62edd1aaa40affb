------------------------------- MODULE MCParts -------------------------------
(* Five parts that share no state with each other: a stage of a stream, the   *)
(* probes with their caches, the log file, the page of a download and the     *)
(* video converter. A behaviour runs one of them, as in MCShared.         *)
EXTENDS Stream, Probe, RotatingFile, ProgressPage, VideoConvert, TLC

CONSTANTS u1, u2, u3, t1, t2

\* What the parts that do not run are left at is one of their states.
ASSUME OverAssumption == "single" \in Kinds /\ 0 \in Limits /\ Conn # {}

\* Two tweets, the second without a video, and a URL of another site.
Tweets == (u1 :> t1) @@ (u2 :> t2) @@ (u3 :> NoTweet)

VARIABLE which      \* the part that runs

mcVars == <<stVars, pbVars, lfVars, pgVars, cvVars, which>>

\* A stage that has returned and a page that was left: nothing in them is
\* bound to happen, as fairness would have it of those that run.
StOver ==
    /\ kind = "single" /\ limit = 0 /\ spc = "returned" /\ result = "start"
    /\ proc = [p \in Proc |-> "none"] /\ code = [p \in Proc |-> "ok"]
    /\ ended = TRUE /\ held = FALSE /\ scratch = FALSE
    /\ sent = [s \in Source |-> 0] /\ taken = [s \in Source |-> 0]
    /\ want = "video" /\ mem = 0 /\ outq = 0 /\ written = 0 /\ copyErr = "none"
    /\ tooLarge = [s \in Source |-> FALSE]

PgOver ==
    /\ server = "running" /\ past = {} /\ source = (CHOOSE s \in Conn : TRUE)
    /\ conn = [s \in Conn |-> "closed"] /\ asked = [q \in Query |-> "none"]
    /\ alarms = {} /\ retryTimer = Nobody
    /\ finished = TRUE /\ mounted = FALSE /\ shown = "none"

MCInit ==
    /\ which \in {"stage", "probe", "log", "page", "convert"}
    /\ IF which = "stage" THEN StInit ELSE StOver
    /\ IF which = "page" THEN PgInit ELSE PgOver
    /\ IF which = "log" THEN LfInit ELSE LfInit /\ usable
    /\ PbInit /\ CvInit

MCNext ==
    \/ which = "stage"   /\ StNext /\ UNCHANGED <<pbVars, lfVars, pgVars, cvVars, which>>
    \/ which = "probe"   /\ PbNext /\ UNCHANGED <<stVars, lfVars, pgVars, cvVars, which>>
    \/ which = "log"     /\ LfNext /\ UNCHANGED <<stVars, pbVars, pgVars, cvVars, which>>
    \/ which = "page"    /\ PgNext /\ UNCHANGED <<stVars, pbVars, lfVars, cvVars, which>>
    \/ which = "convert" /\ CvNext /\ UNCHANGED <<stVars, pbVars, lfVars, pgVars, which>>

MCSpec == MCInit /\ [][MCNext]_mcVars /\ StFairness /\ PbFairness /\ PgFairness

\* The variables of the five keep their types; what has been written stays
\* within the limit, and the caches within theirs.
PartsTypeOK == StTypeOK /\ PbTypeOK /\ LfTypeOK /\ PgTypeOK /\ CvTypeOK
=============================================================================
