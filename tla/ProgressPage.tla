---------------------------- MODULE ProgressPage -----------------------------
(* The page of a download (frontend/src/hooks/use-download-progress.ts) on a  *)
(* network that drops connections: an EventSource on the job's events, and,   *)
(* after each error and each return to the tab, a query of the job's status   *)
(* and a timer that reconnects. Everything is a callback of the browser's     *)
(* event loop; only the query is awaited. Retry delays are left out.          *)
(*                                                                            *)
(* Of the server there is what the page can see of the job: Download and      *)
(* Events are its models. A job that failed may be claimed again and stream,  *)
(* and the page has come to its end by then: it does not follow a retry.      *)
EXTENDS Naturals, FiniteSets

CONSTANTS
    Conn,       \* EventSource objects; one that is closed may serve again
    Query,      \* status queries, at most so many at a time
    Alarm,      \* timers, at most so many at a time
    Nobody      \* no EventSource, no timer

ASSUME PageAssumption == Nobody \notin Conn \cup Alarm

VARIABLES
    server,     \* what the job's status says: running, failed, ended (done
                \* or canceled), or that it is forgotten
    past,       \* the endings that the job has come to so far
    conn,       \* [Conn -> closed, connecting, open]
    source,     \* the variable source: the EventSource made last
    asked,      \* [Query -> none, sent, or the reply on its way back]
    alarms,     \* pending timers
    retryTimer, \* the variable retryTimer: the timer set last
    finished,   \* the variable finished
    mounted,    \* the page shows this job
    shown       \* the event the page shows: none, progress, or an ending

pgVars == <<server, past, conn, source, asked, alarms, retryTimer, finished, mounted, shown>>

JobEnding == {"failed", "ended"}
Ending    == JobEnding \cup {"expired"}
Says      == {"running", "forgotten"} \cup JobEnding

PgTypeOK ==
    /\ server \in Says /\ past \subseteq JobEnding
    /\ conn \in [Conn -> {"closed", "connecting", "open"}] /\ source \in Conn
    /\ asked \in [Query -> {"none", "sent"} \cup Says]
    /\ alarms \subseteq Alarm /\ retryTimer \in Alarm \cup {Nobody}
    /\ finished \in BOOLEAN /\ mounted \in BOOLEAN
    /\ shown \in {"none", "progress"} \cup Ending

Closed(s) == [conn EXCEPT ![s] = "closed"]

\* The effect of the hook has run: it has connected.
PgInit ==
    /\ server \in Says
    /\ past \in SUBSET JobEnding /\ (server \in JobEnding => server \in past)
    /\ source \in Conn
    /\ conn = [s \in Conn |-> IF s = source THEN "connecting" ELSE "closed"]
    /\ asked = [q \in Query |-> "none"]
    /\ alarms = {} /\ retryTimer = Nobody
    /\ finished = FALSE /\ mounted = TRUE /\ shown = "none"

-----------------------------------------------------------------------------
(* finish, connect and recover. *)

Finish(ev) ==
    /\ finished' = TRUE
    /\ conn' = Closed(source)
    /\ alarms' = alarms \ {retryTimer}
    /\ shown' = ev

\* pending: the timers but for the one that has just fired.
Connect(pending) ==
    /\ alarms' = pending \ {retryTimer}
    /\ \E s \in Conn :
          /\ Closed(source)[s] = "closed"
          /\ source' = s
          /\ conn' = [Closed(source) EXCEPT ![s] = "connecting"]

\* The first half of recover, to its await.
Ask(q) ==
    /\ asked[q] = "none"
    /\ asked' = [asked EXCEPT ![q] = "sent"]

\* Its end: a new timer takes the place of the one that is set.
SetRetry ==
    \E a \in Alarm :
        /\ a \notin alarms \ {retryTimer}
        /\ alarms' = (alarms \ {retryTimer}) \cup {a}
        /\ retryTimer' = a

-----------------------------------------------------------------------------
(* Callbacks. *)

Opens(s) ==
    /\ conn[s] = "connecting" /\ server # "forgotten"
    /\ conn' = [conn EXCEPT ![s] = "open"]
    /\ UNCHANGED <<server, past, source, asked, alarms, retryTimer, finished, mounted, shown>>

Progress(s) ==
    /\ conn[s] = "open" /\ server = "running"
    /\ shown' = "progress"
    /\ UNCHANGED <<server, past, conn, source, asked, alarms, retryTimer, finished, mounted>>

\* An ending, which a watcher that comes late is told at once. It may have been
\* on its way for long: after an error the job may stream again by now.
LastEvent(s) ==
    /\ conn[s] = "open"
    /\ \E ev \in past : Finish(ev)
    /\ UNCHANGED <<server, past, source, asked, retryTimer, mounted>>

\* The connection fails, is refused (a 404 included), or is ended by the server.
Error(s) ==
    /\ conn[s] # "closed"
    /\ conn' = Closed(source)
    /\ IF finished THEN UNCHANGED asked ELSE \E q \in Query : Ask(q)
    /\ UNCHANGED <<server, past, source, alarms, retryTimer, finished, mounted, shown>>

\* visibilitychange: the tab is looked at again.
Visible ==
    /\ mounted /\ ~finished /\ conn[source] # "open"
    /\ \E q \in Query : Ask(q)
    /\ UNCHANGED <<server, past, conn, source, alarms, retryTimer, finished, mounted, shown>>

Reply(q) ==
    /\ asked[q] = "sent"
    /\ asked' = [asked EXCEPT ![q] = server]
    /\ UNCHANGED <<server, past, conn, source, alarms, retryTimer, finished, mounted, shown>>

Replied(q) == asked[q] \in Says

\* Wrong: what came back is shown, whatever came before it.
AnsweredLate(q) ==
    /\ Replied(q)
    /\ asked' = [asked EXCEPT ![q] = "none"]
    /\ \/ asked[q] = "forgotten" /\ Finish("expired") /\ UNCHANGED retryTimer
       \/ asked[q] \in JobEnding /\ Finish(asked[q]) /\ UNCHANGED retryTimer
       \/ /\ asked[q] = "running" /\ ~finished
          /\ SetRetry /\ UNCHANGED <<conn, finished, shown>>
       \/ /\ asked[q] = "running" /\ finished
          /\ UNCHANGED <<conn, alarms, retryTimer, finished, shown>>
    /\ UNCHANGED <<server, past, source, mounted>>

\* The second half of recover: the answer counts unless the page has finished.
Answered(q) ==
    /\ Replied(q)
    /\ asked' = [asked EXCEPT ![q] = "none"]
    /\ \/ finished /\ UNCHANGED <<conn, alarms, retryTimer, finished, shown>>
       \/ ~finished /\ asked[q] = "forgotten" /\ Finish("expired") /\ UNCHANGED retryTimer
       \/ ~finished /\ asked[q] \in JobEnding /\ Finish(asked[q]) /\ UNCHANGED retryTimer
       \/ /\ ~finished /\ asked[q] = "running"
          /\ SetRetry /\ UNCHANGED <<conn, finished, shown>>
    /\ UNCHANGED <<server, past, source, mounted>>

\* Wrong: a query that fails sets no timer.
QueryFailsQuietly(q) ==
    /\ asked[q] = "sent"
    /\ asked' = [asked EXCEPT ![q] = "none"]
    /\ UNCHANGED <<server, past, conn, source, alarms, retryTimer, finished, mounted, shown>>

\* The query, or the answer that would have come, is lost.
QueryFails(q) ==
    /\ asked[q] = "sent"
    /\ asked' = [asked EXCEPT ![q] = "none"]
    /\ IF finished THEN UNCHANGED <<alarms, retryTimer>> ELSE SetRetry
    /\ UNCHANGED <<server, past, conn, source, finished, mounted, shown>>

Retry(a) ==
    /\ a \in alarms
    /\ Connect(alarms \ {a})
    /\ UNCHANGED <<server, past, asked, retryTimer, finished, mounted, shown>>

\* The cleanup of the effect: the page is left, or shows another job.
Unmount ==
    /\ mounted
    /\ mounted' = FALSE
    /\ Finish(shown)
    /\ UNCHANGED <<server, past, source, asked, retryTimer>>

\* The job on the server. One that failed streams again if it is claimed, which
\* one that is done or canceled is not; but a stream that was canceled may still
\* set its status (SetStatus, Fail: the runs of Download show it). One that
\* never starts is forgotten without an ending.
JobMoves ==
    /\ \/ server = "running" /\ server' \in JobEnding
       \/ server = "failed" /\ "ended" \notin past /\ server' = "running"
       \/ server = "ended" /\ server' \in {"running", "failed"}
       \/ server # "forgotten" /\ server' = "forgotten"
    /\ past' = past \cup ({server'} \cap JobEnding)
    /\ UNCHANGED <<conn, source, asked, alarms, retryTimer, finished, mounted, shown>>

-----------------------------------------------------------------------------

PgNext ==
    \/ \E s \in Conn : Opens(s) \/ Progress(s) \/ LastEvent(s) \/ Error(s)
    \/ \E q \in Query : Reply(q) \/ Answered(q) \/ QueryFails(q)
    \/ \E a \in Alarm : Retry(a)
    \/ Visible \/ Unmount \/ JobMoves

PgSpec == PgInit /\ [][PgNext]_pgVars

\* A connection opens or fails; one whose job runs no more comes to its end, by
\* the event or, where that was dropped, when the server closes it (events has a
\* deadline if MAX_JOB_DURATION > 0, as by default); a timer fires; and the
\* network is not down for ever: queries that are sent time and again are
\* answered one day. Nobody has to look at the tab.
PgFairness ==
    /\ \A s \in Conn :
          /\ WF_pgVars(conn[s] = "connecting" /\ (Opens(s) \/ Error(s)))
          /\ WF_pgVars(server # "running" /\ (LastEvent(s) \/ Error(s)))
    /\ SF_pgVars(\E q \in Query : Reply(q))
    /\ \A q \in Query : WF_pgVars(Answered(q))
    /\ \A a \in Alarm : WF_pgVars(Retry(a))

PgFairSpec == PgSpec /\ PgFairness

-----------------------------------------------------------------------------
(* Properties. *)

Quiet == alarms = {} /\ \A s \in Conn : conn[s] = "closed"

\* Whatever is still under way (two queries, a timer and a stream that came
\* back meanwhile), the page listens to one stream and waits for one timer at
\* most; once it has finished it does neither, and nothing replaces the ending
\* it shows, which is one that the job has come to. A failure it shows need not
\* be the last word: it stays there while a retry streams and completes.
EndingIsFinal ==
    /\ []( /\ Cardinality({ s \in Conn : conn[s] # "closed" }) <= 1
           /\ Cardinality(alarms) <= 1
           /\ finished => Quiet
           /\ shown \in JobEnding => shown \in past
           /\ shown = "expired" => server = "forgotten" )
    /\ [][(shown \in Ending) => (shown' = shown)]_pgVars

\* A page that stays open comes to an ending unless its job is running time and
\* again, through lost streams, failed queries and an ending that came while
\* nobody listened ("asking the server whether the job ended while nobody was
\* listening", use-download-progress.ts:12).
PageLearnsEnding == []<>(server = "running" \/ shown \in Ending \/ ~mounted)
=============================================================================
