--------------------------------- MODULE Job ---------------------------------
(***************************************************************************)
(* jobs.Job (internal/jobs/job.go): the state of one download and the      *)
(* channels of those who watch it. A job is a record; each method that     *)
(* locks j.mu is an operator that tests or updates the record, and Publish *)
(* is an operator on the subscribers' channels (j.subMu). Fail, Done and   *)
(* Cancel take the two locks one after the other: whoever calls them takes *)
(* two steps. Identity, title and format are left out, and so is the text  *)
(* of an error.                                                            *)
(***************************************************************************)
EXTENDS Naturals, Sequences, FiniteSets

CONSTANTS NoFn,             \* the zero value of cancelFn
          Sub,              \* channels that Subscribe can make
          MaxSubscribers,   \* maxSubscribersPerJob, 8 in the code
          ChanCap           \* the capacity of a subscriber's channel, 16 in the code

ASSUME SubscriberAssumption ==
    IsFiniteSet(Sub) /\ MaxSubscribers \in Nat /\ ChanCap \in Nat

Status == {"pending", "downloading", "processing", "completed", "error", "canceled"}

Terminal == {"completed", "error", "canceled"}

\* The Status of a ProgressEvent.
EventStatus == {"downloading", "processing", "done", "error", "canceled"}

TerminalEvent == {"done", "error", "canceled"}

NewJob == [status |-> "pending", streaming |-> FALSE, canceled |-> FALSE, cancelFn |-> NoFn]

\* Wrong: two handlers can claim the job.
ClaimableTwice(j) == ~j.canceled /\ j.status # "completed"

\* Wrong: a completed job can be claimed again.
ClaimableAgain(j) == ~j.streaming /\ ~j.canceled

\* What Claim tests before it sets streaming.
Claimable(j) == ~j.streaming /\ ~j.canceled /\ j.status # "completed"

Claim(j) == [j EXCEPT !.streaming = TRUE]

Unclaim(j) == [j EXCEPT !.streaming = FALSE]

\* SetStatus, and the locked part of Fail ("error") and of Done ("completed").
SetStatus(j, s) == [j EXCEPT !.status = s]

\* Wrong: cancels a job that is completed.
CancelableAlways(j) == ~j.canceled

\* Cancel does nothing to a job that has ended, one way or another.
Cancelable(j) == ~j.canceled /\ j.status \notin {"completed", "error"}

\* The locked part of Cancel; the caller then runs j.cancelFn, if any.
Cancel(j) == [j EXCEPT !.canceled = TRUE, !.status = "canceled"]

\* Stored only if the job is not canceled already; otherwise the caller runs
\* fn at once.
SetCancelFunc(j, fn) == IF j.canceled THEN j ELSE [j EXCEPT !.cancelFn = fn]

\* The job's state as a client is told it.
Event(j) ==
    CASE j.status = "completed" -> "done"
      [] j.status = "pending"   -> "downloading"
      [] OTHER                  -> j.status

-----------------------------------------------------------------------------
(* Subscribers: watching is the set of a job's channels, buf what each of   *)
(* them holds. missed is no part of the code: it records an overflow.       *)

EmptyChan == [queue |-> <<>>, missed |-> FALSE]

MaySubscribe(watching) == Cardinality(watching) < MaxSubscribers

Send(chan, ev) == IF Len(chan.queue) < ChanCap THEN [chan EXCEPT !.queue = Append(@, ev)]
                  ELSE [chan EXCEPT !.missed = TRUE]

\* Publish sends without blocking: a full channel misses the event.
Publish(buf, watching, ev) ==
    [s \in Sub |-> IF s \in watching THEN Send(buf[s], ev) ELSE buf[s]]
=============================================================================
