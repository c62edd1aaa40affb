----------------------------- MODULE RateLimiter -----------------------------
(***************************************************************************)
(* middleware.RateLimiter (internal/middleware/ratelimit.go): a token      *)
(* bucket for each client, created on the client's first request, refilled *)
(* lazily when the client comes back, and deleted by a sweeper when it has *)
(* not come for IdleLimit (ten minutes).                                   *)
(*                                                                         *)
(* Tokens are exact here, in units of which a token has One and a tick     *)
(* brings Rate (the code has a float64). win is no part of the code: it    *)
(* counts the requests admitted since an instant that was picked freely.   *)
(***************************************************************************)
EXTENDS Integers, Functions

CONSTANTS Client,      \* as ClientKey tells them apart
          Rate,        \* rl.rps, in units for each tick of the clock
          One,         \* the units of one token
          Burst,       \* rl.burst
          IdleLimit,   \* the age at which the sweeper deletes a bucket
          MaxTime      \* bound of the clock

ASSUME RateAssumption == Rate \in Nat /\ One \in Nat \ {0} /\ MaxTime \in Nat
ASSUME BurstAssumption == Burst \in Nat \ {0}
\* A bucket that is old enough to be deleted is full again. Ten minutes at the
\* default of 1 request a second are 600 tokens, for a burst of 5.
ASSUME SweepAssumption == IdleLimit \in Nat /\ IdleLimit * Rate >= Burst * One

VARIABLES buckets,   \* rl.buckets: tokens and lastSeen of the clients it has
          now,       \* time.Now()
          verdict,   \* what each client was told last
          win        \* a window of time for each client: its start, and how many
                     \* requests it was allowed since

rlVars == <<buckets, now, verdict, win>>

Lower(a, b) == IF a < b THEN a ELSE b

Capacity == Burst * One

RLTypeOK ==
    /\ DOMAIN buckets \subseteq Client
    /\ \A k \in DOMAIN buckets :
          /\ buckets[k].tokens \in 0..Capacity
          /\ buckets[k].lastSeen \in 0..now
    /\ now \in Nat
    /\ verdict \in [Client -> {"none", "admitted", "refused"}]
    /\ win \in [Client -> [since : Nat, granted : Nat]]
    /\ \A k \in Client : win[k].since <= now

RLInit ==
    /\ buckets = [k \in {} |-> 0]
    /\ now = 0
    /\ verdict = [k \in Client |-> "none"]
    /\ win = [k \in Client |-> [since |-> 0, granted |-> 0]]

-----------------------------------------------------------------------------

SetBucket(k, tokens) ==
    buckets' = [i \in DOMAIN buckets \cup {k} |->
                   IF i = k THEN [tokens |-> tokens, lastSeen |-> now] ELSE buckets[i]]

Grant(k) ==
    /\ verdict' = [verdict EXCEPT ![k] = "admitted"]
    /\ win' = [win EXCEPT ![k].granted = @ + 1]
    /\ UNCHANGED now

\* Wrong: refills beyond the burst.
RefilledUncapped(k) == buckets[k].tokens + (now - buckets[k].lastSeen) * Rate

\* The tokens of a known client, with those the elapsed time has brought.
Refilled(k) == Lower(Capacity, buckets[k].tokens + (now - buckets[k].lastSeen) * Rate)

\* Wrong: the first request is free.
AllowFirst(k) ==
    /\ k \notin DOMAIN buckets
    /\ SetBucket(k, Capacity)
    /\ Grant(k)

\* allow, for a client without a bucket.
AllowNew(k) ==
    /\ k \notin DOMAIN buckets
    /\ SetBucket(k, (Burst - 1) * One)
    /\ Grant(k)

AllowKnown(k) ==
    /\ k \in DOMAIN buckets
    /\ Refilled(k) >= One
    /\ SetBucket(k, Refilled(k) - One)
    /\ Grant(k)

\* A refusal still brings the bucket up to date.
Refuse(k) ==
    /\ k \in DOMAIN buckets
    /\ Refilled(k) < One
    /\ SetBucket(k, Refilled(k))
    /\ verdict' = [verdict EXCEPT ![k] = "refused"]
    /\ UNCHANGED <<now, win>>

\* Wrong: deletes every bucket, however young.
SweepAll ==
    /\ buckets' = [k \in {} |-> 0]
    /\ UNCHANGED <<now, verdict, win>>

\* The cutoff is computed before rl.mu is taken: it may be stale by then.
Sweep ==
    \E cutoff \in 0 .. now - IdleLimit :
        /\ buckets' = RestrictDomain(buckets, LAMBDA k : buckets[k].lastSeen >= cutoff)
        /\ UNCHANGED <<now, verdict, win>>

Tick ==
    /\ now < MaxTime
    /\ now' = now + 1
    /\ UNCHANGED <<buckets, verdict, win>>

OpenWindow(k) ==
    /\ win' = [win EXCEPT ![k] = [since |-> now, granted |-> 0]]
    /\ UNCHANGED <<buckets, now, verdict>>

RLNext ==
    \/ \E k \in Client : AllowNew(k) \/ AllowKnown(k) \/ Refuse(k) \/ OpenWindow(k)
    \/ Sweep
    \/ Tick

RLSpec == RLInit /\ [][RLNext]_rlVars

-----------------------------------------------------------------------------
(* Properties. *)

\* In no window of time, wherever it starts, is a client admitted more often
\* than the burst and the refill of that window allow: forgetting a client and
\* starting it afresh gives it nothing.
RateBound ==
    \A k \in Client :
        win[k].granted * One <= Capacity + (now - win[k].since) * Rate

\* The limiter is a token bucket that forgets nobody: creating buckets late,
\* refilling them lazily and sweeping them cannot be seen in any verdict.
Level(k) == IF k \in DOMAIN buckets THEN Refilled(k) ELSE Capacity

Bucket == INSTANCE TokenBucket WITH level <- [k \in Client |-> Level(k)]

ImplementsTokenBucket == Bucket!TBSpec
=============================================================================
