----------------------------- MODULE TokenBucket -----------------------------
(***************************************************************************)
(* What the rate limiter means to a client: a bucket of Burst tokens that  *)
(* is never forgotten, refilled at a constant rate; a request takes a      *)
(* token and is refused when there is none. One is a token's worth of the  *)
(* units the bucket is measured in, and Rate the units of a tick.          *)
(***************************************************************************)
EXTENDS Integers

CONSTANTS Client, Rate, One, Burst

VARIABLES level,     \* the units in each client's bucket now
          verdict    \* what each client was told last

tbVars == <<level, verdict>>

Lesser(a, b) == IF a < b THEN a ELSE b

TBInit ==
    /\ level = [k \in Client |-> Burst * One]
    /\ verdict = [k \in Client |-> "none"]

Refill ==
    /\ level' = [k \in Client |-> Lesser(Burst * One, level[k] + Rate)]
    /\ UNCHANGED verdict

Take(k) ==
    /\ level[k] >= One
    /\ level' = [level EXCEPT ![k] = @ - One]
    /\ verdict' = [verdict EXCEPT ![k] = "admitted"]

Deny(k) ==
    /\ level[k] < One
    /\ verdict' = [verdict EXCEPT ![k] = "refused"]
    /\ UNCHANGED level

TBNext == Refill \/ \E k \in Client : Take(k) \/ Deny(k)

TBSpec == TBInit /\ [][TBNext]_tbVars
=============================================================================
