--------------------------- MODULE InFlightLimiter ---------------------------
(***************************************************************************)
(* middleware.InFlightLimiter (internal/middleware/inflight.go): at most   *)
(* Max callers at a time for each key, refused at once beyond that; Max    *)
(* <= 0 disables it. The server's perIP limiter is one: its keys are       *)
(* clients and its callers are the /file requests that are streaming.      *)
(***************************************************************************)
EXTENDS Integers, FiniteSets, Functions

CONSTANTS Caller,    \* goroutines that call Acquire; finite at any time
          Key,       \* clients, as ClientKey names them
          MaxPerKey, \* the limit; config MaxJobsPerIP
          Outside    \* the place of a caller that holds nothing

ASSUME CallerAssumption == IsFiniteSet(Caller)
ASSUME MaxPerKeyAssumption == MaxPerKey \in Int
ASSUME OutsideAssumption == Outside \notin Key

VARIABLES n,        \* l.n, a map that has only the keys in use
          holds     \* the key each caller has acquired, or Outside

ipVars == <<n, holds>>

IPTypeOK ==
    /\ DOMAIN n \subseteq Key
    /\ \A k \in DOMAIN n : n[k] \in Int
    /\ holds \in [Caller -> Key \cup {Outside}]

\* l.n[key]: a missing key reads as the zero value.
Count(k) == IF k \in DOMAIN n THEN n[k] ELSE 0

Limited == MaxPerKey > 0

\* Wrong: refuses only above the limit.
OverFull(k) == Limited /\ Count(k) > MaxPerKey

Full(k) == Limited /\ Count(k) >= MaxPerKey

\* l.n[key] = v
Put(k, v) == [i \in DOMAIN n \cup {k} |-> IF i = k THEN v ELSE n[i]]

Delete(k) == Restrict(n, DOMAIN n \ {k})

\* The effect of a successful Acquire on the map.
Enter(k) == n' = IF Limited THEN Put(k, Count(k) + 1) ELSE n

\* Wrong: keeps an entry of zero.
Decrement(k) == n' = IF ~Limited THEN n ELSE Put(k, Count(k) - 1)

\* Wrong: deletes the entry although others of the key are inside.
DeleteEntry(k) == n' = IF ~Limited THEN n ELSE Delete(k)

\* The effect of the release function: each Acquire returns its own, and its
\* sync.Once makes the calls after the first do nothing.
Leave(k) == n' = IF ~Limited THEN n
                 ELSE IF Count(k) - 1 <= 0 THEN Delete(k)
                 ELSE Put(k, Count(k) - 1)

IPInit ==
    /\ n = [k \in {} |-> 0]
    /\ holds = [c \in Caller |-> Outside]

Acquire(c, k) ==
    /\ holds[c] = Outside
    /\ ~Full(k)
    /\ Enter(k)
    /\ holds' = [holds EXCEPT ![c] = k]

Release(c, k) ==
    /\ holds[c] = k
    /\ Leave(k)
    /\ holds' = [holds EXCEPT ![c] = Outside]

\* A refused Acquire changes nothing: it is a stuttering step.
IPNext == \E c \in Caller, k \in Key : Acquire(c, k) \/ Release(c, k)

IPSpec == IPInit /\ [][IPNext]_ipVars

-----------------------------------------------------------------------------
(* Properties. *)

Holders(k) == { c \in Caller : holds[c] = k }

\* The map counts exactly the callers inside for each key: no release is
\* missed or done twice, so nobody is refused for work that has ended.
CountsHolders == Limited => \A k \in Key : Count(k) = Cardinality(Holders(k))

\* No key ever has more than Max callers inside ("caps concurrent work per
\* key", inflight.go:5).
AtMostMaxPerKey == Limited => \A k \in Key : Cardinality(Holders(k)) <= MaxPerKey

\* An idle client leaves no entry behind: the map is bounded by the work in
\* progress, not by the clients ever seen.
OnlyBusyKeys == \A k \in DOMAIN n : \E c \in Caller : holds[c] = k
=============================================================================
