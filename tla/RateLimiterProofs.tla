-------------------------- MODULE RateLimiterProofs --------------------------
(***************************************************************************)
(* The rate limiter admits no more than its promise, for any clients, rate *)
(* and burst: in any window, and with any sweeping. The invariant says     *)
(* that the requests admitted in the window and the tokens left together   *)
(* never exceed the burst and what the window has brought. Level is what   *)
(* makes it inductive: neither a lazy refill nor a deletion changes it.    *)
(***************************************************************************)
EXTENDS MCShared, LimiterProofs

Spent ==
    \A k \in Client :
        win[k].granted * One + Level(k) <= Capacity + (now - win[k].since) * Rate

IInv == RLTypeOK /\ Spent

USE RateAssumption, BurstAssumption, SweepAssumption

\* The arithmetic of products of two variables, stated once.
LEMMA Products ==
    ASSUME NEW r \in Nat
    PROVE  /\ \A a, b, c \in Int : c = a + 1 => (c - b) * r = (a - b) * r + r
           /\ \A a, b \in Int : a >= b => a * r >= b * r
           /\ \A a \in Int : (a + 1) * r = a * r + r /\ (a - 1) * r = a * r - r
           /\ \A a \in Int : (a - a) * r = 0
           /\ \A a \in Nat : a * r \in Nat
           /\ \A a, b \in Int : (a - b) * r \in Int
OBVIOUS

LEMMA CapacityType == Capacity \in Nat /\ Capacity >= One
<1>1. Burst >= 1 /\ One \in Nat
  OBVIOUS
<1>2. Burst * One >= 1 * One
  BY <1>1, Products
<1>3. Burst * One \in Nat
  BY <1>1, Products
<1> QED BY <1>2, <1>3 DEF Capacity

\* What a client could spend now is an amount of tokens, at most the burst.
LEMMA LevelType ==
    ASSUME RLTypeOK, NEW k \in Client
    PROVE  /\ Level(k) \in 0..Capacity
           /\ k \in DOMAIN buckets => Level(k) = Refilled(k) /\ Refilled(k) \in Nat
<1>1. CASE k \notin DOMAIN buckets
  BY <1>1, CapacityType DEF Level
<1>2. CASE k \in DOMAIN buckets
  <2>1. /\ buckets[k].tokens \in 0..Capacity /\ buckets[k].lastSeen \in 0..now /\ now \in Nat
    BY <1>2 DEF RLTypeOK
  <2>2. (now - buckets[k].lastSeen) * Rate \in Nat
    <3>1. \A d \in Nat : d * Rate \in Nat
      BY Products
    <3>2. now - buckets[k].lastSeen \in Nat
      BY <2>1
    <3> QED BY <3>1, <3>2
  <2>3. Refilled(k) \in 0..Capacity
    BY <2>1, <2>2, CapacityType DEF Refilled, Lower
  <2> QED BY <1>2, <2>3, CapacityType DEF Level
<1> QED BY <1>1, <1>2

\* A bucket that was just written is worth its tokens.
LEMMA LevelAfterSet ==
    ASSUME RLTypeOK, NEW k \in Client, NEW t \in 0..Capacity, SetBucket(k, t), now' = now
    PROVE  /\ DOMAIN buckets' = DOMAIN buckets \cup {k}
           /\ \A i \in DOMAIN buckets' :
                 /\ buckets'[i].tokens \in 0..Capacity
                 /\ buckets'[i].lastSeen \in 0..now
           /\ Level(k)' = t
           /\ \A i \in Client : i # k => Level(i)' = Level(i)
<1>1. /\ DOMAIN buckets' = DOMAIN buckets \cup {k}
      /\ buckets'[k] = [tokens |-> t, lastSeen |-> now]
      /\ \A i \in DOMAIN buckets : i # k => buckets'[i] = buckets[i]
  BY DEF SetBucket
<1>2. \A i \in DOMAIN buckets' :
         /\ buckets'[i].tokens \in 0..Capacity
         /\ buckets'[i].lastSeen \in 0..now
  BY <1>1 DEF RLTypeOK
<1>3. Level(k)' = t
  <2>1. (now - now) * Rate = 0
    BY Products DEF RLTypeOK
  <2>2. Level(k)' = Lower(Capacity, t + (now - now) * Rate)
    BY <1>1 DEF Level, Refilled, Capacity
  <2> QED BY <2>1, <2>2, CapacityType DEF Lower
<1>4. ASSUME NEW i \in Client, i # k PROVE Level(i)' = Level(i)
  BY <1>1, <1>4 DEF Level, Refilled, Capacity
<1> QED BY <1>1, <1>2, <1>3, <1>4

\* A swept bucket was full: deleting it changes no client's level.
LEMMA LevelAfterSweep ==
    ASSUME RLTypeOK, Sweep
    PROVE  /\ DOMAIN buckets' \subseteq DOMAIN buckets
           /\ \A k \in DOMAIN buckets' : buckets'[k] = buckets[k]
           /\ \A k \in Client : Level(k)' = Level(k)
<1>1. PICK cutoff \in 0 .. now - IdleLimit :
         buckets' = RestrictDomain(buckets, LAMBDA k : buckets[k].lastSeen >= cutoff)
  BY DEF Sweep
<1>2. now' = now /\ now \in Nat
  BY DEF Sweep, RLTypeOK
<1>3. /\ DOMAIN buckets' = { k \in DOMAIN buckets : buckets[k].lastSeen >= cutoff }
      /\ \A k \in DOMAIN buckets' : buckets'[k] = buckets[k]
  BY <1>1 DEF RestrictDomain, Restrict
<1>4. ASSUME NEW k \in Client PROVE Level(k)' = Level(k)
  <2>1. CASE k \notin DOMAIN buckets
    BY <2>1, <1>3 DEF Level, Capacity
  <2>2. CASE k \in DOMAIN buckets'
    BY <2>2, <1>2, <1>3 DEF Level, Refilled, Capacity
  <2>3. CASE k \in DOMAIN buckets /\ k \notin DOMAIN buckets'
    <3>1. /\ buckets[k].tokens \in 0..Capacity /\ buckets[k].lastSeen \in 0..now
          /\ now - buckets[k].lastSeen >= IdleLimit
      BY <2>3, <1>2, <1>3 DEF RLTypeOK
    <3>2. (now - buckets[k].lastSeen) * Rate >= IdleLimit * Rate
      BY <3>1, <1>2, Products
    <3>3. (now - buckets[k].lastSeen) * Rate \in Int /\ IdleLimit * Rate >= Capacity
      BY <3>1, <1>2, Products DEF Capacity
    <3>4. IdleLimit * Rate \in Nat
      BY Products
    <3>5. Refilled(k) = Capacity
      BY <3>1, <3>2, <3>3, <3>4, CapacityType DEF Refilled, Lower
    <3> QED BY <2>3, <3>5 DEF Level, Capacity
  <2> QED BY <1>3, <2>1, <2>2, <2>3
<1> QED BY <1>3, <1>4

\* A tick brings each client Rate, up to the burst.
LEMMA LevelAfterTick ==
    ASSUME RLTypeOK, Tick, NEW k \in Client
    PROVE  Level(k)' = Lower(Capacity, Level(k) + Rate)
<1>1. now' = now + 1 /\ buckets' = buckets /\ now \in Nat
  BY DEF Tick, RLTypeOK
<1>2. CASE k \notin DOMAIN buckets
  BY <1>1, <1>2, CapacityType DEF Level, Capacity, Lower
<1>3. CASE k \in DOMAIN buckets
  <2>1. /\ buckets[k].tokens \in 0..Capacity /\ buckets[k].lastSeen \in 0..now
    BY <1>3 DEF RLTypeOK
  <2>2. /\ (now - buckets[k].lastSeen) * Rate \in Nat
        /\ (now' - buckets[k].lastSeen) * Rate = (now - buckets[k].lastSeen) * Rate + Rate
    BY <1>1, <2>1, Products
  <2>3. Level(k)' = Lower(Capacity, buckets[k].tokens + (now' - buckets[k].lastSeen) * Rate)
    BY <1>1, <1>3 DEF Level, Refilled, Capacity
  <2> DEFINE x == (now - buckets[k].lastSeen) * Rate
  <2>4. Level(k) = Lower(Capacity, buckets[k].tokens + x)
    BY <1>3 DEF Level, Refilled
  <2>5. Level(k)' = Lower(Capacity, buckets[k].tokens + (x + Rate))
    BY <2>2, <2>3, Zenon
  <2>6. x \in Nat
    BY <2>2
  <2> HIDE DEF x
  <2> QED BY <2>1, <2>4, <2>5, <2>6, CapacityType DEF Lower
<1> QED BY <1>2, <1>3

-----------------------------------------------------------------------------
(* The invariant. *)

LEMMA Initially == RLInit => IInv
<1> SUFFICES ASSUME RLInit PROVE IInv
  OBVIOUS
<1>1. DOMAIN buckets = {}
  BY DEF RLInit
<1>2. RLTypeOK
  BY <1>1 DEF RLInit, RLTypeOK
<1>3. Spent
  <2> SUFFICES ASSUME NEW k \in Client
               PROVE  win[k].granted * One + Level(k) <= Capacity + (now - win[k].since) * Rate
    BY DEF Spent
  <2>1. win[k].granted * One = 0 /\ (now - win[k].since) * Rate = 0
    BY Products DEF RLInit
  <2> QED BY <1>1, <2>1, CapacityType DEF Level
<1> QED BY <1>2, <1>3 DEF IInv

\* A step that sets the bucket of one client, with t tokens, and grants the
\* client at most what its level loses.
LEMMA AfterSet ==
    ASSUME IInv, NEW k \in Client, NEW t \in 0..Capacity, SetBucket(k, t), now' = now,
           verdict' \in [Client -> {"none", "admitted", "refused"}],
           \/ Grant(k) /\ Level(k) = t + One
           \/ win' = win /\ Level(k) = t
    PROVE  IInv'
<1> USE DEF IInv
<1>1. /\ DOMAIN buckets' = DOMAIN buckets \cup {k}
      /\ \A i \in DOMAIN buckets' :
            buckets'[i].tokens \in 0..Capacity /\ buckets'[i].lastSeen \in 0..now
      /\ Level(k)' = t
      /\ \A i \in Client : i # k => Level(i)' = Level(i)
  BY LevelAfterSet
<1>2. /\ win' \in [Client -> [since : Nat, granted : Nat]]
      /\ \A i \in Client : win'[i].since = win[i].since
      /\ \A i \in Client : i # k => win'[i] = win[i]
  BY DEF Grant, RLTypeOK
<1>3. RLTypeOK'
  BY <1>1, <1>2 DEF RLTypeOK, Capacity
<1>4. Spent'
  <2> SUFFICES ASSUME NEW i \in Client
               PROVE  win'[i].granted * One + Level(i)' <= Capacity + (now - win[i].since) * Rate
    BY <1>2 DEF Spent, Capacity
  <2>1. win[i].granted * One + Level(i) <= Capacity + (now - win[i].since) * Rate
    BY DEF Spent
  <2>2. CASE i # k \/ win' = win
    BY <1>1, <1>2, <2>1, <2>2, LevelType DEF Grant, RLTypeOK
  <2>3. CASE i = k /\ Grant(k) /\ Level(k) = t + One
    <3>1. win'[k].granted = win[k].granted + 1 /\ win[k].granted \in Nat
      BY <2>3 DEF Grant, RLTypeOK
    <3>2. win'[k].granted * One = win[k].granted * One + One /\ win[k].granted * One \in Nat
      BY <3>1, Products
    <3> DEFINE g == win[k].granted * One
               h == win'[k].granted * One
               b == Capacity + (now - win[k].since) * Rate
    <3>3. h = g + One /\ g \in Nat /\ g + (t + One) <= b
      BY <2>1, <2>3, <3>2
    <3>4. b \in Int
      BY Products, CapacityType DEF RLTypeOK
    <3>5. h + t <= b
      <4> HIDE DEF g, h, b
      <4> QED BY <3>3, <3>4, CapacityType
    <3> QED BY <1>1, <2>3, <3>5
  <2> QED BY <2>2, <2>3
<1> QED BY <1>3, <1>4

LEMMA Steps == IInv /\ [RLNext]_rlVars => IInv'
<1> SUFFICES ASSUME IInv, [RLNext]_rlVars PROVE IInv'
  OBVIOUS
<1> USE DEF IInv
<1>1. ASSUME NEW k \in Client, AllowNew(k) PROVE IInv'
  <2>1. (Burst - 1) * One = Capacity - One
    BY Products DEF Capacity
  <2>2. (Burst - 1) * One \in 0..Capacity /\ Level(k) = (Burst - 1) * One + One
    BY <1>1, <2>1, CapacityType DEF AllowNew, Level
  <2>3. verdict' \in [Client -> {"none", "admitted", "refused"}] /\ now' = now
    BY <1>1 DEF AllowNew, Grant, RLTypeOK
  <2> QED BY <1>1, <2>2, <2>3, AfterSet DEF AllowNew
<1>2. ASSUME NEW k \in Client, AllowKnown(k) PROVE IInv'
  <2>1. Refilled(k) - One \in 0..Capacity /\ Level(k) = (Refilled(k) - One) + One
    BY <1>2, LevelType, CapacityType DEF AllowKnown
  <2>2. verdict' \in [Client -> {"none", "admitted", "refused"}] /\ now' = now
    BY <1>2 DEF AllowKnown, Grant, RLTypeOK
  <2> QED BY <1>2, <2>1, <2>2, AfterSet DEF AllowKnown
<1>3. ASSUME NEW k \in Client, Refuse(k) PROVE IInv'
  <2>1. Refilled(k) \in 0..Capacity /\ Level(k) = Refilled(k)
    BY <1>3, LevelType DEF Refuse
  <2>2. /\ verdict' \in [Client -> {"none", "admitted", "refused"}]
        /\ now' = now /\ win' = win
    BY <1>3 DEF Refuse, RLTypeOK
  <2> QED BY <1>3, <2>1, <2>2, AfterSet DEF Refuse
<1>4. ASSUME NEW k \in Client, OpenWindow(k) PROVE IInv'
  <2>1. RLTypeOK'
    BY <1>4 DEF OpenWindow, RLTypeOK, Capacity
  <2>2. ASSUME NEW i \in Client
        PROVE  win'[i].granted * One + Level(i)' <= Capacity + (now' - win'[i].since) * Rate
    <3>1. Level(i)' = Level(i) /\ Level(i) \in 0..Capacity /\ now' = now /\ now \in Nat
      BY <1>4, LevelType DEF OpenWindow, Level, Refilled, Capacity, RLTypeOK
    <3>2. CASE i = k
      <4>1. win'[k] = [since |-> now, granted |-> 0]
        BY <1>4 DEF OpenWindow, RLTypeOK
      <4>2. win'[k].granted * One = 0 /\ (now - win'[k].since) * Rate = 0
        BY <3>1, <4>1, Products
      <4> QED BY <3>1, <3>2, <4>2, CapacityType
    <3>3. CASE i # k
      BY <1>4, <3>1, <3>3 DEF OpenWindow, Spent, RLTypeOK
    <3> QED BY <3>2, <3>3
  <2> QED BY <2>1, <2>2 DEF Spent, Capacity
<1>5. ASSUME Sweep PROVE IInv'
  <2>1. RLTypeOK'
    BY <1>5, LevelAfterSweep DEF Sweep, RLTypeOK, Capacity
  <2> QED BY <1>5, <2>1, LevelAfterSweep DEF Sweep, Spent, Capacity
<1>6. ASSUME Tick PROVE IInv'
  <2>1. now' = now + 1 /\ now \in Nat /\ UNCHANGED <<buckets, verdict, win>>
    BY <1>6 DEF Tick, RLTypeOK
  <2>2. RLTypeOK'
    BY <2>1 DEF RLTypeOK, Capacity
  <2>3. ASSUME NEW i \in Client
        PROVE  win'[i].granted * One + Level(i)' <= Capacity + (now' - win'[i].since) * Rate
    <3> DEFINE g == win[i].granted * One
               b == (now - win[i].since) * Rate
    <3>1. g + Level(i) <= Capacity + b
      BY DEF Spent
    <3>2. Level(i)' = Lower(Capacity, Level(i) + Rate) /\ Level(i) \in 0..Capacity
      BY <1>6, LevelAfterTick, LevelType
    <3>3. (now' - win[i].since) * Rate = b + Rate
      BY <2>1, Products DEF RLTypeOK
    <3>4. g \in Nat /\ b \in Int
      BY <2>1, Products DEF RLTypeOK
    <3>5. g + Level(i)' <= Capacity + (b + Rate)
      <4> HIDE DEF g, b
      <4> QED BY <3>1, <3>2, <3>4, CapacityType DEF Lower
    <3>6. (now' - win'[i].since) * Rate = b + Rate /\ win'[i].granted * One = g
      BY <2>1, <3>3, Zenon
    <3> HIDE DEF g, b
    <3> QED BY <3>5, <3>6
  <2> QED BY <2>2, <2>3 DEF Spent, Capacity
<1>7. CASE UNCHANGED rlVars
  BY <1>7 DEF rlVars, RLTypeOK, Spent, Level, Refilled, Capacity
<1> QED BY <1>1, <1>2, <1>3, <1>4, <1>5, <1>6, <1>7 DEF RLNext

LEMMA Invariance == RLSpec => []IInv
BY Initially, Steps, PTL DEF RLSpec

\* In any window of any client the requests allow() admitted are at most the
\* burst and what the window refills, whatever the sweeper deleted meanwhile.
THEOREM RateCorrect == RLSpec => [](RLTypeOK /\ RateBound)
<1>1. IInv => RLTypeOK /\ RateBound
  <2> SUFFICES ASSUME IInv, NEW k \in Client
               PROVE  win[k].granted * One <= Capacity + (now - win[k].since) * Rate
    BY DEF IInv, RateBound
  <2> DEFINE g == win[k].granted * One
             b == (now - win[k].since) * Rate
  <2>1. g + Level(k) <= Capacity + b
    BY DEF IInv, Spent
  <2>2. Level(k) \in Nat
    BY LevelType, CapacityType DEF IInv
  <2>3. g \in Nat /\ b \in Int
    BY Products DEF IInv, RLTypeOK
  <2> HIDE DEF g, b
  <2>4. g <= Capacity + b
    BY <2>1, <2>2, <2>3, CapacityType
  <2> QED BY <2>4 DEF g, b
<1> QED BY <1>1, Invariance, PTL

-----------------------------------------------------------------------------
(* The token bucket. *)

\* Seen through Level, RateLimiter takes the steps of TokenBucket: creating,
\* refilling lazily and sweeping cannot be told from a bucket kept for ever.
THEOREM RefinesTokenBucket == RLSpec => ImplementsTokenBucket
<1> USE DEF IInv, Bucket!tbVars
<1> DEFINE L == [k \in Client |-> Level(k)]
<1>1. RLInit => Bucket!TBInit
  <2> SUFFICES ASSUME RLInit PROVE Bucket!TBInit
    OBVIOUS
  <2>1. \A k \in Client : Level(k) = Burst * One
    BY DEF RLInit, Level, Capacity
  <2> QED BY <2>1 DEF RLInit, Bucket!TBInit
<1>2. ASSUME IInv, [RLNext]_rlVars PROVE [Bucket!TBNext]_(Bucket!tbVars)
  <2>1. ASSUME NEW k \in Client, NEW t \in 0..Capacity, SetBucket(k, t), now' = now
        PROVE  L' = [L EXCEPT ![k] = t]
    BY <1>2, <2>1, LevelAfterSet
  <2>2. ASSUME NEW k \in Client, NEW t \in 0..Capacity, SetBucket(k, t), Grant(k),
               Level(k) = t + One
        PROVE  Bucket!Take(k)
    <3>1. L' = [L EXCEPT ![k] = t]
      BY <2>1, <2>2 DEF Grant
    <3>2. L[k] = t + One /\ L[k] >= One /\ L[k] - One = t
      BY <2>2, CapacityType
    <3> QED BY <2>2, <3>1, <3>2 DEF Bucket!Take, Grant
  <2>3. ASSUME NEW k \in Client, AllowNew(k) PROVE Bucket!TBNext
    <3>1. (Burst - 1) * One = Capacity - One
      BY Products DEF Capacity
    <3>2. (Burst - 1) * One \in 0..Capacity /\ Level(k) = (Burst - 1) * One + One
      BY <2>3, <3>1, CapacityType DEF AllowNew, Level
    <3>3. Bucket!Take(k)
      BY <2>2, <2>3, <3>2 DEF AllowNew
    <3> QED BY <3>3 DEF Bucket!TBNext
  <2>4. ASSUME NEW k \in Client, AllowKnown(k) PROVE Bucket!TBNext
    <3>1. Refilled(k) - One \in 0..Capacity /\ Level(k) = (Refilled(k) - One) + One
      BY <1>2, <2>4, LevelType, CapacityType DEF AllowKnown
    <3>2. Bucket!Take(k)
      BY <2>2, <2>4, <3>1 DEF AllowKnown
    <3> QED BY <3>2 DEF Bucket!TBNext
  <2>5. ASSUME NEW k \in Client, Refuse(k) PROVE Bucket!TBNext
    <3>1. Refilled(k) \in 0..Capacity /\ Level(k) = Refilled(k) /\ Refilled(k) < One
      BY <1>2, <2>5, LevelType DEF Refuse
    <3>2. L' = [L EXCEPT ![k] = Level(k)] /\ L[k] < One
      BY <2>1, <2>5, <3>1 DEF Refuse
    <3>3. L' = L
      BY <3>2
    <3>4. Bucket!Deny(k)
      BY <2>5, <3>2, <3>3 DEF Refuse, Bucket!Deny
    <3> QED BY <3>4 DEF Bucket!TBNext
  <2>6. ASSUME NEW k \in Client, OpenWindow(k) PROVE UNCHANGED Bucket!tbVars
    BY <2>6 DEF OpenWindow, Level, Refilled, Capacity
  <2>7. ASSUME Sweep PROVE UNCHANGED Bucket!tbVars
    BY <1>2, <2>7, LevelAfterSweep DEF Sweep
  <2>8. ASSUME Tick PROVE Bucket!Refill
    <3>1. \A k \in Client : Level(k)' = Lower(Capacity, Level(k) + Rate)
      BY <1>2, <2>8, LevelAfterTick
    <3>2. L' = [k \in Client |-> Bucket!Lesser(Burst * One, L[k] + Rate)]
      BY <3>1 DEF Lower, Bucket!Lesser, Capacity
    <3> QED BY <2>8, <3>2 DEF Tick, Bucket!Refill
  <2>9. CASE UNCHANGED rlVars
    BY <2>9 DEF rlVars, Level, Refilled, Capacity
  <2> QED BY <1>2, <2>3, <2>4, <2>5, <2>6, <2>7, <2>8, <2>9 DEF RLNext, Bucket!TBNext
<1> QED BY <1>1, <1>2, Invariance, PTL DEF RLSpec, ImplementsTokenBucket, Bucket!TBSpec

-----------------------------------------------------------------------------
(* The three side by side, as the run has them. *)

\* Whichever of the three runs, all keep their types, tokens between none and
\* the burst included: none of them touches another's state.
THEOREM MiddlewareTyped == MCSpec => []MiddlewareTypeOK
<1> DEFINE All == IPInv /\ CLInv /\ IInv
<1>1. MCInit => All
  BY IPInitInv, CLInitInv, Initially DEF MCInit
<1>2. All /\ [MCNext]_mcVars => All'
  <2> SUFFICES ASSUME All, [MCNext]_mcVars  PROVE All'
    OBVIOUS
  <2>1. [IPNext]_ipVars /\ [CLNext]_clVars /\ [RLNext]_rlVars
    BY DEF MCNext, mcVars, ipVars, clVars, rlVars
  <2> QED BY <2>1, IPNextInv, CLNextInv, Steps
<1>3. All => MiddlewareTypeOK
  BY DEF IPInv, CLInv, IInv, MiddlewareTypeOK
<1> QED BY <1>1, <1>2, <1>3, PTL DEF MCSpec
=============================================================================
