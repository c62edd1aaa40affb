---------------------------- MODULE LimiterProofs ----------------------------
(* The two limiters of internal/middleware that count: correct for any        *)
(* clients, callers and limits. DownloadRefinements cites these theorems for  *)
(* the limiters of the handlers.                                              *)
EXTENDS InFlightLimiter, ConcurrencyLimiter, FiniteSetTheorems, TLAPS

USE CallerAssumption, MaxPerKeyAssumption, OutsideAssumption,
    WorkerAssumption, MaxSlotsAssumption DEF Place

-----------------------------------------------------------------------------
(* The per-client limiter. *)

\* An entry of the map is the positive number of its key's holders: with a
\* limit in force, that is all the properties need.
Exact ==
    Limited => \A k \in Key :
        /\ Count(k) = Cardinality(Holders(k))
        /\ Count(k) <= MaxPerKey
        /\ k \in DOMAIN n => n[k] > 0

UnusedIfUnlimited == ~Limited => DOMAIN n = {}

IPInv == IPTypeOK /\ Exact /\ UnusedIfUnlimited

LEMMA HoldersFinite ==
    ASSUME NEW k PROVE IsFiniteSet(Holders(k)) /\ Cardinality(Holders(k)) \in Nat
BY FS_Subset, FS_CardinalityType DEF Holders

LEMMA IPInitInv == IPInit => IPInv
<1> SUFFICES ASSUME IPInit PROVE IPInv
  OBVIOUS
<1>1. \A k \in Key : Holders(k) = {} /\ Count(k) = 0
  BY DEF IPInit, Holders, Count
<1>2. \A k \in Key : Cardinality(Holders(k)) = 0
  BY <1>1, FS_EmptySet
<1> QED BY <1>1, <1>2 DEF IPInit, IPInv, IPTypeOK, Exact, UnusedIfUnlimited, Limited

LEMMA IPNextInv == IPInv /\ [IPNext]_ipVars => IPInv'
<1> SUFFICES ASSUME IPInv, [IPNext]_ipVars PROVE IPInv'
  OBVIOUS
<1>1. ASSUME NEW c \in Caller, NEW k \in Key, Acquire(c, k) PROVE IPInv'
  <2>1. /\ holds[c] = Outside /\ ~Full(k)
        /\ holds' = [holds EXCEPT ![c] = k]
        /\ n' = IF Limited THEN Put(k, Count(k) + 1) ELSE n
    BY <1>1 DEF Acquire, Enter
  <2>2. /\ Holders(k)' = Holders(k) \cup {c} /\ c \notin Holders(k)
        /\ \A i \in Key : i # k => Holders(i)' = Holders(i)
    BY <2>1 DEF Holders, IPInv, IPTypeOK
  <2>3. Cardinality(Holders(k)') = Cardinality(Holders(k)) + 1
    BY <2>2, HoldersFinite, FS_AddElement
  <2>4. CASE ~Limited
    BY <2>1, <2>4 DEF IPInv, IPTypeOK, Exact, UnusedIfUnlimited, Limited
  <2>5. CASE Limited
    <3>1. n' = Put(k, Count(k) + 1) /\ Count(k) < MaxPerKey /\ Count(k) \in Nat
      BY <2>1, <2>5, HoldersFinite DEF Full, IPInv, Exact
    <3>2. /\ DOMAIN n' = DOMAIN n \cup {k}
          /\ \A i \in DOMAIN n' : n'[i] = IF i = k THEN Count(k) + 1 ELSE n[i]
      BY <3>1 DEF Put
    <3>3. IPTypeOK'
      BY <2>1, <3>1, <3>2 DEF IPInv, IPTypeOK
    <3>4. \A i \in Key : Count(i)' = IF i = k THEN Count(k) + 1 ELSE Count(i)
      BY <3>2 DEF Count
    <3>5. Exact'
      <4> SUFFICES ASSUME NEW i \in Key
                   PROVE  /\ Count(i)' = Cardinality(Holders(i)')
                          /\ Count(i)' <= MaxPerKey
                          /\ i \in DOMAIN n' => n'[i] > 0
        BY DEF Exact, Limited
      <4>1. CASE i = k
        BY <4>1, <2>3, <2>5, <3>1, <3>2, <3>4 DEF IPInv, Exact
      <4>2. CASE i # k
        BY <4>2, <2>2, <2>5, <3>2, <3>4 DEF IPInv, Exact
      <4> QED BY <4>1, <4>2
    <3> QED BY <2>5, <3>3, <3>5 DEF IPInv, UnusedIfUnlimited, Limited
  <2> QED BY <2>4, <2>5
<1>2. ASSUME NEW c \in Caller, NEW k \in Key, Release(c, k) PROVE IPInv'
  <2>1. holds[c] = k /\ holds' = [holds EXCEPT ![c] = Outside] /\ Leave(k)
    BY <1>2 DEF Release
  <2>2. /\ Holders(k)' = Holders(k) \ {c} /\ c \in Holders(k)
        /\ \A i \in Key : i # k => Holders(i)' = Holders(i)
    BY <2>1 DEF Holders, IPInv, IPTypeOK
  <2>3. Cardinality(Holders(k)') = Cardinality(Holders(k)) - 1
    BY <2>2, HoldersFinite, FS_RemoveElement
  <2>4. CASE ~Limited
    BY <2>1, <2>4 DEF Leave, IPInv, IPTypeOK, Exact, UnusedIfUnlimited, Limited
  <2>5. CASE Limited
    <3>1. Count(k) \in Nat /\ Count(k) = Cardinality(Holders(k)) /\ Count(k) <= MaxPerKey
      BY <2>5, HoldersFinite DEF IPInv, Exact
    <3>2. Count(k) > 0
      BY <3>1, <2>3, HoldersFinite, <2>2, FS_RemoveElement, FS_EmptySet
    <3>3. CASE Count(k) = 1
      <4>1. n' = Delete(k)
        BY <2>1, <2>5, <3>3 DEF Leave
      <4>2. DOMAIN n' = DOMAIN n \ {k} /\ \A i \in DOMAIN n' : n'[i] = n[i]
        BY <4>1 DEF Delete, Restrict
      <4>3. IPTypeOK'
        BY <2>1, <4>1, <4>2 DEF IPInv, IPTypeOK
      <4>4. \A i \in Key : Count(i)' = IF i = k THEN 0 ELSE Count(i)
        BY <4>2 DEF Count
      <4>5. Exact'
        <5> SUFFICES ASSUME NEW i \in Key
                     PROVE  /\ Count(i)' = Cardinality(Holders(i)')
                            /\ Count(i)' <= MaxPerKey
                            /\ i \in DOMAIN n' => n'[i] > 0
          BY DEF Exact, Limited
        <5>1. CASE i = k
          BY <5>1, <2>3, <3>1, <3>3, <4>2, <4>4
        <5>2. CASE i # k
          BY <5>2, <2>2, <2>5, <4>2, <4>4 DEF IPInv, Exact
        <5> QED BY <5>1, <5>2
      <4> QED BY <2>5, <4>3, <4>5 DEF IPInv, UnusedIfUnlimited, Limited
    <3>4. CASE Count(k) > 1
      <4>1. n' = Put(k, Count(k) - 1)
        BY <2>1, <2>5, <3>1, <3>4 DEF Leave
      <4>2. /\ DOMAIN n' = DOMAIN n \cup {k}
            /\ \A i \in DOMAIN n' : n'[i] = IF i = k THEN Count(k) - 1 ELSE n[i]
        BY <4>1 DEF Put
      <4>3. IPTypeOK'
        BY <2>1, <3>1, <4>1, <4>2 DEF IPInv, IPTypeOK
      <4>4. \A i \in Key : Count(i)' = IF i = k THEN Count(k) - 1 ELSE Count(i)
        BY <4>2 DEF Count
      <4>5. Exact'
        <5> SUFFICES ASSUME NEW i \in Key
                     PROVE  /\ Count(i)' = Cardinality(Holders(i)')
                            /\ Count(i)' <= MaxPerKey
                            /\ i \in DOMAIN n' => n'[i] > 0
          BY DEF Exact, Limited
        <5>1. CASE i = k
          BY <5>1, <2>3, <3>1, <3>4, <4>2, <4>4
        <5>2. CASE i # k
          BY <5>2, <2>2, <2>5, <4>2, <4>4 DEF IPInv, Exact
        <5> QED BY <5>1, <5>2
      <4> QED BY <2>5, <4>3, <4>5 DEF IPInv, UnusedIfUnlimited, Limited
    <3> QED BY <3>1, <3>2, <3>3, <3>4
  <2> QED BY <2>4, <2>5
<1>3. CASE UNCHANGED ipVars
  BY <1>3 DEF ipVars, IPInv, IPTypeOK, Exact, UnusedIfUnlimited, Limited, Count, Holders
<1> QED BY <1>1, <1>2, <1>3 DEF IPNext

LEMMA IPInvariance == IPSpec => []IPInv
BY IPInitInv, IPNextInv, PTL DEF IPSpec

\* Each client's count is the number of its downloads in progress: no release
\* is missed or done twice (Acquire and its release).
THEOREM LimiterCorrect == IPSpec => [](IPTypeOK /\ CountsHolders)
<1>1. IPInv => IPTypeOK /\ CountsHolders
  BY HoldersFinite DEF IPInv, Exact, CountsHolders
<1> QED BY <1>1, IPInvariance, PTL

\* With a limit in force, no client has more downloads in progress than it.
THEOREM LimitKept == IPSpec => []AtMostMaxPerKey
<1>1. IPInv => AtMostMaxPerKey
  BY DEF IPInv, Exact, AtMostMaxPerKey
<1> QED BY <1>1, IPInvariance, PTL

\* The map has no entry of a client that is idle: the release that brings a
\* count to zero deletes it.
THEOREM IdleClientsForgotten == IPSpec => []OnlyBusyKeys
<1>1. IPInv => OnlyBusyKeys
  <2> SUFFICES ASSUME IPInv, NEW k \in DOMAIN n PROVE \E c \in Caller : holds[c] = k
    BY DEF OnlyBusyKeys
  <2>1. k \in Key /\ Limited /\ n[k] > 0 /\ n[k] = Cardinality(Holders(k))
    BY DEF IPInv, IPTypeOK, UnusedIfUnlimited, Exact, Count
  <2>2. Holders(k) # {}
    BY <2>1, FS_EmptySet
  <2> QED BY <2>2 DEF Holders
<1> QED BY <1>1, IPInvariance, PTL

-----------------------------------------------------------------------------
(* The semaphore. *)

\* That the slots count the callers inside and stay within the channel's
\* capacity is inductive with the types; the properties follow.
CLInv == CLTypeOK /\ SlotsAreHolders /\ slots <= MaxSlots

LEMMA InsideFinite == IsFiniteSet(Inside) /\ Cardinality(Inside) \in Nat
BY FS_Subset, FS_CardinalityType DEF Inside

LEMMA CLInitInv == CLInit => CLInv
<1> SUFFICES ASSUME CLInit PROVE CLInv
  OBVIOUS
<1>1. Inside = {}
  BY DEF CLInit, Inside
<1>2. Cardinality(Inside) = 0
  BY <1>1, FS_EmptySet
<1> QED BY <1>2 DEF CLInit, CLInv, CLTypeOK, SlotsAreHolders

LEMMA CLNextInv == CLInv /\ [CLNext]_clVars => CLInv'
<1> SUFFICES ASSUME CLInv, [CLNext]_clVars PROVE CLInv'
  OBVIOUS
<1>1. ASSUME NEW c \in Worker, Wait(c) \/ GiveUp(c) PROVE CLInv'
  <2>1. slots' = slots /\ CLTypeOK'
    BY <1>1 DEF Wait, GiveUp, Move, CLInv, CLTypeOK
  <2>2. Inside' = Inside
    BY <1>1 DEF Wait, GiveUp, Move, CLInv, CLTypeOK, Inside
  <2> QED BY <2>1, <2>2 DEF CLInv, SlotsAreHolders
<1>2. ASSUME NEW c \in Worker, EnterSlot(c) PROVE CLInv'
  <2>1. slots < MaxSlots /\ slots' = slots + 1 /\ CLTypeOK'
    BY <1>2 DEF EnterSlot, Move, TakeSlot, CLInv, CLTypeOK
  <2>2. Inside' = Inside \cup {c} /\ c \notin Inside
    BY <1>2 DEF EnterSlot, Move, CLInv, CLTypeOK, Inside
  <2>3. Cardinality(Inside') = Cardinality(Inside) + 1
    BY <2>2, InsideFinite, FS_AddElement
  <2> QED BY <2>1, <2>3, InsideFinite DEF CLInv, CLTypeOK, SlotsAreHolders
<1>3. ASSUME NEW c \in Worker, LeaveSlot(c) PROVE CLInv'
  <2>1. slots' = slots - 1 /\ CLTypeOK'
    BY <1>3 DEF LeaveSlot, Move, GiveSlot, CLInv, CLTypeOK
  <2>2. Inside' = Inside \ {c} /\ c \in Inside
    BY <1>3 DEF LeaveSlot, Move, CLInv, CLTypeOK, Inside
  <2>3. Cardinality(Inside') = Cardinality(Inside) - 1
    BY <2>2, InsideFinite, FS_RemoveElement
  <2> QED BY <2>1, <2>3, InsideFinite DEF CLInv, CLTypeOK, SlotsAreHolders
<1>4. CASE UNCHANGED clVars
  BY <1>4 DEF clVars, CLInv, CLTypeOK, SlotsAreHolders, Inside
<1> QED BY <1>1, <1>2, <1>3, <1>4 DEF CLNext

LEMMA CLInvariance == CLSpec => []CLInv
BY CLInitInv, CLNextInv, PTL DEF CLSpec

\* The channel counts the callers inside, and a caller inside can always leave
\* without blocking.
THEOREM SemaphoreCorrect == CLSpec => [](CLTypeOK /\ SlotsAreHolders /\ ReleaseNeverBlocks)
<1>1. CLInv => ReleaseNeverBlocks
  <2> SUFFICES ASSUME CLInv, NEW c \in Inside PROVE slots > 0
    BY DEF ReleaseNeverBlocks
  <2>1. Cardinality(Inside) # 0
    BY InsideFinite, FS_EmptySet
  <2> QED BY <2>1, InsideFinite DEF CLInv, SlotsAreHolders
<1>2. CLInv => CLTypeOK /\ SlotsAreHolders /\ ReleaseNeverBlocks
  BY <1>1 DEF CLInv
<1> QED BY <1>2, CLInvariance, PTL

\* The cap: never more requests inside than the limiter was made for, which is
\* cfg.MaxConcurrentYtDlp (cmd/server/main.go:55).
THEOREM CapKept == CLSpec => []AtMostMaxSlots
<1>1. CLInv => AtMostMaxSlots
  BY DEF CLInv, SlotsAreHolders, AtMostMaxSlots
<1> QED BY <1>1, CLInvariance, PTL
=============================================================================
