----------------------------- MODULE PartsProofs ------------------------------
(* The safety of the parts that stand by themselves, for every value of their *)
(* constants: the log file, the probes with their caches, the page of a       *)
(* download and the video converter; and the types of all five of MCParts.    *)
EXTENDS MCParts, StreamProofs, FiniteSetTheorems

USE LogAssumption, ProbeAssumption, PageAssumption, ConvertAssumption

-----------------------------------------------------------------------------
(* The log file. First the arithmetic of days.                                *)

\* A day holds the ticks from its first to the last before the next day's.
LEMMA DayBounds ==
    ASSUME NEW t \in Nat
    PROVE  /\ DayOf(t) \in Nat /\ DayOf(t) <= t
           /\ DayOf(t) * DayLength <= t
           /\ t < DayOf(t) * DayLength + DayLength
  BY DEF DayOf

LEMMA DayMonotone ==
    ASSUME NEW s \in Nat, NEW t \in Nat, s <= t
    PROVE  DayOf(s) <= DayOf(t)
  BY DEF DayOf

LEMMA ProductMonotone ==
    ASSUME NEW a \in Nat, NEW b \in Nat, a <= b
    PROVE  a * DayLength <= b * DayLength
  OBVIOUS

\* The sweep spares every file that is to be kept, the day's own among them:
\* what pruneOld compares are ticks, what LOG_RETENTION_DAYS counts are days.
LEMMA KeptIsNotOld ==
    ASSUME tick \in Nat, NEW d \in Nat, RetentionDays > 0, Today < d + RetentionDays
    PROVE  ~Old(d)
<1>1. Today \in Nat /\ tick < Today * DayLength + DayLength
  BY DayBounds DEF Today
<1>2. (Today + 1) * DayLength <= (d + RetentionDays) * DayLength
  BY <1>1, ProductMonotone
<1>3. (d + RetentionDays) * DayLength = d * DayLength + RetentionDays * DayLength
  OBVIOUS
<1>4. (Today + 1) * DayLength = Today * DayLength + DayLength
  BY <1>1
<1> QED BY <1>1, <1>2, <1>3, <1>4 DEF Old

LEMMA DayIsDay ==
    ASSUME tick \in 0..LastTick
    PROVE  /\ Today \in Day /\ Today \in Nat
           /\ Day \subseteq Nat /\ None \notin Day /\ None \notin Record
<1>1. DayOf(LastTick) \in Nat /\ DayOf(LastTick) <= LastTick
  BY DayBounds
<1>2. Today \in Nat /\ Today <= DayOf(LastTick)
  BY DayBounds, DayMonotone DEF Today
<1> QED BY <1>1, <1>2 DEF Day, None, Record

-----------------------------------------------------------------------------

\* A record has one writer, once; what Write has not taken is in no file.
OneWriter ==
    /\ \A l \in Logger : line[l] # None => line[l] \in 1..records /\ line[l] \notin DOMAIN kept
    /\ \A l, m \in Logger : line[l] # None /\ line[l] = line[m] => l = m
    /\ DOMAIN kept \subseteq 1..records
    /\ \A d \in DOMAIN disk : disk[d] \subseteq DOMAIN kept

Spared(d) == RetentionDays = 0 \/ ~Old(d)

\* The open file is still in the directory unless it may be deleted: without
\* that, what is written to it would be lost.
OpenFileStays == fileDate # None /\ Spared(fileDate) => fileDate \in DOMAIN disk

WhereItBelongs ==
    \A r \in DOMAIN kept :
        /\ Spared(kept[r]) => kept[r] \in DOMAIN disk /\ r \in disk[kept[r]]
        /\ \A d \in DOMAIN disk : r \in disk[d] => d = kept[r]

LfInv ==
    /\ LfTypeOK
    /\ OneWriter /\ OpenFileStays /\ WhereItBelongs

LEMMA LfInitInv == LfInit => LfInv
<1> SUFFICES ASSUME LfInit  PROVE LfInv
  OBVIOUS
<1>1. Today \in Day /\ Today \in Nat /\ Day \subseteq Nat /\ None \notin Day
  BY DayIsDay DEF LfInit
<1>2. LfTypeOK
  BY <1>1 DEF LfInit, LfTypeOK
<1>3. OneWriter /\ OpenFileStays /\ WhereItBelongs
  BY <1>1 DEF LfInit, OneWriter, OpenFileStays, WhereItBelongs
<1> QED BY <1>2, <1>3 DEF LfInv

\* The steps that touch neither the clock nor the directory's files.
LEMMA LfLogInv == ASSUME LfInv, NEW l \in Logger, Log(l)  PROVE LfInv'
<1> USE DEF LfInv, Log
<1>1. DOMAIN line = Logger /\ records + 1 # None /\ records + 1 \in Record
  BY DEF LfTypeOK, None, Record
<1>2. LfTypeOK'
  BY <1>1 DEF LfTypeOK, Today
<1>3. OneWriter'
  BY <1>1 DEF OneWriter, LfTypeOK
<1>4. OpenFileStays' /\ WhereItBelongs'
  BY DEF OpenFileStays, WhereItBelongs, Spared, Old
<1> QED BY <1>2, <1>3, <1>4

\* What Write appends is in today's file, and today's file is in the directory:
\* the open one, unless a sweep may have deleted it, is today's.
LEMMA AppendToday ==
    ASSUME LfTypeOK, OpenFileStays, NEW R, Append(R)
    PROVE  /\ fileDate' = Today
           /\ DOMAIN disk' = DOMAIN disk \cup {Today}
           /\ disk'[Today] = (IF Today \in DOMAIN disk THEN disk[Today] ELSE {}) \cup R
           /\ \A d \in DOMAIN disk : d # Today => disk'[d] = disk[d]
<1>1. Today \in Day /\ Today \in Nat /\ None \notin Day
  BY DayIsDay DEF LfTypeOK
<1>2. Spared(Today)
  BY <1>1, KeptIsNotOld DEF Spared, LfTypeOK
<1>3. MustRotate \/ Today \in DOMAIN disk
  BY <1>1, <1>2 DEF OpenFileStays, MustRotate
<1>4. fileDate' = Today /\ disk' = Appended(Today, R)
  BY <1>3 DEF Append, MustRotate
<1> QED BY <1>4 DEF Appended

LEMMA LfWriteInv == ASSUME LfInv, NEW l \in Logger, WriteOk(l)  PROVE LfInv'
<1> USE DEF LfInv
<1> DEFINE r == line[l]
<1>1. /\ r # None /\ r \in 1..records /\ r \in Record /\ r \notin DOMAIN kept
      /\ DOMAIN line = Logger
  BY DEF WriteOk, LfTypeOK, OneWriter
<1>2. Today \in Day /\ Today \in Nat /\ Day \subseteq Nat /\ None \notin Day
  BY DayIsDay DEF LfTypeOK
<1>3. /\ fileDate' = Today /\ Today' = Today
      /\ line' = [line EXCEPT ![l] = None]
      /\ DOMAIN kept' = DOMAIN kept \cup {r}
      /\ kept'[r] = Today /\ \A x \in DOMAIN kept : kept'[x] = kept[x]
      /\ UNCHANGED <<tick, usable, records>>
  BY <1>1, AppendToday DEF WriteOk, Today
<1>5. /\ DOMAIN disk' = DOMAIN disk \cup {Today}
      /\ disk'[Today] = (IF Today \in DOMAIN disk THEN disk[Today] ELSE {}) \cup {r}
      /\ \A d \in DOMAIN disk : d # Today => disk'[d] = disk[d]
  BY AppendToday DEF WriteOk
<1>6. LfTypeOK'
  BY <1>1, <1>2, <1>3, <1>5 DEF LfTypeOK
<1>7. OneWriter'
  BY <1>1, <1>3, <1>5 DEF OneWriter
<1>8. OpenFileStays'
  BY <1>3, <1>5 DEF OpenFileStays
<1>9. WhereItBelongs'
  <2> SUFFICES ASSUME NEW x \in DOMAIN kept'
               PROVE  /\ Spared(kept[x])' => kept'[x] \in DOMAIN disk' /\ x \in disk'[kept'[x]]
                      /\ \A d \in DOMAIN disk' : x \in disk'[d] => d = kept'[x]
    BY DEF WhereItBelongs
  <2>1. CASE x = r
    BY <2>1, <1>1, <1>3, <1>5 DEF OneWriter
  <2>2. CASE x # r
    <3>1. x \in DOMAIN kept /\ kept'[x] = kept[x]
      BY <2>2, <1>3
    <3>2. Spared(kept[x]) => kept[x] \in DOMAIN disk /\ x \in disk[kept[x]]
      BY <3>1 DEF WhereItBelongs
    <3>3. \A d \in DOMAIN disk : x \in disk[d] => d = kept[x]
      BY <3>1 DEF WhereItBelongs
    <3>4. Spared(kept[x])' <=> Spared(kept[x])
      BY <3>1, <1>3 DEF Spared, Old
    <3> QED BY <3>1, <3>2, <3>3, <3>4, <2>2, <1>5
  <2> QED BY <2>1, <2>2
<1> QED BY <1>3, <1>6, <1>7, <1>8, <1>9

\* A write that fails leaves no record, and may have opened today's file.
LEMMA LfCutShortInv == ASSUME LfInv, NEW l \in Logger, WriteCutShort(l)  PROVE LfInv'
<1> USE DEF LfInv
<1>1. Today \in Day /\ Today \in Nat
  BY DayIsDay DEF LfTypeOK
<1>2. /\ fileDate' = Today /\ line' = [line EXCEPT ![l] = None]
      /\ UNCHANGED <<tick, usable, records, kept>>
  BY AppendToday DEF WriteCutShort
<1>3. /\ DOMAIN disk' = DOMAIN disk \cup {Today}
      /\ disk'[Today] = IF Today \in DOMAIN disk THEN disk[Today] ELSE {}
      /\ \A d \in DOMAIN disk : disk'[d] = disk[d]
  BY AppendToday DEF WriteCutShort
<1>4. LfTypeOK'
  BY <1>1, <1>2, <1>3 DEF LfTypeOK
<1>5. OneWriter'
  BY <1>2, <1>3 DEF OneWriter, LfTypeOK
<1>6. OpenFileStays'
  BY <1>2, <1>3 DEF OpenFileStays
<1>7. WhereItBelongs'
  <2>1. ASSUME NEW d  PROVE Spared(d)' <=> Spared(d)
    BY <1>2 DEF Spared, Old
  <2> QED BY <1>2, <1>3, <2>1 DEF WhereItBelongs
<1> QED BY <1>4, <1>5, <1>6, <1>7

LEMMA LfPruneInv == ASSUME LfInv, Prune  PROVE LfInv'
<1> USE DEF LfInv
<1>1. /\ DOMAIN disk' = { d \in DOMAIN disk : ~Old(d) }
      /\ \A d \in DOMAIN disk' : disk'[d] = disk[d]
      /\ RetentionDays > 0
      /\ UNCHANGED <<tick, usable, line, records, fileDate, kept>>
  BY DEF Prune
<1>2. LfTypeOK'
  BY <1>1 DEF LfTypeOK
<1>3. OneWriter'
  BY <1>1 DEF OneWriter
<1>4. ASSUME NEW d  PROVE Spared(d)' <=> ~Old(d)
  BY <1>1 DEF Spared, Old
<1>5. OpenFileStays'
  BY <1>1, <1>4 DEF OpenFileStays, Spared
<1>6. WhereItBelongs'
  BY <1>1, <1>4 DEF WhereItBelongs, Spared
<1> QED BY <1>1, <1>2, <1>3, <1>5, <1>6

\* A file that is old stays so.
LEMMA LfTickInv == ASSUME LfInv, Tick  PROVE LfInv'
<1> USE DEF LfInv, Tick
<1>1. LfTypeOK'
  BY DEF LfTypeOK
<1>2. OneWriter'
  BY DEF OneWriter
<1>3. ASSUME NEW d \in Nat, Spared(d)'  PROVE Spared(d)
  BY <1>3, d * DayLength \in Nat, RetentionDays * DayLength \in Nat DEF Spared, Old, LfTypeOK
<1>4. Day \subseteq Nat /\ None \notin Day
  BY DayIsDay DEF LfTypeOK
<1>5. OpenFileStays'
  BY <1>3, <1>4 DEF OpenFileStays, LfTypeOK
<1>6. WhereItBelongs'
  BY <1>3, <1>4 DEF WhereItBelongs, LfTypeOK
<1> QED BY <1>1, <1>2, <1>5, <1>6

LEMMA LfNextInv == LfInv /\ [LfNext]_lfVars => LfInv'
<1> SUFFICES ASSUME LfInv, [LfNext]_lfVars  PROVE LfInv'
  OBVIOUS
<1>1. ASSUME NEW l \in Logger, WriteFails(l)  PROVE LfInv'
  BY <1>1 DEF LfInv, WriteFails, LfTypeOK, OneWriter, OpenFileStays, WhereItBelongs,
              Spared, Old, Today
<1>2. CASE DirChanges
  BY <1>2 DEF LfInv, DirChanges, LfTypeOK, OneWriter, OpenFileStays, WhereItBelongs,
              Spared, Old, Today
<1>3. CASE UNCHANGED lfVars
  BY <1>3 DEF LfInv, lfVars, LfTypeOK, OneWriter, OpenFileStays, WhereItBelongs,
              Spared, Old, Today
<1> QED
  BY <1>1, <1>2, <1>3, LfLogInv, LfWriteInv, LfCutShortInv, LfPruneInv, LfTickInv DEF LfNext

LEMMA LfInvLinesAreKept == LfInv => LinesAreKept
<1> SUFFICES ASSUME LfInv, NEW r \in DOMAIN kept,
                    RetentionDays = 0 \/ Today < kept[r] + RetentionDays
             PROVE  Spared(kept[r])
  BY DEF LfInv, LinesAreKept, WhereItBelongs
<1>1. kept[r] \in Nat /\ tick \in Nat
  BY DayIsDay DEF LfInv, LfTypeOK
<1> QED BY <1>1, KeptIsNotOld DEF Spared

\* A record that Write took is in the file of its day alone, for the days that
\* are to be kept: whatever the directory does, whichever writes fail, and
\* whenever the sweep runs (RotatingFile.Write, pruneOld).
THEOREM LogCorrect == LfSpec => [](LfTypeOK /\ LinesAreKept)
<1>1. LfInv => LfTypeOK /\ LinesAreKept
  BY LfInvLinesAreKept DEF LfInv
<1> QED BY LfInitInv, LfNextInv, <1>1, PTL DEF LfSpec
-----------------------------------------------------------------------------
(* The probes. First what the operations on a cache do to its size and ages,  *)
(* for any cache: ProbeCache and fxCache alike.                               *)

Sized(cache, Key, ttl, n) ==
    /\ DOMAIN cache \subseteq Key
    /\ IsFiniteSet(DOMAIN cache) /\ Cardinality(DOMAIN cache) <= n
    /\ \A k \in DOMAIN cache : cache[k] \in 0..(ttl + 1)

LEMMA WithoutSized ==
    ASSUME NEW cache, NEW Key, NEW ttl, NEW n \in Int, Sized(cache, Key, ttl, n), NEW S
    PROVE  Sized(Without(cache, S), Key, ttl, n)
<1>1. DOMAIN Without(cache, S) \in SUBSET DOMAIN cache
  BY DEF Without
<1>2. /\ IsFiniteSet(DOMAIN Without(cache, S))
      /\ Cardinality(DOMAIN Without(cache, S)) <= Cardinality(DOMAIN cache)
  BY <1>1, FS_Subset DEF Sized
<1>3. Cardinality(DOMAIN Without(cache, S)) \in Nat /\ Cardinality(DOMAIN cache) \in Nat
  BY <1>2, FS_CardinalityType DEF Sized
<1> QED BY <1>1, <1>2, <1>3 DEF Sized, Without

\* An eviction makes room for one.
LEMMA EvictSized ==
    ASSUME NEW cache, NEW Key, NEW ttl, NEW n \in Int, Sized(cache, Key, ttl, n),
           NEW o \in DOMAIN cache
    PROVE  Sized(Without(cache, {o}), Key, ttl, n - 1)
<1>1. DOMAIN Without(cache, {o}) = DOMAIN cache \ {o}
  BY DEF Without
<1>2. /\ IsFiniteSet(DOMAIN cache \ {o})
      /\ Cardinality(DOMAIN cache \ {o}) = Cardinality(DOMAIN cache) - 1
  BY FS_RemoveElement DEF Sized
<1>3. Cardinality(DOMAIN cache) \in Nat
  BY FS_CardinalityType DEF Sized
<1> QED BY <1>1, <1>2, <1>3 DEF Sized, Without

LEMMA WithSized ==
    ASSUME NEW cache, NEW Key, NEW ttl \in Nat, NEW n \in Int, NEW key \in Key,
           \/ Sized(cache, Key, ttl, n - 1)
           \/ Sized(cache, Key, ttl, n) /\ key \in DOMAIN cache
    PROVE  Sized(With(cache, key), Key, ttl, n)
<1>1. DOMAIN With(cache, key) = DOMAIN cache \cup {key} /\ IsFiniteSet(DOMAIN cache)
  BY DEF With, Sized
<1>2. /\ IsFiniteSet(DOMAIN cache \cup {key})
      /\ Cardinality(DOMAIN cache \cup {key}) = IF key \in DOMAIN cache
                                                THEN Cardinality(DOMAIN cache)
                                                ELSE Cardinality(DOMAIN cache) + 1
  BY <1>1, FS_AddElement
<1>3. Cardinality(DOMAIN cache) \in Nat
  BY <1>1, FS_CardinalityType
<1>4. Cardinality(DOMAIN With(cache, key)) <= n
  BY <1>1, <1>2, <1>3 DEF Sized
<1> QED BY <1>1, <1>2, <1>4 DEF Sized, With

LEMMA OlderSized ==
    ASSUME NEW cache, NEW Key, NEW ttl \in Nat, NEW n, Sized(cache, Key, ttl, n)
    PROVE  Sized(Older(cache, ttl), Key, ttl, n)
<1>1. DOMAIN Older(cache, ttl) = DOMAIN cache
  BY DEF Older
<1> QED BY <1>1 DEF Older, Sized

\* Both Sets, each with the room it makes.
LEMMA ProbeSetSized ==
    ASSUME Sized(probes, Url, ProbeTTL, MaxProbes), NEW u \in Url, ProbeSet(u)
    PROVE  Sized(probes', Url, ProbeTTL, MaxProbes)
<1> DEFINE full == Cardinality(DOMAIN probes) >= MaxProbes
<1>1. CASE ProbeTTL = 0
  BY <1>1 DEF ProbeSet
<1>2. CASE ProbeTTL # 0 /\ u \notin DOMAIN probes /\ full
  <2>1. PICK o \in DOMAIN probes : probes' = With(Without(probes, {o}), u)
    BY <1>2 DEF ProbeSet, Oldest
  <2> QED BY <2>1, EvictSized, WithSized
<1>3. CASE ProbeTTL # 0 /\ u \in DOMAIN probes
  BY <1>3, WithSized DEF ProbeSet
<1>4. CASE ProbeTTL # 0 /\ u \notin DOMAIN probes /\ ~full
  <2>1. Cardinality(DOMAIN probes) \in Nat
    BY FS_CardinalityType DEF Sized
  <2>2. Sized(probes, Url, ProbeTTL, MaxProbes - 1)
    BY <1>4, <2>1 DEF Sized
  <2> QED BY <1>4, <2>2, WithSized DEF ProbeSet
<1> QED BY <1>1, <1>2, <1>3, <1>4

LEMMA FxSetSized ==
    ASSUME Sized(tweets, Tweet, FxTTL, MaxTweets), NEW t \in Tweet, FxSet(t)
    PROVE  Sized(tweets', Tweet, FxTTL, MaxTweets)
<1> DEFINE live == Without(tweets, Expired(tweets, FxTTL))
<1>1. Sized(live, Tweet, FxTTL, MaxTweets)
  BY WithoutSized
<1> HIDE DEF live
<1>2. IF Cardinality(DOMAIN live) >= MaxTweets
      THEN \E o \in Oldest(live) : tweets' = With(Without(live, {o}), t)
      ELSE tweets' = With(live, t)
  BY DEF FxSet, live
<1>3. CASE Cardinality(DOMAIN live) >= MaxTweets
  <2>1. PICK o \in DOMAIN live : tweets' = With(Without(live, {o}), t)
    BY <1>2, <1>3 DEF Oldest
  <2> QED BY <1>1, <2>1, EvictSized, WithSized
<1>4. CASE ~(Cardinality(DOMAIN live) >= MaxTweets)
  <2>1. Cardinality(DOMAIN live) \in Nat
    BY <1>1, FS_CardinalityType DEF Sized
  <2>2. Sized(live, Tweet, FxTTL, MaxTweets - 1)
    BY <1>1, <1>4, <2>1 DEF Sized
  <2> QED BY <1>2, <1>4, <2>2, WithSized
<1> QED BY <1>3, <1>4

-----------------------------------------------------------------------------

CallType ==
    [Caller -> [pc : {"idle", "ytdlp", "lookup", "request", "store"},
                url : Url \cup {NoUrl}, op : {"probe", "resolve"}, attempt : 0..MaxAttempts]]

\* A busy caller has a URL, and one that asks for a tweet has that of a tweet:
\* what it caches has a key of the cache.
CallHasKey ==
    \A c \in Caller :
        /\ call[c].pc # "idle" => call[c].url \in Url
        /\ call[c].pc \in {"lookup", "request"} => TweetOf[call[c].url] \in Tweet

PbInv ==
    /\ call \in CallType /\ CallHasKey
    /\ Sized(probes, Url, ProbeTTL, MaxProbes)
    /\ Sized(tweets, Tweet, FxTTL, MaxTweets)

LEMMA PbInvType == PbInv => PbTypeOK
  BY DEF PbInv, PbTypeOK, Sized, CallType

LEMMA PbInitInv == PbInit => PbInv
<1> SUFFICES ASSUME PbInit  PROVE PbInv
  OBVIOUS
<1>1. call \in CallType /\ CallHasKey
  BY DEF PbInit, Idle, CallType, CallHasKey
<1>2. DOMAIN probes = {} /\ DOMAIN tweets = {}
  BY DEF PbInit
<1>3. IsFiniteSet({}) /\ Cardinality({}) = 0
  BY FS_EmptySet
<1>4. Sized(probes, Url, ProbeTTL, MaxProbes) /\ Sized(tweets, Tweet, FxTTL, MaxTweets)
  BY <1>2, <1>3 DEF Sized
<1> QED BY <1>1, <1>4 DEF PbInv

\* What a caller does to its own record.
LEMMA CallStepTyped ==
    ASSUME call \in CallType, CallHasKey, NEW c \in Caller,
           CallStep(c) \/ \E u \in Url : ProbeGet(c, u) \/ Resolve(c, u)
    PROVE  call' \in CallType /\ CallHasKey'
<1> USE DEF CallType, CallHasKey
<1>1. ASSUME Answer(c)  PROVE call' \in CallType /\ CallHasKey'
  BY <1>1 DEF Answer, Idle
<1>2. ASSUME Goto(c, "store"), call[c].url \in Url  PROVE call' \in CallType /\ CallHasKey'
  BY <1>2 DEF Goto
<1>3. ASSUME Picked(c), call[c].url \in Url  PROVE call' \in CallType /\ CallHasKey'
  BY <1>1, <1>2, <1>3 DEF Picked
<1>4. CASE YtDlp(c)
  <2>1. CASE TweetOf[call[c].url] # NoTweet /\ Goto(c, "lookup")
    BY <1>4, <2>1 DEF YtDlp, Goto
  <2> QED BY <1>1, <1>2, <1>4, <2>1 DEF YtDlp
<1>5. CASE Lookup(c)
  <2>1. CASE FxHit(TweetOf[call[c].url])
    BY <1>3, <1>5, <2>1 DEF Lookup
  <2>2. CASE ~FxHit(TweetOf[call[c].url])
    BY <1>5, <2>2 DEF Lookup
  <2> QED BY <2>1, <2>2
<1>6. CASE RequestOk(c)
  BY <1>3, <1>6 DEF RequestOk
<1>7. CASE RequestFails(c)
  <2>1. CASE call[c].attempt < MaxAttempts /\ call' = [call EXCEPT ![c].attempt = @ + 1]
    BY <2>1
  <2> QED BY <1>1, <1>7, <2>1 DEF RequestFails
<1>8. CASE Store(c)
  BY <1>1, <1>8 DEF Store
<1>9. ASSUME NEW u \in Url, ProbeGet(c, u) \/ Resolve(c, u)
      PROVE  call' \in CallType /\ CallHasKey'
  <2>1. ASSUME NEW r, r = [Idle EXCEPT !.pc = "ytdlp", !.url = u]
        PROVE  r = [pc |-> "ytdlp", url |-> u, op |-> "probe", attempt |-> 0]
    BY <2>1, Zenon DEF Idle
  <2>2. ASSUME NEW r, r = [Idle EXCEPT !.pc = "lookup", !.url = u, !.op = "resolve"]
        PROVE  r = [pc |-> "lookup", url |-> u, op |-> "resolve", attempt |-> 0]
    BY <2>2, Zenon DEF Idle
  <2> DEFINE asking == [Idle EXCEPT !.pc = "ytdlp", !.url = u]
             seeking == [Idle EXCEPT !.pc = "lookup", !.url = u, !.op = "resolve"]
  <2>3. \/ call' = call
        \/ call' = [call EXCEPT ![c] = asking]
        \/ call' = [call EXCEPT ![c] = seeking] /\ TweetOf[u] \in Tweet
    BY <1>9 DEF ProbeGet, Resolve
  <2>4. /\ asking = [pc |-> "ytdlp", url |-> u, op |-> "probe", attempt |-> 0]
        /\ seeking = [pc |-> "lookup", url |-> u, op |-> "resolve", attempt |-> 0]
    BY <2>1, <2>2
  <2> HIDE DEF asking, seeking
  <2> QED BY <2>3, <2>4
<1> QED BY <1>4, <1>5, <1>6, <1>7, <1>8, <1>9 DEF CallStep

LEMMA PbNextInv == PbInv /\ [PbNext]_pbVars => PbInv'
<1> SUFFICES ASSUME PbInv, [PbNext]_pbVars  PROVE PbInv'
  OBVIOUS
<1> USE DEF PbInv
<1>1. ASSUME NEW c \in Caller, CallStep(c)  PROVE PbInv'
  <2>1. call' \in CallType /\ CallHasKey'
    BY <1>1, CallStepTyped
  <2>2. Sized(probes', Url, ProbeTTL, MaxProbes)
    BY <1>1, ProbeSetSized
       DEF CallStep, YtDlp, Lookup, RequestOk, RequestFails, Store, CallHasKey
  <2>3. Sized(tweets', Tweet, FxTTL, MaxTweets)
    BY <1>1, FxSetSized
       DEF CallStep, YtDlp, Lookup, RequestOk, RequestFails, Store, CallHasKey
  <2> QED BY <2>1, <2>2, <2>3
<1>2. ASSUME NEW c \in Caller, NEW u \in Url, ProbeGet(c, u) \/ Resolve(c, u)  PROVE PbInv'
  <2>1. call' \in CallType /\ CallHasKey'
    BY <1>2, CallStepTyped
  <2> QED BY <1>2, <2>1 DEF ProbeGet, Resolve
<1>3. CASE SweepProbes
  BY <1>3, WithoutSized DEF SweepProbes, CallHasKey
<1>4. CASE Age
  BY <1>4, OlderSized DEF Age, CallHasKey
<1>5. CASE UNCHANGED pbVars
  BY <1>5 DEF pbVars, CallHasKey
<1> QED BY <1>1, <1>2, <1>3, <1>4, <1>5 DEF PbNext

\* What a step takes out of ProbeCache: the whole of EvictsOnlyForRoom.
LEMMA PbStepEvicts ==
    ASSUME PbInv, [PbNext]_pbVars, NEW u \in DOMAIN probes \ DOMAIN probes'
    PROVE  \/ probes[u] > ProbeTTL
           \/ /\ Cardinality(DOMAIN probes) = MaxProbes
              /\ DOMAIN probes' \ DOMAIN probes # {}
              /\ u \in Oldest(probes)
<1>1. (\E c \in Caller : Store(c)) \/ SweepProbes \/ Age
  BY DEF PbNext, pbVars, CallStep, YtDlp, Lookup, RequestOk, RequestFails, ProbeGet, Resolve
<1>2. CASE SweepProbes
  BY <1>2 DEF SweepProbes, Without, Expired
<1>3. CASE Age
  BY <1>3 DEF Age, Older
<1>4. ASSUME NEW c \in Caller, Store(c)
      PROVE  /\ Cardinality(DOMAIN probes) = MaxProbes
             /\ DOMAIN probes' \ DOMAIN probes # {}
             /\ u \in Oldest(probes)
  <2> DEFINE v == call[c].url
  <2>1. PICK o \in Oldest(probes) :
           /\ v \notin DOMAIN probes /\ Cardinality(DOMAIN probes) >= MaxProbes
           /\ probes' = With(Without(probes, {o}), v)
    BY <1>4 DEF Store, ProbeSet, With
  <2>2. DOMAIN probes' = (DOMAIN probes \ {o}) \cup {v}
    BY <2>1 DEF With, Without
  <2>3. u = o /\ v \in DOMAIN probes' \ DOMAIN probes
    BY <2>1, <2>2
  <2>4. Cardinality(DOMAIN probes) = MaxProbes
    BY <2>1, FS_CardinalityType DEF PbInv, Sized
  <2> QED BY <2>1, <2>3, <2>4
<1> QED BY <1>1, <1>2, <1>3, <1>4

\* Both caches stay within their limits, and an answer that still counts leaves
\* ProbeCache only to make room for another, never a younger one before an
\* older: however probes of one URL, sweeps and evictions meet.
THEOREM CachesCorrect == PbSpec => []PbTypeOK /\ EvictsOnlyForRoom
<1>1. PbSpec => []PbInv
  BY PbInitInv, PbNextInv, PTL DEF PbSpec
<1>2. PbInv /\ [PbNext]_pbVars =>
         \A u \in DOMAIN probes \ DOMAIN probes' :
            probes[u] > ProbeTTL
            \/ /\ Cardinality(DOMAIN probes) = MaxProbes
               /\ DOMAIN probes' \ DOMAIN probes # {}
               /\ u \in Oldest(probes)
  BY PbStepEvicts
<1> QED BY <1>1, <1>2, PbInvType, PTL DEF PbSpec, EvictsOnlyForRoom

-----------------------------------------------------------------------------
(* The video converter. *)

Active(c) == cpc[c] \notin {"idle", "done"} /\ ~aborted[c]

\* The guard of a conversion's start: one at a time, but for those on their way
\* out.
OneActive == \A c, o \in Conv : Active(c) /\ Active(o) => c = o

\* A conversion holds an instance from its start on, and the abort listener is
\* only there while it is not aborted.
Holds ==
    \A c \in Conv :
        /\ cpc[c] # "idle" => inst[c] \in Inst
        /\ cpc[c] \in Listening => ~aborted[c]

\* Nobody else can terminate what the active conversion waits for or uses.
Undisturbed ==
    \A c \in Conv :
        /\ cpc[c] = "load" /\ ~aborted[c] => life[inst[c]] \in {"pending", "ready", "abandoned"}
        /\ cpc[c] \in Listening => life[inst[c]] = "ready"

\* What is mounted is told from what is not, and stays until it is unmounted.
Mounts ==
    \A c \in Conv :
        /\ cpc[c] \in {"exec", "read", "unmount"} => mine[c]
        /\ cpc[c] \in {"idle", "load", "mount"} => ~mine[c]
        /\ mine[c] /\ cpc[c] # "done" => inputDir[inst[c]] = c

\* The instance in loading is the one that loads or is ready, if there is one.
InUse == \A i \in Inst : life[i] \in {"pending", "ready"} <=> i = loading

CvInv == CvTypeOK /\ OneActive /\ Holds /\ Undisturbed /\ Mounts /\ InUse

LEMMA CvInitInv == CvInit => CvInv
  BY DEF CvInit, CvInv, CvTypeOK, OneActive, Active, Holds, Undisturbed, Mounts,
         InUse, Listening

LEMMA CvNextInv == CvInv /\ [CvNext]_cvVars => CvInv'
<1> SUFFICES ASSUME CvInv, [CvNext]_cvVars  PROVE CvInv'
  OBVIOUS
<1> USE DEF CvInv
<1>1. CASE UNCHANGED cvVars
  BY <1>1 DEF cvVars, CvTypeOK, OneActive, Active, Holds, Undisturbed, Mounts, InUse
<1>2. ASSUME NEW i \in Inst, Loaded(i)  PROVE CvInv'
  BY <1>2 DEF Loaded, CvTypeOK, OneActive, Active, Holds, Undisturbed, Mounts, InUse,
              Listening
<1>3. ASSUME NEW i \in Inst, LoadFails(i)  PROVE CvInv'
  BY <1>3 DEF LoadFails, CvTypeOK, OneActive, Active, Holds, Undisturbed, Mounts, InUse,
              Listening
<1>4. ASSUME NEW c \in Conv, Convert(c)  PROVE CvInv'
  <2> USE <1>4 DEF Convert, GetFFmpeg, At
  <2>1. CvTypeOK'
    BY DEF CvTypeOK, Listening
  <2>2. OneActive'
    BY DEF OneActive, Active, CvTypeOK
  <2>3. Holds' /\ Mounts'
    BY DEF Holds, Mounts, CvTypeOK, Listening
  <2>4. InUse'
    BY DEF InUse, CvTypeOK
  <2>5. Undisturbed'
    BY DEF Undisturbed, InUse, Holds, CvTypeOK, Listening
  <2> QED BY <2>1, <2>2, <2>3, <2>4, <2>5
<1>5. ASSUME NEW c \in Conv, CannotLoad(c)  PROVE CvInv'
  BY <1>5 DEF CannotLoad, At, SettleAs, CvTypeOK, OneActive, Active, Holds, Undisturbed,
              Mounts, InUse, Listening
<1>6. ASSUME NEW c \in Conv, Resume(c)  PROVE CvInv'
  BY <1>6 DEF Resume, At, SettleAs, CvTypeOK, OneActive, Active, Holds, Undisturbed,
              Mounts, InUse, Listening
<1>7. ASSUME NEW c \in Conv, Abort(c)  PROVE CvInv'
  <2> USE <1>7 DEF Abort, At, SettleAs
  <2>1. CvTypeOK'
    BY DEF CvTypeOK, Listening
  <2>2. OneActive' /\ Holds' /\ Mounts'
    BY DEF OneActive, Active, Holds, Mounts, CvTypeOK, Listening
  <2>3. InUse'
    BY DEF InUse, Undisturbed, Holds, CvTypeOK, Listening
  <2>4. Undisturbed'
    BY DEF Undisturbed, OneActive, Active, Holds, CvTypeOK, Listening
  <2> QED BY <2>1, <2>2, <2>3, <2>4
<1>8. ASSUME NEW c \in Conv, Mount(c)  PROVE CvInv'
  BY <1>8 DEF Mount, At, CvTypeOK, OneActive, Active, Holds, Undisturbed, Mounts,
              InUse, Listening
<1>9. ASSUME NEW c \in Conv, Exec(c) \/ Read(c) \/ Fails(c) \/ Deleted(c)  PROVE CvInv'
  BY <1>9 DEF Exec, Read, Fails, Deleted, At, SettleAs, CvTypeOK, OneActive, Active, Holds,
              Undisturbed, Mounts, InUse, Listening
<1>10. ASSUME NEW c \in Conv, Unmounted(c)  PROVE CvInv'
  BY <1>10 DEF Unmounted, At, CvTypeOK, OneActive, Active, Holds, Undisturbed, Mounts,
               InUse, Listening
<1> QED
  BY <1>1, <1>2, <1>3, <1>4, <1>5, <1>6, <1>7, <1>8, <1>9, <1>10 DEF CvNext

LEMMA CvInvOwnInstance == CvInv => OwnInstance
<1> SUFFICES ASSUME CvInv  PROVE OwnInstance
  OBVIOUS
<1>1. /\ loading # NoInst => life[loading] \in {"pending", "ready"}
      /\ \A i \in Inst : life[i] \in {"pending", "ready"} => i = loading
  BY DEF CvInv, InUse, CvTypeOK
<1>2. ASSUME NEW c \in Conv, cpc[c] \in Listening
      PROVE  life[inst[c]] = "ready" /\ (cpc[c] # "mount" => inputDir[inst[c]] = c)
  BY <1>2 DEF CvInv, Undisturbed, Mounts, Listening
<1> QED BY <1>1, <1>2 DEF OwnInstance

\* The instance that the next conversion is given is never one that failed to
\* load or was terminated, no second one is loaded beside it, and a conversion
\* that was not canceled runs on one that is ready and has its own file mounted:
\* whatever other conversions were canceled, or are still cleaning up
\* (getFFmpeg, convertVideo). It says nothing of the worker of an instance that
\* failed to load, which the code never terminates.
THEOREM ConversionCorrect == CvSpec => [](CvTypeOK /\ OwnInstance)
<1>1. CvInv => CvTypeOK /\ OwnInstance
  BY CvInvOwnInstance DEF CvInv
<1> QED BY CvInitInv, CvNextInv, <1>1, PTL DEF CvSpec
-----------------------------------------------------------------------------
(* The page of a download. *)

\* Only the EventSource made last is not closed, only the timer set last is
\* pending.
OneOfEach ==
    /\ \A s \in Conn : conn[s] # "closed" => s = source
    /\ alarms \subseteq {retryTimer}

\* What is shown as the ending, what the status says, and what is on its way back
\* from a query, has been so; and a job that is forgotten remains so.
Learned ==
    /\ \A q \in Query : /\ asked[q] \in JobEnding => asked[q] \in past
                        /\ asked[q] = "forgotten" => server = "forgotten"
    /\ server \in JobEnding => server \in past
    /\ shown \in JobEnding => shown \in past
    /\ shown = "expired" => server = "forgotten"

Over == (shown \in Ending => finished) /\ (finished => Quiet)

PgInv == PgTypeOK /\ OneOfEach /\ Learned /\ Over

LEMMA PgInitInv == PgInit => PgInv
  BY DEF PgInit, PgInv, PgTypeOK, OneOfEach, Learned, Over, Quiet, Ending, JobEnding, Says

\* The state that an ending leaves, common to its callers.
LEMMA FinishQuiet ==
    ASSUME PgInv, NEW ev, Finish(ev)
    PROVE  Quiet' /\ finished' /\ conn' \in [Conn -> {"closed", "connecting", "open"}]
  BY DEF PgInv, PgTypeOK, OneOfEach, Over, Finish, Quiet, Closed

LEMMA PgNextInv == PgInv /\ [PgNext]_pgVars => PgInv'
<1> SUFFICES ASSUME PgInv, [PgNext]_pgVars  PROVE PgInv'
  OBVIOUS
<1> USE DEF PgInv, Ending, JobEnding, Says
<1>1. CASE UNCHANGED pgVars
  BY <1>1 DEF pgVars, PgTypeOK, OneOfEach, Learned, Over, Quiet
<1>2. ASSUME NEW s \in Conn, Opens(s)  PROVE PgInv'
  BY <1>2 DEF Opens, PgTypeOK, OneOfEach, Learned, Over, Quiet
<1>3. ASSUME NEW s \in Conn, Progress(s)  PROVE PgInv'
  <2>1. ~finished
    BY <1>3 DEF Progress, Over, Quiet
  <2> QED BY <1>3, <2>1 DEF Progress, PgTypeOK, OneOfEach, Learned, Over, Quiet
<1>4. ASSUME NEW s \in Conn, LastEvent(s)  PROVE PgInv'
  <2>1. Quiet' /\ finished' /\ conn' \in [Conn -> {"closed", "connecting", "open"}]
    BY <1>4, FinishQuiet DEF LastEvent
  <2> QED
    BY <1>4, <2>1 DEF LastEvent, Finish, PgTypeOK, OneOfEach, Learned, Over, Quiet
<1>5. ASSUME NEW s \in Conn, Error(s)  PROVE PgInv'
  BY <1>5 DEF Error, Ask, Closed, PgTypeOK, OneOfEach, Learned, Over, Quiet
<1>6. ASSUME NEW q \in Query, Reply(q)  PROVE PgInv'
  BY <1>6 DEF Reply, PgTypeOK, OneOfEach, Learned, Over, Quiet
<1>7. ASSUME NEW q \in Query, Answered(q)  PROVE PgInv'
  <2>1. CASE finished
    BY <1>7, <2>1 DEF Answered, PgTypeOK, OneOfEach, Learned, Over, Quiet
  <2>2. CASE ~finished /\ asked[q] = "running"
    BY <1>7, <2>2 DEF Answered, SetRetry, PgTypeOK, OneOfEach, Learned, Over, Quiet
  <2>3. CASE ~finished /\ asked[q] # "running"
    <3>1. PICK ev \in Ending :
             /\ Finish(ev) /\ UNCHANGED retryTimer
             /\ ev \in JobEnding => ev = asked[q]
             /\ ev = "expired" => asked[q] = "forgotten"
      BY <1>7, <2>3 DEF Answered, Replied
    <3>2. Quiet' /\ finished' /\ conn' \in [Conn -> {"closed", "connecting", "open"}]
      BY <3>1, FinishQuiet
    <3>3. /\ asked' = [asked EXCEPT ![q] = "none"]
          /\ UNCHANGED <<server, past, source, mounted>>
      BY <1>7 DEF Answered
    <3> QED
      BY <3>1, <3>2, <3>3 DEF Finish, PgTypeOK, OneOfEach, Learned, Over, Quiet
  <2> QED BY <2>1, <2>2, <2>3
<1>8. ASSUME NEW q \in Query, QueryFails(q)  PROVE PgInv'
  BY <1>8 DEF QueryFails, SetRetry, PgTypeOK, OneOfEach, Learned, Over, Quiet
<1>9. ASSUME NEW a \in Alarm, Retry(a)  PROVE PgInv'
  BY <1>9 DEF Retry, Connect, Closed, PgTypeOK, OneOfEach, Learned, Over, Quiet
<1>10. CASE Visible
  BY <1>10 DEF Visible, Ask, PgTypeOK, OneOfEach, Learned, Over, Quiet
<1>11. CASE Unmount
  <2>1. Quiet' /\ finished' /\ conn' \in [Conn -> {"closed", "connecting", "open"}]
    BY <1>11, FinishQuiet DEF Unmount
  <2> QED
    BY <1>11, <2>1 DEF Unmount, Finish, PgTypeOK, OneOfEach, Learned, Over, Quiet
<1>12. CASE JobMoves
  BY <1>12 DEF JobMoves, PgTypeOK, OneOfEach, Learned, Over, Quiet
<1> QED
  BY <1>1, <1>2, <1>3, <1>4, <1>5, <1>6, <1>7, <1>8, <1>9, <1>10, <1>11, <1>12 DEF PgNext

\* The size of a set that holds at most one thing, which is how the page's
\* invariant counts.
LEMMA AtMostOne ==
    ASSUME NEW S, NEW x, S \subseteq {x}
    PROVE  Cardinality(S) <= 1
<1>1. IsFiniteSet({x}) /\ Cardinality({x}) = 1
  BY FS_Singleton
<1> QED BY <1>1, FS_Subset

LEMMA PgStateCorrect ==
    PgInv => /\ Cardinality({ s \in Conn : conn[s] # "closed" }) <= 1
             /\ Cardinality(alarms) <= 1
             /\ finished => Quiet
             /\ shown \in JobEnding => shown \in past
             /\ shown = "expired" => server = "forgotten"
<1> SUFFICES ASSUME PgInv
             PROVE  /\ Cardinality({ s \in Conn : conn[s] # "closed" }) <= 1
                    /\ Cardinality(alarms) <= 1
  BY DEF PgInv, Learned, Over
<1>1. { s \in Conn : conn[s] # "closed" } \subseteq {source} /\ alarms \subseteq {retryTimer}
  BY DEF PgInv, OneOfEach
<1> QED BY <1>1, AtMostOne

LEMMA PgStepCorrect == PgInv /\ [PgNext]_pgVars => (shown \in Ending => shown' = shown)
<1> SUFFICES ASSUME PgInv, PgNext, shown \in Ending  PROVE shown' = shown
  BY DEF pgVars
<1>1. finished /\ Quiet
  BY DEF PgInv, Over
<1> QED
  BY <1>1 DEF PgNext, Opens, Progress, LastEvent, Error, Reply, Answered, QueryFails, Retry,
              Visible, Unmount, JobMoves, Finish, Quiet

\* One stream and one timer at most, none of them once the page has finished,
\* and an ending that the job has come to and that stays on the page, whatever
\* callbacks are still to come and however often the job is retried after a
\* failure (use-download-progress.ts, Job.Claim).
THEOREM EndingCorrect == PgSpec => []PgTypeOK /\ EndingIsFinal
<1>1. PgSpec => []PgInv
  BY PgInitInv, PgNextInv, PTL DEF PgSpec
<1>2. PgInv => PgTypeOK
  BY DEF PgInv
<1>3. PgSpec => [][(shown \in Ending) => (shown' = shown)]_pgVars
  BY <1>1, PgStepCorrect, PTL DEF PgSpec
<1> QED BY <1>1, <1>2, <1>3, PgStateCorrect, PTL DEF EndingIsFinal

-----------------------------------------------------------------------------
(* The five parts of MCParts, one of which runs.                              *)

\* A stage and a page that do not run are over: only their types matter.
PartsInv ==
    /\ StTypeOK /\ (which = "stage" => StInv)
    /\ PgTypeOK /\ (which = "page" => PgInv)
    /\ PbInv /\ LfInv /\ CvInv

LEMMA PartsInitInv == MCInit => PartsInv
<1> SUFFICES ASSUME MCInit PROVE PartsInv
  OBVIOUS
<1>1. PbInv /\ LfInv /\ CvInv
  BY PbInitInv, LfInitInv, CvInitInv DEF MCInit
<1>2. StTypeOK /\ (which = "stage" => StInv)
  <2>1. CASE which = "stage"
    BY <2>1, StInitInv DEF MCInit, StInv
  <2>2. ASSUME StOver PROVE StTypeOK
    <3>1. kind \in Kinds /\ limit \in Limits /\ 0 \in 0..Chunks /\ 0 \in 0..PipeCap
      BY <2>2, OverAssumption, StreamAssumption DEF StOver
    <3>2. 0 \in 0..(IF limit > 0 THEN limit ELSE 2 * Chunks)
      BY <2>2, StreamAssumption DEF StOver
    <3>3. /\ proc \in [Proc -> {"none", "running", "exited", "reaped"}]
          /\ code \in [Proc -> {"ok", "failed", "killed"}]
      BY <2>2 DEF StOver
    <3>4. /\ sent \in [Source -> 0..Chunks] /\ taken \in [Source -> 0..Chunks]
          /\ tooLarge \in [Source -> BOOLEAN]
      BY <2>2, <3>1 DEF StOver
    <3>5. /\ ended \in BOOLEAN /\ held \in BOOLEAN /\ scratch \in BOOLEAN
      BY <2>2 DEF StOver
    <3>6. want \in Source /\ mem \in 0..1
      BY <2>2 DEF StOver, Source
    <3> QED BY <2>2, <3>1, <3>2, <3>3, <3>4, <3>5, <3>6 DEF StOver, StTypeOK
  <2> QED BY <2>1, <2>2 DEF MCInit
<1>3. PgTypeOK /\ (which = "page" => PgInv)
  <2>1. CASE which = "page"
    BY <2>1, PgInitInv DEF MCInit, PgInv
  <2>2. PgOver => PgTypeOK
    BY OverAssumption DEF PgOver, PgTypeOK, Says
  <2> QED BY <2>1, <2>2 DEF MCInit
<1> QED BY <1>1, <1>2, <1>3 DEF PartsInv

LEMMA PartsNextInv == PartsInv /\ [MCNext]_mcVars => PartsInv'
<1> SUFFICES ASSUME PartsInv, [MCNext]_mcVars PROVE PartsInv'
  OBVIOUS
<1>1. /\ [PbNext]_pbVars /\ [LfNext]_lfVars /\ [CvNext]_cvVars
      /\ which' = which
      /\ (which = "stage" /\ [StNext]_stVars) \/ UNCHANGED stVars
      /\ (which = "page" /\ [PgNext]_pgVars) \/ UNCHANGED pgVars
  BY DEF MCNext, mcVars
<1>2. PbInv' /\ LfInv' /\ CvInv'
  BY <1>1, PbNextInv, LfNextInv, CvNextInv DEF PartsInv
<1>3. StTypeOK' /\ (which' = "stage" => StInv')
  <2>1. CASE which = "stage"
    BY <1>1, <2>1, StNextInv DEF PartsInv, StInv
  <2>2. CASE which # "stage"
    BY <1>1, <2>2 DEF PartsInv, StTypeOK, stVars, fixVars, procVars, dataVars, outVars
  <2> QED BY <2>1, <2>2
<1>4. PgTypeOK' /\ (which' = "page" => PgInv')
  <2>1. CASE which = "page"
    BY <1>1, <2>1, PgNextInv DEF PartsInv, PgInv
  <2>2. CASE which # "page"
    BY <1>1, <2>2 DEF PartsInv, PgTypeOK, pgVars
  <2> QED BY <2>1, <2>2
<1> QED BY <1>2, <1>3, <1>4 DEF PartsInv

\* Whichever part runs, all five keep the types of their variables; the caches
\* stay within their limits and a response within the one of its download.
THEOREM PartsTyped == MCSpec => []PartsTypeOK
<1>1. PartsInv => PartsTypeOK
  BY PbInvType DEF PartsInv, PartsTypeOK, LfInv, CvInv
<1> QED BY <1>1, PartsInitInv, PartsNextInv, PTL DEF MCSpec
==============================================================================
