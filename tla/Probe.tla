-------------------------------- MODULE Probe --------------------------------
(* POST /api/probe and the lookup of a tweet's video, with the two caches     *)
(* they share between requests: ProbeCache (downloader/probecache.go), of     *)
(* whole answers, and fxCache (downloader/fxtwitter.go), of tweets.           *)
(* A caller is a goroutine that serves one request after the other: a probe,  *)
(* or the part of GET .../file that resolves a tweet's media.                 *)
(*                                                                            *)
(* Time is kept as the age of each entry, in steps up to one past its cache's *)
(* TTL, when it no longer counts; ages beyond that look the same.             *)
EXTENDS Naturals, FiniteSets

CONSTANTS
    Caller,     \* goroutines
    Url,        \* cleaned URLs
    Tweet,      \* tweet IDs
    TweetOf,    \* [Url -> Tweet or NoTweet]
    NoTweet,
    WithVideo,  \* the tweets that have a video
    NoUrl,
    ProbeTTL,   \* PROBE_CACHE_TTL; 0 disables the cache
    FxTTL,      \* fxCacheTTL
    MaxProbes,  \* maxCacheEntries, for ProbeCache
    MaxTweets,  \* maxCacheEntries, for fxCache
    MaxAttempts \* fxMaxAttempts

ASSUME ProbeAssumption ==
    /\ TweetOf \in [Url -> Tweet \cup {NoTweet}] /\ NoTweet \notin Tweet /\ NoUrl \notin Url
    /\ WithVideo \subseteq Tweet
    /\ {ProbeTTL, FxTTL} \subseteq Nat
    /\ {MaxProbes, MaxTweets, MaxAttempts} \subseteq Nat \ {0}

VARIABLES
    call,       \* [Caller -> [pc, url, op, attempt]]
    probes,     \* ProbeCache.items: [cached URLs -> age]
    tweets      \* fxCache.items: [cached tweets -> age]

pbVars == <<call, probes, tweets>>

Idle == [pc |-> "idle", url |-> NoUrl, op |-> "probe", attempt |-> 0]

PbTypeOK ==
    /\ call \in [Caller -> [pc : {"idle", "ytdlp", "lookup", "request", "store"},
                            url : Url \cup {NoUrl}, op : {"probe", "resolve"},
                            attempt : 0..MaxAttempts]]
    /\ DOMAIN probes \subseteq Url /\ Cardinality(DOMAIN probes) <= MaxProbes
    /\ \A u \in DOMAIN probes : probes[u] \in 0..(ProbeTTL + 1)
    /\ DOMAIN tweets \subseteq Tweet /\ Cardinality(DOMAIN tweets) <= MaxTweets
    /\ \A t \in DOMAIN tweets : tweets[t] \in 0..(FxTTL + 1)

PbInit ==
    /\ call = [c \in Caller |-> Idle]
    /\ probes = [u \in {} |-> 0]
    /\ tweets = [t \in {} |-> 0]

-----------------------------------------------------------------------------
(* The caches. *)

Without(cache, keys) == [k \in DOMAIN cache \ keys |-> cache[k]]

With(cache, key) == [k \in DOMAIN cache \cup {key} |-> IF k = key THEN 0 ELSE cache[k]]

\* What evictOldest may delete: the map is walked in any order.
Oldest(cache) == { k \in DOMAIN cache : \A o \in DOMAIN cache : cache[o] <= cache[k] }

Expired(cache, ttl) == { k \in DOMAIN cache : cache[k] > ttl }

ProbeHit(u) == ProbeTTL > 0 /\ u \in DOMAIN probes /\ probes[u] <= ProbeTTL
FxHit(t)    == t \in DOMAIN tweets /\ tweets[t] <= FxTTL

\* Wrong: room is made for an answer that replaces one.
ProbeSetAnyway(u) ==
    IF Cardinality(DOMAIN probes) >= MaxProbes
    THEN \E o \in Oldest(probes) : probes' = With(Without(probes, {o}), u)
    ELSE probes' = With(probes, u)

\* ProbeCache.Set.
ProbeSet(u) ==
    IF ProbeTTL = 0 THEN UNCHANGED probes
    ELSE IF u \notin DOMAIN probes /\ Cardinality(DOMAIN probes) >= MaxProbes
         THEN \E o \in Oldest(probes) : probes' = With(Without(probes, {o}), u)
         ELSE probes' = With(probes, u)

\* fxCacheSet, which makes room whether or not the tweet is there.
FxSet(t) ==
    LET live == Without(tweets, Expired(tweets, FxTTL))
    IN  IF Cardinality(DOMAIN live) >= MaxTweets
        THEN \E o \in Oldest(live) : tweets' = With(Without(live, {o}), t)
        ELSE tweets' = With(live, t)

\* ProbeCache.sweepLoop, every minute.
SweepProbes ==
    /\ Expired(probes, ProbeTTL) # {}
    /\ probes' = Without(probes, Expired(probes, ProbeTTL))
    /\ UNCHANGED <<call, tweets>>

Older(cache, ttl) == [k \in DOMAIN cache |-> IF cache[k] > ttl THEN cache[k] ELSE cache[k] + 1]

\* Time passes.
Age ==
    /\ probes' = Older(probes, ProbeTTL) /\ tweets' = Older(tweets, FxTTL)
    /\ <<probes', tweets'>> # <<probes, tweets>>
    /\ UNCHANGED call

-----------------------------------------------------------------------------
(* The requests. *)

Goto(c, pc) == call' = [call EXCEPT ![c].pc = pc]
Answer(c)   == call' = [call EXCEPT ![c] = Idle]

\* probe() of an allowed URL: an answer from the cache, or a yt-dlp.
ProbeGet(c, u) ==
    /\ call[c].pc = "idle"
    /\ call' = IF ProbeHit(u) THEN call
               ELSE [call EXCEPT ![c] = [Idle EXCEPT !.pc = "ytdlp", !.url = u]]
    /\ UNCHANGED <<probes, tweets>>

\* The yt-dlp of a probe: an answer; a tweet in which it finds no video; any
\* other failure, its timeout and a client that has gone included.
YtDlp(c) ==
    /\ call[c].pc = "ytdlp"
    /\ \/ Goto(c, "store")
       \/ TweetOf[call[c].url] # NoTweet /\ Goto(c, "lookup")
       \/ Answer(c)
    /\ UNCHANGED <<probes, tweets>>

\* file() of a job with a format of fxtwitter.
Resolve(c, u) ==
    /\ call[c].pc = "idle" /\ TweetOf[u] # NoTweet
    /\ call' = [call EXCEPT ![c] = [Idle EXCEPT !.pc = "lookup", !.url = u, !.op = "resolve"]]
    /\ UNCHANGED <<probes, tweets>>

\* pickFxVideo and mp4Variants: a tweet with a video makes the answer of a
\* probe, which is cached, or that of a download; one without is a failure.
Picked(c) ==
    IF call[c].op = "probe" /\ TweetOf[call[c].url] \in WithVideo THEN Goto(c, "store") ELSE Answer(c)

\* fetchFxVideo looks into the cache once, before its attempts.
Lookup(c) ==
    /\ call[c].pc = "lookup"
    /\ IF FxHit(TweetOf[call[c].url]) THEN Picked(c)
       ELSE call' = [call EXCEPT ![c].pc = "request", ![c].attempt = 1]
    /\ UNCHANGED <<probes, tweets>>

\* The tweet, which is cached, with or without a video.
RequestOk(c) ==
    /\ call[c].pc = "request"
    /\ FxSet(TweetOf[call[c].url])
    /\ Picked(c)
    /\ UNCHANGED probes

\* Wrong: the attempts have no end (they are counted from 1 again here).
RequestFailsAgain(c) ==
    /\ call[c].pc = "request"
    /\ \/ call' = [call EXCEPT ![c].attempt = (@ % MaxAttempts) + 1]
       \/ Answer(c)
    /\ UNCHANGED <<probes, tweets>>

\* A failure that another attempt may cure (no connection, 404, 5xx) leads to
\* one, after a delay, unless this was the last or the context is done by then;
\* any other failure is final.
RequestFails(c) ==
    /\ call[c].pc = "request"
    /\ \/ /\ call[c].attempt < MaxAttempts
          /\ call' = [call EXCEPT ![c].attempt = @ + 1]
       \/ Answer(c)
    /\ UNCHANGED <<probes, tweets>>

\* A probe that has got its answer caches and sends it.
Store(c) ==
    /\ call[c].pc = "store"
    /\ ProbeSet(call[c].url)
    /\ Answer(c)
    /\ UNCHANGED tweets

-----------------------------------------------------------------------------

CallStep(c) ==
    \/ YtDlp(c) \/ Lookup(c) \/ RequestOk(c) \/ RequestFails(c) \/ Store(c)

PbNext ==
    \/ \E c \in Caller : CallStep(c) \/ (\E u \in Url : ProbeGet(c, u) \/ Resolve(c, u))
    \/ SweepProbes \/ Age

PbSpec == PbInit /\ [][PbNext]_pbVars

\* A yt-dlp ends (killed after 20 s if need be), a request times out, a delay
\* passes.
PbFairness == \A c \in Caller : WF_pbVars(CallStep(c))

PbFairSpec == PbSpec /\ PbFairness

-----------------------------------------------------------------------------
(* Properties. *)

\* An answer that still counts leaves ProbeCache only to make room for a new
\* URL in a full cache, and then no younger one stays behind an older: neither
\* the sweep nor the second of two probes that missed one URL together costs
\* anybody an answer.
EvictsOnlyForRoom ==
    [][ \A u \in DOMAIN probes \ DOMAIN probes' :
            probes[u] > ProbeTTL
            \/ /\ Cardinality(DOMAIN probes) = MaxProbes
               /\ DOMAIN probes' \ DOMAIN probes # {}
               /\ u \in Oldest(probes) ]_pbVars

\* Every request is answered, however often fxtwitter fails and whatever the
\* others do to the caches.
EveryProbeAnswered == \A c \in Caller : []<>(call[c].pc = "idle")
=============================================================================
