SPECIFICATION MCSpec
CONSTANTS
    Kinds = {"single", "merge", "mp3"}
    Chunks = 2
    PipeCap = 1
    Limits = {0, 1}
    Caller = {p1, p2}
    u1 = u1
    u2 = u2
    u3 = u3
    t1 = t1
    t2 = t2
    Url = {u1, u2, u3}
    Tweet = {t1, t2}
    TweetOf <- Tweets
    NoTweet = NoTweet
    NoUrl = NoUrl
    WithVideo = {t1}
    ProbeTTL = 1
    FxTTL = 0
    MaxProbes = 2
    MaxTweets = 1
    MaxAttempts = 2
    Logger = {l1, l2}
    RetentionDays = 1
    DayLength = 2
    LastTick = 6
    MaxLines = 3
    Conn = {e1, e2}
    Query = {q1, q2}
    Alarm = {a1, a2}
    Nobody = Nobody
    Conv = {c1, c2, c3}
    Inst = {i1, i2}
    NoInst = NoInst
    NoConv = NoConv
INVARIANTS
    PartsTypeOK
    WholeFileOrError
    NothingLeftBehind
    LinesAreKept
    OwnInstance
PROPERTIES
    StageEnds
    EvictsOnlyForRoom
    EveryProbeAnswered
    EndingIsFinal
    PageLearnsEnding
CHECK_DEADLOCK FALSE
