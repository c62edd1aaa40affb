SPECIFICATION FairBeforeTTL
CONSTANTS
    j1 = j1
    k1 = k1
    JobID = {j1}
    Timer = {t1, t2}
    NoTimer = NoTimer
    NoFn = NoFn
    Sub = {w1}
    MaxSubscribers = 1
    ChanCap = 2
    FileReq = {r1}
    CancelReq = {c1}
    Client = {k1}
    NoClient = NoClient
    FileJob <- OneJob
    CancelJob <- CancelOneJob
    ClientOf <- OneClient
    AudioOnly = {}
    FxJobs = {}
    MaxPerClient = 1
    MaxConcurrent = 1
    HasDeadline = FALSE
    WatchJob <- WatchOneJob
    MaxSSE = 1
INVARIANTS
    EndingIsSeen
    ToldTheTruth
PROPERTY
    WatchersLeave
CHECK_DEADLOCK FALSE
