SPECIFICATION OneFailure
CONSTANTS
    j1 = j1
    k1 = k1
    JobID = {j1}
    Timer = {t1}
    NoTimer = NoTimer
    NoFn = NoFn
    Sub = {w1, w2, w3}
    MaxSubscribers = 1
    ChanCap = 1
    FileReq = {r1}
    CancelReq = {}
    Client = {k1}
    NoClient = NoClient
    FileJob <- OneJob
    CancelJob <- CancelOneJob
    ClientOf <- OneClient
    AudioOnly = {}
    FxJobs = {}
    MaxPerClient = 1
    MaxConcurrent = 1
    HasDeadline = TRUE
    WatchJob <- WatchOneJob
    MaxSSE = 2
SYMMETRY Symmetry
INVARIANTS
    EvTypeOK
    WatchersAccounted
