SPECIFICATION BeforeTTL
CONSTANTS
    j1 = j1
    j2 = j2
    r1 = r1
    r2 = r2
    r3 = r3
    k1 = k1
    k2 = k2
    JobID = {j1, j2}
    Timer = {t1, t2}
    NoTimer = NoTimer
    NoFn = NoFn
    Sub = {}
    MaxSubscribers = 8
    ChanCap = 16
    FileReq = {r1, r2, r3}
    CancelReq = {c1}
    Client = {k1, k2}
    NoClient = NoClient
    FileJob <- TwoJobs
    CancelJob <- CancelOneJob
    ClientOf <- TwoClients
    AudioOnly = {}
    FxJobs = {j1}
    MaxPerClient = 1
    MaxConcurrent = 1
    HasDeadline = FALSE
SYMMETRY TimerSymmetry
PROPERTY
    ImplementsLimiters
CHECK_DEADLOCK FALSE
