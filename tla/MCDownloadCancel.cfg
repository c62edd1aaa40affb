SPECIFICATION Spec
CONSTANTS
    j1 = j1
    j2 = j2
    r1 = r1
    r2 = r2
    r3 = r3
    k1 = k1
    k2 = k2
    JobID = {j1}
    Timer = {t1, t2, t3}
    NoTimer = NoTimer
    NoFn = NoFn
    Sub = {}
    MaxSubscribers = 8
    ChanCap = 16
    FileReq = {r1, r2}
    CancelReq = {c1}
    Client = {k1}
    NoClient = NoClient
    FileJob <- OneJob
    CancelJob <- CancelOneJob
    ClientOf <- OneClient
    AudioOnly = {}
    FxJobs = {}
    MaxPerClient = 1
    MaxConcurrent = 1
    HasDeadline = TRUE
PROPERTY
    CancelBeforeStartCounts
