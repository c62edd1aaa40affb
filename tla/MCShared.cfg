SPECIFICATION MCSpec
CONSTANTS
    JobID = {j1, j2}
    Timer = {t1, t2, t3}
    NoTimer = NoTimer
    Caller = {c1, c2, c3, c4}
    Key = {k1, k2}
    MaxPerKey = 2
    Outside = Outside
    Worker = {w1, w2, w3, w4}
    MaxSlots = 2
    Client = {k1}
    Rate = 1
    One = 2
    Burst = 2
    IdleLimit = 4
    MaxTime = 8
INVARIANTS
    TypeOK
    TimersWillExpire
    NoStrayTimer
    IdleHasTimer
    MiddlewareTypeOK
    CountsHolders
    AtMostMaxPerKey
    OnlyBusyKeys
    SlotsAreHolders
    AtMostMaxSlots
    RateBound
PROPERTIES
    HeldJobStays
    ImplementsRegistry
    EventuallyForgotten
    EveryWaitEnds
    ImplementsTokenBucket
