SPECIFICATION FairSpec
CONSTANTS
    q1 = q1
    q2 = q2
    q3 = q3
    Req = {q1, q2, q3}
    NoReq = NoReq
    Model = {1, 2}
    Calls <- Contention
    DefaultKeep = 1
    MaxRunners = 2
    MaxQueue = 3
    MaxRefs = 3
    UintMod = 8
    MaxUnloads = 0
    Impatient = {}
    LoadOutcomes = {"ok", "full"}
    RunMayFail = FALSE
    PingMayFail = FALSE
    FileMayVanish = FALSE
    MayStop = FALSE
INVARIANTS
    RefCountExact
    TimerMeansIdle
    IdleWillExpire
    NoPanic
PROPERTIES
    EventuallyAnswered
    EventuallyUnloaded
