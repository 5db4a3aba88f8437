SPECIFICATION FairSpec
CONSTANTS
    j1 = j1  j2 = j2  c1 = c1  t1 = t1
    w1 = w1  w2 = w2  cl = cl  e1 = e1  e2 = e2
    JobId = {j1, j2}
    ChainId = {c1}
    NoChain = NoChain
    Key = {}
    NoKey = NoKey
    Worker = {w1, w2}
    NoWorker = NoWorker
    JobType = {t1}
    NoType = NoType
    Requests <- BatchRequests
    DefaultMaxAttempts = 1
    Session = {w1, w2, cl}
    AllowGap = FALSE
    RecoverLimit = 1
    Commands <- NoCommands
    LateConfirms = FALSE
    MaxGen = 4
    EngineId = {e1, e2}
    EngineOf <- TwoEngines
    Registered = {t1}
    EngineMode = ""
    Strategy <- NoStrategy
    PolicyMaxAttempts = 2
    PanicPolicy = "fail"
    UserPanics = {}
    CtxAware = TRUE
    NotifyCap = 0
    DLQThreshold = 0
    MaxMishaps = 1
    Stoppable = {e1}
    Operations = {"enqueueBatch"}
INVARIANTS
    TypeOK
    OverlapNeedsPause
PROPERTIES
    LateReportIsFenced
    EveryJobSettles
CHECK_DEADLOCK FALSE
