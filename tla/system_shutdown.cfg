SPECIFICATION Spec
CONSTANTS
    j1 = j1  j2 = j2  j3 = j3
    c1 = c1  t1 = t1  t2 = t2
    w1 = w1  w2 = w2
    e1 = e1  e2 = e2
    JobId = {j1, j2}
    ChainId = {c1}
    NoChain = NoChain
    Key = {}
    NoKey = NoKey
    Worker = {w1, w2}
    NoWorker = NoWorker
    JobType = {t1, t2}
    NoType = NoType
    Requests <- SkipRequests
    DefaultMaxAttempts = 1
    RecoverLimit = 1
    Commands <- NoCommands
    MaxGen = 2
    EngineId = {e1, e2}
    EngineOf <- TwoEngines
    Registered = {t1}
    EngineMode = ""
    Strategy <- NoStrategy
    PolicyMaxAttempts = 2
    PanicPolicy = "fail"
    UserPanics = {}
    CtxAware = FALSE
    NotifyCap = 0
    DLQThreshold = 0
    MaxPauses = 1
    Operations = {"shutdown"}
SYMMETRY JobSymmetry
INVARIANTS
    OverlapNeedsPause
    ProcessingHasHolder
PROPERTIES
    CompletedIsFinal
CHECK_DEADLOCK FALSE
