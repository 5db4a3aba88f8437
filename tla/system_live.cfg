SPECIFICATION FairSpec
CONSTANTS
    j1 = j1  j2 = j2  j3 = j3
    c1 = c1  t1 = t1  t2 = t2
    w1 = w1  w2 = w2
    e1 = e1  e2 = e2
    JobId = {j1, j2}
    ChainId = {c1}
    NoChain = NoChain
    Key = {}
    NoKey = NoKey
    Worker = {w1, w2}
    NoWorker = NoWorker
    JobType = {t1, t2}
    NoType = NoType
    Requests <- OnceRequests
    DefaultMaxAttempts = 1
    RecoverLimit = 1
    Commands <- NoCommands
    MaxGen = 5
    EngineId = {e1}
    EngineOf <- OneEngine
    Registered = {t1}
    EngineMode = ""
    Strategy <- NoStrategy
    PolicyMaxAttempts = 2
    PanicPolicy = "handler"
    UserPanics = {"panicHandler", "listener"}
    CtxAware = FALSE
    NotifyCap = 1
    DLQThreshold = 1
    MaxPauses = 1
    Operations = {"notify"}
INVARIANTS
    TypeOK
PROPERTIES
    EveryJobSettles
CHECK_DEADLOCK FALSE
