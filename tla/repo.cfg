SPECIFICATION RepoSpec
CONSTANTS
    j1 = j1  j2 = j2  j3 = j3
    c1 = c1  c2 = c2  k1 = k1  t1 = t1
    JobId = {j1, j2, j3}
    ChainId = {c1, c2}
    NoChain = NoChain
    Key = {k1}
    NoKey = NoKey
    Worker = {w1}
    NoWorker = NoWorker
    JobType = {t1}
    NoType = NoType
    Requests <- MixedRequests
    DefaultMaxAttempts = 1
    RecoverLimit = 1
    Commands <- AllCommands
    MaxGen = 1
SYMMETRY JobSymmetry
INVARIANTS
    RepoTypeOK
    ChainMutex
    IndexConsistent
    UniqueIdempotencyKey
    DenseSequences
CHECK_DEADLOCK FALSE
