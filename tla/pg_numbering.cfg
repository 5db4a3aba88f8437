SPECIFICATION PgSpec
CONSTANTS
    j1 = j1  j2 = j2  j3 = j3
    c1 = c1  c2 = c2  k1 = k1  t1 = t1
    w1 = w1  s1 = s1  s2 = s2
    JobId = {j1, j2, j3}
    ChainId = {c1, c2}
    NoChain = NoChain
    Key = {k1}
    NoKey = NoKey
    Worker = {w1}
    NoWorker = NoWorker
    JobType = {t1}
    NoType = NoType
    Requests <- NumberingRequests
    DefaultMaxAttempts = 1
    Session = {s1, s2}
    AllowGap = FALSE
    RecoverLimit = 1
    Commands <- Purge
    LateConfirms = TRUE
    MaxGen = 1
SYMMETRY Symmetry
INVARIANTS
    PgTypeOK
    NumberStaysFree
    KeyUniqueInChain
CHECK_DEADLOCK FALSE
