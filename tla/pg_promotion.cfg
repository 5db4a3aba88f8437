SPECIFICATION PgSpec
CONSTANTS
    j1 = j1  j2 = j2  j3 = j3
    c1 = c1  c2 = c2  k1 = k1  t1 = t1
    w1 = w1  s1 = s1  s2 = s2
    JobId = {j1, j2}
    ChainId = {c1}
    NoChain = NoChain
    Key = {k1}
    NoKey = NoKey
    Worker = {w1}
    NoWorker = NoWorker
    JobType = {t1}
    NoType = NoType
    Requests <- PlainRequests
    DefaultMaxAttempts = 1
    Session = {s1, s2}
    AllowGap = FALSE
    RecoverLimit = 1
    Commands <- NoCommands
    LateConfirms = FALSE
    MaxGen = 2
SYMMETRY Symmetry
INVARIANT
    CompletionPromotes
CHECK_DEADLOCK FALSE
