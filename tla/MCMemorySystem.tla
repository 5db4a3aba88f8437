--------------------------- MODULE MCMemorySystem ----------------------------
(* Small instances of engines on the in-memory repository.                   *)
EXTENDS MemorySystem, TLC

CONSTANTS c1, t1, t2, j1, j2, j3, w1, w2, e1, e2

JobSymmetry == Permutations(JobId)
WorkerSymmetry == Permutations(JobId) \cup Permutations(Worker)

OneEngine == [w \in Worker |-> e1]
TwoEngines == [w \in Worker |-> IF w = w1 THEN e1 ELSE e2]
NoStrategy == [t \in JobType \cup {NoType} |-> ""]

Req(c, t, mode, max) ==
    [chain |-> c, sequence |-> 0, type |-> t, mode |-> mode, key |-> NoKey,
     maxAttempts |-> max, avail |-> "due"]

\* Strict and skip-on-failure jobs in one chain, and one without type or handler that
\* only a batch lets through.
MixedRequests == { Req(c1, t1, "", 2), Req(c1, t1, "skip-on-failure", 1),
                   Req(c1, NoType, "skip-on-failure", 1) }

\* One kind of job only.
SkipRequests == { Req(c1, t1, "skip-on-failure", 2) }

\* A single attempt each.
OnceRequests == { Req(c1, t1, "skip-on-failure", 1) }

NoCommands == {}
ReplaySkip == {"replay", "skip"}
==============================================================================
