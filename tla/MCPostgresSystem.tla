-------------------------- MODULE MCPostgresSystem ---------------------------
(* Small instances of engines on the PostgreSQL repository.                  *)
EXTENDS PostgresSystem, TLC

CONSTANTS c1, t1, j1, j2, w1, w2, cl, e1, e2

OneEngine == [w \in Worker |-> e1]
TwoEngines == [w \in Worker |-> IF w = w1 THEN e1 ELSE e2]
NoStrategy == [t \in JobType \cup {NoType} |-> ""]

Req(seq, type, mode, max) ==
    [chain |-> c1, sequence |-> seq, type |-> type, mode |-> mode, key |-> NoKey,
     maxAttempts |-> max, avail |-> "due"]

\* A job with two attempts that is to be passed when it fails, in a place of the caller's
\* choice, and a strict one that nobody handles.
BatchRequests == { Req(1, t1, "skip-on-failure", 2), Req(0, NoType, "", 1) }

\* Jobs that a single Enqueue accepts: one to be passed when it fails, and a strict one.
HandledRequests == { Req(1, t1, "skip-on-failure", 2), Req(0, t1, "", 1) }

NoCommands == {}
SkipOnly == {"skip"}
==============================================================================
