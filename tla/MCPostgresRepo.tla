--------------------------- MODULE MCPostgresRepo ----------------------------
(* Small instances of the PostgreSQL repository.                             *)
EXTENDS PostgresRepo, TLC

CONSTANTS c1, c2, k1, t1, j1, j2, j3, w1, s1, s2

Symmetry == Permutations(JobId) \cup Permutations(Session)

Req(c, seq, mode, key) ==
    [chain |-> c, sequence |-> seq, type |-> t1, mode |-> mode, key |-> key,
     maxAttempts |-> 0, avail |-> "due"]

\* One chain: Enqueue stores a job strict, a batch keeps its mode.
ChainRequests == { Req(c1, 0, "dead-letter-and-continue", NoKey) }

\* Two chains, a repeated key, explicit numbers with a gap.
NumberingRequests == { Req(c1, 0, "", k1), Req(c2, 0, "", NoKey), Req(c2, 2, "", k1) }

\* Jobs of one chain, numbered by the repository.
PlainRequests == { Req(c1, 0, "", NoKey) }

NoCommands == {}
Purge == {"bulkPurge"}
AllButPurge == Command \ {"bulkPurge"}
==============================================================================
