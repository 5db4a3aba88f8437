--------------------------- MODULE MCSqlServerRepo ---------------------------
(* Small instances of the SQL Server repository.                             *)
EXTENDS SqlServerRepo, TLC

CONSTANTS k1, t1, j1, j2, j3, w1, s1, s2

Symmetry == Permutations(JobId) \cup Permutations(Session)

Req(c, seq, type, mode, key) ==
    [chain |-> c, sequence |-> seq, type |-> type, mode |-> mode, key |-> key,
     maxAttempts |-> 0, avail |-> "due"]

\* One chain in two modes.
ChainRequests == { Req(1, 0, t1, "dead-letter-and-continue", NoKey), Req(1, 0, t1, "", NoKey) }

\* Two chains, a repeated key, explicit numbers with a gap, requests without chain or type.
NumberingRequests ==
    { Req(1, 0, t1, "", k1), Req(2, 0, t1, "", NoKey), Req(2, 2, t1, "", k1),
      Req(NoChain, 0, t1, "", NoKey), Req(1, 0, NoType, "", NoKey) }

\* Jobs of one chain, numbered by the repository.
PlainRequests == { Req(1, 0, t1, "", NoKey) }

SkipReplayPurge == {"skip", "replay", "bulkPurge"}
OtherCommands == Command \ SkipReplayPurge
BulkSkipReplay == {"bulkSkip", "replay"}
==============================================================================
