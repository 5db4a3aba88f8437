---------------------------- MODULE MCMemoryRepo -----------------------------
(* Small instances of the in-memory repository.                              *)
EXTENDS MemoryRepo, TLC

CONSTANTS c1, c2, k1, t1, j1, j2, j3

JobSymmetry == Permutations(JobId)

Req(c, seq, mode, key) ==
    [chain |-> c, sequence |-> seq, type |-> t1, mode |-> mode, key |-> key,
     maxAttempts |-> 0, avail |-> "due"]

\* Two chains: automatic numbers and explicit ones, a place that a purge has left among
\* them, gaps, a negative number, a repeated key, the three modes, and a request without
\* a chain id.
MixedRequests ==
    { Req(c1, 0, "skip-on-failure", NoKey), Req(c1, 1, "", NoKey),
      Req(c1, 3, "dead-letter-and-continue", k1), Req(c2, 0, "", k1), Req(c2, -1, "", NoKey),
      Req(NoChain, 0, "", NoKey) }

AllCommands == Command
==============================================================================
