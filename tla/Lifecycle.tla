------------------------------ MODULE Lifecycle ------------------------------
(***************************************************************************)
(* Job statuses and ordering modes: lifecycle/state.go and the ordering    *)
(* mode constants of job.go.  Every repository and the engine read them.   *)
(***************************************************************************)

\* lifecycle.State*.  TIMED_OUT and EXPIRED are declared but no code sets them.
Status == { "BLOCKED", "PENDING", "PROCESSING", "RETRYING", "COMPLETED", "FAILED",
            "CANCEL_REQUESTED", "CANCELLED", "TIMED_OUT", "EXPIRED", "DEAD_LETTERED" }

\* OrderingMode*: what a terminal failure does to the rest of its chain.
OrderingMode == { "strict", "skip-on-failure", "dead-letter-and-continue" }

\* The modes under which the chain goes on past a failed job.
ContinueModes == { "skip-on-failure", "dead-letter-and-continue" }

\* IsTerminal
IsTerminal(s) == s \in {"COMPLETED", "FAILED", "CANCELLED", "EXPIRED", "DEAD_LETTERED"}

\* CanBeClaimed
CanBeClaimed(s) == s \in {"PENDING", "RETRYING"}

\* The statuses from which an operator may replay or skip a job.
Replayable == {"FAILED", "CANCELLED", "DEAD_LETTERED"}

\* The dead letter queue is not a table: it is the jobs in these two statuses.
DLQStatus == {"FAILED", "DEAD_LETTERED"}
==============================================================================
