-------------------------------- MODULE Jobs ---------------------------------
(***************************************************************************)
(* The data the engine and the repositories exchange: Job and              *)
(* EnqueueRequest of job.go.  Payload, tenant, trace, error text and the   *)
(* audit timestamps are left out: no decision of the system reads them.    *)
(***************************************************************************)
EXTENDS Integers, Lifecycle

CONSTANTS
    JobId,              \* the uuids the model may hand out
    ChainId, NoChain,   \* chain ids; NoChain is the empty string
    Key, NoKey,         \* idempotency keys; NoKey is the empty string
    Worker, NoWorker,   \* worker names; NoWorker is the empty string
    JobType, NoType,    \* job types; NoType is the empty string
    Requests,           \* the EnqueueRequests callers make
    DefaultMaxAttempts  \* MaxAttempts of a request that leaves it 0 (5 in the code)

\* AvailableAt and LeaseUntil, as compared with the clock; "none" is a nil lease.
Avail == {"due", "later"}
Lease == {"none", "live", "expired"}

\* EnqueueRequest.  sequence 0 asks for the next free one, maxAttempts 0 for the
\* default, mode "" for strict; avail "due" also stands for a nil AvailableAt.
Request == [chain : ChainId \cup {NoChain}, sequence : Int,
            type : JobType \cup {NoType}, mode : OrderingMode \cup {""},
            key : Key \cup {NoKey}, maxAttempts : Int, avail : Avail]

\* Job
Job == [chain : ChainId, seq : Int, type : JobType \cup {NoType},
        mode : OrderingMode, key : Key \cup {NoKey}, status : Status, attempt : Nat, maxAttempts : Int,
        avail : Avail, lease : Lease, worker : Worker \cup {NoWorker}, gen : Nat]

ASSUME RequestAssumption == Requests \subseteq Request
ASSUME DefaultAssumption == DefaultMaxAttempts \in Int
ASSUME NoValueAssumption ==
    /\ NoChain \notin ChainId
    /\ NoKey \notin Key
    /\ NoWorker \notin Worker
    /\ NoType \notin JobType

(* Maps and tables: functions whose domain is the set of keys present.        *)

EmptyMap == [x \in {} |-> x]

\* m with entry k set to v.
Put(m, k, v) == [x \in DOMAIN m \cup {k} |-> IF x = k THEN v ELSE m[x]]

\* m without the keys in S.
Without(m, S) == [x \in DOMAIN m \ S |-> m[x]]

(* The jobs as OrderedChain sees them: the refinement mapping of the repositories. *)

PhaseOf(status) ==
    CASE status = "PROCESSING" -> "running"
      [] status = "COMPLETED" -> "done"
      [] status \in DLQStatus -> "failed"
      [] status \in {"CANCEL_REQUESTED", "CANCELLED"} -> "cancelled"
      [] OTHER -> "waiting"

ChainView(rows) ==
    [id \in DOMAIN rows |->
        [chain |-> rows[id].chain, seq |-> rows[id].seq, strict |-> rows[id].mode = "strict",
         phase |-> PhaseOf(rows[id].status), token |-> rows[id].gen]]
==============================================================================
