----------------------------- MODULE MemoryRepo ------------------------------
(***************************************************************************)
(* The in-memory repository, repository/memory/repository.go.              *)
(*                                                                         *)
(* Every method of the Go type holds r.mu from its first to its last line, *)
(* so each one is a single action.  jobs and chain are Go maps: functions  *)
(* whose domain is the set of keys present.                                *)
(*                                                                         *)
(* Time is abstracted to what the code compares it with: a job's           *)
(* available_at is "due" or "later", its lease_until is nil ("none"), in   *)
(* the future ("live") or in the past ("expired").  BecomesDue and         *)
(* LeaseExpires are time passing.                                          *)
(***************************************************************************)
EXTENDS Jobs, FiniteSets

CONSTANTS
    RecoverLimit,       \* limit argument of RecoverStale (100 in the engine)
    Commands,           \* the operator commands this instance issues
    MaxGen              \* bound: a job is claimed at most MaxGen times

Command == { "cancel", "replay", "skip", "reschedule",
             "bulkReplay", "bulkSkip", "bulkPurge" }

ASSUME CommandAssumption == Commands \subseteq Command
ASSUME BoundAssumption == MaxGen \in Nat /\ RecoverLimit \in Nat

VARIABLES
    jobs,    \* r.jobs:  uuid -> Job
    chain,   \* r.chain: chain id -> sequence -> uuid; an absent chain maps nothing
    issued   \* the uuids uuid.New() has returned to a caller: it repeats none

repoVars == <<jobs, chain, issued>>

RepoInit ==
    /\ jobs = EmptyMap
    /\ chain = [c \in ChainId |-> EmptyMap]
    /\ issued = {}

-----------------------------------------------------------------------------
(* Enqueue.  The helpers take the two maps as arguments, because a batch runs *)
(* them on the maps its earlier requests have already changed.                *)

\* The ids of the jobs findJobByIdempotencyKey may return.
findJobByIdempotencyKey(js, key) == {id \in DOMAIN js : js[id].key = key}

\* getMaxSequence of a chain's index m: 0 when no positive sequence is there.
getMaxSequence(m) == CHOOSE n \in DOMAIN m \cup {0} : \A s \in DOMAIN m \cup {0} : s <= n

\* A deleted or never created chain is one without entries.
hasChain(m) == DOMAIN m # {}

\* The gap test with the off-by-one that lets one sequence number be skipped.
SequenceGapOffByOne(m, seq) ==
    /\ seq > 1
    /\ hasChain(m) => seq - 1 \notin DOMAIN m /\ seq > getMaxSequence(m) + 2

\* The sequence gap test: only beyond the highest sequence, or without a chain.
SequenceGap(m, seq) ==
    /\ seq > 1
    /\ hasChain(m) => seq - 1 \notin DOMAIN m /\ seq > getMaxSequence(m) + 1

\* The errors of validateAndResolveSequence.
SequenceRejected(m, seq) == seq # 0 /\ (SequenceGap(m, seq) \/ seq \in DOMAIN m)

\* The sequence validateAndResolveSequence returns when it does not reject.
ResolvedSequence(m, seq) == IF seq = 0 THEN getMaxSequence(m) + 1 ELSE seq

\* The mode forgotten: a failed strict predecessor counts as finished.
PredFinishedAnyMode(pred) == pred.status = "COMPLETED" \/ pred.status \in DLQStatus

\* isPredFinished, written out in determineInitialStatus and in Claim.
PredFinished(pred) ==
    \/ pred.status = "COMPLETED"
    \/ pred.status \in DLQStatus /\ pred.mode \in ContinueModes

\* Claim and determineInitialStatus read the predecessor through the index.
PredecessorFinished(js, m, seq) ==
    /\ seq - 1 \in DOMAIN m
    /\ m[seq - 1] \in DOMAIN js
    /\ PredFinished(js[m[seq - 1]])

\* determineInitialStatus.  Any sequence up to 1, a negative one too, starts PENDING.
determineInitialStatus(js, m, seq) ==
    IF seq <= 1 \/ PredecessorFinished(js, m, seq) THEN "PENDING" ELSE "BLOCKED"

\* The empty ordering mode stored as it came.
NewJobModeUnresolved(req, seq, status) ==
    [chain |-> req.chain, seq |-> seq, type |-> req.type, mode |-> req.mode,
     key |-> req.key, status |-> status, attempt |-> 0,
     maxAttempts |-> IF req.maxAttempts = 0 THEN DefaultMaxAttempts ELSE req.maxAttempts,
     avail |-> req.avail, lease |-> "none", worker |-> NoWorker, gen |-> 0]

\* The Job a request becomes: never claimed, with the defaults filled in.
NewJob(req, seq, status) ==
    [chain |-> req.chain, seq |-> seq, type |-> req.type,
     mode |-> IF req.mode = "" THEN "strict" ELSE req.mode,
     key |-> req.key, status |-> status, attempt |-> 0,
     maxAttempts |-> IF req.maxAttempts = 0 THEN DefaultMaxAttempts ELSE req.maxAttempts,
     avail |-> req.avail, lease |-> "none", worker |-> NoWorker, gen |-> 0]

\* The key looked up only among the jobs that are still running.
IsDuplicateOfLive(js, req) ==
    /\ req.key # NoKey
    /\ \E id \in findJobByIdempotencyKey(js, req.key) : ~IsTerminal(js[id].status)

\* The request repeats the key of a stored job, which is returned instead.
IsDuplicate(js, req) == req.key # NoKey /\ findJobByIdempotencyKey(js, req.key) # {}

\* An error return: nothing inserted.
Refused(st) == [jobs |-> st.jobs, chain |-> st.chain, err |-> TRUE]

\* enqueueSingleInMemory on the maps st = [jobs, chain], with id the uuid it draws.
enqueueSingleInMemory(st, req, id) ==
    IF req.chain = NoChain THEN Refused(st)
    ELSE IF IsDuplicate(st.jobs, req) THEN st
    ELSE LET m == st.chain[req.chain]
             seq == ResolvedSequence(m, req.sequence)
             job == NewJob(req, seq, determineInitialStatus(st.jobs, m, seq))
         IN IF SequenceRejected(m, req.sequence) THEN Refused(st)
            ELSE [jobs  |-> Put(st.jobs, id, job),
                  chain |-> [st.chain EXCEPT ![req.chain] = Put(m, seq, id)],
                  err   |-> FALSE]

\* What the maps are before the call.
Stored == [jobs |-> jobs, chain |-> chain, err |-> FALSE]

\* The call's result becomes the state; on an error nothing of it remains.
Store(st) ==
    /\ ~st.err
    /\ jobs' = st.jobs
    /\ chain' = st.chain
    /\ issued' = issued \cup DOMAIN st.jobs

\* Enqueue
Enqueue(req) == \E id \in JobId \ issued : Store(enqueueSingleInMemory(Stored, req, id))

\* EnqueueBatch of two requests: the second one runs on what the first one left.
BatchResult(req1, req2, id1, id2) ==
    LET first == enqueueSingleInMemory(Stored, req1, id1)
    IN IF first.err THEN first ELSE enqueueSingleInMemory(first, req2, id2)

\* The rollback that restores r.jobs and forgets r.chain.
EnqueueBatchKeepsIndex(req1, req2) ==
    \E id1, id2 \in JobId \ issued :
        LET st == BatchResult(req1, req2, id1, id2)
        IN /\ id1 # id2
           /\ jobs' = IF st.err THEN jobs ELSE st.jobs
           /\ chain' = st.chain
           /\ issued' = issued \cup DOMAIN st.jobs

\* A failed batch restores both maps from their backups: it changes nothing.
EnqueueBatch(req1, req2) ==
    \E id1, id2 \in JobId \ issued : id1 # id2 /\ Store(BatchResult(req1, req2, id1, id2))

-----------------------------------------------------------------------------
(* The worker's calls.  id, w, g are the job id, worker name and lease         *)
(* generation the worker received from Claim.                                  *)

\* eligibility: sequence 1, or a finished predecessor (candidates of Claim)
Eligible(id) ==
    /\ CanBeClaimed(jobs[id].status)
    /\ jobs[id].avail = "due"
    /\ \/ jobs[id].seq = 1
       \/ PredecessorFinished(jobs, chain[jobs[id].chain], jobs[id].seq)

\* The double-check of Claim removed.
ChainBusyUnchecked(c) == c = NoChain

\* Some job of the chain is being processed.
ChainBusy(c) == \E id \in DOMAIN jobs : jobs[id].chain = c /\ jobs[id].status = "PROCESSING"

\* A claim of id.  Which candidate is first in (available_at, created_at) order
\* is left open: the model lets Claim return any of them.
ClaimJob(w, id) ==
    /\ id \in DOMAIN jobs
    /\ Eligible(id)
    /\ ~ChainBusy(jobs[id].chain)
    /\ jobs[id].gen < MaxGen
    /\ jobs' = [jobs EXCEPT ![id].status = "PROCESSING", ![id].worker = w,
                            ![id].gen = @ + 1, ![id].lease = "live",
                            ![id].attempt = @ + 1]
    /\ UNCHANGED <<chain, issued>>

Claim(w) == \E id \in DOMAIN jobs : ClaimJob(w, id)

\* No fencing: whoever calls may report on the job.
OwnsUnfenced(id, w, g) == id \in DOMAIN jobs

\* The fencing check of Complete, Fail, Retry, Heartbeat and ConfirmCancel: it
\* compares worker and generation and does not look at the status.
Owns(id, w, g) == id \in DOMAIN jobs /\ jobs[id].worker = w /\ jobs[id].gen = g

\* ErrNotFound or ErrLeaseConflict: the call changes nothing.
LeaseConflict(id, w, g) == ~Owns(id, w, g) /\ UNCHANGED repoVars

\* js with the job after sequence s of chain c promoted, if it is BLOCKED.
Promoted(js, c, s) ==
    [id \in DOMAIN js |->
        IF /\ s + 1 \in DOMAIN chain[c]
           /\ chain[c][s + 1] = id
           /\ js[id].status = "BLOCKED"
        THEN [js[id] EXCEPT !.status = "PENDING"] ELSE js[id]]

\* Complete
Complete(id, w, g) ==
    /\ Owns(id, w, g)
    /\ jobs' = Promoted([jobs EXCEPT ![id].status = "COMPLETED", ![id].lease = "none"],
                        jobs[id].chain, jobs[id].seq)
    /\ UNCHANGED <<chain, issued>>

\* Fail
Fail(id, w, g, terminal) ==
    /\ Owns(id, w, g)
    /\ jobs' = [jobs EXCEPT ![id].status = IF terminal /\ jobs[id].mode = "dead-letter-and-continue"
                                           THEN "DEAD_LETTERED" ELSE "FAILED",
                            ![id].lease = "none"]
    /\ UNCHANGED <<chain, issued>>

\* Retry.  nextAvailable lies in the future; BecomesDue brings it about.
Retry(id, w, g) ==
    /\ Owns(id, w, g)
    /\ jobs' = [jobs EXCEPT ![id].status = "RETRYING", ![id].avail = "later", ![id].lease = "none"]
    /\ UNCHANGED <<chain, issued>>

\* Heartbeat
Heartbeat(id, w, g) ==
    /\ Owns(id, w, g)
    /\ jobs' = [jobs EXCEPT ![id].lease = "live"]
    /\ UNCHANGED <<chain, issued>>

\* ConfirmCancel.  Part of the Repository interface; the engine never calls it.
ConfirmCancel(id, w, g) ==
    /\ Owns(id, w, g)
    /\ jobs' = [jobs EXCEPT ![id].status = "CANCELLED", ![id].lease = "none"]
    /\ UNCHANGED <<chain, issued>>

\* PromoteNext
PromoteNext(c, completedSeq) ==
    /\ jobs' = Promoted(jobs, c, completedSeq)
    /\ UNCHANGED <<chain, issued>>

-----------------------------------------------------------------------------
(* Recovery and the operator's commands                                        *)

\* The lease not compared with the clock.
StaleWhateverLease == {id \in DOMAIN jobs : jobs[id].status = "PROCESSING"}

\* The jobs whose worker let the lease run out.
Stale == {id \in DOMAIN jobs : jobs[id].status = "PROCESSING" /\ jobs[id].lease = "expired"}

\* The stale jobs one call recovers: map order decides which when there are more.
RecoverBatch ==
    {R \in SUBSET Stale : /\ Cardinality(R) <= RecoverLimit
                          /\ R = Stale \/ Cardinality(R) = RecoverLimit}

\* RecoverStale of the jobs in R.  Worker and generation stay as they are; attempts
\* are not compared with the maximum.
RecoverJobs(R) ==
    /\ R # {}
    /\ jobs' = [id \in DOMAIN jobs |->
                  IF id \in R
                  THEN [jobs[id] EXCEPT !.status = "RETRYING", !.avail = "later", !.lease = "none"]
                  ELSE jobs[id]]
    /\ UNCHANGED <<chain, issued>>

RecoverStale == \E R \in RecoverBatch : RecoverJobs(R)

\* RequestCancel.  A job being processed is left alone, without an error.
RequestCancel(id) ==
    /\ id \in DOMAIN jobs
    /\ jobs' = IF jobs[id].status \in {"PENDING", "RETRYING", "BLOCKED"}
               THEN [jobs EXCEPT ![id].status = "CANCEL_REQUESTED"] ELSE jobs
    /\ UNCHANGED <<chain, issued>>

\* js with the jobs in S made PENDING again (ReplayJob, BulkReplayDLQ).
Replayed(js, S) ==
    [id \in DOMAIN js |->
        IF id \in S
        THEN [js[id] EXCEPT !.status = "PENDING", !.attempt = 0, !.avail = "due", !.lease = "none"]
        ELSE js[id]]

\* js with the jobs in S declared COMPLETED and their successors promoted.
Skipped(js, S) ==
    [id \in DOMAIN js |->
        IF id \in S THEN [js[id] EXCEPT !.status = "COMPLETED", !.lease = "none"]
        ELSE IF /\ js[id].status = "BLOCKED"
                /\ \E p \in S : /\ js[p].seq + 1 \in DOMAIN chain[js[p].chain]
                                /\ chain[js[p].chain][js[p].seq + 1] = id
             THEN [js[id] EXCEPT !.status = "PENDING"] ELSE js[id]]

\* ReplayJob and ReplayJobWithPayload (payloads are not modelled)
ReplayJob(id) ==
    /\ id \in DOMAIN jobs
    /\ jobs[id].status \in Replayable
    /\ jobs' = Replayed(jobs, {id})
    /\ UNCHANGED <<chain, issued>>

\* SkipJob
SkipJob(id) ==
    /\ id \in DOMAIN jobs
    /\ jobs[id].status \in Replayable
    /\ jobs' = Skipped(jobs, {id})
    /\ UNCHANGED <<chain, issued>>

\* RescheduleJob
RescheduleJob(id, avail) ==
    /\ id \in DOMAIN jobs
    /\ CanBeClaimed(jobs[id].status)
    /\ jobs' = [jobs EXCEPT ![id].avail = avail]
    /\ UNCHANGED <<chain, issued>>

\* The sets of jobs a filter of the bulk commands can match (matchesDLQFilter):
\* tenant and trace ids, which the model drops, single out any of them.
DLQMatches == SUBSET {id \in DOMAIN jobs : jobs[id].status \in DLQStatus}

BulkReplayDLQ ==
    \E S \in DLQMatches :
        /\ S # {}
        /\ jobs' = Replayed(jobs, S)
        /\ UNCHANGED <<chain, issued>>

BulkSkipDLQ ==
    \E S \in DLQMatches :
        /\ S # {}
        /\ jobs' = Skipped(jobs, S)
        /\ UNCHANGED <<chain, issued>>

\* The index entries of the jobs in S.
IndexEntries(S, c) == {jobs[id].seq : id \in {i \in S : jobs[i].chain = c}}

\* The purge that leaves the chain's index alone.
BulkPurgeKeepsIndex ==
    \E S \in DLQMatches :
        /\ S # {}
        /\ jobs' = Without(jobs, S)
        /\ UNCHANGED <<chain, issued>>

\* BulkPurgeDLQ removes the jobs and their index entries.
BulkPurgeDLQ ==
    \E S \in DLQMatches :
        /\ S # {}
        /\ jobs' = Without(jobs, S)
        /\ chain' = [c \in ChainId |-> Without(chain[c], IndexEntries(S, c))]
        /\ UNCHANGED issued

-----------------------------------------------------------------------------
(* Time                                                                        *)

BecomesDue(id) ==
    /\ id \in DOMAIN jobs
    /\ jobs[id].avail = "later"
    /\ jobs' = [jobs EXCEPT ![id].avail = "due"]
    /\ UNCHANGED <<chain, issued>>

\* Only a PROCESSING job's lease is ever compared with the clock, and Claim sets it
\* anew, so the lease a late heartbeat leaves on another job need not run out.
LeaseExpires(id) ==
    /\ id \in DOMAIN jobs
    /\ jobs[id].status = "PROCESSING"
    /\ jobs[id].lease = "live"
    /\ jobs' = [jobs EXCEPT ![id].lease = "expired"]
    /\ UNCHANGED <<chain, issued>>

-----------------------------------------------------------------------------
(* The repository under arbitrary callers: any worker may repeat, at any time, *)
(* any call its fencing token admits.                                          *)

ProducerStep ==
    \/ \E req \in Requests : Enqueue(req)
    \/ \E req1, req2 \in Requests : EnqueueBatch(req1, req2)

WorkerStep ==
    \/ \E w \in Worker : Claim(w)
    \/ \E id \in JobId, w \in Worker, g \in 1 .. MaxGen :
          \/ Complete(id, w, g)
          \/ \E terminal \in BOOLEAN : Fail(id, w, g, terminal)
          \/ Retry(id, w, g)
          \/ Heartbeat(id, w, g)
          \/ ConfirmCancel(id, w, g)
    \/ \E c \in ChainId : \E s \in DOMAIN chain[c] : PromoteNext(c, s - 1)
    \/ RecoverStale

OperatorStep ==
    \/ "cancel" \in Commands /\ \E id \in JobId : RequestCancel(id)
    \/ "replay" \in Commands /\ \E id \in JobId : ReplayJob(id)
    \/ "skip" \in Commands /\ \E id \in JobId : SkipJob(id)
    \/ "reschedule" \in Commands /\ \E id \in JobId, a \in Avail : RescheduleJob(id, a)
    \/ "bulkReplay" \in Commands /\ BulkReplayDLQ
    \/ "bulkSkip" \in Commands /\ BulkSkipDLQ
    \/ "bulkPurge" \in Commands /\ BulkPurgeDLQ

TimeStep == \E id \in JobId : BecomesDue(id) \/ LeaseExpires(id)

RepoNext == ProducerStep \/ WorkerStep \/ OperatorStep \/ TimeStep

RepoSpec == RepoInit /\ [][RepoNext]_repoVars

-----------------------------------------------------------------------------
(* Properties                                                                  *)

\* Type correctness of the two maps; an id in use has been issued.
RepoTypeOK ==
    /\ issued \subseteq JobId
    /\ DOMAIN jobs \subseteq issued
    /\ jobs \in [DOMAIN jobs -> Job]
    /\ chain = [c \in ChainId |-> chain[c]]
    /\ \A c \in ChainId : /\ chain[c] \in [DOMAIN chain[c] -> JobId]
                          /\ DOMAIN chain[c] \subseteq Int

\* At most one job of a chain is PROCESSING, whatever workers and operators do.
\* Replaying a skipped job, or enqueueing into the hole a purge left, makes a job
\* eligible while its successor runs: only Claim's double-check keeps them apart.
ChainMutex ==
    \A i, j \in DOMAIN jobs :
        /\ jobs[i].chain = jobs[j].chain
        /\ jobs[i].status = "PROCESSING" /\ jobs[j].status = "PROCESSING"
        => i = j

\* r.jobs and r.chain describe the same jobs: every index entry leads to the job
\* with that chain and sequence, and every job has its entry.  Enqueue, the batch
\* rollback and the purge each update both maps.
IndexConsistent ==
    /\ \A c \in ChainId : \A s \in DOMAIN chain[c] :
          /\ chain[c][s] \in DOMAIN jobs
          /\ jobs[chain[c][s]].chain = c
          /\ jobs[chain[c][s]].seq = s
    /\ \A id \in DOMAIN jobs :
          /\ jobs[id].seq \in DOMAIN chain[jobs[id].chain]
          /\ chain[jobs[id].chain][jobs[id].seq] = id

\* No two stored jobs carry the same idempotency key, within a batch either.
UniqueIdempotencyKey ==
    \A i, j \in DOMAIN jobs : jobs[i].key = jobs[j].key /\ jobs[i].key # NoKey => i = j

\* Until an operator purges a job, the positive sequences of a chain are 1, 2, ..., n:
\* Enqueue's gap test and automatic numbering leave no hole for the chain to stop at.
DenseSequences ==
    issued = DOMAIN jobs =>
        \A c \in ChainId :
            LET pos == {s \in DOMAIN chain[c] : s > 0} IN pos = 1 .. Cardinality(pos)
==============================================================================
