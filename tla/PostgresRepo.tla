---------------------------- MODULE PostgresRepo -----------------------------
(***************************************************************************)
(* The PostgreSQL repository, repository/postgres/repository.go, on the    *)
(* table of 001_initial.sql at READ COMMITTED, the level pool.Begin asks   *)
(* for.  SKIP LOCKED passes over a row that a transaction has written.     *)
(* The empty string is a chain id like any other here.                     *)
(***************************************************************************)
EXTENDS SqlTable

CONSTANT LateConfirms  \* callers confirm cancels that are not requested, or not any more

ASSUME ChainAssumption == \A req \in Requests : req.chain \in ChainId

ASSUME ConfirmAssumption == LateConfirms \in BOOLEAN

\* The lock forgotten.
HashLockAlwaysFree(s, c) == s \in Session

\* pg_advisory_xact_lock(hashtext(c)) can be had.  Two chains whose hashes collide
\* would share a lock; the model keeps them apart.
HashLockFree(s, c) == LockFree(s, c)

-----------------------------------------------------------------------------
(* Enqueue and EnqueueBatch                                                    *)

\* The transaction that enqueues reqs; distinctChains are the locks it asks for.
Begun(reqs, batch) ==
    [NoTx EXCEPT !.at = "lock", !.batch = batch, !.reqs = reqs,
                 !.wait = {reqs[i].chain : i \in DOMAIN reqs}]

\* The transaction t of session s gets one of the locks it asks for: a batch ranges over
\* a Go map, so in any order.  A transaction shows itself with its first lock.
AdvisoryLock(s, t, c) ==
    /\ c \in t.wait
    /\ HashLockFree(s, c)
    /\ Continue(s, [t EXCEPT !.wait = @ \ {c}, !.locks = @ \cup {c},
                             !.at = IF t.wait = {c} THEN "number" ELSE "lock"])
    /\ UNCHANGED <<table, issued>>

\* Enqueue begins.
Enqueue(s, req) == tx[s].at = "none" /\ AdvisoryLock(s, Begun(<<req>>, FALSE), req.chain)

\* EnqueueBatch of two requests begins ...
EnqueueBatch(s, req1, req2) ==
    /\ tx[s].at = "none"
    /\ \E c \in {req1.chain, req2.chain} : AdvisoryLock(s, Begun(<<req1, req2>>, TRUE), c)

\* ... and goes on to its second chain.
NextLock(s) == tx[s].at = "lock" /\ \E c \in tx[s].wait : AdvisoryLock(s, tx[s], c)

\* The key looked up only among the jobs that are still running.
IsDuplicateOfLive(rows, req) ==
    /\ req.key # NoKey
    /\ \E id \in DOMAIN rows : rows[id].key = req.key /\ ~IsTerminal(rows[id].status)

\* findExistingByIdempotencyKey, and the batch's look at what it has inserted itself.
IsDuplicate(rows, req) == req.key # NoKey /\ \E id \in DOMAIN rows : rows[id].key = req.key

\* The gap check, which only Enqueue makes.
SequenceGap(rows, c, seq) ==
    /\ seq > 1
    /\ ~AllowGap
    /\ At(rows, c, seq - 1) = {}
    /\ \A max \in MaxSequence(rows, c) : seq > max + 1

\* The sequences the request may get: none when it is rejected.
Numbers(rows, req, batch) ==
    IF req.sequence = 0
    THEN IF MaxSequence(rows, req.chain) = {} THEN {1}
         ELSE {max + 1 : max \in MaxSequence(rows, req.chain)}
    ELSE {n \in {req.sequence} : /\ At(rows, req.chain, n) = {}
                                 /\ batch \/ ~SequenceGap(rows, req.chain, n)}

\* The transaction after its first request is dealt with.
Served(t) ==
    [t EXCEPT !.reqs = Tail(@), !.seq = 0, !.at = IF Len(t.reqs) = 1 THEN "commit" ELSE "number"]

\* The key is looked up and the sequence found (resolveSequenceInTx).  A duplicate is
\* answered with the existing job; a rejected request can only roll back.
Number(s) ==
    /\ tx[s].at = "number"
    /\ LET req == Head(tx[s].reqs)
       IN IF IsDuplicate(Visible(s), req) THEN Continue(s, Served(tx[s]))
          ELSE \E n \in Numbers(Visible(s), req, tx[s].batch) :
                  Continue(s, [tx[s] EXCEPT !.seq = n, !.at = "insert"])
    /\ UNCHANGED <<table, issued>>

\* The mode forgotten: a failed strict predecessor counts as finished.
PredFinishedAnyMode(pred) == pred.status = "COMPLETED" \/ pred.status \in DLQStatus

\* A predecessor that lets its successor go, in Claim and in determineStatusInTx.
PredFinished(pred) ==
    \/ pred.status = "COMPLETED"
    \/ pred.status \in DLQStatus /\ pred.mode \in ContinueModes

\* The status of a new job.  Enqueue takes only a COMPLETED predecessor as finished,
\* EnqueueBatch (determineStatusInTx) minds its mode.
InitialStatus(rows, c, seq, batch) ==
    IF \/ seq <= 1
       \/ \E p \in At(rows, c, seq - 1) :
             rows[p].status = "COMPLETED" \/ (batch /\ PredFinished(rows[p]))
    THEN "PENDING" ELSE "BLOCKED"

\* The empty ordering mode stored as it came.
NewRowModeUnresolved(req, seq, status, batch) ==
    [chain |-> req.chain, seq |-> seq, type |-> req.type, mode |-> req.mode,
     key |-> req.key, status |-> status, attempt |-> 0,
     maxAttempts |-> IF req.maxAttempts = 0 THEN DefaultMaxAttempts ELSE req.maxAttempts,
     avail |-> req.avail, lease |-> "none", worker |-> NoWorker, gen |-> 0]

\* The row inserted.  Enqueue's INSERT has no ordering_mode column: the table's default
\* 'strict' stands, whatever the request says.
NewRow(req, seq, status, batch) ==
    [chain |-> req.chain, seq |-> seq, type |-> req.type,
     mode |-> IF batch /\ req.mode # "" THEN req.mode ELSE "strict",
     key |-> req.key, status |-> status, attempt |-> 0,
     maxAttempts |-> IF req.maxAttempts = 0 THEN DefaultMaxAttempts ELSE req.maxAttempts,
     avail |-> req.avail, lease |-> "none", worker |-> NoWorker, gen |-> 0]

\* The predecessor's status is read and the row inserted.  Until the commit no other
\* session sees it.  The unique constraint on (chain_id, sequence) turns down a place
\* that is taken, and waits for one that an open transaction has taken.
Insert(s) ==
    /\ tx[s].at = "insert"
    /\ LET req == Head(tx[s].reqs)
           rows == Visible(s)
           status == InitialStatus(rows, req.chain, tx[s].seq, tx[s].batch)
       IN /\ \A o \in Session : At(Visible(o), req.chain, tx[s].seq) = {}
          /\ \E id \in JobId \ issued :
                /\ Continue(s, [Served(tx[s]) EXCEPT
                        !.writes = Put(@, id, NewRow(req, tx[s].seq, status, tx[s].batch))])
                /\ issued' = issued \cup {id}
    /\ UNCHANGED table

-----------------------------------------------------------------------------
(* The worker's calls                                                          *)

Eligible(id) ==
    /\ CanBeClaimed(table[id].status)
    /\ table[id].avail = "due"
    /\ table[id].seq = 1 \/ \E p \in At(table, table[id].chain, table[id].seq - 1) :
                                PredFinished(table[p])

\* Claim.  FOR UPDATE SKIP LOCKED guards the candidate's row and no other: nothing
\* asks whether the chain has a job PROCESSING.  Any candidate may come first.
Claim(w, id) ==
    /\ id \in DOMAIN table
    /\ Eligible(id)
    /\ table[id].gen < MaxGen
    /\ WriteRow(id, [table[id] EXCEPT !.status = "PROCESSING", !.worker = w, !.gen = @ + 1,
                                      !.lease = "live", !.attempt = @ + 1])

\* The fence without the status.
OwnsAnyStatus(id, w, g) == id \in DOMAIN table /\ table[id].worker = w /\ table[id].gen = g

\* WHERE id, worker_id, lease_generation AND status='PROCESSING'
Owns(id, w, g) ==
    /\ id \in DOMAIN table
    /\ table[id].worker = w
    /\ table[id].gen = g
    /\ table[id].status = "PROCESSING"

\* The rows at those places would be promoted, but another session holds one of them.
PromotionWaits(s, places) ==
    \E p \in places : \E id \in At(table, p[1], p[2] + 1) :
        table[id].status = "BLOCKED" /\ LockedFor(s, id)

\* The jobs in S become COMPLETED and those after the places PENDING, in session s.
CompleteAndPromote(s, S, places) ==
    /\ \A id \in S : ~LockedFor(s, id)
    /\ ~PromotionWaits(s, places)
    /\ LET succ == UNION {At(table, p[1], p[2] + 1) : p \in places}
           rows == [id \in S \cup {i \in succ : table[i].status = "BLOCKED"} |->
                      IF id \in S THEN [table[id] EXCEPT !.status = "COMPLETED", !.lease = "none"]
                      ELSE [table[id] EXCEPT !.status = "PENDING"]]
       IN Continue(s, [NoTx EXCEPT !.at = "commit", !.writes = rows])
    /\ UNCHANGED <<table, issued>>

\* The fenced UPDATE alone.
CompleteWithoutPromotion(s, id, w, g) ==
    /\ tx[s].at = "none"
    /\ Owns(id, w, g)
    /\ CompleteAndPromote(s, {id}, {})

\* Complete: the fenced UPDATE and the promotion, in one transaction.
Complete(s, id, w, g) ==
    /\ tx[s].at = "none"
    /\ Owns(id, w, g)
    /\ CompleteAndPromote(s, {id}, {Place(id)})

\* Fail
Fail(id, w, g, terminal) ==
    /\ Owns(id, w, g)
    /\ LET status == IF terminal /\ table[id].mode = "dead-letter-and-continue"
                     THEN "DEAD_LETTERED" ELSE "FAILED"
       IN WriteRow(id, [table[id] EXCEPT !.status = status, !.lease = "none"])

\* Retry
Retry(id, w, g) ==
    /\ Owns(id, w, g)
    /\ WriteRow(id, [table[id] EXCEPT !.status = "RETRYING", !.avail = "later", !.lease = "none"])

\* Heartbeat
Heartbeat(id, w, g) ==
    /\ Owns(id, w, g)
    /\ WriteRow(id, [table[id] EXCEPT !.lease = "live"])

\* ConfirmCancel, which does not look at the status.
ConfirmCancel(id, w, g) ==
    /\ id \in DOMAIN table
    /\ table[id].worker = w
    /\ table[id].gen = g
    /\ WriteRow(id, [table[id] EXCEPT !.status = "CANCELLED", !.lease = "none"])

\* PromoteNext
PromoteNext(c, n) ==
    Write([id \in {i \in At(table, c, n + 1) : table[i].status = "BLOCKED"} |->
              [table[id] EXCEPT !.status = "PENDING"]])

-----------------------------------------------------------------------------
(* Recovery and the operator's commands                                        *)

\* The lease not compared with the clock.
IsStaleWhateverLease(id) == table[id].status = "PROCESSING"

IsStale(id) == table[id].status = "PROCESSING" /\ table[id].lease = "expired"

\* RecoverStale skips locked rows; generation and attempts stay as they are.
RecoverStale ==
    LET stale == {id \in DOMAIN table : IsStale(id) /\ ~Locked(id)}
    IN \E R \in SUBSET stale :
          /\ R # {}
          /\ Cardinality(R) <= RecoverLimit
          /\ R = stale \/ Cardinality(R) = RecoverLimit
          /\ Write([id \in R |-> [table[id] EXCEPT !.status = "RETRYING", !.avail = "later",
                                                    !.lease = "none"]])

Cancellable(id) ==
    id \in DOMAIN table /\ table[id].status \in {"PENDING", "RETRYING", "BLOCKED", "PROCESSING"}

\* RequestCancel, of a job being processed too.
RequestCancel(id) ==
    /\ Cancellable(id)
    /\ WriteRow(id, [table[id] EXCEPT !.status = "CANCEL_REQUESTED"])

ReplayRow(row) == [row EXCEPT !.status = "PENDING", !.attempt = 0, !.avail = "due", !.lease = "none"]

\* ReplayJob and ReplayJobWithPayload
ReplayJob(id) ==
    /\ id \in DOMAIN table
    /\ table[id].status \in Replayable
    /\ WriteRow(id, ReplayRow(table[id]))

\* SkipJob
SkipJob(s, id) ==
    /\ tx[s].at = "none"
    /\ id \in DOMAIN table
    /\ table[id].status \in Replayable
    /\ CompleteAndPromote(s, {id}, {Place(id)})

\* RescheduleJob
RescheduleJob(id, avail) ==
    /\ id \in DOMAIN table
    /\ CanBeClaimed(table[id].status)
    /\ WriteRow(id, [table[id] EXCEPT !.avail = avail])

\* The jobs a filter matches (buildDLQWhere).  A filter is given by the jobs whose chain,
\* type, tenant or trace it names.
DLQWhere(filter) == {id \in filter \cap DOMAIN table : table[id].status \in DLQStatus}

\* BulkReplayDLQ
BulkReplayDLQ(filter) ==
    /\ DLQWhere(filter) # {}
    /\ Write([id \in DLQWhere(filter) |-> ReplayRow(table[id])])

\* BulkPurgeDLQ
BulkPurgeDLQ(filter) ==
    /\ DLQWhere(filter) # {}
    /\ \A id \in DLQWhere(filter) : ~Locked(id)
    /\ table' = Without(table, DLQWhere(filter))
    /\ UNCHANGED <<tx, issued>>

\* BulkSkipDLQ selects, without locks, what it will promote ...
BulkSkipSelect(s, filter) ==
    /\ tx[s].at = "none"
    /\ DLQWhere(filter) # {}
    /\ Continue(s, [NoTx EXCEPT !.at = "skip", !.filter = filter,
                                !.items = {Place(id) : id \in DLQWhere(filter)}])
    /\ UNCHANGED <<table, issued>>

\* ... and then updates what the filter matches by now.
BulkSkipUpdate(s) ==
    /\ tx[s].at = "skip"
    /\ CompleteAndPromote(s, DLQWhere(tx[s].filter), tx[s].items)

-----------------------------------------------------------------------------
(* The repository under arbitrary callers.  A worker repeats any call its      *)
(* fencing token admits.  ConfirmCancel is the one statement whose WHERE       *)
(* clause does not do all the fencing: a caller that keeps to the protocol     *)
(* (LateConfirms = FALSE) confirms a cancel only while one is requested.       *)

\* A worker confirms a cancel, with the call as it is or only when one is requested.
WorkerConfirms(id, w, g) ==
    /\ LateConfirms \/ (id \in DOMAIN table /\ table[id].status = "CANCEL_REQUESTED")
    /\ ConfirmCancel(id, w, g)

EnqueueGoesOn(s) == NextLock(s) \/ Number(s) \/ Insert(s)

ProducerStep(s) ==
    \/ \E req \in Requests : Enqueue(s, req)
    \/ \E req1, req2 \in Requests : EnqueueBatch(s, req1, req2)
    \/ EnqueueGoesOn(s)

WorkerStep(s) ==
    \/ \E w \in Worker, id \in JobId : Claim(w, id)
    \/ \E id \in JobId, w \in Worker, g \in 1 .. MaxGen :
          \/ Complete(s, id, w, g)
          \/ \E terminal \in BOOLEAN : Fail(id, w, g, terminal)
          \/ Retry(id, w, g)
          \/ Heartbeat(id, w, g)
          \/ WorkerConfirms(id, w, g)
    \/ \E id \in DOMAIN table : PromoteNext(table[id].chain, table[id].seq - 1)
    \/ RecoverStale

OperatorStep(s) ==
    \/ "cancel" \in Commands /\ \E id \in JobId : RequestCancel(id)
    \/ "replay" \in Commands /\ \E id \in JobId : ReplayJob(id)
    \/ "skip" \in Commands /\ \E id \in JobId : SkipJob(s, id)
    \/ "reschedule" \in Commands /\ \E id \in JobId, a \in Avail : RescheduleJob(id, a)
    \/ "bulkReplay" \in Commands /\ \E filter \in SUBSET JobId : BulkReplayDLQ(filter)
    \/ "bulkPurge" \in Commands /\ \E filter \in SUBSET JobId : BulkPurgeDLQ(filter)
    \/ "bulkSkip" \in Commands /\ \E filter \in SUBSET JobId : BulkSkipSelect(s, filter)
    \/ BulkSkipUpdate(s)

TimeStep == \E id \in JobId : BecomesDue(id) \/ LeaseExpires(id)

PgNext ==
    \/ \E s \in Session : \/ ProducerStep(s) \/ WorkerStep(s) \/ OperatorStep(s)
                          \/ Commit(s) \/ Rollback(s)
    \/ TimeStep

PgSpec == TableInit /\ [][PgNext]_tableVars

-----------------------------------------------------------------------------
(* Properties                                                                  *)

\* Type correctness of the table and of the open transactions.
PgTypeOK ==
    /\ TableTyped
    /\ \A s \in Session : tx[s].items \subseteq ChainId \X Int

\* The advisory lock does its work: from the moment a transaction has found a sequence
\* number to its commit nobody else commits, writes or finds a job with that number, so
\* the unique constraint never turns an automatically numbered job down.
NumberStaysFree == NumbersStayFree

\* Two jobs of one chain never carry the same idempotency key: the lookup and the insert
\* lie under the chain's advisory lock.  (Nothing guards one key in two chains.)
KeyUniqueInChain ==
    \A i, j \in DOMAIN table :
        /\ table[i].chain = table[j].chain
        /\ table[i].key = table[j].key /\ table[i].key # NoKey
        => i = j

\* From place 2 on a claimed job's predecessor, if strict, is COMPLETED and stays so, through
\* stale workers, recovery, operators and half-done transactions.  Only a purge can end this
\* (an explicit sequence number may later fill the hole it leaves), and a caller that
\* confirms a cancel nobody requested: where that happens this is false.
StrictFIFO ==
    \A id \in DOMAIN table : table[id].gen > 0 /\ table[id].seq > 1 =>
        \A p \in At(table, table[id].chain, table[id].seq - 1) :
            table[p].mode = "strict" => table[p].status = "COMPLETED"

\* Two jobs of a chain are PROCESSING at once only if a job from the first up to the
\* second may be passed when it fails, or is no longer there.  Claim does not ask whether
\* the chain is busy: eligibility alone keeps a strict chain exclusive, as long as cancels
\* are confirmed only while they are requested.
StrictChainMutex ==
    \A i, j \in DOMAIN table :
        /\ table[i].chain = table[j].chain
        /\ table[i].status = "PROCESSING" /\ table[j].status = "PROCESSING"
        /\ table[i].seq < table[j].seq
        => \E n \in table[i].seq .. table[j].seq - 1 :
              \A p \in At(table, table[i].chain, n) : table[p].mode # "strict"

\* A COMPLETED job stays COMPLETED: late reports, recovery and operators are kept off by the
\* status in the WHERE clause.  ConfirmCancel has none there: with LateConfirms it takes a
\* COMPLETED job to CANCELLED, and this is false.
CompletedIsFinal ==
    [][\A id \in DOMAIN table : table[id].status = "COMPLETED" =>
          id \in DOMAIN table' /\ table'[id].status = "COMPLETED"]_tableVars

Contract == INSTANCE OrderedChain WITH
    Id <- JobId, Chain <- ChainId, job <- ChainView(table),
    CanRemove <- "bulkPurge" \in Commands, Guarded <- TRUE

\* The repository keeps the promise of OrderedChain on its committed rows, for callers that
\* confirm only what is requested: every commit, statement and rollback is one of the
\* promised steps or changes nothing it speaks of.
ImplementsOrderedChain == Contract!Spec

-----------------------------------------------------------------------------
(* A statement of the documentation that the code does not keep                *)

\* README, atomic promotion: once a job is COMPLETED its successor is not BLOCKED.
CompletionPromotes ==
    \A id \in DOMAIN table : table[id].status = "BLOCKED" =>
        \A p \in At(table, table[id].chain, table[id].seq - 1) : table[p].status # "COMPLETED"
==============================================================================
