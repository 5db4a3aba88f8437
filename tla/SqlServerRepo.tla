--------------------------- MODULE SqlServerRepo -----------------------------
(***************************************************************************)
(* The SQL Server repository, repository/sqlserver/repository.go, on the   *)
(* table of its 001_initial.sql at READ COMMITTED.                         *)
(*                                                                         *)
(* A plain SELECT returns what is committed: without row versioning the    *)
(* server would make it wait for a locked row, which adds no outcome.      *)
(* WITH (NOLOCK) also sees what is not committed, READPAST passes over     *)
(* locked rows, and an UPDATE waits for every row it has to look at, an    *)
(* uncommitted new one too.  UPDLOCK on the index of (chain_id, sequence)  *)
(* keeps no statement of this repository out of the row itself.            *)
(*                                                                         *)
(* Chain ids are integers, in the order sort.Strings gives them.           *)
(***************************************************************************)
EXTENDS SqlTable

ASSUME ChainOrderAssumption == ChainId \subseteq Int

-----------------------------------------------------------------------------
(* Enqueue and EnqueueBatch                                                    *)

\* Both refuse an empty chain id or job type, a batch before it inserts anything.
Accepted(req) == req.chain # NoChain /\ req.type # NoType

\* The transaction that enqueues reqs; distinctChains are the locks it asks for.
Begun(reqs, batch) ==
    [NoTx EXCEPT !.at = "lock", !.batch = batch, !.reqs = reqs,
                 !.wait = {reqs[i].chain : i \in DOMAIN reqs}]

\* The chains locked in the order of a Go map.
AnyLock(wait, c) == c \in wait

\* distinctChains sorts: the smallest chain not yet locked is next.
NextLock(wait, c) == c \in wait /\ \A d \in wait : c <= d

\* No lock at all.
AppLockAlwaysFree(s, c) == s \in Session

\* sp_getapplock grants the exclusive lock; with the default @LockTimeout it waits.  The
\* code ignores its return value, which is negative only for a timeout or a deadlock.
AppLockFree(s, c) == LockFree(s, c)

\* lockAppChain in the transaction t of session s, which shows itself with its first lock.
lockAppChain(s, t) ==
    \E c \in t.wait :
        /\ NextLock(t.wait, c)
        /\ AppLockFree(s, c)
        /\ Continue(s, [t EXCEPT !.wait = @ \ {c}, !.locks = @ \cup {c},
                                 !.at = IF t.wait = {c} THEN "number" ELSE "lock"])
        /\ UNCHANGED <<table, issued>>

\* Enqueue starts.
Enqueue(s, req) ==
    /\ tx[s].at = "none"
    /\ Accepted(req)
    /\ lockAppChain(s, Begun(<<req>>, FALSE))

\* EnqueueBatch of two requests starts.
EnqueueBatch(s, req1, req2) ==
    /\ tx[s].at = "none"
    /\ Accepted(req1) /\ Accepted(req2)
    /\ lockAppChain(s, Begun(<<req1, req2>>, TRUE))

\* The batch goes on to its other chain.
LockOther(s) == tx[s].at = "lock" /\ lockAppChain(s, tx[s])

\* The key looked up only among the jobs that are still running.
IsDuplicateOfLive(rows, req) ==
    /\ req.key # NoKey
    /\ \E id \in DOMAIN rows : rows[id].key = req.key /\ ~IsTerminal(rows[id].status)

\* findExistingByIdempotencyKey, and the batch's look at what it has inserted itself.
IsDuplicate(rows, req) == req.key # NoKey /\ \E id \in DOMAIN rows : rows[id].key = req.key

\* The gap check of resolveSequence: an empty chain starts at 1.
SequenceGap(rows, c, seq) ==
    /\ seq > 1
    /\ ~AllowGap
    /\ At(rows, c, seq - 1) = {}
    /\ \A max \in MaxSequence(rows, c) : seq > max + 1

\* resolveSequence: the sequences the request may get, none when it is rejected.
resolveSequence(rows, req) ==
    IF req.sequence = 0
    THEN IF MaxSequence(rows, req.chain) = {} THEN {1}
         ELSE {max + 1 : max \in MaxSequence(rows, req.chain)}
    ELSE {n \in {req.sequence} : At(rows, req.chain, n) = {} /\ ~SequenceGap(rows, req.chain, n)}

\* The transaction after its first request is dealt with.
Served(t) ==
    [t EXCEPT !.reqs = Tail(@), !.seq = 0, !.status = "BLOCKED",
              !.at = IF Len(t.reqs) = 1 THEN "commit" ELSE "number"]

\* The key is looked up and the sequence found.  A duplicate is answered with the
\* existing job; a rejected request can only roll back.
Number(s) ==
    /\ tx[s].at = "number"
    /\ LET req == Head(tx[s].reqs)
       IN IF IsDuplicate(Visible(s), req) THEN Continue(s, Served(tx[s]))
          ELSE \E n \in resolveSequence(Visible(s), req) :
                  Continue(s, [tx[s] EXCEPT !.seq = n, !.at = "status"])
    /\ UNCHANGED <<table, issued>>

\* The mode forgotten: a failed strict predecessor counts as finished.
PredFinishedAnyMode(pred) == pred.status = "COMPLETED" \/ pred.status \in DLQStatus

\* isPredFinished, in resolveInitialStatus and in Claim.
PredFinished(pred) ==
    \/ pred.status = "COMPLETED"
    \/ pred.status \in DLQStatus /\ pred.mode \in ContinueModes

\* resolveInitialStatus reads the predecessor in a statement of its own.
resolveInitialStatus(s) ==
    /\ tx[s].at = "status"
    /\ LET rows == Visible(s)
           pred == At(rows, Head(tx[s].reqs).chain, tx[s].seq - 1)
           status == IF tx[s].seq <= 1 \/ \E p \in pred : PredFinished(rows[p])
                     THEN "PENDING" ELSE "BLOCKED"
       IN Continue(s, [tx[s] EXCEPT !.status = status, !.at = "insert"])
    /\ UNCHANGED <<table, issued>>

\* The empty ordering mode stored as it came.
NewRowModeUnresolved(req, seq, status) ==
    [chain |-> req.chain, seq |-> seq, type |-> req.type, mode |-> req.mode,
     key |-> req.key, status |-> status, attempt |-> 0,
     maxAttempts |-> IF req.maxAttempts = 0 THEN DefaultMaxAttempts ELSE req.maxAttempts,
     avail |-> req.avail, lease |-> "none", worker |-> NoWorker, gen |-> 0]

\* The row inserted, the defaults filled in.
NewRow(req, seq, status) ==
    [chain |-> req.chain, seq |-> seq, type |-> req.type,
     mode |-> IF req.mode = "" THEN "strict" ELSE req.mode,
     key |-> req.key, status |-> status, attempt |-> 0,
     maxAttempts |-> IF req.maxAttempts = 0 THEN DefaultMaxAttempts ELSE req.maxAttempts,
     avail |-> req.avail, lease |-> "none", worker |-> NoWorker, gen |-> 0]

\* The INSERT of enqueueSingleInTx.  The unique constraint on (chain_id, sequence) turns
\* down a place that is taken, and waits for one that an open transaction has taken.
Insert(s) ==
    /\ tx[s].at = "insert"
    /\ \A o \in Session : At(Visible(o), Head(tx[s].reqs).chain, tx[s].seq) = {}
    /\ \E id \in JobId \ issued :
          /\ Continue(s, [Served(tx[s]) EXCEPT
                  !.writes = Put(@, id, NewRow(Head(tx[s].reqs), tx[s].seq, tx[s].status))])
          /\ issued' = issued \cup {id}
    /\ UNCHANGED table

-----------------------------------------------------------------------------
(* The worker's calls                                                          *)

\* NOLOCK: the newest version of every row, committed or not.
Dirty ==
    [id \in DOMAIN table \cup UNION {DOMAIN tx[o].writes : o \in Session} |->
        IF Locked(id)
        THEN tx[CHOOSE o \in Session : id \in DOMAIN tx[o].writes].writes[id] ELSE table[id]]

Eligible(id) ==
    /\ CanBeClaimed(table[id].status)
    /\ table[id].avail = "due"
    /\ table[id].seq = 1 \/ \E p \in At(Dirty, table[id].chain, table[id].seq - 1) :
                                PredFinished(Dirty[p])

\* Claim passes over locked candidates and reads their predecessors WITH (NOLOCK).
Claim(w, id) ==
    /\ id \in DOMAIN table
    /\ Eligible(id)
    /\ table[id].gen < MaxGen
    /\ WriteRow(id, [table[id] EXCEPT !.status = "PROCESSING", !.worker = w, !.gen = @ + 1,
                                      !.lease = "live", !.attempt = @ + 1])

\* The fence without the status.
OwnsAnyStatus(id, w, g) == id \in DOMAIN table /\ table[id].worker = w /\ table[id].gen = g

\* WHERE id, worker_id, lease_generation AND status='PROCESSING'
Owns(id, w, g) ==
    /\ id \in DOMAIN table
    /\ table[id].worker = w
    /\ table[id].gen = g
    /\ table[id].status = "PROCESSING"

\* Session s declares the jobs of rows COMPLETED; the promotions after places follow.
\* filter is the one of BulkSkipDLQ, empty in the other calls.
Finish(s, rows, places, filter) ==
    /\ \A id \in DOMAIN rows : ~LockedFor(s, id)
    /\ Continue(s, [NoTx EXCEPT !.at = "promote", !.filter = filter, !.items = places,
                                !.writes = rows])
    /\ UNCHANGED <<table, issued>>

\* Some other session has a row at <<chain, sequence>> locked, perhaps a new one.
PlaceLocked(s, p) ==
    \E o \in Session \ {s} : At(tx[o].writes, p[1], p[2]) # {}

\* UPDATE ... SET status='PENDING' WHERE chain_id, sequence AND status='BLOCKED', for one
\* of the places the transaction has to go through.
Promote(s) ==
    /\ tx[s].at = "promote"
    /\ \E p \in tx[s].items :
          LET next == <<p[1], p[2] + 1>>
              rows == Visible(s)
              blocked == {id \in At(rows, next[1], next[2]) : rows[id].status = "BLOCKED"}
          IN /\ ~PlaceLocked(s, next)
             /\ Continue(s, [tx[s] EXCEPT
                    !.items = @ \ {p}, !.at = IF tx[s].items = {p} THEN "commit" ELSE @,
                    !.writes = Overlay(@, [id \in blocked |-> [rows[id] EXCEPT !.status = "PENDING"]])])
    /\ UNCHANGED <<table, issued>>

\* Complete: the fenced UPDATE, the promotion and the commit.  The lease stays set.
Complete(s, id, w, g) ==
    /\ tx[s].at = "none"
    /\ Owns(id, w, g)
    /\ Finish(s, [i \in {id} |-> [table[id] EXCEPT !.status = "COMPLETED"]], {Place(id)}, {})

\* Fail.  The ordering mode it reads first never changes.
Fail(id, w, g, terminal) ==
    /\ Owns(id, w, g)
    /\ LET status == IF terminal /\ table[id].mode = "dead-letter-and-continue"
                     THEN "DEAD_LETTERED" ELSE "FAILED"
       IN WriteRow(id, [table[id] EXCEPT !.status = status])

\* Retry
Retry(id, w, g) ==
    /\ Owns(id, w, g)
    /\ WriteRow(id, [table[id] EXCEPT !.status = "RETRYING", !.avail = "later"])

\* Heartbeat
Heartbeat(id, w, g) ==
    /\ Owns(id, w, g)
    /\ WriteRow(id, [table[id] EXCEPT !.lease = "live"])

\* ConfirmCancel
ConfirmCancel(id, w, g) ==
    /\ id \in DOMAIN table
    /\ table[id].worker = w
    /\ table[id].gen = g
    /\ table[id].status = "CANCEL_REQUESTED"
    /\ WriteRow(id, [table[id] EXCEPT !.status = "CANCELLED"])

\* PromoteNext
PromoteNext(c, n) ==
    /\ \A s \in Session : At(tx[s].writes, c, n + 1) = {}
    /\ Write([id \in {i \in At(table, c, n + 1) : table[i].status = "BLOCKED"} |->
                [table[id] EXCEPT !.status = "PENDING"]])

-----------------------------------------------------------------------------
(* Recovery and the operator's commands                                        *)

IsStale(id) ==
    id \in DOMAIN table /\ table[id].status = "PROCESSING" /\ table[id].lease = "expired"

\* RecoverStale reads the stale jobs that are not locked, and with their attempts the
\* status each is to get; a job without attempts left becomes PENDING.
RecoverSelect(s) ==
    LET stale == {id \in DOMAIN table : IsStale(id) /\ ~Locked(id)}
        next(id) == IF table[id].attempt < table[id].maxAttempts THEN "RETRYING" ELSE "PENDING"
    IN /\ tx[s].at = "none"
       /\ \E R \in SUBSET stale :
             /\ R # {}
             /\ Cardinality(R) <= RecoverLimit
             /\ R = stale \/ Cardinality(R) = RecoverLimit
             /\ Continue(s, [NoTx EXCEPT !.at = "recover", !.items = {<<id, next(id)>> : id \in R}])
       /\ UNCHANGED <<table, issued>>

\* The list of s without the item.
DropItem(s, it) ==
    Continue(s, [tx[s] EXCEPT !.items = @ \ {it}, !.at = IF tx[s].items = {it} THEN "none" ELSE @])

\* The row a recovered job becomes: its worker and lease are gone, its generation raised.
RecoveredRow(id, status) ==
    [table[id] EXCEPT !.status = status, !.avail = IF status = "PENDING" THEN "due" ELSE "later",
                      !.worker = NoWorker, !.lease = "none", !.gen = @ + 1]

\* The update that trusts what was read.
RecoverUpdateUnchecked(s) ==
    /\ tx[s].at = "recover"
    /\ \E it \in tx[s].items :
          /\ it[1] \in DOMAIN table /\ table[it[1]].status = "PROCESSING" /\ ~Locked(it[1])
          /\ table' = Overlay(table, [i \in {it[1]} |-> RecoveredRow(it[1], it[2])])
          /\ DropItem(s, it)
    /\ UNCHANGED issued

\* One job of the list is updated, if it is still stale: a statement of its own.
RecoverUpdate(s) ==
    /\ tx[s].at = "recover"
    /\ \E it \in tx[s].items :
          /\ IsStale(it[1]) /\ ~Locked(it[1])
          /\ table' = Overlay(table, [i \in {it[1]} |-> RecoveredRow(it[1], it[2])])
          /\ DropItem(s, it)
    /\ UNCHANGED issued

\* One job of the list has moved on, or its update returned an error.
RecoverMiss(s) ==
    /\ tx[s].at = "recover"
    /\ \E it \in tx[s].items : DropItem(s, it)
    /\ UNCHANGED <<table, issued>>

\* RequestCancel, of a job being processed too.
RequestCancel(id) ==
    /\ id \in DOMAIN table
    /\ table[id].status \in {"PENDING", "BLOCKED", "PROCESSING", "RETRYING"}
    /\ WriteRow(id, [table[id] EXCEPT !.status = "CANCEL_REQUESTED"])

ReplayRow(row) == [row EXCEPT !.status = "PENDING", !.attempt = 0, !.avail = "due"]

\* ReplayJob and ReplayJobWithPayload
ReplayJob(id) ==
    /\ id \in DOMAIN table
    /\ table[id].status \in Replayable
    /\ WriteRow(id, ReplayRow(table[id]))

\* SkipJob also takes a job that is still waiting for its turn.
Skippable(id) == table[id].status \in Replayable \cup {"BLOCKED"}

SkipJob(s, id) ==
    /\ tx[s].at = "none"
    /\ id \in DOMAIN table
    /\ Skippable(id)
    /\ Finish(s, [i \in {id} |-> [table[id] EXCEPT !.status = "COMPLETED"]], {Place(id)}, {})

\* RescheduleJob
RescheduleJob(id, avail) ==
    /\ id \in DOMAIN table
    /\ CanBeClaimed(table[id].status)
    /\ WriteRow(id, [table[id] EXCEPT !.avail = avail])

\* buildDLQWhere: a filter is given by the jobs whose chain, type, tenant or trace it names.
DLQWhere(filter) == {id \in filter \cap DOMAIN table : table[id].status \in DLQStatus}

\* BulkReplayDLQ
BulkReplayDLQ(filter) ==
    /\ DLQWhere(filter) # {}
    /\ Write([id \in DLQWhere(filter) |-> [ReplayRow(table[id]) EXCEPT !.lease = "none"]])

\* BulkPurgeDLQ
BulkPurgeDLQ(filter) ==
    /\ DLQWhere(filter) # {}
    /\ \A id \in DLQWhere(filter) : ~Locked(id)
    /\ table' = Without(table, DLQWhere(filter))
    /\ UNCHANGED <<tx, issued>>

\* BulkSkipDLQ selects what it will promote ...
BulkSkipSelect(s, filter) ==
    /\ tx[s].at = "none"
    /\ DLQWhere(filter) # {}
    /\ Continue(s, [NoTx EXCEPT !.at = "skip", !.filter = filter,
                                !.items = {Place(id) : id \in DLQWhere(filter)}])
    /\ UNCHANGED <<table, issued>>

\* ... and then updates what the filter matches by now; the promotions follow.
BulkSkipUpdate(s) ==
    /\ tx[s].at = "skip"
    /\ Finish(s, [id \in DLQWhere(tx[s].filter) |->
                    [table[id] EXCEPT !.status = "COMPLETED", !.lease = "none"]],
              tx[s].items, tx[s].filter)

\* One of these promotions returns an error, which BulkSkipDLQ ignores: it commits what it
\* has.  Complete and SkipJob return the error and roll back.
PromotionFails(s) ==
    /\ tx[s].at = "promote"
    /\ tx[s].filter # {}
    /\ \E p \in tx[s].items :
          Continue(s, [tx[s] EXCEPT !.items = @ \ {p},
                                    !.at = IF tx[s].items = {p} THEN "commit" ELSE @])
    /\ UNCHANGED <<table, issued>>

-----------------------------------------------------------------------------
(* The repository under its callers.  A worker repeats any call its fencing    *)
(* token admits, and promotes past a job it has had in its hands whose mode    *)
(* goes on past a failure, as the engine does.                                 *)

ProducerStep(s) ==
    \/ \E req \in Requests : Enqueue(s, req)
    \/ \E req1, req2 \in Requests : EnqueueBatch(s, req1, req2)
    \/ LockOther(s)
    \/ Number(s)
    \/ resolveInitialStatus(s)
    \/ Insert(s)

WorkerStep(s) ==
    \/ \E w \in Worker, id \in JobId : Claim(w, id)
    \/ \E id \in JobId, w \in Worker, g \in 1 .. MaxGen :
          \/ Complete(s, id, w, g)
          \/ \E terminal \in BOOLEAN : Fail(id, w, g, terminal)
          \/ Retry(id, w, g)
          \/ Heartbeat(id, w, g)
          \/ ConfirmCancel(id, w, g)
    \/ \E id \in DOMAIN table : /\ table[id].gen > 0 /\ table[id].mode \in ContinueModes
                                /\ PromoteNext(table[id].chain, table[id].seq)
    \/ Promote(s)
    \/ RecoverSelect(s)
    \/ RecoverUpdate(s)
    \/ RecoverMiss(s)

OperatorStep(s) ==
    \/ "cancel" \in Commands /\ \E id \in JobId : RequestCancel(id)
    \/ "replay" \in Commands /\ \E id \in JobId : ReplayJob(id)
    \/ "skip" \in Commands /\ \E id \in JobId : SkipJob(s, id)
    \/ "reschedule" \in Commands /\ \E id \in JobId, a \in Avail : RescheduleJob(id, a)
    \/ "bulkReplay" \in Commands /\ \E filter \in SUBSET JobId : BulkReplayDLQ(filter)
    \/ "bulkPurge" \in Commands /\ \E filter \in SUBSET JobId : BulkPurgeDLQ(filter)
    \/ "bulkSkip" \in Commands /\ \E filter \in SUBSET JobId : BulkSkipSelect(s, filter)
    \/ BulkSkipUpdate(s)
    \/ PromotionFails(s)

TimeStep == \E id \in JobId : BecomesDue(id) \/ LeaseExpires(id)

SqNext ==
    \/ \E s \in Session : \/ ProducerStep(s) \/ WorkerStep(s) \/ OperatorStep(s)
                          \/ Commit(s) \/ Rollback(s)
    \/ TimeStep

SqSpec == TableInit /\ [][SqNext]_tableVars

-----------------------------------------------------------------------------
(* Properties                                                                  *)

\* Type correctness of the table and of the open transactions.
SqTypeOK == TableTyped

\* The application lock does its work: a number that a transaction has found stays free
\* until it is inserted, although reading the status and inserting are further statements.
NumberStaysFree == NumbersStayFree

\* Two batches never wait for each other's application locks: they are taken in one order.
NoLockCycle == ~LockCycle

\* Two jobs of one chain never carry the same idempotency key.
KeyUniqueInChain ==
    \A i, j \in DOMAIN table :
        /\ table[i].chain = table[j].chain
        /\ table[i].key = table[j].key /\ table[i].key # NoKey
        => i = j

\* From place 2 on a claimed job's predecessor, if strict, is COMPLETED and stays so.  Claim
\* trusts an uncommitted COMPLETED that may be rolled back; what saves it is that a strict
\* job's successor is promoted in the transaction that completes it, and is locked until then.
\* BulkSkipDLQ breaks this: it promotes what it selected, even after a replay in between.
\* So does a purge, when an explicit sequence number fills the hole it leaves.
StrictFIFO ==
    \A id \in DOMAIN table : table[id].gen > 0 /\ table[id].seq > 1 =>
        \A p \in At(table, table[id].chain, table[id].seq - 1) :
            table[p].mode = "strict" => table[p].status = "COMPLETED"

\* Recovery selects first and updates later: it never takes a job away from a worker
\* whose lease was renewed in between.
LiveLeaseKept ==
    [][\A id \in DOMAIN table \cap DOMAIN table' :
          /\ table[id].status = "PROCESSING"
          /\ table'[id].gen # table[id].gen
          => table[id].lease = "expired"]_tableVars

\* A COMPLETED job stays COMPLETED.
CompletedIsFinal ==
    [][\A id \in DOMAIN table : table[id].status = "COMPLETED" =>
          id \in DOMAIN table' /\ table'[id].status = "COMPLETED"]_tableVars

Contract == INSTANCE OrderedChain WITH
    Id <- JobId, Chain <- ChainId, job <- ChainView(table),
    CanRemove <- "bulkPurge" \in Commands, Guarded <- FALSE

\* The repository keeps the unguarded promise of OrderedChain on its committed rows: a
\* start waits for a strict job's committed end, although Claim reads uncommitted rows.  It
\* is lost in the same two ways as StrictFIFO.
ImplementsOrderedChain == Contract!Spec
==============================================================================
