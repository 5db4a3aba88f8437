--------------------------- MODULE PostgresSystem ----------------------------
(***************************************************************************)
(* Engines running against the PostgreSQL repository.                      *)
(*                                                                         *)
(* What sets this apart from MemorySystem is that a call can fail: the     *)
(* repository honours the engine's context, which Shutdown cancels, and    *)
(* connections break.  A call that returns an error may or may not have    *)
(* taken effect.  Each worker uses a session of its own, because it has at *)
(* most one transaction open; the other sessions belong to producers and   *)
(* operators.                                                              *)
(***************************************************************************)
EXTENDS PostgresRepo, Engine

CONSTANTS
    MaxMishaps,  \* bound: calls that a broken connection makes fail, and leases that run
                 \* out while their worker is still at work, together
    Stoppable,   \* the engines that may be shut down
    Operations   \* what else the environment does: "enqueue", "enqueueBatch", "notify"

ASSUME PgSystemAssumption ==
    /\ Worker \subseteq Session
    /\ CtxAware
    /\ MaxMishaps \in Nat /\ Stoppable \subseteq EngineId
    /\ Operations \subseteq {"enqueue", "enqueueBatch", "notify"}

VARIABLES
    faults,  \* calls that a broken connection has made fail
    pauses   \* leases that ran out while their worker was still at work

vars == <<table, tx, issued, phase, recovery, pc, held, beats, notify, faults, pauses>>

Init == TableInit /\ EngineInit /\ faults = 0 /\ pauses = 0

-----------------------------------------------------------------------------
(* Producers and operators, on sessions of their own                           *)

\* Enqueue of the engine.
EngineEnqueue(s) ==
    /\ "enqueue" \in Operations
    /\ \E req \in Requests : Accepted(req) /\ Enqueue(s, Resolved(req))
    /\ UNCHANGED <<engineVars, faults, pauses>>

\* EnqueueBatch of the engine.  BatchEnqueueParallel ends in it too, with requests whose
\* type and chain it has checked.
EngineEnqueueBatch(s) ==
    /\ "enqueueBatch" \in Operations
    /\ \E req1, req2 \in Requests : EnqueueBatch(s, Resolved(req1), Resolved(req2))
    /\ UNCHANGED <<engineVars, faults, pauses>>

\* The statements of such a transaction.
ClientGoesOn(s) == EnqueueGoesOn(s) /\ UNCHANGED <<engineVars, faults, pauses>>

\* The transaction of a producer or operator ends.
ClientEnds(s) == (Commit(s) \/ Rollback(s)) /\ UNCHANGED <<engineVars, faults, pauses>>

Operator(s) == OperatorStep(s) /\ UNCHANGED <<engineVars, faults, pauses>>

-----------------------------------------------------------------------------
(* A worker's calls                                                            *)

\* A call of engine e that answers.
Answers(e) == phase[e] = "running" /\ UNCHANGED faults

\* A call of e is refused before it begins, because Shutdown has cancelled its context.
Refused(e) == phase[e] = "stopping" /\ UNCHANGED faults

\* The connection breaks, or the context is cancelled, under a call of e.
Breaks(e) ==
    /\ phase[e] \in {"running", "stopping"}
    /\ faults + pauses < MaxMishaps
    /\ faults' = faults + 1

\* A call of e with the effect A, whose error the engine ignores.
Call(e, A) ==
    \/ Answers(e) /\ A
    \/ Refused(e) /\ UNCHANGED tableVars
    \/ Breaks(e) /\ (A \/ UNCHANGED tableVars)

HeldId(w) == held[w].id
HeldGen(w) == held[w].job.gen

\* ErrLeaseConflict: the fence does not match any more.
LeaseConflict(id, w, g) == ~Owns(id, w, g) /\ UNCHANGED tableVars

WorkerClaims(w) ==
    /\ Answers(EngineOf[w])
    /\ \E id \in DOMAIN table : Claim(w, id) /\ JobClaimed(w, id, table'[id])
    /\ UNCHANGED pauses

\* The claim is committed and its answer lost: the job is PROCESSING and nobody knows.
ClaimIsLost(w) ==
    /\ pc[w] = "idle"
    /\ Breaks(EngineOf[w])
    /\ \E id \in DOMAIN table : Claim(w, id)
    /\ Wake(EngineOf[w])
    /\ UNCHANGED <<phase, recovery, pc, held, beats, pauses>>

\* Claim has no candidate, is refused or fails: the token that woke the worker is spent.
WorkerFindsNothing(w) ==
    /\ LET e == EngineOf[w]
       IN \/ Answers(e) /\ \A id \in DOMAIN table : ~Eligible(id) \/ Locked(id)
          \/ Refused(e)
          \/ Breaks(e)
    /\ NothingClaimed(w)
    /\ UNCHANGED <<tableVars, pauses>>

\* Complete opens its transaction ...
WorkerCompletes(w) ==
    /\ pc[w] = "complete"
    /\ Answers(EngineOf[w])
    /\ \/ Complete(w, HeldId(w), w, HeldGen(w)) /\ UNCHANGED engineVars
       \/ LeaseConflict(HeldId(w), w, HeldGen(w)) /\ CompleteReturned(w, FALSE)
    /\ UNCHANGED pauses

\* ... and commits.
CompleteCommits(w) ==
    /\ Commit(w)
    /\ \/ Answers(EngineOf[w]) /\ CompleteReturned(w, TRUE)
       \/ Breaks(EngineOf[w]) /\ CompleteReturned(w, FALSE)
    /\ UNCHANGED pauses

\* Or it fails before or after the transaction began, and changes nothing.
CompleteFails(w) ==
    /\ Refused(EngineOf[w]) \/ Breaks(EngineOf[w])
    /\ CompleteReturned(w, FALSE)
    /\ Rollback(w) \/ (tx[w].at = "none" /\ UNCHANGED tableVars)
    /\ UNCHANGED pauses

WorkerRequestsCancel(w) ==
    /\ CancelReturned(w)
    /\ Call(EngineOf[w], \/ RequestCancel(HeldId(w))
                         \/ ~Cancellable(HeldId(w)) /\ UNCHANGED tableVars)
    /\ UNCHANGED pauses

CallFail(w) ==
    Call(EngineOf[w], \/ Fail(HeldId(w), w, HeldGen(w), TRUE)
                      \/ LeaseConflict(HeldId(w), w, HeldGen(w)))

WorkerFails(w) ==
    /\ pc[w] = "fail"
    /\ CallFail(w)
    /\ FailReturned(w) \/ ListenerPanics(w)
    /\ UNCHANGED pauses

WorkerFailsNoHandler(w) ==
    pc[w] = "noHandler" /\ CallFail(w) /\ NoHandlerFailReturned(w) /\ UNCHANGED pauses

WorkerPromotes(w) ==
    /\ pc[w] = "promote"
    /\ Call(EngineOf[w], PromoteNext(held[w].job.chain, held[w].job.seq))
    /\ PromoteReturned(w)
    /\ UNCHANGED pauses

WorkerRetries(w) ==
    /\ pc[w] = "retry"
    /\ Call(EngineOf[w], \/ Retry(HeldId(w), w, HeldGen(w))
                         \/ LeaseConflict(HeldId(w), w, HeldGen(w)))
    /\ RetryReturned(w)
    /\ UNCHANGED pauses

HandlerEnds(w) ==
    /\ \/ HandlerSucceeds(w)
       \/ \E err \in HandlerError : HandlerFails(w, err)
       \/ HandlerPanics(w)
    /\ UNCHANGED <<tableVars, faults, pauses>>

\* What a worker does once it has a job.
WorkerProgress(w) ==
    \/ HandlerEnds(w)
    \/ WorkerCompletes(w)
    \/ CompleteCommits(w)
    \/ CompleteFails(w)
    \/ WorkerRequestsCancel(w)
    \/ WorkerFails(w)
    \/ WorkerFailsNoHandler(w)
    \/ WorkerPromotes(w)
    \/ WorkerRetries(w)

WorkerLeaves(w) == WorkerExit(w) /\ UNCHANGED <<tableVars, faults, pauses>>

-----------------------------------------------------------------------------
(* Heartbeats, recovery, start and stop, time                                  *)

\* One failed heartbeat ends the loop.
HeartbeatTick(b) ==
    /\ LET e == EngineOf[b.worker] IN
       \/ Answers(e) /\ Heartbeat(b.id, b.worker, b.gen) /\ HeartbeatReturned(b, TRUE)
       \/ Answers(e) /\ LeaseConflict(b.id, b.worker, b.gen) /\ HeartbeatReturned(b, FALSE)
       \/ Breaks(e) /\ UNCHANGED tableVars /\ HeartbeatReturned(b, FALSE)
    /\ UNCHANGED pauses

\* The rows a step has changed.
Changed == {id \in DOMAIN table : table'[id] # table[id]}

RecoveryTick(e) ==
    /\ Answers(e)
    /\ RecoverStale
    /\ RecoveryReturned(e, Cardinality(Changed))
    /\ UNCHANGED pauses

\* What was recovered is committed and the answer lost: no worker is woken.
RecoveryIsLost(e) ==
    /\ Breaks(e)
    /\ recovery[e] = "on"
    /\ RecoverStale
    /\ UNCHANGED <<engineVars, pauses>>

\* CountDLQ
CountDLQ == Cardinality({id \in DOMAIN table : table[id].status \in DLQStatus})

EngineStep(e) ==
    /\ \/ Start(e)
       \/ e \in Stoppable /\ Shutdown(e)
       \/ ShutdownReturns(e)
       \/ "notify" \in Operations /\ NotifyChain(e)
       \/ RecoveryExit(e)
       \/ phase[e] = "running" /\ RecoveryDies(e, CountDLQ)
    /\ UNCHANGED <<tableVars, faults, pauses>>

JobBecomesDue(id) == BecomesDue(id) /\ UNCHANGED <<engineVars, faults, pauses>>

\* A worker still at work on the claim of id that the table has on record.
AtWork(w, id) == pc[w] \in Holding /\ HeldId(w) = id /\ Owns(id, w, HeldGen(w))

LeaseLapses(id) ==
    /\ \E w \in Worker : AtWork(w, id)
    /\ faults + pauses < MaxMishaps
    /\ LeaseExpires(id)
    /\ pauses' = pauses + 1
    /\ UNCHANGED <<engineVars, faults>>

LeaseRunsOut(id) ==
    /\ \A w \in Worker : ~AtWork(w, id)
    /\ LeaseExpires(id)
    /\ UNCHANGED <<engineVars, faults, pauses>>

-----------------------------------------------------------------------------

Next ==
    \/ \E s \in Session \ Worker :
          \/ EngineEnqueue(s)
          \/ EngineEnqueueBatch(s)
          \/ ClientGoesOn(s)
          \/ ClientEnds(s)
          \/ Operator(s)
    \/ \E w \in Worker :
          \/ WorkerClaims(w)
          \/ ClaimIsLost(w)
          \/ WorkerFindsNothing(w)
          \/ WorkerProgress(w)
          \/ WorkerLeaves(w)
    \/ \E b \in beats : HeartbeatTick(b)
    \/ \E e \in EngineId : RecoveryTick(e) \/ RecoveryIsLost(e) \/ EngineStep(e)
    \/ \E id \in JobId : JobBecomesDue(id) \/ LeaseLapses(id) \/ LeaseRunsOut(id)

Spec == Init /\ [][Next]_vars

\* Fairness: started goroutines run, handlers return, tickers fire (claims by polling,
\* recovery), open transactions end, time passes.  A statement that waits for a row lock
\* gets it in the end, however often others take it first: the server queues them.
\* Faults, heartbeats, lapses, operators, producers and Shutdown are not fair.
Fairness ==
    /\ WF_vars(\E e \in EngineId : Start(e) /\ UNCHANGED <<tableVars, faults, pauses>>)
    /\ WF_vars(\E e \in EngineId : RecoveryTick(e))
    /\ \A w \in Worker : WF_vars(WorkerClaims(w)) /\ SF_vars(WorkerProgress(w))
    /\ WF_vars(\E s \in Session \ Worker : ClientEnds(s))
    /\ WF_vars(\E id \in JobId : JobBecomesDue(id) \/ LeaseRunsOut(id))

FairSpec == Spec /\ Fairness

-----------------------------------------------------------------------------
(* Properties                                                                  *)

\* Type correctness of the engine's state next to the table's.
TypeOK ==
    /\ PgTypeOK
    /\ phase \in [EngineId -> {"new", "running", "stopping", "stopped"}]
    /\ recovery \in [EngineId -> {"off", "on", "exited", "died"}]
    /\ pc \in [Worker -> PC]
    /\ \A w \in Worker :
          IF pc[w] \in Holding \cup {"promote"}
          THEN held[w] \in [id : JobId, job : Job] ELSE held[w] = NotHeld
    /\ beats \subseteq Beat
    /\ notify \in [EngineId -> 0 .. NotifyCap]
    /\ faults \in Nat /\ pauses \in Nat

\* Unless an operator replays or purges jobs, two workers are at work on jobs of one chain
\* only after some lease ran out under a worker that was still alive.  Lost claims, lost
\* answers, failed reports, panics and shutdowns never bring it about, although Claim does
\* not ask whether the chain is busy.  (A replayed job, or one put into the hole
\* a purge has left, may be claimed while a later job runs.)
OverlapNeedsPause ==
    pauses = 0 /\ Commands \cap {"replay", "bulkReplay", "bulkPurge"} = {} =>
        \A v, w \in Worker :
            /\ pc[v] \in Holding /\ pc[w] \in Holding
            /\ held[v].job.chain = held[w].job.chain
            => v = w

\* A worker whose claim is no longer the one on record, because of recovery, a cancel or
\* another claim, leaves the job alone with what it reports late.
LateReportIsFenced ==
    [][\A w \in Worker :
          /\ pc[w] \in {"complete", "fail", "noHandler", "retry"} /\ pc'[w] # pc[w]
          /\ HeldId(w) \in DOMAIN table
          /\ LET row == table[HeldId(w)]
             IN <<row.status, row.worker, row.gen>> # <<"PROCESSING", w, HeldGen(w)>>
          => table'[HeldId(w)] = table[HeldId(w)]]_vars

\* The failure of p may have lost the promotion that follows it: Fail and PromoteNext are
\* two calls, and a fault, the Shutdown of p's engine or the end of p's worker by a panic
\* can come between them.
MayLackPromotion(p) ==
    \/ faults > 0
    \/ phase[EngineOf[table[p].worker]] \in {"stopping", "stopped"}
    \/ pc[table[p].worker] = "died"

\* Nothing will happen to the job without an operator: it is finished, or an earlier job
\* of its chain was purged, or it or an earlier one is to be cancelled, or failed in strict
\* mode or without promoting its successor.
Settled(id) ==
    \/ IsTerminal(table[id].status)
    \/ \E n \in 1 .. table[id].seq - 1 : At(table, table[id].chain, n) = {}
    \/ \E p \in DOMAIN table :
          /\ table[p].chain = table[id].chain
          /\ table[p].seq <= table[id].seq
          /\ \/ table[p].status \in {"CANCEL_REQUESTED", "CANCELLED"}
             \/ table[p].status \in DLQStatus /\ (table[p].mode = "strict" \/ MayLackPromotion(p))

\* An enqueue is about to leave its job BLOCKED behind one that has ended since, or is ending.
EnqueuedTooLate ==
    \E s, o \in Session : \E id \in DOMAIN tx[s].writes \ DOMAIN table :
        LET row == tx[s].writes[id]
            seen == Overlay(table, tx[o].writes)
        IN /\ row.status = "BLOCKED"
           /\ \E p \in At(seen, row.chain, row.seq - 1) :
                 seen[p].status \in {"COMPLETED"} \cup DLQStatus

\* Every stored job settles as long as an engine goes on: it takes over what an engine that
\* was shut down and what a worker that a panic ended have left, lost claims are recovered,
\* failed reports lead to another attempt, promotion comes with the completion.  A worker
\* and a recovery loop of an engine that goes on must survive, and no job may be enqueued
\* while its predecessor ends: such a job can stay BLOCKED for ever (CompletionPromotes).
EveryJobSettles ==
    []~EnqueuedTooLate =>
        \A id \in JobId :
            (id \in DOMAIN table) ~>
                \/ id \in DOMAIN table => Settled(id)
                \/ \A w \in Worker : EngineOf[w] \in Stoppable \/ pc[w] = "died"
                \/ \A e \in EngineId : e \in Stoppable \/ recovery[e] = "died"

==============================================================================
