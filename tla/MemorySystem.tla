---------------------------- MODULE MemorySystem -----------------------------
(***************************************************************************)
(* Engines running against one in-memory repository.  Each step of a       *)
(* worker, heartbeat or recovery goroutine is joined with the repository   *)
(* call it makes; producers, operators (dashboard and Engine API) and time *)
(* are the environment.                                                    *)
(***************************************************************************)
EXTENDS MemoryRepo, Engine

CONSTANTS
    MaxPauses,   \* bound: leases that run out while their worker is still at work
    Operations   \* what the environment does to engines: "shutdown", "notify"

ASSUME SystemAssumption ==
    MaxPauses \in Nat /\ Operations \subseteq {"shutdown", "notify"}

VARIABLE pauses  \* leases that ran out while their worker was still at work

vars == <<jobs, chain, issued, phase, recovery, pc, held, beats, notify, pauses>>

Init == RepoInit /\ EngineInit /\ pauses = 0

-----------------------------------------------------------------------------
(* Producers                                                                   *)

EngineEnqueue(req) ==
    /\ Accepted(req)
    /\ Enqueue(Resolved(req))
    /\ UNCHANGED <<engineVars, pauses>>

EngineEnqueueBatch(req1, req2) ==
    /\ EnqueueBatch(Resolved(req1), Resolved(req2))
    /\ UNCHANGED <<engineVars, pauses>>

\* BatchEnqueueParallel checks every request, fills in MaxAttempts and enqueues the batch.
BatchEnqueueParallel(req1, req2) ==
    LET filled(req) == [req EXCEPT !.maxAttempts = IF @ = 0 THEN DefaultMaxAttempts ELSE @]
    IN /\ Accepted(req1) /\ Accepted(req2)
       /\ EngineEnqueueBatch(filled(req1), filled(req2))

-----------------------------------------------------------------------------
(* A worker: each repository call, whatever it returns                         *)

\* The arguments of w's calls: the job id and generation it got from Claim.
HeldId(w) == held[w].id
HeldGen(w) == held[w].job.gen

WorkerClaims(w) ==
    /\ \E id \in DOMAIN jobs : ClaimJob(w, id) /\ JobClaimed(w, id, jobs'[id])
    /\ UNCHANGED pauses

WorkerFindsNothing(w) ==
    /\ \A id \in DOMAIN jobs : ~(Eligible(id) /\ ~ChainBusy(jobs[id].chain))
    /\ NothingClaimed(w)
    /\ UNCHANGED <<repoVars, pauses>>

WorkerCompletes(w) ==
    /\ pc[w] = "complete"
    /\ \/ Complete(HeldId(w), w, HeldGen(w)) /\ CompleteReturned(w, TRUE)
       \/ LeaseConflict(HeldId(w), w, HeldGen(w)) /\ CompleteReturned(w, FALSE)
    /\ UNCHANGED pauses

WorkerRequestsCancel(w) ==
    /\ CancelReturned(w)
    /\ \/ RequestCancel(HeldId(w))
       \/ HeldId(w) \notin DOMAIN jobs /\ UNCHANGED repoVars
    /\ UNCHANGED pauses

\* The engine calls Fail with terminal = true only.
CallFail(w) ==
    \/ Fail(HeldId(w), w, HeldGen(w), TRUE)
    \/ LeaseConflict(HeldId(w), w, HeldGen(w))

WorkerFails(w) ==
    /\ pc[w] = "fail"
    /\ CallFail(w)
    /\ FailReturned(w) \/ ListenerPanics(w)
    /\ UNCHANGED pauses

WorkerFailsNoHandler(w) ==
    /\ pc[w] = "noHandler"
    /\ CallFail(w)
    /\ NoHandlerFailReturned(w)
    /\ UNCHANGED pauses

\* PromoteNext follows even a Fail that was fenced off.
WorkerPromotes(w) ==
    /\ pc[w] = "promote"
    /\ PromoteNext(held[w].job.chain, held[w].job.seq)
    /\ PromoteReturned(w)
    /\ UNCHANGED pauses

WorkerRetries(w) ==
    /\ pc[w] = "retry"
    /\ \/ Retry(HeldId(w), w, HeldGen(w))
       \/ LeaseConflict(HeldId(w), w, HeldGen(w))
    /\ RetryReturned(w)
    /\ UNCHANGED pauses

\* The handler itself: it succeeds, fails or panics.
HandlerEnds(w) ==
    /\ \/ HandlerSucceeds(w)
       \/ \E err \in HandlerError : HandlerFails(w, err)
       \/ HandlerPanics(w)
    /\ UNCHANGED <<repoVars, pauses>>

\* What a worker does once it has a job.
WorkerProgress(w) ==
    \/ HandlerEnds(w)
    \/ WorkerCompletes(w)
    \/ WorkerRequestsCancel(w)
    \/ WorkerFails(w)
    \/ WorkerFailsNoHandler(w)
    \/ WorkerPromotes(w)
    \/ WorkerRetries(w)

-----------------------------------------------------------------------------
(* Heartbeats, recovery, engine start and stop                                 *)

HeartbeatTick(b) ==
    /\ \/ Heartbeat(b.id, b.worker, b.gen) /\ HeartbeatReturned(b, TRUE)
       \/ LeaseConflict(b.id, b.worker, b.gen) /\ HeartbeatReturned(b, FALSE)
    /\ UNCHANGED pauses

HeartbeatEnds(b) == HeartbeatStops(b) /\ UNCHANGED <<repoVars, pauses>>

\* CountDLQ
CountDLQ == Cardinality({id \in DOMAIN jobs : jobs[id].status \in DLQStatus})

RecoveryTick(e) ==
    /\ \E R \in RecoverBatch : RecoverJobs(R) /\ RecoveryReturned(e, Cardinality(R))
    /\ UNCHANGED pauses

EngineStep(e) ==
    /\ \/ Start(e)
       \/ "shutdown" \in Operations /\ Shutdown(e)
       \/ ShutdownReturns(e)
       \/ "notify" \in Operations /\ NotifyChain(e)
       \/ RecoveryExit(e)
       \/ RecoveryDies(e, CountDLQ)
    /\ UNCHANGED <<repoVars, pauses>>

WorkerLeaves(w) == WorkerExit(w) /\ UNCHANGED <<repoVars, pauses>>

-----------------------------------------------------------------------------
(* Operators and time                                                          *)

Operator == OperatorStep /\ UNCHANGED <<engineVars, pauses>>

JobBecomesDue(id) == BecomesDue(id) /\ UNCHANGED <<engineVars, pauses>>

\* A worker still at work on the claim of id that the repository has on record.
AtWork(w, id) == pc[w] \in Holding /\ HeldId(w) = id /\ Owns(id, w, HeldGen(w))

\* The lease runs out although its worker is alive: a long pause, heartbeats that come
\* too late, or a Shutdown that stopped them while the handler goes on.
LeaseLapses(id) ==
    /\ \E w \in Worker : AtWork(w, id)
    /\ pauses < MaxPauses
    /\ LeaseExpires(id)
    /\ pauses' = pauses + 1
    /\ UNCHANGED engineVars

\* The lease of a job nobody works on any more runs out.
LeaseRunsOut(id) ==
    /\ \A w \in Worker : ~AtWork(w, id)
    /\ LeaseExpires(id)
    /\ UNCHANGED <<engineVars, pauses>>

-----------------------------------------------------------------------------

Next ==
    \/ \E req \in Requests : EngineEnqueue(req)
    \/ \E req1, req2 \in Requests : EngineEnqueueBatch(req1, req2) \/ BatchEnqueueParallel(req1, req2)
    \/ \E w \in Worker :
          \/ WorkerClaims(w)
          \/ WorkerFindsNothing(w)
          \/ WorkerProgress(w)
          \/ WorkerLeaves(w)
    \/ \E b \in beats : HeartbeatTick(b) \/ HeartbeatEnds(b)
    \/ \E e \in EngineId : RecoveryTick(e) \/ EngineStep(e)
    \/ Operator
    \/ \E id \in JobId : JobBecomesDue(id) \/ LeaseLapses(id) \/ LeaseRunsOut(id)

Spec == Init /\ [][Next]_vars

\* Fairness: started goroutines are scheduled, handlers return, tickers fire (claims by
\* polling, recovery), time passes.  Heartbeats, lapses, operators, producers and
\* Shutdown are not fair: they may happen or not.
Fairness ==
    /\ \A e \in EngineId : /\ WF_vars(Start(e) /\ UNCHANGED <<repoVars, pauses>>)
                           /\ WF_vars(RecoveryTick(e))
    /\ \A w \in Worker : WF_vars(WorkerClaims(w)) /\ WF_vars(WorkerProgress(w))
    /\ \A id \in JobId : WF_vars(JobBecomesDue(id)) /\ WF_vars(LeaseRunsOut(id))

FairSpec == Spec /\ Fairness

-----------------------------------------------------------------------------
(* Properties                                                                  *)

\* Type correctness of the engine's state next to the repository's.
TypeOK ==
    /\ RepoTypeOK
    /\ phase \in [EngineId -> {"new", "running", "stopping", "stopped"}]
    /\ recovery \in [EngineId -> {"off", "on", "exited", "died"}]
    /\ pc \in [Worker -> PC]
    /\ \A w \in Worker :
          IF pc[w] \in Holding \cup {"promote"}
          THEN held[w] \in [id : JobId, job : Job] ELSE held[w] = NotHeld
    /\ beats \subseteq Beat
    /\ notify \in [EngineId -> 0 .. NotifyCap]
    /\ pauses \in 0 .. MaxPauses

\* Two workers are at work on jobs of one chain only after some lease ran out under a
\* worker that was still alive.  Replays, skips, purges, retries, panics and a second
\* engine never bring it about.
OverlapNeedsPause ==
    pauses = 0 =>
        \A v, w \in Worker :
            /\ pc[v] \in Holding /\ pc[w] \in Holding
            /\ held[v].job.chain = held[w].job.chain
            => v = w

\* Every PROCESSING job is on the hands of the worker it names, with the generation on
\* record, unless that worker's goroutine was ended by a panic: no return path of
\* tryClaimAndExecute and no shutdown drops a claimed job.
ProcessingHasHolder ==
    \A id \in DOMAIN jobs :
        jobs[id].status = "PROCESSING" =>
            AtWork(jobs[id].worker, id) \/ pc[jobs[id].worker] = "died"

\* In strict mode a job is claimed only after its predecessor completed, and from then
\* on the predecessor stays COMPLETED, whatever stale workers report about it.
StrictFIFO ==
    "bulkPurge" \notin Commands =>
        \A id \in DOMAIN jobs :
            jobs[id].gen > 0 /\ jobs[id].seq > 1 =>
                LET m == chain[jobs[id].chain] IN
                /\ jobs[id].seq - 1 \in DOMAIN m
                /\ LET pred == jobs[m[jobs[id].seq - 1]]
                   IN pred.mode = "strict" => pred.status = "COMPLETED"

\* The job p failed on a path that never comes to PromoteNext: nobody handles its type,
\* or the listener that was told of the failure panicked.
FailedUnpromoted(p) ==
    /\ jobs[p].status \in DLQStatus
    /\ jobs[p].type \notin Registered \/ pc[jobs[p].worker] = "died"

\* A BLOCKED job waits for something: its predecessor is unfinished, or the worker that
\* finished it is about to promote; only two failures leave it behind.  Promotion is spread
\* over Complete, SkipJob, BulkSkipDLQ, Enqueue and the engine's separate PromoteNext call.
NoLostPromotion ==
    \A id \in DOMAIN jobs :
        jobs[id].status = "BLOCKED" =>
            LET m == chain[jobs[id].chain]
                n == jobs[id].seq - 1 IN
            \/ ~PredecessorFinished(jobs, m, n + 1)
            \/ \E w \in Worker : /\ pc[w] = "promote"
                                 /\ held[w].job.chain = jobs[id].chain
                                 /\ held[w].job.seq = n
            \/ n \in DOMAIN m /\ FailedUnpromoted(m[n])

\* While no lease ran out and no worker died, a job is attempted at most MaxAttempts
\* times, and at most as often as the retry policy allows, since its last replay.
AttemptsWithinBudget ==
    (pauses = 0 /\ \A w \in Worker : pc[w] # "died") =>
        \A id \in DOMAIN jobs :
            /\ jobs[id].attempt <= jobs[id].maxAttempts
            /\ jobs[id].attempt <= PolicyMaxAttempts

\* A COMPLETED job stays COMPLETED: no late result of a worker that lost its lease, no
\* recovery and no operator command takes it back.
CompletedIsFinal ==
    [][\A id \in DOMAIN jobs : jobs[id].status = "COMPLETED" =>
          id \in DOMAIN jobs' /\ jobs'[id].status = "COMPLETED"]_vars

\* Nothing will happen to the job without an operator: it is finished, or it or an
\* earlier job of its chain is to be cancelled, or failed in strict mode or without
\* promoting its successor.
Settled(id) ==
    \/ IsTerminal(jobs[id].status)
    \/ \E p \in DOMAIN jobs :
          /\ jobs[p].chain = jobs[id].chain
          /\ jobs[p].seq <= jobs[id].seq
          /\ \/ jobs[p].status \in {"CANCEL_REQUESTED", "CANCELLED"}
             \/ jobs[p].status \in DLQStatus /\ jobs[p].mode = "strict"
             \/ FailedUnpromoted(p)

\* Every stored job settles, as long as a worker and a recovery loop survive the panics of
\* the user's callbacks: it is promoted, claimed, retried after its backoff, recovered when
\* its worker died, until it is terminal or its chain is stopped.
EveryJobSettles ==
    \A id \in JobId :
        (id \in DOMAIN jobs) ~> \/ id \in DOMAIN jobs => Settled(id)
                               \/ \A w \in Worker : pc[w] = "died"
                               \/ \A e \in EngineId : recovery[e] = "died"

Contract == INSTANCE OrderedChain WITH
    Id <- JobId, Chain <- ChainId, job <- ChainView(jobs),
    CanRemove <- "bulkPurge" \in Commands, Guarded <- TRUE

\* Engine and repository together keep the promise of OrderedChain.  The repository alone
\* does not: its fence ignores the status, and a second report of one claim would take a
\* COMPLETED job back; the engine reports each claim once.
ImplementsOrderedChain == Contract!Spec
==============================================================================
