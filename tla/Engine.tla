------------------------------- MODULE Engine --------------------------------
(***************************************************************************)
(* The engine, engine.go: worker goroutines that claim a job, run its      *)
(* handler and report the result, one heartbeat goroutine per claimed job, *)
(* a recovery loop, and the notify channel between them.                   *)
(*                                                                         *)
(* This module holds the engine's own state.  A worker's repository calls  *)
(* are separate steps (pc names the call that comes next), because other   *)
(* goroutines run between them; the module that composes the engine with a *)
(* repository joins each step with the effect of its call.  Metrics, spans *)
(* and logging are left out.                                               *)
(***************************************************************************)
EXTENDS Jobs, FiniteSets

CONSTANTS
    EngineId,           \* engines sharing the repository
    EngineOf,           \* worker name -> the engine whose workerLoop it is
    Registered,         \* job types with a handler (handlers.MustGet)
    EngineMode,         \* WithOrderingMode, "" when empty
    Strategy,           \* WithOrderingStrategy: job type -> mode, "" for none
    PolicyMaxAttempts,  \* retryPol.MaxAttempts
    PanicPolicy,        \* "handler" (WithPanicHandler), "retry" (WithRetryOnPanic), "fail"
    UserPanics,         \* callbacks that may panic themselves: "panicHandler", "listener"
    CtxAware,           \* the repository's calls fail once their context is cancelled
    NotifyCap,          \* capacity of notifyCh (100 in the code)
    DLQThreshold        \* WithDLQThreshold: 0 for none

ASSUME EngineAssumption ==
    /\ EngineOf \in [Worker -> EngineId]
    /\ Registered \subseteq JobType
    /\ EngineMode \in OrderingMode \cup {""}
    /\ Strategy \in [JobType \cup {NoType} -> OrderingMode \cup {""}]
    /\ PolicyMaxAttempts \in Nat
    /\ PanicPolicy \in {"handler", "retry", "fail"}
    /\ UserPanics \subseteq {"panicHandler", "listener"}
    /\ CtxAware \in BOOLEAN
    /\ NotifyCap \in Nat /\ DLQThreshold \in Nat

VARIABLES
    phase,     \* engine -> "new", "running", "stopping" (ctx cancelled), "stopped"
    recovery,  \* engine -> its recovery loop: "off", "on", "exited", "died"
    pc,        \* worker -> where its goroutine is
    held,      \* worker -> the Job value Claim returned to it
    beats,     \* the heartbeat goroutines that have not returned
    notify     \* engine -> tokens in notifyCh

engineVars == <<phase, recovery, pc, held, beats, notify>>

\* What is known of an error of a handler: errorsIsCancel and IsNonRetryable of it.
HandlerError == [cancel : BOOLEAN, nonRetryable : BOOLEAN]

NotHeld == [id |-> "none"]

\* A worker's or recovery goroutine has not been started, has returned, or was ended by a panic.
Gone == {"off", "exited", "died"}

\* The worker has a job whose result it has not reported.
Holding == { "running", "noHandler", "complete", "cancelThenFail", "cancelThenRetry",
             "fail", "retry" }

PC == Gone \cup Holding \cup {"idle", "promote"}

\* A heartbeat goroutine: the job and generation it beats for; done once its context
\* is cancelled.
Beat == [worker : Worker, id : JobId, gen : Nat, done : BOOLEAN]

EngineInit ==
    /\ phase = [e \in EngineId |-> "new"]
    /\ recovery = [e \in EngineId |-> "off"]
    /\ pc = [w \in Worker |-> "off"]
    /\ held = [w \in Worker |-> NotHeld]
    /\ beats = {}
    /\ notify = [e \in EngineId |-> 0]

-----------------------------------------------------------------------------
(* Requests                                                                    *)

\* The ordering mode of a request: its own, the strategy's, the engine's, strict.
ResolvedMode(req) ==
    IF req.mode # "" THEN req.mode
    ELSE IF Strategy[req.type] # "" THEN Strategy[req.type]
    ELSE IF EngineMode # "" THEN EngineMode ELSE "strict"

\* The request Enqueue and EnqueueBatch pass to the repository.
Resolved(req) == [req EXCEPT !.mode = ResolvedMode(req)]

\* Enqueue refuses an empty type or chain; EnqueueBatch leaves both to the repository.
Accepted(req) == req.type # NoType /\ req.chain # NoChain

-----------------------------------------------------------------------------
(* Start and Shutdown                                                          *)

\* Start.  A second call is refused, also after Shutdown.
Start(e) ==
    /\ phase[e] = "new"
    /\ phase' = [phase EXCEPT ![e] = "running"]
    /\ recovery' = [recovery EXCEPT ![e] = "on"]
    /\ pc' = [w \in Worker |-> IF EngineOf[w] = e THEN "idle" ELSE pc[w]]
    /\ UNCHANGED <<held, beats, notify>>

\* What is left of the beats of S once their context is cancelled.  Where the repository
\* honours the context they have no effect any more and count as gone at once.
Ended(S) == IF CtxAware THEN {} ELSE {[b EXCEPT !.done = TRUE] : b \in S}

\* Shutdown cancels the engine's context, and with it every heartbeat.
Shutdown(e) ==
    /\ phase[e] = "running"
    /\ phase' = [phase EXCEPT ![e] = "stopping"]
    /\ LET own == {b \in beats : EngineOf[b.worker] = e}
       IN beats' = (beats \ own) \cup Ended(own)
    /\ UNCHANGED <<recovery, pc, held, notify>>

\* A worker that returns on cancellation without finishing its job.
WorkerExitEarly(w) ==
    /\ phase[EngineOf[w]] = "stopping"
    /\ pc[w] \in {"idle", "complete"}
    /\ pc' = [pc EXCEPT ![w] = "exited"]
    /\ held' = [held EXCEPT ![w] = NotHeld]
    /\ UNCHANGED <<phase, recovery, beats, notify>>

\* The context is done and the worker's select takes that case.
WorkerExit(w) ==
    /\ phase[EngineOf[w]] = "stopping"
    /\ pc[w] = "idle"
    /\ pc' = [pc EXCEPT ![w] = "exited"]
    /\ UNCHANGED <<phase, recovery, held, beats, notify>>

\* Shutdown returns nil: wg.Wait() saw every worker and the recovery loop return.
ShutdownReturns(e) ==
    /\ phase[e] = "stopping"
    /\ recovery[e] \in Gone
    /\ \A w \in Worker : EngineOf[w] = e => pc[w] \in Gone
    /\ phase' = [phase EXCEPT ![e] = "stopped"]
    /\ UNCHANGED <<recovery, pc, held, beats, notify>>

\* The goroutines of e are still selecting.  With the context done select may still
\* pick a ticker or the notify channel that is ready as well.
Selecting(e) == phase[e] \in {"running", "stopping"}

-----------------------------------------------------------------------------
(* notifyCh: every send is non-blocking                                        *)

\* An unbounded queue of wake-ups.
AddTokensUncapped(n, k) == n + k

\* k sends to a channel that holds n tokens: what does not fit is dropped.
AddTokens(n, k) == IF n + k > NotifyCap THEN NotifyCap ELSE n + k

\* A send that waits until the channel has room.
SendBlocking(e, k) == notify[e] + k <= NotifyCap /\ notify' = [notify EXCEPT ![e] = @ + k]

Send(e, k) == notify' = [notify EXCEPT ![e] = AddTokens(@, k)]

\* NotifyChain
NotifyChain(e) == Send(e, 1) /\ UNCHANGED <<phase, recovery, pc, held, beats>>

\* What woke the worker: its ticker, or a token it takes from the channel.
Wake(e) ==
    \/ UNCHANGED notify
    \/ notify[e] > 0 /\ notify' = [notify EXCEPT ![e] = @ - 1]

-----------------------------------------------------------------------------
(* tryClaimAndExecute                                                          *)

\* Claim returned job: a heartbeat starts, on a context that is done already when the
\* engine is stopping, and the handler is looked up.
JobClaimed(w, id, job) ==
    LET e == EngineOf[w] IN
    /\ Selecting(e)
    /\ pc[w] = "idle"
    /\ Wake(e)
    /\ pc' = [pc EXCEPT ![w] = IF job.type \in Registered THEN "running" ELSE "noHandler"]
    /\ held' = [held EXCEPT ![w] = [id |-> id, job |-> job]]
    /\ beats' = beats \cup {[worker |-> w, id |-> id, gen |-> job.gen,
                             done |-> phase[e] = "stopping"]}
    /\ UNCHANGED <<phase, recovery>>

\* Claim returned ErrNotFound to a worker woken by a token.
NothingClaimed(w) ==
    /\ Selecting(EngineOf[w])
    /\ pc[w] = "idle"
    /\ notify[EngineOf[w]] > 0
    /\ notify' = [notify EXCEPT ![EngineOf[w]] = @ - 1]
    /\ UNCHANGED <<phase, recovery, pc, held, beats>>

\* hcancel() for the job w holds.
StopBeat(w) ==
    LET own == {b \in beats : b.worker = w}
    IN beats' = (beats \ own) \cup Ended(own)

\* ShouldRetry of the retry policy
ShouldRetry(attempt) == attempt < PolicyMaxAttempts

\* job.MaxAttempts not consulted.
TerminalByPolicyOnly(job, err) == err.nonRetryable \/ ~ShouldRetry(job.attempt)

\* An error is terminal when it says so or when the attempts are used up.
Terminal(job, err) ==
    \/ err.nonRetryable
    \/ job.attempt >= job.maxAttempts
    \/ ~ShouldRetry(job.attempt)

\* The handler returned nil, or the panic handler did.
HandlerSucceeds(w) ==
    /\ pc[w] = "running"
    /\ pc' = [pc EXCEPT ![w] = "complete"]
    /\ StopBeat(w)
    /\ UNCHANGED <<phase, recovery, held, notify>>

\* The handler returned err.  A cancellation is first turned into RequestCancel.
HandlerFails(w, err) ==
    LET fail == Terminal(held[w].job, err) IN
    /\ pc[w] = "running"
    /\ pc' = [pc EXCEPT ![w] = CASE err.cancel /\ fail   -> "cancelThenFail"
                                 [] err.cancel /\ ~fail  -> "cancelThenRetry"
                                 [] ~err.cancel /\ fail  -> "fail"
                                 [] ~err.cancel /\ ~fail -> "retry"]
    /\ StopBeat(w)
    /\ UNCHANGED <<phase, recovery, held, notify>>

\* hcancel() called where the handler returns, not deferred.
WorkerDiesBeating(w) ==
    /\ pc' = [pc EXCEPT ![w] = "died"]
    /\ held' = [held EXCEPT ![w] = NotHeld]
    /\ UNCHANGED <<phase, recovery, beats, notify>>

\* A panic outside the guard around the handler ends the worker's goroutine: workerLoop
\* recovers and returns, the deferred hcancel() runs, no result is reported.
WorkerDies(w) ==
    /\ pc' = [pc EXCEPT ![w] = "died"]
    /\ held' = [held EXCEPT ![w] = NotHeld]
    /\ StopBeat(w)
    /\ UNCHANGED <<phase, recovery, notify>>

\* The handler panicked: the guard asks the panic handler, or makes an error of it.
HandlerPanics(w) ==
    /\ pc[w] = "running"
    /\ \/ PanicPolicy = "handler" /\ HandlerSucceeds(w)
       \/ PanicPolicy = "handler" /\ \E err \in HandlerError : HandlerFails(w, err)
       \/ PanicPolicy = "handler" /\ "panicHandler" \in UserPanics /\ WorkerDies(w)
       \/ PanicPolicy # "handler" /\ HandlerFails(w, [cancel |-> FALSE,
                                                      nonRetryable |-> PanicPolicy = "fail"])

\* The worker is done with its job and goes back to its select.
Release(w) == pc' = [pc EXCEPT ![w] = "idle"] /\ held' = [held EXCEPT ![w] = NotHeld]

\* Complete returned: the chain is announced only when it succeeded.
CompleteReturned(w, ok) ==
    /\ pc[w] = "complete"
    /\ Release(w)
    /\ IF ok THEN Send(EngineOf[w], 1) ELSE UNCHANGED notify
    /\ UNCHANGED <<phase, recovery, beats>>

\* RequestCancel returned; its error is ignored.
CancelReturned(w) ==
    /\ pc[w] \in {"cancelThenFail", "cancelThenRetry"}
    /\ pc' = [pc EXCEPT ![w] = IF @ = "cancelThenFail" THEN "fail" ELSE "retry"]
    /\ UNCHANGED <<phase, recovery, held, beats, notify>>

\* The failure path without PromoteNext.
FailReturnedNoPromotion(w) ==
    /\ pc[w] = "fail"
    /\ Release(w)
    /\ UNCHANGED <<phase, recovery, beats, notify>>

\* Fail returned, with or without an error: the listener is told, and in the modes that
\* go on past a failure PromoteNext comes next.
FailReturned(w) ==
    /\ pc[w] = "fail"
    /\ IF held[w].job.mode \in ContinueModes
       THEN pc' = [pc EXCEPT ![w] = "promote"] /\ UNCHANGED held
       ELSE Release(w)
    /\ UNCHANGED <<phase, recovery, beats, notify>>

\* Fail returned and the event listener panicked.
ListenerPanics(w) == pc[w] = "fail" /\ "listener" \in UserPanics /\ WorkerDies(w)

\* Fail of a job without a handler returned.  This path ends here in every mode.
NoHandlerFailReturned(w) ==
    /\ pc[w] = "noHandler"
    /\ Release(w)
    /\ StopBeat(w)
    /\ UNCHANGED <<phase, recovery, notify>>

PromoteReturned(w) ==
    /\ pc[w] = "promote"
    /\ Release(w)
    /\ Send(EngineOf[w], 1)
    /\ UNCHANGED <<phase, recovery, beats>>

RetryReturned(w) ==
    /\ pc[w] = "retry"
    /\ Release(w)
    /\ UNCHANGED <<phase, recovery, beats, notify>>

-----------------------------------------------------------------------------
(* heartbeatLoop and recoveryLoop                                              *)

\* Heartbeat returned: the loop goes on unless it failed or its context is done.
HeartbeatReturned(b, ok) ==
    /\ b \in beats
    /\ beats' = IF ok /\ ~b.done THEN beats ELSE beats \ {b}
    /\ UNCHANGED <<phase, recovery, pc, held, notify>>

\* The loop takes the ctx.Done() case.
HeartbeatStops(b) ==
    /\ b \in beats
    /\ b.done
    /\ beats' = beats \ {b}
    /\ UNCHANGED <<phase, recovery, pc, held, notify>>

\* RecoverStale returned n > 0: one token per recovered job, dropped when full.
RecoveryReturned(e, n) ==
    /\ recovery[e] = "on"
    /\ Send(e, n)
    /\ UNCHANGED <<phase, recovery, pc, held, beats>>

\* The recovery loop takes the ctx.Done() case.
RecoveryExit(e) ==
    /\ phase[e] = "stopping"
    /\ recovery[e] = "on"
    /\ recovery' = [recovery EXCEPT ![e] = "exited"]
    /\ UNCHANGED <<phase, pc, held, beats, notify>>

\* dlq jobs are in the dead letter queue and the listener told of it panics: the loop
\* recovers, returns, and nothing starts it again.
RecoveryDies(e, dlq) ==
    /\ recovery[e] = "on"
    /\ DLQThreshold > 0 /\ dlq >= DLQThreshold
    /\ "listener" \in UserPanics
    /\ recovery' = [recovery EXCEPT ![e] = "died"]
    /\ UNCHANGED <<phase, pc, held, beats, notify>>
==============================================================================
