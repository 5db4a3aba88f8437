----------------------------- MODULE EngineProofs ----------------------------
(***************************************************************************)
(* What the engine's own steps keep of its state, for every set of         *)
(* engines and workers and whatever repository they call: the types, and   *)
(* which worker a step moves.  The proofs of the systems use it.           *)
(***************************************************************************)
EXTENDS Engine, TLAPS

\* The worker keeps the Job value Claim returned to it.
Busy == Holding \cup {"promote"}

\* The claim leaves the job attempts in both budgets.
MayRetry(r) == r.attempt < r.maxAttempts /\ r.attempt < PolicyMaxAttempts

\* The engine's state has its types, and no worker runs before Start.
EngineSound ==
    /\ phase \in [EngineId -> {"new", "running", "stopping", "stopped"}]
    /\ recovery \in [EngineId -> {"off", "on", "exited", "died"}]
    /\ pc \in [Worker -> PC]
    /\ held = [w \in Worker |-> held[w]]
    /\ \A w \in Worker : pc[w] \notin Busy => held[w] = NotHeld
    /\ beats \subseteq Beat
    /\ notify \in [EngineId -> 0 .. NotifyCap]
    /\ \A w \in Worker : phase[EngineOf[w]] = "new" => pc[w] = "off"

-----------------------------------------------------------------------------
(* Tokens and heartbeats                                                       *)

\* A send keeps the channel within its capacity.
LEMMA SendTyped ==
    ASSUME EngineSound, NEW e \in EngineId, NEW k \in Nat, Send(e, k)
    PROVE  notify' \in [EngineId -> 0 .. NotifyCap]
<1>1. notify[e] \in 0 .. NotifyCap /\ NotifyCap \in Nat
  BY EngineAssumption DEF EngineSound
<1>2. AddTokens(notify[e], k) \in 0 .. NotifyCap
  BY <1>1 DEF AddTokens
<1> HIDE DEF AddTokens
<1> QED BY <1>2 DEF EngineSound, Send

\* So does a receive.
LEMMA WakeTyped ==
    ASSUME EngineSound, NEW e \in EngineId, Wake(e)
    PROVE  notify' \in [EngineId -> 0 .. NotifyCap]
<1>1. notify[e] \in 0 .. NotifyCap /\ NotifyCap \in Nat
  BY EngineAssumption DEF EngineSound
<1>2. notify[e] > 0 => notify[e] - 1 \in 0 .. NotifyCap
  BY <1>1
<1>3. CASE notify[e] > 0 /\ notify' = [notify EXCEPT ![e] = notify[e] - 1]
  BY <1>2, <1>3 DEF EngineSound
<1> QED BY <1>3 DEF Wake, EngineSound

\* Heartbeats whose context is cancelled are heartbeats still.
LEMMA EndedTyped ==
    ASSUME NEW S \in SUBSET Beat
    PROVE  Ended(S) \subseteq Beat
<1>1. \A b \in Beat : [b EXCEPT !.done = TRUE] \in Beat
  BY DEF Beat
<1> QED BY <1>1 DEF Ended

\* Stopping the heartbeats of a worker leaves heartbeats of the same kind.
LEMMA StopBeatTyped ==
    ASSUME EngineSound, NEW w, StopBeat(w)
    PROVE  beats' \subseteq Beat
<1>1. {b \in beats : b.worker = w} \in SUBSET Beat
  BY DEF EngineSound
<1>2. Ended({b \in beats : b.worker = w}) \subseteq Beat
  BY <1>1, EndedTyped
<1> QED BY <1>2 DEF StopBeat, EngineSound

-----------------------------------------------------------------------------
(* A worker moves                                                              *)

\* The worker w, and nothing else of the engines but beats and tokens, moves to x.
Goes(w, x) ==
    /\ pc' = [pc EXCEPT ![w] = x]
    /\ held' = IF x \in Busy THEN held ELSE [held EXCEPT ![w] = NotHeld]
    /\ beats' \subseteq Beat
    /\ notify' \in [EngineId -> 0 .. NotifyCap]
    /\ UNCHANGED <<phase, recovery>>

\* A worker that has been started moves.
LEMMA GoesMoves ==
    ASSUME EngineSound, NEW w \in Worker, NEW x \in PC, Goes(w, x), pc[w] # "off",
           x \in Busy => pc[w] \in Busy
    PROVE  /\ EngineSound'
           /\ pc'[w] = x /\ held'[w] = (IF x \in Busy THEN held[w] ELSE NotHeld)
           /\ \A v \in Worker \ {w} : pc'[v] = pc[v] /\ held'[v] = held[v]
<1>1. /\ pc \in [Worker -> PC] /\ held = [v \in Worker |-> held[v]]
      /\ \A v \in Worker : pc[v] \notin Busy => held[v] = NotHeld
  BY DEF EngineSound
<1>2. pc' \in [Worker -> PC] /\ pc'[w] = x /\ \A v \in Worker \ {w} : pc'[v] = pc[v]
  BY <1>1 DEF Goes
<1>3. /\ held' = [v \in Worker |-> held'[v]]
      /\ held'[w] = (IF x \in Busy THEN held[w] ELSE NotHeld)
      /\ \A v \in Worker \ {w} : held'[v] = held[v]
  BY <1>1 DEF Goes
<1>4. \A v \in Worker : pc'[v] \notin Busy => held'[v] = NotHeld
  BY <1>1, <1>2, <1>3
<1>5. \A v \in Worker : phase'[EngineOf[v]] = "new" => pc'[v] = "off"
  BY <1>2 DEF EngineSound, Goes
<1> QED BY <1>2, <1>3, <1>4, <1>5 DEF EngineSound, Goes

\* Where the engine's actions take their worker.
LEMMA WorkerGoes ==
    ASSUME EngineSound, NEW w \in Worker
    PROVE  /\ HandlerSucceeds(w) => Goes(w, "complete") /\ pc[w] = "running"
           /\ WorkerDies(w) => Goes(w, "died")
           /\ \A ok \in BOOLEAN : CompleteReturned(w, ok) => Goes(w, "idle")
           /\ CancelReturned(w) =>
                 \/ pc[w] = "cancelThenFail" /\ Goes(w, "fail")
                 \/ pc[w] = "cancelThenRetry" /\ Goes(w, "retry")
           /\ FailReturned(w) =>
                 Goes(w, IF held[w].job.mode \in ContinueModes THEN "promote" ELSE "idle")
           /\ NoHandlerFailReturned(w) => Goes(w, "idle")
           /\ PromoteReturned(w) => Goes(w, "idle")
           /\ RetryReturned(w) => Goes(w, "idle")
           /\ WorkerExit(w) => Goes(w, "exited")
<1> USE DEF Goes, Busy, Holding
<1>1. beats \subseteq Beat /\ notify \in [EngineId -> 0 .. NotifyCap] /\ EngineOf[w] \in EngineId
  BY EngineAssumption DEF EngineSound
<1>2. StopBeat(w) => beats' \subseteq Beat
  BY StopBeatTyped
<1>3. Send(EngineOf[w], 1) => notify' \in [EngineId -> 0 .. NotifyCap]
  BY <1>1, SendTyped
<1>4. HandlerSucceeds(w) => Goes(w, "complete") /\ pc[w] = "running"
  BY <1>1, <1>2 DEF HandlerSucceeds
<1>5. WorkerDies(w) => Goes(w, "died")
  BY <1>1, <1>2 DEF WorkerDies
<1>6. \A ok \in BOOLEAN : CompleteReturned(w, ok) => Goes(w, "idle")
  BY <1>1, <1>3 DEF CompleteReturned, Release
<1>7. CancelReturned(w) => \/ pc[w] = "cancelThenFail" /\ Goes(w, "fail")
                           \/ pc[w] = "cancelThenRetry" /\ Goes(w, "retry")
  BY <1>1 DEF CancelReturned, EngineSound
<1>8. FailReturned(w) =>
         Goes(w, IF held[w].job.mode \in ContinueModes THEN "promote" ELSE "idle")
  BY <1>1 DEF FailReturned, Release
<1>9. NoHandlerFailReturned(w) => Goes(w, "idle")
  BY <1>1, <1>2 DEF NoHandlerFailReturned, Release
<1>10. PromoteReturned(w) => Goes(w, "idle")
  BY <1>1, <1>3 DEF PromoteReturned, Release
<1>11. RetryReturned(w) => Goes(w, "idle")
  BY <1>1 DEF RetryReturned, Release
<1>12. WorkerExit(w) => Goes(w, "exited")
  <2>1. WorkerExit(w) => held = [held EXCEPT ![w] = NotHeld]
    BY DEF WorkerExit, EngineSound
  <2> QED BY <1>1, <2>1 DEF WorkerExit
<1> QED BY <1>4, <1>5, <1>6, <1>7, <1>8, <1>9, <1>10, <1>11, <1>12

\* A handler's error leads to a retry only while attempts are left.
LEMMA HandlerFailsGoes ==
    ASSUME EngineSound, NEW w \in Worker, NEW err \in HandlerError,
           HandlerFails(w, err), held[w] \in [id : JobId, job : Job]
    PROVE  /\ pc[w] = "running"
           /\ \E x \in {"cancelThenFail", "cancelThenRetry", "fail", "retry"} :
                 Goes(w, x) /\ (x \in {"retry", "cancelThenRetry"} => MayRetry(held[w].job))
<1> DEFINE fail == Terminal(held[w].job, err)
           x == CASE err.cancel /\ fail   -> "cancelThenFail"
                  [] err.cancel /\ ~fail  -> "cancelThenRetry"
                  [] ~err.cancel /\ fail  -> "fail"
                  [] ~err.cancel /\ ~fail -> "retry"
<1>1. beats' \subseteq Beat /\ notify' \in [EngineId -> 0 .. NotifyCap]
  BY StopBeatTyped DEF HandlerFails, EngineSound
<1>2. pc[w] = "running" /\ pc' = [pc EXCEPT ![w] = x]
  BY DEF HandlerFails
<1>3. ~fail => MayRetry(held[w].job)
  <2>1. /\ held[w].job.attempt \in Nat /\ held[w].job.maxAttempts \in Int
        /\ PolicyMaxAttempts \in Nat
    BY EngineAssumption DEF Job
  <2> QED BY <2>1 DEF Terminal, MayRetry, ShouldRetry
<1>4. /\ x \in {"cancelThenFail", "cancelThenRetry", "fail", "retry"}
      /\ x \in {"retry", "cancelThenRetry"} => ~fail
  <2> HIDE DEF fail
  <2>1. err.cancel \in BOOLEAN
    BY DEF HandlerError
  <2> QED BY <2>1
<1> HIDE DEF x, fail
<1>5. Goes(w, x)
  BY <1>1, <1>2, <1>4 DEF Goes, HandlerFails, Busy, Holding
<1> QED BY <1>2, <1>3, <1>4, <1>5

\* Claim has returned a job to an idle worker.
LEMMA ClaimedSound ==
    ASSUME EngineSound, NEW w \in Worker, NEW id \in JobId, NEW job \in Job, JobClaimed(w, id, job)
    PROVE  /\ EngineSound' /\ pc[w] = "idle"
           /\ pc'[w] \in {"running", "noHandler"} /\ held'[w] = [id |-> id, job |-> job]
           /\ \A v \in Worker \ {w} : pc'[v] = pc[v] /\ held'[v] = held[v]
           /\ UNCHANGED <<phase, recovery>>
<1> DEFINE x == IF job.type \in Registered THEN "running" ELSE "noHandler"
           h == [id |-> id, job |-> job]
<1>1. /\ pc[w] = "idle" /\ pc' = [pc EXCEPT ![w] = x] /\ held' = [held EXCEPT ![w] = h]
      /\ UNCHANGED <<phase, recovery>> /\ x \in {"running", "noHandler"}
  BY DEF JobClaimed
<1>2. /\ pc \in [Worker -> PC] /\ held = [v \in Worker |-> held[v]]
      /\ \A v \in Worker : pc[v] \notin Busy => held[v] = NotHeld
  BY DEF EngineSound
<1> HIDE DEF x, h
<1>3. /\ pc' \in [Worker -> PC] /\ pc'[w] = x
      /\ held' = [v \in Worker |-> held'[v]] /\ held'[w] = h
      /\ \A v \in Worker \ {w} : pc'[v] = pc[v] /\ held'[v] = held[v]
  BY <1>1, <1>2 DEF PC, Holding
<1>4. \A v \in Worker : pc'[v] \notin Busy => held'[v] = NotHeld
  BY <1>1, <1>2, <1>3 DEF Busy, Holding
<1>5. beats' \subseteq Beat
  <2>1. job.gen \in Nat
    BY DEF Job
  <2>2. [worker |-> w, id |-> id, gen |-> job.gen, done |-> phase[EngineOf[w]] = "stopping"] \in Beat
    BY <2>1 DEF Beat
  <2> QED BY <2>2 DEF JobClaimed, EngineSound
<1>6. notify' \in [EngineId -> 0 .. NotifyCap]
  BY WakeTyped, EngineAssumption DEF JobClaimed
<1>7. \A v \in Worker : phase'[EngineOf[v]] = "new" => pc'[v] = "off"
  <2>1. phase[EngineOf[w]] # "new"
    BY <1>1 DEF EngineSound
  <2> QED BY <1>1, <1>3, <2>1 DEF EngineSound
<1>8. EngineSound'
  BY <1>1, <1>3, <1>4, <1>5, <1>6, <1>7 DEF EngineSound
<1> QED BY <1>1, <1>3, <1>8 DEF h

-----------------------------------------------------------------------------
(* The engine's other steps                                                    *)

\* Start: workers that were not running are idle.
LEMMA StartSound ==
    ASSUME EngineSound, NEW e \in EngineId, Start(e)
    PROVE  /\ EngineSound' /\ held' = held
           /\ pc' = [w \in Worker |-> IF EngineOf[w] = e THEN "idle" ELSE pc[w]]
           /\ \A w \in Worker : EngineOf[w] = e => pc[w] = "off"
<1>1. /\ phase[e] = "new" /\ held' = held
      /\ pc' = [w \in Worker |-> IF EngineOf[w] = e THEN "idle" ELSE pc[w]]
      /\ \A w \in Worker : EngineOf[w] = e => pc[w] = "off"
  BY DEF Start, EngineSound
<1>2. pc' \in [Worker -> PC] /\ \A w \in Worker : pc'[w] \notin Busy => held'[w] = NotHeld
  BY <1>1 DEF EngineSound, PC, Busy, Gone, Holding
<1>3. /\ phase' \in [EngineId -> {"new", "running", "stopping", "stopped"}]
      /\ recovery' \in [EngineId -> {"off", "on", "exited", "died"}]
  BY DEF Start, EngineSound
<1>4. \A w \in Worker : phase'[EngineOf[w]] = "new" => pc'[w] = "off"
  BY <1>1, EngineAssumption DEF Start, EngineSound
<1>5. EngineSound'
  BY <1>1, <1>2, <1>3, <1>4 DEF EngineSound, Start
<1> QED BY <1>1, <1>5

\* A step that moves no worker.
LEMMA LoopSound ==
    ASSUME EngineSound, UNCHANGED <<pc, held>>,
           phase' \in [EngineId -> {"new", "running", "stopping", "stopped"}],
           \A e \in EngineId : phase'[e] = "new" => phase[e] = "new",
           recovery' \in [EngineId -> {"off", "on", "exited", "died"}],
           beats' \subseteq Beat, notify' \in [EngineId -> 0 .. NotifyCap]
    PROVE  EngineSound'
BY EngineAssumption DEF EngineSound

\* Shutdown, the end of a loop, a heartbeat, tokens: no worker moves.
LEMMA LoopsSound ==
    ASSUME EngineSound
    PROVE  /\ \A e \in EngineId :
                 /\ Shutdown(e) => EngineSound' /\ UNCHANGED <<recovery, pc, held>>
                 /\ ShutdownReturns(e) => EngineSound' /\ UNCHANGED <<recovery, pc, held>>
                 /\ NotifyChain(e) => EngineSound' /\ UNCHANGED <<recovery, pc, held>>
                 /\ RecoveryExit(e) => /\ EngineSound' /\ UNCHANGED <<pc, held>>
                                       /\ recovery' = [recovery EXCEPT ![e] = "exited"]
                 /\ \A n \in Nat : RecoveryReturned(e, n) =>
                       EngineSound' /\ UNCHANGED <<recovery, pc, held>>
                 /\ \A dlq : RecoveryDies(e, dlq) => EngineSound' /\ UNCHANGED <<pc, held>>
           /\ \A b \in beats :
                 /\ \A ok \in BOOLEAN : HeartbeatReturned(b, ok) =>
                       EngineSound' /\ UNCHANGED <<recovery, pc, held>>
                 /\ HeartbeatStops(b) => EngineSound' /\ UNCHANGED <<recovery, pc, held>>
           /\ \A w \in Worker : NothingClaimed(w) => EngineSound' /\ UNCHANGED <<recovery, pc, held>>
<1>1. /\ phase \in [EngineId -> {"new", "running", "stopping", "stopped"}]
      /\ recovery \in [EngineId -> {"off", "on", "exited", "died"}]
      /\ beats \subseteq Beat /\ notify \in [EngineId -> 0 .. NotifyCap]
  BY DEF EngineSound
<1>2. ASSUME NEW e \in EngineId, Shutdown(e)
      PROVE  EngineSound' /\ UNCHANGED <<recovery, pc, held>>
  <2> DEFINE own == {b \in beats : EngineOf[b.worker] = e}
  <2>1. beats' = (beats \ own) \cup Ended(own) /\ own \in SUBSET Beat
    BY <1>1, <1>2 DEF Shutdown
  <2>2. beats' \subseteq Beat
    BY <1>1, <2>1, EndedTyped
  <2> QED BY <1>1, <1>2, <2>2, LoopSound DEF Shutdown
<1>3. ASSUME NEW e \in EngineId, ShutdownReturns(e)
      PROVE  EngineSound' /\ UNCHANGED <<recovery, pc, held>>
  BY <1>1, <1>3, LoopSound DEF ShutdownReturns
<1>4. ASSUME NEW e \in EngineId, NotifyChain(e)
      PROVE  EngineSound' /\ UNCHANGED <<recovery, pc, held>>
  <2>1. notify' \in [EngineId -> 0 .. NotifyCap]
    BY <1>4, SendTyped DEF NotifyChain
  <2> QED BY <1>1, <1>4, <2>1, LoopSound DEF NotifyChain
<1>5. ASSUME NEW e \in EngineId, RecoveryExit(e)
      PROVE  /\ EngineSound' /\ UNCHANGED <<pc, held>>
             /\ recovery' = [recovery EXCEPT ![e] = "exited"]
  BY <1>1, <1>5, LoopSound DEF RecoveryExit
<1>6. ASSUME NEW e \in EngineId, NEW n \in Nat, RecoveryReturned(e, n)
      PROVE  EngineSound' /\ UNCHANGED <<recovery, pc, held>>
  <2>1. notify' \in [EngineId -> 0 .. NotifyCap]
    BY <1>6, SendTyped DEF RecoveryReturned
  <2> QED BY <1>1, <1>6, <2>1, LoopSound DEF RecoveryReturned
<1>7. ASSUME NEW e \in EngineId, NEW dlq, RecoveryDies(e, dlq)
      PROVE  EngineSound' /\ UNCHANGED <<pc, held>>
  BY <1>1, <1>7, LoopSound DEF RecoveryDies
<1>8. ASSUME NEW b \in beats, NEW ok \in BOOLEAN, HeartbeatReturned(b, ok)
      PROVE  EngineSound' /\ UNCHANGED <<recovery, pc, held>>
  BY <1>1, <1>8, LoopSound DEF HeartbeatReturned
<1>9. ASSUME NEW b \in beats, HeartbeatStops(b)
      PROVE  EngineSound' /\ UNCHANGED <<recovery, pc, held>>
  BY <1>1, <1>9, LoopSound DEF HeartbeatStops
<1>10. ASSUME NEW w \in Worker, NothingClaimed(w)
       PROVE  EngineSound' /\ UNCHANGED <<recovery, pc, held>>
  <2>1. Wake(EngineOf[w]) /\ EngineOf[w] \in EngineId
    BY <1>10, EngineAssumption DEF NothingClaimed, Wake
  <2>2. notify' \in [EngineId -> 0 .. NotifyCap]
    BY <2>1, WakeTyped
  <2> QED BY <1>1, <1>10, <2>2, LoopSound DEF NothingClaimed
<1> QED BY <1>2, <1>3, <1>4, <1>5, <1>6, <1>7, <1>8, <1>9, <1>10

\* No engine has been started.
LEMMA InitSound == EngineInit => EngineSound
<1> SUFFICES ASSUME EngineInit PROVE EngineSound
  OBVIOUS
<1>1. NotifyCap \in Nat
  BY EngineAssumption
<1>2. pc \in [Worker -> PC] /\ beats = {} /\ notify \in [EngineId -> 0 .. NotifyCap]
  BY <1>1 DEF EngineInit, PC, Gone
<1> QED BY <1>2 DEF EngineInit, EngineSound
=============================================================================
