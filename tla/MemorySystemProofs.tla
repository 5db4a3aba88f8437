-------------------------- MODULE MemorySystemProofs -------------------------
(***************************************************************************)
(* Proofs about engines on the in-memory repository, for every set of      *)
(* jobs, chains, workers, engines, requests and commands, any number of    *)
(* claims and of leases that run out under a live worker.                  *)
(***************************************************************************)
EXTENDS MemorySystem, MemoryRepoProofs, EngineProofs, FiniteSetTheorems

\* OrderedChain with what is proved about it.
Order == INSTANCE OrderedChainProofs WITH
    Id <- JobId, Chain <- ChainId, job <- ChainView(jobs),
    CanRemove <- "bulkPurge" \in Commands, Guarded <- TRUE

-----------------------------------------------------------------------------
(* The inductive invariant                                                     *)

\* The statuses a job has only after it was claimed.
Ran == {"PROCESSING", "RETRYING", "COMPLETED"} \cup DLQStatus

\* The statuses a job can have while a worker holds the claim on record.
Open == {"PROCESSING", "RETRYING", "CANCEL_REQUESTED"}

\* What no call changes of a stored job.
SameJob(r, q) ==
    /\ r.chain = q.chain /\ r.seq = q.seq /\ r.type = q.type
    /\ r.mode = q.mode /\ r.maxAttempts = q.maxAttempts

\* A job was claimed before it got a status in Ran, names its last worker once it was
\* claimed, and waits with its attempts unused.  The engine never confirms a cancel.
JobSound(r) ==
    /\ r.status \in Ran \cup {"PENDING", "BLOCKED", "CANCEL_REQUESTED"}
    /\ r.status \in Ran => r.gen > 0
    /\ r.gen > 0 => r.worker \in Worker
    /\ r.status \in {"PENDING", "BLOCKED"} => r.attempt = 0

\* What a worker knows of the job it got from Claim: its identity and a generation that
\* is not ahead of the one on record.  While the claim is the one on record, nobody has
\* reported its end: a report is made once.
ClaimSound(w) ==
    pc[w] \in Busy =>
        /\ held[w] \in [id : JobId, job : Job]
        /\ HeldId(w) \in issued /\ HeldGen(w) > 0
        /\ HeldId(w) \in DOMAIN jobs =>
              /\ SameJob(jobs[HeldId(w)], held[w].job)
              /\ HeldGen(w) <= jobs[HeldId(w)].gen
              /\ AtWork(w, HeldId(w)) => /\ jobs[HeldId(w)].status \in Open
                                         /\ jobs[HeldId(w)].attempt = held[w].job.attempt
        /\ pc[w] = "noHandler" => held[w].job.type \notin Registered
        /\ pc[w] \in {"retry", "cancelThenRetry"} => MayRetry(held[w].job)

\* Until a lease runs out under a live worker, every worker that has a job owns it.
NobodyRobbed ==
    pauses = 0 =>
        \A w \in Worker : pc[w] \in Holding =>
            /\ AtWork(w, HeldId(w))
            /\ jobs[HeldId(w)].status = "PROCESSING" /\ jobs[HeldId(w)].lease = "live"

\* The engine's state has its types.
EngineTyped == EngineSound /\ pauses \in 0 .. MaxPauses

\* The inductive invariant.
SysInv ==
    /\ RepoInv /\ IsFiniteSet(issued) /\ EngineTyped
    /\ \A id \in DOMAIN jobs : JobSound(jobs[id])
    /\ \A w \in Worker : ClaimSound(w)
    /\ ProcessingHasHolder
    /\ NobodyRobbed

\* Some lease ran out under a live worker, or some worker died.
Disturbed == pauses > 0 \/ \E w \in Worker : pc[w] = "died"

\* Every job may be attempted at least once.
BudgetsPositive ==
    /\ PolicyMaxAttempts >= 1 /\ DefaultMaxAttempts >= 1
    /\ \A req \in Requests : req.maxAttempts >= 0

\* Until then attempts stay within their budget, and a job that waits for a retry has one
\* left.
BudgetKept ==
    \A id \in DOMAIN jobs :
        /\ jobs[id].maxAttempts >= 1
        /\ ~Disturbed => /\ jobs[id].attempt <= jobs[id].maxAttempts
                         /\ jobs[id].attempt <= PolicyMaxAttempts
                         /\ jobs[id].status = "RETRYING" => MayRetry(jobs[id])

-----------------------------------------------------------------------------
(* What a step does to workers and jobs.  Every step but a claim has this shape. *)

\* A worker stays where it is, goes on with its job, or is done with it: then no job is
\* left PROCESSING in its name, unless it died.
WorkerMove(w) ==
    \/ pc'[w] = pc[w] /\ held'[w] = held[w]
    \/ /\ pc[w] \in Holding /\ pc'[w] \in Holding \ {"noHandler"} /\ held'[w] = held[w]
       /\ pc'[w] \in {"retry", "cancelThenRetry"} => MayRetry(held[w].job)
    \/ /\ pc'[w] \notin Holding /\ pc[w] # "died"
       /\ pc'[w] = "promote" => pc[w] \in Holding /\ held'[w] = held[w]
       /\ \/ pc'[w] = "died"
          \/ \A id \in DOMAIN jobs' : jobs'[id].worker = w => jobs'[id].status # "PROCESSING"

\* A job keeps its identity and its claim, a COMPLETED one its status.  Under a worker that
\* still holds the claim on record it stays open, and PROCESSING unless a lease ran out.
\* It is to be retried only with attempts left, unless recovery sees to it.
Kept(id) ==
    /\ SameJob(jobs'[id], jobs[id]) /\ JobSound(jobs'[id])
    /\ jobs'[id].gen = jobs[id].gen /\ jobs'[id].worker = jobs[id].worker
    /\ jobs'[id].status = "PROCESSING" => jobs[id].status = "PROCESSING"
    /\ jobs[id].status = "COMPLETED" => jobs'[id].status = "COMPLETED"
    /\ \A w \in Worker : AtWork(w, id) /\ pc'[w] \in Holding =>
          /\ jobs[id].status \in Open =>
                jobs'[id].status \in Open /\ jobs'[id].attempt = jobs[id].attempt
          /\ pauses' = 0 /\ jobs[id].status = "PROCESSING" /\ jobs[id].lease = "live" =>
                jobs'[id].status = "PROCESSING" /\ jobs'[id].lease = "live"
    /\ jobs'[id].attempt \in {0, jobs[id].attempt}
    /\ jobs'[id].status = "RETRYING" => \/ Disturbed' \/ MayRetry(jobs'[id])
                                         \/ /\ jobs[id].status = "RETRYING"
                                            /\ jobs'[id].attempt = jobs[id].attempt

\* A job is kept, or purged from the dead letter queue.
JobMove(id) ==
    /\ id \in DOMAIN jobs' => Kept(id)
    /\ id \notin DOMAIN jobs' => jobs[id].status \in DLQStatus

\* A new job has never been claimed, and no worker knows its id.
Added(id) ==
    /\ id \notin issued /\ JobSound(jobs'[id])
    /\ jobs'[id].gen = 0 /\ jobs'[id].status \in {"PENDING", "BLOCKED"}
    /\ BudgetsPositive => jobs'[id].maxAttempts >= 1

\* A step that claims nothing: each worker, each job and each new job moves as above.
Moved ==
    /\ RepoInv' /\ IsFiniteSet(issued)' /\ EngineTyped'
    /\ issued \subseteq issued' /\ pauses' \in {pauses, pauses + 1}
    /\ \A w \in Worker : WorkerMove(w)
    /\ \A id \in DOMAIN jobs : JobMove(id)
    /\ \A id \in DOMAIN jobs' \ DOMAIN jobs : Added(id)

\* The invariant's parts that say nothing of types survive such a step.
LEMMA MovedKeepsInv ==
    ASSUME SysInv, Moved
    PROVE  SysInv'
<1> USE DEF Moved
<1>1. /\ \A id \in DOMAIN jobs : jobs[id] \in Job
      /\ \A id \in DOMAIN jobs' : jobs'[id] \in Job
      /\ DOMAIN jobs \subseteq issued
  BY DEF SysInv, RepoInv, MapsOK, MapsTyped
<1>2. ASSUME NEW id \in DOMAIN jobs' PROVE JobSound(jobs'[id])
  BY DEF JobMove, Kept, Added
<1>3. ASSUME NEW id \in DOMAIN jobs', NEW w \in Worker, id \in DOMAIN jobs \/ id \in issued
      PROVE  id \in DOMAIN jobs /\ Kept(id)
  BY <1>3 DEF JobMove, Added
<1>4. /\ pauses \in Nat /\ (pauses' = 0 => pauses = 0)
  BY DEF SysInv, EngineTyped, EngineSound
<1>5. ASSUME NEW w \in Worker PROVE ClaimSound(w)'
  <2>1. CASE pc'[w] \notin Busy
    BY <2>1 DEF ClaimSound
  <2>2. CASE pc'[w] \in Busy
    <3>1. /\ pc[w] \in Busy /\ held'[w] = held[w]
          /\ pc'[w] \in Holding => pc[w] \in Holding
          /\ pc'[w] = "noHandler" => pc[w] = "noHandler"
          /\ pc'[w] \in {"retry", "cancelThenRetry"} =>
                pc[w] \in {"retry", "cancelThenRetry"} \/ MayRetry(held[w].job)
      BY <2>2 DEF WorkerMove, Busy
    <3>2. /\ HeldId(w)' = HeldId(w) /\ HeldGen(w)' = HeldGen(w) /\ held'[w].job = held[w].job
          /\ MayRetry(held[w].job)' = MayRetry(held[w].job)
      BY <3>1 DEF HeldId, HeldGen, MayRetry
    <3>3. ClaimSound(w)
      BY DEF SysInv
    <3>4. held[w] \in [id : JobId, job : Job] /\ HeldId(w) \in issued
      BY <3>1, <3>3 DEF ClaimSound
    <3>5. ASSUME HeldId(w) \in DOMAIN jobs'
          PROVE  /\ SameJob(jobs'[HeldId(w)], held[w].job)
                 /\ HeldGen(w) <= jobs'[HeldId(w)].gen
                 /\ AtWork(w, HeldId(w))' => /\ jobs'[HeldId(w)].status \in Open
                                             /\ jobs'[HeldId(w)].attempt = held[w].job.attempt
      <4>1. HeldId(w) \in DOMAIN jobs /\ Kept(HeldId(w))
        BY <1>3, <3>4, <3>5
      <4>2. /\ SameJob(jobs[HeldId(w)], held[w].job)
            /\ HeldGen(w) <= jobs[HeldId(w)].gen
            /\ AtWork(w, HeldId(w)) => /\ jobs[HeldId(w)].status \in Open
                                       /\ jobs[HeldId(w)].attempt = held[w].job.attempt
        BY <3>1, <3>3, <4>1 DEF ClaimSound
      <4>3. SameJob(jobs'[HeldId(w)], held[w].job) /\ HeldGen(w) <= jobs'[HeldId(w)].gen
        BY <4>1, <4>2 DEF Kept, SameJob
      <4>4. AtWork(w, HeldId(w))' => pc'[w] \in Holding /\ AtWork(w, HeldId(w))
        BY <3>1, <3>2, <4>1 DEF AtWork, Owns, Kept
      <4> QED BY <4>1, <4>2, <4>3, <4>4 DEF Kept
    <3> QED BY <3>1, <3>2, <3>3, <3>4, <3>5 DEF ClaimSound
  <2> QED BY <2>1, <2>2
<1>6. ProcessingHasHolder'
  <2> SUFFICES ASSUME NEW id \in DOMAIN jobs', jobs'[id].status = "PROCESSING"
               PROVE  AtWork(jobs[id].worker, id)' \/ pc'[jobs'[id].worker] = "died"
    BY DEF ProcessingHasHolder
  <2>1. id \in DOMAIN jobs /\ Kept(id) /\ jobs[id].status = "PROCESSING"
    BY DEF JobMove, Kept, Added
  <2> DEFINE w == jobs[id].worker
  <2>2. jobs'[id].worker = w /\ jobs'[id].gen = jobs[id].gen /\ w \in Worker
    <3>1. JobSound(jobs[id])
      BY <2>1 DEF SysInv
    <3> QED BY <2>1, <3>1 DEF Kept, JobSound, Ran
  <2>3. AtWork(w, id) \/ pc[w] = "died"
    BY <2>1 DEF SysInv, ProcessingHasHolder
  <2>4. WorkerMove(w)
    BY <2>2
  <2>5. pc'[w] = "died" \/ (pc'[w] \in Holding /\ held'[w] = held[w]) \/ pc[w] = "died"
    BY <2>2, <2>3, <2>4 DEF WorkerMove, AtWork
  <2>6. pc[w] = "died" => pc'[w] = "died"
    BY <2>4 DEF WorkerMove, Holding
  <2> QED BY <2>1, <2>2, <2>3, <2>5, <2>6 DEF AtWork, Owns, HeldId, HeldGen
<1>7. NobodyRobbed'
  <2> SUFFICES ASSUME pauses' = 0, NEW w \in Worker, pc'[w] \in Holding
               PROVE  /\ AtWork(w, HeldId(w))'
                      /\ jobs'[HeldId(w)'].status = "PROCESSING"
                      /\ jobs'[HeldId(w)'].lease = "live"
    BY DEF NobodyRobbed
  <2>1. pc[w] \in Holding /\ held'[w] = held[w]
    BY DEF WorkerMove
  <2>2. /\ AtWork(w, HeldId(w)) /\ jobs[HeldId(w)].status = "PROCESSING"
        /\ jobs[HeldId(w)].lease = "live"
    BY <1>4, <2>1 DEF SysInv, NobodyRobbed
  <2>3. HeldId(w) \in DOMAIN jobs /\ HeldId(w) \in DOMAIN jobs' /\ Kept(HeldId(w))
    BY <2>2 DEF AtWork, Owns, JobMove, DLQStatus
  <2> QED BY <2>1, <2>2, <2>3 DEF Kept, AtWork, Owns, HeldId, HeldGen
<1> QED BY <1>2, <1>5, <1>6, <1>7 DEF SysInv

\* Trouble stays: leases that ran out are counted, a dead worker is never started again.
LEMMA StaysDisturbed ==
    ASSUME SysInv, Moved, Disturbed
    PROVE  Disturbed'
<1>1. pauses \in Nat /\ (pauses > 0 => pauses' > 0)
  BY DEF SysInv, EngineTyped, EngineSound, Moved
<1>2. \A w \in Worker : pc[w] = "died" => pc'[w] = "died"
  BY DEF Moved, WorkerMove, Holding
<1> QED BY <1>1, <1>2 DEF Disturbed

\* The budget of attempts survives such a step.
LEMMA MovedKeepsBudget ==
    ASSUME SysInv, Moved, BudgetsPositive, BudgetKept
    PROVE  BudgetKept'
<1>1. Disturbed => Disturbed'
  BY StaysDisturbed
<1> SUFFICES ASSUME NEW id \in DOMAIN jobs'
             PROVE  /\ jobs'[id].maxAttempts >= 1
                    /\ ~Disturbed' => /\ jobs'[id].attempt <= jobs'[id].maxAttempts
                                      /\ jobs'[id].attempt <= PolicyMaxAttempts
                                      /\ jobs'[id].status = "RETRYING" => MayRetry(jobs'[id])
  BY DEF BudgetKept, MayRetry
<1>2. jobs'[id].attempt \in Nat /\ jobs'[id].maxAttempts \in Int /\ PolicyMaxAttempts \in Nat
  BY EngineAssumption DEF Moved, RepoInv, MapsOK, MapsTyped, Job
<1>3. CASE id \in DOMAIN jobs
  <2>1. Kept(id)
    BY <1>3 DEF Moved, JobMove
  <2>2. jobs'[id].maxAttempts >= 1 /\ jobs'[id].maxAttempts = jobs[id].maxAttempts
    BY <1>3, <2>1 DEF Kept, SameJob, BudgetKept
  <2>3. CASE jobs'[id].attempt = jobs[id].attempt
    BY <1>1, <1>3, <2>1, <2>2, <2>3 DEF Kept, BudgetKept, MayRetry
  <2>4. CASE jobs'[id].attempt = 0
    BY <1>2, <2>1, <2>2, <2>4, <2>3 DEF Kept, BudgetsPositive, MayRetry
  <2> QED BY <2>1, <2>3, <2>4 DEF Kept
<1>4. CASE id \notin DOMAIN jobs
  <2>1. Added(id)
    BY <1>4 DEF Moved
  <2>2. jobs'[id].attempt = 0 /\ jobs'[id].maxAttempts >= 1 /\ jobs'[id].status # "RETRYING"
    BY <2>1 DEF Added, JobSound
  <2> QED BY <1>2, <2>2 DEF BudgetsPositive
<1> QED BY <1>3, <1>4

-----------------------------------------------------------------------------
(* Promotion                                                                   *)

\* No job is BLOCKED right behind place s of chain c.
NoneBlockedBehind(c, s) ==
    \A id \in DOMAIN jobs :
        jobs[id].chain = c /\ jobs[id].seq = s + 1 => jobs[id].status # "BLOCKED"

\* A worker is about to promote the job behind place s of chain c.
AboutToPromote(c, s) ==
    \E w \in Worker : pc[w] = "promote" /\ held[w].job.chain = c /\ held[w].job.seq = s

\* A job that lets its successor go did so before, or its successor is seen to.
Announced(p) ==
    PredFinished(jobs'[p]) =>
        \/ p \in DOMAIN jobs /\ PredFinished(jobs[p]) /\ jobs'[p].status = jobs[p].status
        \/ FailedUnpromoted(p)'
        \/ AboutToPromote(jobs[p].chain, jobs[p].seq)'
        \/ NoneBlockedBehind(jobs[p].chain, jobs[p].seq)'

\* What a step does about promotion: a job becomes BLOCKED only when it is enqueued behind
\* an unfinished one, no job that finishes leaves a BLOCKED one behind, and a promotion
\* that is called for is made.
Promotes ==
    /\ \A id \in DOMAIN jobs' :
          jobs'[id].status = "BLOCKED" =>
              \/ id \in DOMAIN jobs /\ jobs[id].status = "BLOCKED"
              \/ ~PredecessorFinished(jobs, chain[jobs[id].chain], jobs[id].seq)'
    /\ \A p \in DOMAIN jobs' : Announced(p)
    /\ \A w \in Worker : pc[w] = "promote" =>
          \/ pc'[w] = "promote" /\ held'[w] = held[w]
          \/ \A c, s : c = held[w].job.chain /\ s = held[w].job.seq => NoneBlockedBehind(c, s)'

\* Such a step leaves no job BLOCKED for good.
LEMMA PromotesKeepsPromotion ==
    ASSUME SysInv, Moved, Promotes, NoLostPromotion
    PROVE  NoLostPromotion'
<1> SUFFICES ASSUME NEW id \in DOMAIN jobs', jobs'[id].status = "BLOCKED",
                    PredecessorFinished(jobs, chain[jobs[id].chain], jobs[id].seq)'
             PROVE  \/ AboutToPromote(jobs[id].chain, jobs[id].seq - 1)'
                    \/ /\ jobs'[id].seq - 1 \in DOMAIN chain'[jobs'[id].chain]
                       /\ FailedUnpromoted(chain[jobs[id].chain][jobs[id].seq - 1])'
  <2>1. \A id \in DOMAIN jobs' : jobs'[id].seq \in Int /\ jobs'[id].seq - 1 + 1 = jobs'[id].seq
    BY DEF Moved, RepoInv, MapsOK, MapsTyped, Job
  <2> QED BY <2>1 DEF NoLostPromotion, AboutToPromote
<1>c. PICK c : c = jobs'[id].chain
  OBVIOUS
<1>n. PICK n : n = jobs'[id].seq - 1
  OBVIOUS
<1>p. PICK p : p = chain'[c][n]
  OBVIOUS
<1>1. id \in DOMAIN jobs /\ jobs[id].status = "BLOCKED"
  BY DEF Promotes
<1>2. /\ jobs[id].chain = c /\ jobs[id].seq = jobs'[id].seq /\ c \in ChainId
      /\ jobs[id].seq \in Int /\ n \in Int /\ n + 1 = jobs[id].seq /\ jobs[id].seq - 1 = n
  <2>1. jobs[id] \in Job /\ SameJob(jobs'[id], jobs[id])
    BY <1>1 DEF Moved, JobMove, Kept, SysInv, RepoInv, MapsOK, MapsTyped
  <2> QED BY <1>c, <1>n, <2>1 DEF SameJob, Job
<1>3. n \in DOMAIN chain'[c] /\ p \in DOMAIN jobs' /\ PredFinished(jobs'[p])
  BY <1>c, <1>n, <1>p DEF PredecessorFinished
<1>4. jobs'[p].chain = c /\ jobs'[p].seq = n
  BY <1>2, <1>3, <1>p DEF Moved, RepoInv, MapsOK, Indexed
<1>5. Announced(p)
  BY <1>3 DEF Promotes
<1>6. ~NoneBlockedBehind(jobs[p].chain, jobs[p].seq)'
  BY <1>c, <1>2, <1>4 DEF NoneBlockedBehind
<1>7. CASE FailedUnpromoted(p)' \/ AboutToPromote(jobs[p].chain, jobs[p].seq)'
  BY <1>c, <1>n, <1>p, <1>3, <1>4, <1>7
<1>8. CASE p \in DOMAIN jobs /\ PredFinished(jobs[p]) /\ jobs'[p].status = jobs[p].status
  <2>1. Kept(p)
    BY <1>3, <1>8 DEF Moved, JobMove
  <2>2. jobs[p].chain = c /\ jobs[p].seq = n
    BY <1>4, <2>1 DEF Kept, SameJob
  <2>3. n \in DOMAIN chain[c] /\ chain[c][n] = p
    BY <1>8, <2>2 DEF SysInv, RepoInv, MapsOK, Indexed
  <2>4. PredecessorFinished(jobs, chain[c], n + 1)
    <3>1. PICK k : k = n + 1
      OBVIOUS
    <3>2. k - 1 = n
      BY <1>2, <3>1
    <3>3. PredecessorFinished(jobs, chain[c], k)
      BY <1>8, <2>3, <3>2 DEF PredecessorFinished
    <3> QED BY <3>1, <3>3
  <2>5. AboutToPromote(c, n) \/ FailedUnpromoted(p)
    BY <1>1, <1>2, <2>3, <2>4 DEF NoLostPromotion, AboutToPromote
  <2>6. CASE AboutToPromote(c, n)
    <3>1. PICK w \in Worker : pc[w] = "promote" /\ held[w].job.chain = c /\ held[w].job.seq = n
      BY <2>6 DEF AboutToPromote
    <3>2. pc'[w] = "promote" /\ held'[w] = held[w]
      BY <1>4, <1>6, <3>1 DEF Promotes, NoneBlockedBehind
    <3> QED BY <1>7, <1>4, <3>1, <3>2 DEF AboutToPromote
  <2>7. CASE FailedUnpromoted(p)
    <3>1. JobSound(jobs[p]) /\ jobs[p].status \in DLQStatus
      BY <1>8, <2>7 DEF SysInv, FailedUnpromoted
    <3>2. jobs[p].worker \in Worker /\ jobs'[p].worker = jobs[p].worker
      BY <2>1, <3>1 DEF JobSound, Ran, Kept
    <3>3. pc[jobs[p].worker] = "died" => pc'[jobs[p].worker] = "died"
      BY <3>2 DEF Moved, WorkerMove, Holding
    <3>4. FailedUnpromoted(p)'
      BY <1>8, <2>1, <2>7, <3>2, <3>3 DEF FailedUnpromoted, Kept, SameJob
    <3> QED BY <1>7, <3>4
  <2> QED BY <2>5, <2>6, <2>7
<1> QED BY <1>3, <1>5, <1>6, <1>7, <1>8 DEF Announced

-----------------------------------------------------------------------------
(* The jobs as OrderedChain sees them                                          *)

\* What the view of a map of jobs keeps of each job.
LEMMA ViewFacts ==
    ASSUME NEW js, js \in [DOMAIN js -> Job]
    PROVE  /\ DOMAIN ChainView(js) = DOMAIN js
           /\ ChainView(js) \in
                [DOMAIN js -> [chain : ChainId, seq : Int, strict : BOOLEAN,
                               phase : {"waiting", "running", "failed", "cancelled", "done"},
                               token : Nat]]
           /\ \A id \in DOMAIN js : /\ ChainView(js)[id].chain = js[id].chain
                                    /\ ChainView(js)[id].seq = js[id].seq
                                    /\ ChainView(js)[id].strict = (js[id].mode = "strict")
                                    /\ ChainView(js)[id].phase = PhaseOf(js[id].status)
                                    /\ ChainView(js)[id].token = js[id].gen
<1>1. \A status : PhaseOf(status) \in {"waiting", "running", "failed", "cancelled", "done"}
  BY DEF PhaseOf
<1> QED BY <1>1 DEF ChainView, Job

\* The view is well typed, its places are unique.
LEMMA ViewTyped == RepoInv => Order!ViewTypeOK /\ Order!PlacesUnique
<1> SUFFICES ASSUME RepoInv PROVE Order!ViewTypeOK /\ Order!PlacesUnique
  OBVIOUS
<1>1. jobs \in [DOMAIN jobs -> Job] /\ DOMAIN jobs \subseteq JobId
  BY DEF RepoInv, MapsOK, MapsTyped
<1>2. Order!ViewTypeOK
  BY <1>1, ViewFacts DEF Order!ViewTypeOK, Order!JobView, Order!Phase
<1>3. \A i, k \in DOMAIN jobs : jobs[i].chain = jobs[k].chain /\ jobs[i].seq = jobs[k].seq => i = k
  BY DEF RepoInv, MapsOK, Indexed
<1>4. Order!PlacesUnique
  BY <1>1, <1>3, ViewFacts DEF Order!PlacesUnique
<1> QED BY <1>2, <1>4

\* The same after a step.
LEMMA ViewTypedNext == (RepoInv => Order!ViewTypeOK /\ Order!PlacesUnique)'
BY ViewTyped, PTL

\* What OrderedChain allows to happen to the jobs of S, which leave for phase ph.
Allowed(S, ph) ==
    /\ \A id \in S : jobs[id].status # "COMPLETED" /\ PhaseOf(jobs'[id].status) = ph
    /\ \/ ph = "waiting"
       \/ ph = "done" /\ \A id \in S : jobs[id].gen > 0
       \/ ph = "failed" /\ \E id \in S : S = {id} /\ jobs[id].gen > 0
       \/ ph = "cancelled" /\ \E id \in S : S = {id}

\* A step that takes the jobs of S to a phase and leaves the other jobs in theirs.
LEMMA PhaseStep ==
    ASSUME RepoInv, RepoInv', DOMAIN jobs' = DOMAIN jobs,
           \A id \in DOMAIN jobs : SameJob(jobs'[id], jobs[id]) /\ jobs'[id].gen = jobs[id].gen,
           NEW S \in SUBSET DOMAIN jobs, NEW ph, Allowed(S, ph),
           \A id \in DOMAIN jobs \ S : PhaseOf(jobs'[id].status) = PhaseOf(jobs[id].status)
    PROVE  Order!Next
<1>1. jobs \in [DOMAIN jobs -> Job] /\ jobs' \in [DOMAIN jobs' -> Job]
  BY DEF RepoInv, MapsOK, MapsTyped
<1> DEFINE old == ChainView(jobs)
           new == ChainView(jobs')
<1>2. /\ DOMAIN old = DOMAIN jobs
      /\ \A id \in DOMAIN jobs : /\ old[id].chain = jobs[id].chain /\ old[id].seq = jobs[id].seq
                                 /\ old[id].strict = (jobs[id].mode = "strict")
                                 /\ old[id].phase = PhaseOf(jobs[id].status)
                                 /\ old[id].token = jobs[id].gen
  BY <1>1, ViewFacts
<1>3. /\ DOMAIN new = DOMAIN jobs
      /\ \A id \in DOMAIN jobs : /\ new[id].chain = jobs'[id].chain /\ new[id].seq = jobs'[id].seq
                                 /\ new[id].strict = (jobs'[id].mode = "strict")
                                 /\ new[id].phase = PhaseOf(jobs'[id].status)
                                 /\ new[id].token = jobs'[id].gen
  BY <1>1, ViewFacts
<1>4. ASSUME NEW id \in DOMAIN jobs \ S PROVE new[id] = old[id]
  BY <1>4 DEF ChainView, SameJob
<1>5. Order!ViewTypeOK /\ Order!ViewTypeOK'
  BY ViewTyped, ViewTypedNext
<1> HIDE DEF old, new
<1>6. /\ DOMAIN new = DOMAIN old
      /\ \A i \in DOMAIN old \ S : new[i] = old[i]
      /\ \A i \in S : /\ new[i].chain = old[i].chain /\ new[i].seq = old[i].seq
                      /\ new[i].strict = old[i].strict /\ new[i].token = old[i].token
                      /\ new[i].phase = ph /\ old[i].phase # "done"
  <2>1. \A st : st # "COMPLETED" => PhaseOf(st) # "done"
    BY DEF PhaseOf, DLQStatus
  <2> QED BY <1>2, <1>3, <1>4, <2>1 DEF Allowed, SameJob
<1>7. Order!Keeps(S) /\ S \in SUBSET DOMAIN old
  BY <1>2, <1>6 DEF Order!Keeps, old, new
<1>8. CASE ph = "waiting"
  BY <1>5, <1>6, <1>7, <1>8, Order!ReturnByParts DEF old, new
<1>9. CASE ph = "done" /\ \A id \in S : jobs[id].gen > 0
  <2>1. \A i \in S : old[i].token > 0
    BY <1>2, <1>9
  <2> QED BY <1>5, <1>6, <1>7, <1>9, <2>1, Order!FinishByParts DEF old, new
<1>10. ASSUME ph = "failed", NEW id \in S, S = {id}, jobs[id].gen > 0 PROVE Order!Next
  <2>1. id \in DOMAIN old /\ old[id].token > 0
    BY <1>2, <1>10
  <2> QED BY <1>5, <1>6, <1>7, <1>10, <2>1, Order!FailByParts DEF old, new
<1>11. ASSUME ph = "cancelled", NEW id \in S, S = {id} PROVE Order!Next
  <2>1. id \in DOMAIN old
    BY <1>2
  <2> QED BY <1>5, <1>6, <1>7, <1>11, <2>1, Order!CancelByParts DEF old, new
<1> QED BY <1>8, <1>9, <1>10, <1>11 DEF Allowed

-----------------------------------------------------------------------------
(* Shapes of steps                                                             *)

\* A COMPLETED job stays COMPLETED in this step.
Final ==
    \A id \in DOMAIN jobs : jobs[id].status = "COMPLETED" =>
        id \in DOMAIN jobs' /\ jobs'[id].status = "COMPLETED"

\* What is to be shown of a step.
Good ==
    /\ SysInv' /\ Final
    /\ BudgetsPositive /\ BudgetKept => BudgetKept'
    /\ NoLostPromotion => NoLostPromotion'
    /\ Order!Next \/ UNCHANGED ChainView(jobs)

\* A step of the common shape that makes its promotions is good if OrderedChain allows it.
LEMMA MovedGood ==
    ASSUME SysInv, Moved, Promotes, Order!Next \/ UNCHANGED ChainView(jobs)
    PROVE  Good
<1>1. Final
  BY DEF Moved, JobMove, Kept, Final, DLQStatus
<1> QED BY <1>1, MovedKeepsInv, MovedKeepsBudget, PromotesKeepsPromotion DEF Good

\* A job that a step leaves alone.
LEMMA StaysKept ==
    ASSUME SysInv, NEW id \in DOMAIN jobs, jobs'[id] = jobs[id]
    PROVE  Kept(id) /\ Announced(id)
<1>1. JobSound(jobs[id])
  BY DEF SysInv
<1> QED BY <1>1 DEF Kept, Announced, SameJob

\* A job that a step promotes: nobody holds a claim on it.
LEMMA RaisedKept ==
    ASSUME SysInv, NEW id \in DOMAIN jobs, jobs[id].status = "BLOCKED",
           jobs'[id] = [jobs[id] EXCEPT !.status = "PENDING"]
    PROVE  Kept(id) /\ Announced(id) /\ PhaseOf(jobs'[id].status) = PhaseOf(jobs[id].status)
<1>1. JobSound(jobs[id]) /\ jobs[id] \in Job
  BY JobOf DEF SysInv
<1>2. /\ jobs'[id].status = "PENDING" /\ SameJob(jobs'[id], jobs[id])
      /\ jobs'[id].gen = jobs[id].gen /\ jobs'[id].worker = jobs[id].worker
      /\ jobs'[id].attempt = jobs[id].attempt
  BY <1>1 DEF Job, SameJob
<1>3. Kept(id)
  BY <1>1, <1>2 DEF Kept, JobSound, Open, Ran, DLQStatus
<1> QED BY <1>2, <1>3 DEF Announced, PredFinished, PhaseOf, DLQStatus

\* A promotion that is called for stays so, or is made.
PromotionsMade ==
    \A w \in Worker : pc[w] = "promote" =>
        \/ pc'[w] = "promote" /\ held'[w] = held[w]
        \/ \A c, s : c = held[w].job.chain /\ s = held[w].job.seq => NoneBlockedBehind(c, s)'

\* A step that takes the jobs of S to a phase.
LEMMA RewriteGood ==
    ASSUME SysInv, RepoInv', EngineTyped', pauses' \in {pauses, pauses + 1},
           DOMAIN jobs' = DOMAIN jobs, UNCHANGED <<chain, issued>>,
           \A w \in Worker : WorkerMove(w), PromotionsMade,
           \A id \in DOMAIN jobs : Kept(id) /\ Announced(id),
           \A id \in DOMAIN jobs : jobs'[id].status = "BLOCKED" => jobs[id].status = "BLOCKED",
           NEW S \in SUBSET DOMAIN jobs, NEW ph, Allowed(S, ph),
           \A id \in DOMAIN jobs \ S : PhaseOf(jobs'[id].status) = PhaseOf(jobs[id].status)
    PROVE  Good
<1>1. Moved
  BY DEF Moved, JobMove, SysInv
<1>2. Promotes
  BY DEF Promotes, PromotionsMade
<1>3. RepoInv /\ \A id \in DOMAIN jobs : SameJob(jobs'[id], jobs[id]) /\ jobs'[id].gen = jobs[id].gen
  BY DEF SysInv, Kept
<1>4. Order!Next
  BY <1>3, PhaseStep
<1> QED BY <1>1, <1>2, <1>4, MovedGood

\* A step that leaves the jobs alone.
LEMMA IdleGood ==
    ASSUME SysInv, UNCHANGED repoVars, EngineTyped', pauses' = pauses,
           \A w \in Worker : WorkerMove(w), PromotionsMade
    PROVE  Good
<1>1. UNCHANGED <<jobs, chain, issued>>
  BY DEF repoVars
<1>2. RepoInv'
  BY <1>1 DEF SysInv, RepoInv
<1>3. \A id \in DOMAIN jobs : Kept(id) /\ Announced(id)
  BY <1>1, StaysKept
<1>4. Allowed({}, "waiting")
  BY DEF Allowed
<1> QED BY <1>1, <1>2, <1>3, <1>4, RewriteGood

\* The engines are left alone.
LEMMA EnginesStay ==
    ASSUME SysInv, UNCHANGED engineVars, pauses' \in {pauses, pauses + 1}, pauses' \in 0 .. MaxPauses
    PROVE  EngineTyped' /\ (\A w \in Worker : WorkerMove(w)) /\ PromotionsMade
BY DEF engineVars, SysInv, EngineTyped, EngineSound, WorkerMove, PromotionsMade

\* The worker w moves on, and no job is PROCESSING in its name if it lets go of its job
\* alive.
LEMMA WorkerMoves ==
    ASSUME SysInv, NEW w \in Worker, NEW x \in PC, Goes(w, x), UNCHANGED pauses, pc[w] \in Holding,
           x \in Holding => x # "noHandler",
           x \in {"retry", "cancelThenRetry"} => MayRetry(held[w].job),
           x \notin Holding \cup {"died"} =>
              \A id \in DOMAIN jobs' : jobs'[id].worker = w => jobs'[id].status # "PROCESSING"
    PROVE  /\ EngineTyped' /\ pauses' = pauses /\ pc'[w] = x
           /\ \A v \in Worker : WorkerMove(v)
           /\ PromotionsMade
           /\ \A v \in Worker \ {w} : pc'[v] = pc[v] /\ held'[v] = held[v]
           /\ x \in Busy => held'[w] = held[w]
<1>1. /\ EngineTyped' /\ pauses' = pauses
      /\ pc'[w] = x /\ held'[w] = (IF x \in Busy THEN held[w] ELSE NotHeld)
      /\ \A v \in Worker \ {w} : pc'[v] = pc[v] /\ held'[v] = held[v]
  BY GoesMoves DEF SysInv, Busy, Holding, EngineTyped
<1>2. WorkerMove(w)
  BY <1>1 DEF WorkerMove, Busy, Holding
<1> QED BY <1>1, <1>2 DEF WorkerMove, PromotionsMade, Holding

-----------------------------------------------------------------------------
(* Steps that leave the repository alone                                       *)

\* The jobs PROCESSING in the name of a live worker: at most the one it owns.
LEMMA OwnJob ==
    ASSUME SysInv, NEW w \in Worker, pc[w] # "died",
           NEW id \in DOMAIN jobs, jobs[id].worker = w, jobs[id].status = "PROCESSING"
    PROVE  pc[w] \in Holding /\ id = HeldId(w) /\ Owns(id, w, HeldGen(w))
BY DEF SysInv, ProcessingHasHolder, AtWork

\* The value a worker got from Claim.
LEMMA HeldTyped ==
    ASSUME SysInv, NEW w \in Worker, pc[w] \in Busy
    PROVE  /\ held[w] \in [id : JobId, job : Job] /\ HeldId(w) = held[w].id
           /\ HeldGen(w) = held[w].job.gen /\ held[w].job \in Job /\ HeldId(w) \in JobId
BY DEF SysInv, ClaimSound, HeldId, HeldGen

\* The handler ends, or the panic handler does: nothing is reported yet.
LEMMA HandlerEndsGood ==
    ASSUME SysInv, NEW w \in Worker, HandlerEnds(w)
    PROVE  Good
<1>1. UNCHANGED repoVars /\ UNCHANGED pauses /\ EngineTyped
  BY DEF HandlerEnds, SysInv
<1>2. ASSUME NEW x \in PC, Goes(w, x), pc[w] = "running",
             x \in (Holding \ {"noHandler"}) \cup {"died"},
             x \in {"retry", "cancelThenRetry"} => MayRetry(held[w].job)
      PROVE  Good
  <2>1. /\ EngineTyped' /\ pauses' = pauses /\ PromotionsMade
        /\ \A v \in Worker : WorkerMove(v)
    <3>1. pc[w] \in Holding
      BY <1>2 DEF Holding
    <3> QED BY <1>1, <1>2, <3>1, WorkerMoves
  <2> QED BY <1>1, <2>1, IdleGood
<1>3. CASE HandlerSucceeds(w)
  BY <1>1, <1>2, <1>3, WorkerGoes DEF PC, Holding, EngineTyped
<1>4. ASSUME NEW err \in HandlerError, HandlerFails(w, err) PROVE Good
  <2>1. pc[w] \in Busy
    BY <1>4 DEF HandlerFails, Busy, Holding
  <2>2. held[w] \in [id : JobId, job : Job]
    BY <2>1, HeldTyped
  <2>3. pc[w] = "running" /\ \E x \in {"cancelThenFail", "cancelThenRetry", "fail", "retry"} :
           Goes(w, x) /\ (x \in {"retry", "cancelThenRetry"} => MayRetry(held[w].job))
    BY <1>1, <1>4, <2>2, HandlerFailsGoes DEF EngineTyped
  <2> QED BY <1>2, <2>3 DEF PC, Holding
<1>5. ASSUME pc[w] = "running", WorkerDies(w) PROVE Good
  BY <1>1, <1>2, <1>5, WorkerGoes DEF PC, Holding, Gone, EngineTyped
<1>6. CASE HandlerPanics(w)
  <2>1. [cancel |-> FALSE, nonRetryable |-> PanicPolicy = "fail"] \in HandlerError
    BY DEF HandlerError
  <2> QED BY <1>3, <1>4, <1>5, <1>6, <2>1 DEF HandlerPanics
<1> QED BY <1>3, <1>4, <1>6 DEF HandlerEnds

\* A worker's goroutine returns on cancellation, from its select only.
LEMMA WorkerLeavesGood ==
    ASSUME SysInv, NEW w \in Worker, WorkerLeaves(w)
    PROVE  Good
<1>1. /\ UNCHANGED repoVars /\ UNCHANGED pauses /\ pc[w] = "idle" /\ EngineTyped
      /\ Goes(w, "exited")
  BY WorkerGoes DEF WorkerLeaves, WorkerExit, SysInv, EngineTyped
<1>2. /\ EngineTyped' /\ pauses' = pauses /\ pc'[w] = "exited"
      /\ \A v \in Worker \ {w} : pc'[v] = pc[v] /\ held'[v] = held[v]
  BY <1>1, GoesMoves DEF Busy, Holding, PC, Gone, EngineTyped
<1>3. \A id \in DOMAIN jobs' : jobs'[id].worker = w => jobs'[id].status # "PROCESSING"
  BY <1>1, OwnJob DEF repoVars, Holding
<1>4. (\A v \in Worker : WorkerMove(v)) /\ PromotionsMade
  BY <1>1, <1>2, <1>3 DEF WorkerMove, PromotionsMade, Holding
<1> QED BY <1>1, <1>2, <1>4, IdleGood

\* Start: its workers are idle, and no job names them.
LEMMA StartGood ==
    ASSUME SysInv, NEW e \in EngineId, Start(e), UNCHANGED repoVars, UNCHANGED pauses
    PROVE  Good
<1>1. /\ EngineSound' /\ held' = held
      /\ pc' = [w \in Worker |-> IF EngineOf[w] = e THEN "idle" ELSE pc[w]]
      /\ \A w \in Worker : EngineOf[w] = e => pc[w] = "off"
  BY StartSound DEF SysInv, EngineTyped
<1>2. EngineTyped'
  BY <1>1 DEF SysInv, EngineTyped
<1>3. ASSUME NEW w \in Worker PROVE WorkerMove(w)
  <2>1. CASE EngineOf[w] # e
    BY <1>1, <2>1 DEF WorkerMove
  <2>2. CASE EngineOf[w] = e
    <3>1. \A id \in DOMAIN jobs' : jobs'[id].worker = w => jobs'[id].status # "PROCESSING"
      BY <1>1, <2>2, OwnJob DEF repoVars, Holding
    <3> QED BY <1>1, <2>2, <3>1 DEF WorkerMove, Holding
  <2> QED BY <2>1, <2>2
<1>4. PromotionsMade
  BY <1>1 DEF PromotionsMade
<1> QED BY <1>2, <1>3, <1>4, IdleGood

\* The other steps of an engine move no worker.
LEMMA EngineOnlyGood ==
    ASSUME SysInv, UNCHANGED <<repoVars, pc, held, pauses>>, EngineSound'
    PROVE  Good
<1>1. EngineTyped'
  BY DEF SysInv, EngineTyped
<1>2. (\A w \in Worker : WorkerMove(w)) /\ PromotionsMade
  BY DEF WorkerMove, PromotionsMade
<1> QED BY <1>1, <1>2, IdleGood

\* Shutdown, the loops that return, a token sent or taken in vain.
LEMMA EngineStepGood ==
    ASSUME SysInv
    PROVE  /\ \A e \in EngineId : EngineStep(e) => Good
           /\ \A b \in beats : HeartbeatEnds(b) => Good
           /\ \A w \in Worker : WorkerFindsNothing(w) => Good
<1>1. EngineSound
  BY DEF SysInv, EngineTyped
<1>2. ASSUME NEW e \in EngineId, EngineStep(e) PROVE Good
  <2>1. UNCHANGED repoVars /\ UNCHANGED pauses
    BY <1>2 DEF EngineStep
  <2>2. CASE Start(e)
    BY <2>1, <2>2, StartGood
  <2>3. CASE ~Start(e)
    <3>1. EngineSound' /\ UNCHANGED <<pc, held>>
      BY <1>1, <1>2, <2>3, LoopsSound DEF EngineStep
    <3> QED BY <2>1, <3>1, EngineOnlyGood
  <2> QED BY <2>2, <2>3
<1>3. ASSUME NEW b \in beats, HeartbeatEnds(b) PROVE Good
  BY <1>1, <1>3, LoopsSound, EngineOnlyGood DEF HeartbeatEnds
<1>4. ASSUME NEW w \in Worker, WorkerFindsNothing(w) PROVE Good
  BY <1>1, <1>4, LoopsSound, EngineOnlyGood DEF WorkerFindsNothing
<1> QED BY <1>2, <1>3, <1>4

-----------------------------------------------------------------------------
(* Calls that change one job                                                   *)

\* The job id changes.
LEMMA ChangeGood ==
    ASSUME SysInv, RepoInv', EngineTyped', pauses' \in {pauses, pauses + 1},
           UNCHANGED <<chain, issued>>,
           \A w \in Worker : WorkerMove(w), PromotionsMade,
           NEW id \in DOMAIN jobs, DOMAIN jobs' = DOMAIN jobs,
           \A k \in DOMAIN jobs \ {id} : jobs'[k] = jobs[k],
           Kept(id), Announced(id), jobs'[id].status = "BLOCKED" => jobs[id].status = "BLOCKED",
           \/ PhaseOf(jobs'[id].status) = PhaseOf(jobs[id].status)
           \/ \E ph : Allowed({id}, ph)
    PROVE  Good
<1>1. \A k \in DOMAIN jobs : Kept(k) /\ Announced(k)
  BY StaysKept
<1>2. \A k \in DOMAIN jobs : jobs'[k].status = "BLOCKED" => jobs[k].status = "BLOCKED"
  OBVIOUS
<1>3. CASE PhaseOf(jobs'[id].status) = PhaseOf(jobs[id].status)
  <2>1. Allowed({}, "waiting")
    BY DEF Allowed
  <2>2. \A k \in DOMAIN jobs \ {} : PhaseOf(jobs'[k].status) = PhaseOf(jobs[k].status)
    BY <1>3
  <2> QED BY <1>1, <1>2, <2>1, <2>2, RewriteGood
<1>4. ASSUME NEW ph, Allowed({id}, ph) PROVE Good
  BY <1>1, <1>2, <1>4, RewriteGood
<1> QED BY <1>3, <1>4

\* Only the lease or the due time of the job changes, the lease not to its harm.
Touched(id) ==
    /\ id \in DOMAIN jobs /\ DOMAIN jobs' = DOMAIN jobs
    /\ \A k \in DOMAIN jobs \ {id} : jobs'[k] = jobs[k]
    /\ SameJob(jobs'[id], jobs[id]) /\ jobs'[id].status = jobs[id].status
    /\ jobs'[id].gen = jobs[id].gen /\ jobs'[id].worker = jobs[id].worker
    /\ jobs'[id].attempt = jobs[id].attempt
    /\ \A w \in Worker : AtWork(w, id) /\ pauses' = 0 /\ jobs[id].lease = "live" =>
          jobs'[id].lease = "live"
    /\ UNCHANGED <<chain, issued>>

\* A step that touches only the lease or the due time of one job is good.
LEMMA TouchedGood ==
    ASSUME SysInv, RepoInv', EngineTyped', pauses' \in {pauses, pauses + 1},
           \A w \in Worker : WorkerMove(w), PromotionsMade, NEW id, Touched(id)
    PROVE  Good
<1> USE DEF Touched
<1>1. JobSound(jobs[id])
  BY DEF SysInv
<1>2. JobSound(jobs'[id])
  BY <1>1 DEF JobSound
<1>3. Kept(id)
  BY <1>2 DEF Kept
<1>4. Announced(id)
  BY DEF Announced, PredFinished, SameJob
<1> QED BY <1>3, <1>4, ChangeGood

\* A heartbeat, a reschedule, time passing.
LEMMA Touches ==
    ASSUME SysInv, NEW id
    PROVE  /\ \A w, g : Heartbeat(id, w, g) => Touched(id) /\ RepoInv'
           /\ \A a \in Avail : RescheduleJob(id, a) => Touched(id) /\ RepoInv'
           /\ BecomesDue(id) => Touched(id) /\ RepoInv'
           /\ LeaseExpires(id) /\ (pauses' > 0 \/ \A w \in Worker : ~AtWork(w, id)) =>
                 Touched(id) /\ RepoInv'
<1>1. RepoInv /\ \A k \in DOMAIN jobs : jobs[k] \in Job
  BY JobOf DEF SysInv
<1>2. jobs \in [DOMAIN jobs -> Job]
  BY DEF SysInv, RepoInv, MapsOK, MapsTyped
<1>3. ASSUME NEW w, NEW g, Heartbeat(id, w, g) PROVE Touched(id) /\ RepoInv'
  BY <1>1, <1>2, <1>3, HeartbeatKeepsInv DEF Heartbeat, Owns, Touched, Job, SameJob
<1>4. ASSUME NEW a \in Avail, RescheduleJob(id, a) PROVE Touched(id) /\ RepoInv'
  BY <1>1, <1>2, <1>4, RescheduleJobKeepsInv DEF RescheduleJob, Touched, Job, SameJob
<1>5. ASSUME BecomesDue(id) PROVE Touched(id) /\ RepoInv'
  BY <1>1, <1>2, <1>5, BecomesDueKeepsInv DEF BecomesDue, Touched, Job, SameJob
<1>6. ASSUME LeaseExpires(id), pauses' > 0 \/ \A w \in Worker : ~AtWork(w, id)
      PROVE  Touched(id) /\ RepoInv'
  <2>1. RepoInv'
    BY <1>1, <1>6, LeaseExpiresKeepsInv
  <2>2. pauses' > 0 => pauses' # 0
    OBVIOUS
  <2>3. \A w \in Worker : ~(AtWork(w, id) /\ pauses' = 0)
    BY <1>6, <2>2
  <2> QED BY <1>1, <1>2, <1>6, <2>1, <2>3 DEF LeaseExpires, Touched, Job, SameJob
<1> QED BY <1>3, <1>4, <1>5, <1>6

\* Heartbeat: the lease is renewed, or the call is refused.
LEMMA HeartbeatTickGood ==
    ASSUME SysInv, NEW b \in beats, HeartbeatTick(b)
    PROVE  Good
<1>1. EngineTyped' /\ pauses' = pauses /\ (\A w \in Worker : WorkerMove(w)) /\ PromotionsMade
  BY DEF HeartbeatTick, HeartbeatReturned, SysInv, EngineTyped, EngineSound, WorkerMove, PromotionsMade
<1>2. CASE Heartbeat(b.id, b.worker, b.gen)
  BY <1>1, <1>2, Touches, TouchedGood
<1>3. CASE LeaseConflict(b.id, b.worker, b.gen)
  BY <1>1, <1>3, IdleGood DEF LeaseConflict
<1> QED BY <1>2, <1>3 DEF HeartbeatTick

\* Time passes.
LEMMA TimeGood ==
    ASSUME SysInv, NEW id \in JobId, JobBecomesDue(id) \/ LeaseLapses(id) \/ LeaseRunsOut(id)
    PROVE  Good
<1>1. pauses \in Nat /\ pauses <= MaxPauses /\ MaxPauses \in Nat
  BY SystemAssumption DEF SysInv, EngineTyped, EngineSound
<1>2. /\ UNCHANGED engineVars /\ pauses' \in {pauses, pauses + 1} /\ pauses' \in 0 .. MaxPauses
  BY <1>1 DEF JobBecomesDue, LeaseLapses, LeaseRunsOut
<1>3. EngineTyped' /\ (\A w \in Worker : WorkerMove(w)) /\ PromotionsMade
  BY <1>2, EnginesStay
<1>4. Touched(id) /\ RepoInv'
  <2>1. LeaseLapses(id) => pauses' > 0
    BY <1>1 DEF LeaseLapses
  <2> QED BY <2>1, Touches DEF JobBecomesDue, LeaseLapses, LeaseRunsOut
<1> QED BY <1>2, <1>3, <1>4, TouchedGood

\* RequestCancel: whoever holds the claim on record keeps it, and a job that is being
\* processed is left alone.
LEMMA CancelGood ==
    ASSUME SysInv, EngineTyped', pauses' = pauses,
           \A w \in Worker : WorkerMove(w), PromotionsMade, NEW id, RequestCancel(id)
    PROVE  Good
<1>1. id \in DOMAIN jobs /\ jobs[id] \in Job /\ JobSound(jobs[id]) /\ jobs \in [DOMAIN jobs -> Job]
  BY DEF RequestCancel, SysInv, RepoInv, MapsOK, MapsTyped
<1>2. RepoInv' /\ UNCHANGED <<chain, issued>>
  BY RequestCancelKeepsInv DEF SysInv, RequestCancel
<1>3. CASE jobs[id].status \in {"PENDING", "RETRYING", "BLOCKED"}
  <2>1. jobs' = [jobs EXCEPT ![id].status = "CANCEL_REQUESTED"]
    BY <1>3 DEF RequestCancel
  <2>2. /\ DOMAIN jobs' = DOMAIN jobs /\ \A k \in DOMAIN jobs \ {id} : jobs'[k] = jobs[k]
        /\ SameJob(jobs'[id], jobs[id]) /\ jobs'[id].status = "CANCEL_REQUESTED"
        /\ jobs'[id].gen = jobs[id].gen /\ jobs'[id].worker = jobs[id].worker
        /\ jobs'[id].attempt = jobs[id].attempt
    BY <1>1, <2>1 DEF Job, SameJob
  <2>3. JobSound(jobs'[id])
    BY <1>1, <2>2 DEF JobSound, Ran, DLQStatus
  <2>4. Kept(id)
    BY <1>3, <2>2, <2>3 DEF Kept, Open
  <2>5. Announced(id)
    BY <2>2 DEF Announced, PredFinished, DLQStatus
  <2>6. Allowed({id}, "cancelled")
    BY <1>3, <2>2 DEF Allowed, PhaseOf, DLQStatus
  <2> QED BY <1>1, <1>2, <2>2, <2>4, <2>5, <2>6, ChangeGood
<1>4. CASE jobs[id].status \notin {"PENDING", "RETRYING", "BLOCKED"}
  BY <1>2, <1>4, IdleGood DEF RequestCancel, repoVars
<1> QED BY <1>3, <1>4

\* RequestCancel, which the engine makes before it reports a cancelled handler.
LEMMA WorkerRequestsCancelGood ==
    ASSUME SysInv, NEW w \in Worker, WorkerRequestsCancel(w)
    PROVE  Good
<1>1. /\ pauses' = pauses
      /\ \/ pc[w] = "cancelThenFail" /\ Goes(w, "fail")
         \/ pc[w] = "cancelThenRetry" /\ Goes(w, "retry")
  BY WorkerGoes DEF WorkerRequestsCancel, SysInv, EngineTyped
<1>2. pc[w] = "cancelThenRetry" => MayRetry(held[w].job)
  BY DEF SysInv, ClaimSound, Busy, Holding
<1>3. EngineTyped' /\ (\A v \in Worker : WorkerMove(v)) /\ PromotionsMade
  <2>1. /\ "fail" \in PC /\ "retry" \in PC
        /\ {"fail", "retry", "cancelThenFail", "cancelThenRetry"} \subseteq Holding
    BY DEF PC, Holding
  <2>2. CASE pc[w] = "cancelThenFail" /\ Goes(w, "fail")
    BY <1>1, <2>1, <2>2, WorkerMoves
  <2>3. CASE pc[w] = "cancelThenRetry" /\ Goes(w, "retry")
    BY <1>1, <1>2, <2>1, <2>3, WorkerMoves
  <2> QED BY <1>1, <2>2, <2>3
<1>4. CASE RequestCancel(HeldId(w))
  BY <1>1, <1>3, <1>4, CancelGood
<1>5. CASE UNCHANGED repoVars
  BY <1>1, <1>3, <1>5, IdleGood
<1> QED BY <1>4, <1>5 DEF WorkerRequestsCancel

-----------------------------------------------------------------------------
(* Reports                                                                     *)

\* A report that the fence turns away: the worker has lost its job and goes on.
LEMMA FencedGood ==
    ASSUME SysInv, NEW w \in Worker, NEW x \in PC \ Holding, Goes(w, x), UNCHANGED pauses,
           pc[w] \in Holding, LeaseConflict(HeldId(w), w, HeldGen(w))
    PROVE  Good
<1>1. UNCHANGED repoVars /\ ~Owns(HeldId(w), w, HeldGen(w)) /\ pc[w] # "died"
  BY DEF LeaseConflict, Holding
<1>2. \A id \in DOMAIN jobs' : jobs'[id].worker = w => jobs'[id].status # "PROCESSING"
  BY <1>1, OwnJob DEF repoVars
<1>3. /\ EngineTyped' /\ pauses' = pauses /\ PromotionsMade
      /\ \A v \in Worker : WorkerMove(v)
  BY <1>2, WorkerMoves DEF Holding
<1> QED BY <1>1, <1>3, IdleGood

\* What the worker that makes a report leaves of its job, st its new status.
Reported(w, st) ==
    /\ Owns(HeldId(w), w, HeldGen(w))
    /\ DOMAIN jobs' = DOMAIN jobs /\ UNCHANGED <<chain, issued>> /\ RepoInv'
    /\ SameJob(jobs'[HeldId(w)], jobs[HeldId(w)]) /\ jobs'[HeldId(w)].status = st
    /\ jobs'[HeldId(w)].gen = jobs[HeldId(w)].gen
    /\ jobs'[HeldId(w)].worker = jobs[HeldId(w)].worker
    /\ jobs'[HeldId(w)].attempt = jobs[HeldId(w)].attempt

\* The reporter owned the job and lets go of it: the job is kept.
LEMMA ReportKept ==
    ASSUME SysInv, NEW w \in Worker, pc[w] \in Holding, pc'[w] \notin Holding,
           NEW st \in {"COMPLETED", "FAILED", "DEAD_LETTERED", "RETRYING"}, Reported(w, st),
           st = "RETRYING" => MayRetry(held[w].job)
    PROVE  /\ Kept(HeldId(w)) /\ jobs[HeldId(w)].status \in Open /\ jobs[HeldId(w)].gen > 0
           /\ HeldId(w) \in DOMAIN jobs /\ jobs[HeldId(w)].worker = w
           /\ SameJob(jobs[HeldId(w)], held[w].job)
<1> DEFINE id == HeldId(w)
<1>1. id \in DOMAIN jobs /\ jobs[id].worker = w /\ jobs[id].gen = HeldGen(w) /\ AtWork(w, id)
  BY DEF Reported, Owns, AtWork
<1>2. /\ SameJob(jobs[id], held[w].job) /\ jobs[id].status \in Open
      /\ jobs[id].attempt = held[w].job.attempt /\ jobs[id].gen > 0
  BY <1>1 DEF SysInv, ClaimSound, Busy
<1>3. JobSound(jobs'[id])
  BY <1>1, <1>2 DEF Reported, JobSound, Ran, DLQStatus
<1>4. \A v \in Worker : AtWork(v, id) => v = w
  BY <1>1 DEF AtWork, Owns
<1>5. st = "RETRYING" => MayRetry(jobs'[id])
  BY <1>2 DEF Reported, MayRetry, SameJob
<1>6. Kept(id)
  BY <1>2, <1>3, <1>4, <1>5 DEF Kept, Reported, Open
<1> QED BY <1>1, <1>2, <1>6

\* Retry and Fail: the job of the reporter changes, no other does.
LEMMA ReportGood ==
    ASSUME SysInv, NEW w \in Worker, pc[w] \in Holding, NEW x \in PC \ Holding, Goes(w, x),
           UNCHANGED pauses, NEW st \in {"FAILED", "DEAD_LETTERED", "RETRYING"}, Reported(w, st),
           \A k \in DOMAIN jobs \ {HeldId(w)} : jobs'[k] = jobs[k],
           st = "RETRYING" => MayRetry(held[w].job),
           st # "RETRYING" /\ held[w].job.mode \in ContinueModes =>
              x \in {"promote", "died"} \/ held[w].job.type \notin Registered
    PROVE  Good
<1>0. PICK id : id = HeldId(w)
  OBVIOUS
<1>1. pc[w] # "died" /\ pc[w] # "off"
  BY DEF Holding
<1>2. /\ id \in DOMAIN jobs /\ DOMAIN jobs' = DOMAIN jobs /\ jobs'[id].status = st
      /\ jobs'[id].worker = jobs[id].worker /\ SameJob(jobs'[id], jobs[id])
  BY <1>0 DEF Reported, Owns
<1>3. \A k \in DOMAIN jobs' : jobs'[k].worker = w => jobs'[k].status # "PROCESSING"
  BY <1>0, <1>1, <1>2, OwnJob
<1>4. /\ EngineTyped' /\ pauses' = pauses /\ pc'[w] = x /\ PromotionsMade
      /\ \A v \in Worker : WorkerMove(v)
      /\ x \in Busy => held'[w] = held[w]
  BY <1>3, WorkerMoves DEF Holding
<1>5. /\ Kept(id) /\ jobs[id].status \in Open /\ jobs[id].gen > 0 /\ jobs[id].worker = w
      /\ SameJob(jobs[id], held[w].job)
  BY <1>0, <1>4, ReportKept
<1>6. Announced(id)
  <2> SUFFICES ASSUME PredFinished(jobs'[id])
               PROVE  FailedUnpromoted(id)' \/ AboutToPromote(jobs[id].chain, jobs[id].seq)'
    BY DEF Announced
  <2>1. st \in DLQStatus /\ held[w].job.mode \in ContinueModes
    BY <1>2, <1>5 DEF PredFinished, DLQStatus, SameJob
  <2>2. CASE x = "promote"
    BY <1>2, <1>4, <1>5, <2>2 DEF AboutToPromote, Busy, SameJob
  <2>3. CASE x = "died" \/ held[w].job.type \notin Registered
    BY <1>2, <1>4, <1>5, <2>1, <2>3 DEF FailedUnpromoted, SameJob
  <2> QED BY <2>1, <2>2, <2>3 DEF DLQStatus
<1>7. \E ph : Allowed({id}, ph)
  <2>1. jobs[id].status # "COMPLETED"
    BY <1>5 DEF Open
  <2>2. CASE st = "RETRYING"
    <3>1. Allowed({id}, "waiting")
      BY <1>2, <2>1, <2>2 DEF Allowed, PhaseOf, DLQStatus
    <3> QED BY <3>1
  <2>3. CASE st # "RETRYING"
    <3>1. Allowed({id}, "failed")
      BY <1>2, <1>5, <2>1, <2>3 DEF Allowed, PhaseOf, DLQStatus
    <3> QED BY <3>1
  <2> QED BY <2>2, <2>3
<1>8. RepoInv' /\ UNCHANGED <<chain, issued>> /\ jobs'[id].status # "BLOCKED"
  BY <1>0, <1>2 DEF Reported
<1>9. \A k \in DOMAIN jobs \ {id} : jobs'[k] = jobs[k]
  BY <1>0
<1> QED BY <1>2, <1>4, <1>5, <1>6, <1>7, <1>8, <1>9, ChangeGood

\* Retry, or its lease conflict.
LEMMA WorkerRetriesGood ==
    ASSUME SysInv, NEW w \in Worker, WorkerRetries(w)
    PROVE  Good
<1>1. pc[w] = "retry" /\ Goes(w, "idle") /\ pauses' = pauses
  BY WorkerGoes DEF WorkerRetries, SysInv, EngineTyped
<1>2. "idle" \in PC \ Holding /\ pc[w] \in Holding /\ pc[w] \in Busy
  BY <1>1 DEF PC, Holding, Busy, Gone
<1>3. MayRetry(held[w].job)
  BY <1>1, <1>2 DEF SysInv, ClaimSound
<1>4. CASE LeaseConflict(HeldId(w), w, HeldGen(w))
  BY <1>1, <1>2, <1>4, FencedGood
<1>5. CASE Retry(HeldId(w), w, HeldGen(w))
  <2>1. HeldId(w) \in DOMAIN jobs /\ jobs \in [DOMAIN jobs -> Job] /\ RepoInv'
    BY <1>5, RetryKeepsInv DEF Retry, Owns, SysInv, RepoInv, MapsOK, MapsTyped
  <2>2. Reported(w, "RETRYING") /\ \A k \in DOMAIN jobs \ {HeldId(w)} : jobs'[k] = jobs[k]
    BY <1>5, <2>1 DEF Reported, Retry, Job, SameJob
  <2> QED BY <1>1, <1>2, <1>3, <2>2, ReportGood
<1> QED BY <1>4, <1>5 DEF WorkerRetries

\* Fail, whatever comes of the worker.
LEMMA CallFailGood ==
    ASSUME SysInv, NEW w \in Worker, CallFail(w), pc[w] \in Holding, NEW x \in PC \ Holding,
           Goes(w, x), UNCHANGED pauses,
           held[w].job.mode \in ContinueModes =>
              x \in {"promote", "died"} \/ held[w].job.type \notin Registered
    PROVE  Good
<1>1. CASE LeaseConflict(HeldId(w), w, HeldGen(w))
  BY <1>1, FencedGood
<1>2. CASE Fail(HeldId(w), w, HeldGen(w), TRUE)
  <2>1. HeldId(w) \in DOMAIN jobs /\ jobs \in [DOMAIN jobs -> Job] /\ RepoInv'
    BY <1>2, FailKeepsInv DEF Fail, Owns, SysInv, RepoInv, MapsOK, MapsTyped
  <2>2. PICK st \in {"FAILED", "DEAD_LETTERED"} :
            jobs' = [jobs EXCEPT ![HeldId(w)].status = st, ![HeldId(w)].lease = "none"]
    BY <1>2 DEF Fail
  <2>3. Reported(w, st) /\ \A k \in DOMAIN jobs \ {HeldId(w)} : jobs'[k] = jobs[k]
    <3>1. jobs[HeldId(w)] \in Job
      BY <2>1
    <3>2. /\ DOMAIN jobs' = DOMAIN jobs
          /\ jobs'[HeldId(w)] = [jobs[HeldId(w)] EXCEPT !.status = st, !.lease = "none"]
          /\ \A k \in DOMAIN jobs \ {HeldId(w)} : jobs'[k] = jobs[k]
      BY <2>1, <2>2
    <3>3. Owns(HeldId(w), w, HeldGen(w)) /\ UNCHANGED <<chain, issued>>
      BY <1>2 DEF Fail
    <3> QED BY <2>1, <3>1, <3>2, <3>3 DEF Reported, Job, SameJob
  <2> QED BY <2>2, <2>3, ReportGood
<1> QED BY <1>1, <1>2 DEF CallFail

\* Fail, with or without a handler: the job ends, or the call is refused.
LEMMA WorkerFailsGood ==
    ASSUME SysInv, NEW w \in Worker, WorkerFails(w) \/ WorkerFailsNoHandler(w)
    PROVE  Good
<1>1. /\ {"idle", "promote", "died"} \subseteq PC \ Holding
      /\ {"fail", "noHandler"} \subseteq Holding
  BY DEF PC, Holding, Gone
<1>2. CASE WorkerFails(w)
  <2>1. pc[w] = "fail" /\ CallFail(w) /\ pauses' = pauses
    BY <1>2 DEF WorkerFails
  <2>2. CASE FailReturned(w)
    <3>1. Goes(w, IF held[w].job.mode \in ContinueModes THEN "promote" ELSE "idle")
      BY <2>1, <2>2, WorkerGoes DEF SysInv, EngineTyped
    <3>2. CASE held[w].job.mode \in ContinueModes
      <4>1. Goes(w, "promote")
        BY <3>1, <3>2
      <4> QED BY <1>1, <2>1, <4>1, CallFailGood
    <3>3. CASE held[w].job.mode \notin ContinueModes
      <4>1. Goes(w, "idle")
        BY <3>1, <3>3
      <4> QED BY <1>1, <2>1, <3>3, <4>1, CallFailGood
    <3> QED BY <3>2, <3>3
  <2>3. CASE ListenerPanics(w)
    <3>1. Goes(w, "died")
      BY <2>1, <2>3, WorkerGoes DEF SysInv, ListenerPanics, EngineTyped
    <3> QED BY <1>1, <2>1, <3>1, CallFailGood
  <2> QED BY <1>2, <2>2, <2>3 DEF WorkerFails
<1>3. CASE WorkerFailsNoHandler(w)
  <2>1. pc[w] = "noHandler" /\ CallFail(w) /\ Goes(w, "idle") /\ UNCHANGED pauses
    BY <1>3, WorkerGoes DEF WorkerFailsNoHandler, SysInv, EngineTyped
  <2>2. held[w].job.type \notin Registered
    BY <2>1 DEF SysInv, ClaimSound, Busy, Holding
  <2> QED BY <1>1, <2>1, <2>2, CallFailGood
<1> QED BY <1>2, <1>3

-----------------------------------------------------------------------------
(* Calls that promote                                                          *)

\* Promotion leaves no job BLOCKED behind the place, and changes nothing else.
LEMMA PromotedFacts ==
    ASSUME RepoInv, NEW js, Rewrites(js, jobs), NEW c, NEW s,
           jobs' = Promoted(js, c, s), UNCHANGED <<chain, issued>>
    PROVE  /\ DOMAIN jobs' = DOMAIN jobs
           /\ \A k \in DOMAIN jobs :
                 \/ jobs'[k] = js[k]
                 \/ js[k].status = "BLOCKED" /\ jobs'[k] = [js[k] EXCEPT !.status = "PENDING"]
           /\ NoneBlockedBehind(c, s)'
<1>1. DOMAIN js = DOMAIN jobs /\ \A k \in DOMAIN jobs : js[k] \in Job
  BY DEF Rewrites
<1>2. /\ DOMAIN jobs' = DOMAIN jobs
      /\ \A k \in DOMAIN jobs :
            jobs'[k] = IF s + 1 \in DOMAIN chain[c] /\ chain[c][s + 1] = k /\ js[k].status = "BLOCKED"
                       THEN [js[k] EXCEPT !.status = "PENDING"] ELSE js[k]
  BY <1>1 DEF Promoted
<1>3. ASSUME NEW k \in DOMAIN jobs, jobs'[k].chain = c, jobs'[k].seq = s + 1
      PROVE  jobs'[k].status # "BLOCKED"
  <2>1. js[k] \in Job
    BY <1>1
  <2>2. [js[k] EXCEPT !.status = "PENDING"].status = "PENDING"
        /\ [js[k] EXCEPT !.status = "PENDING"].chain = js[k].chain
        /\ [js[k] EXCEPT !.status = "PENDING"].seq = js[k].seq
    BY <2>1 DEF Job
  <2>3. js[k].chain = c /\ js[k].seq = s + 1
    BY <1>2, <1>3, <2>2
  <2>4. s + 1 \in DOMAIN chain[c] /\ chain[c][s + 1] = k
    BY <2>3 DEF RepoInv, MapsOK, Indexed, Rewrites
  <2> QED BY <1>2, <2>2, <2>4
<1> QED BY <1>2, <1>3 DEF NoneBlockedBehind

\* The jobs of S are done and what is BLOCKED behind them is promoted.
LEMMA FinishGood ==
    ASSUME SysInv, RepoInv', EngineTyped', pauses' = pauses,
           DOMAIN jobs' = DOMAIN jobs, UNCHANGED <<chain, issued>>,
           \A w \in Worker : WorkerMove(w), PromotionsMade,
           NEW S \in SUBSET DOMAIN jobs,
           \A id \in S : /\ jobs'[id] = [jobs[id] EXCEPT !.status = "COMPLETED", !.lease = "none"]
                         /\ jobs[id].status # "COMPLETED" /\ jobs[id].gen > 0
                         /\ \A w \in Worker : ~(AtWork(w, id) /\ pc'[w] \in Holding)
                         /\ \A c, s : c = jobs[id].chain /\ s = jobs[id].seq => NoneBlockedBehind(c, s)',
           \A id \in DOMAIN jobs \ S :
              \/ jobs'[id] = jobs[id]
              \/ jobs[id].status = "BLOCKED" /\ jobs'[id] = [jobs[id] EXCEPT !.status = "PENDING"]
    PROVE  Good
<1>1. \A id \in DOMAIN jobs \ S :
         /\ Kept(id) /\ Announced(id) /\ PhaseOf(jobs'[id].status) = PhaseOf(jobs[id].status)
         /\ jobs'[id].status = "BLOCKED" => jobs[id].status = "BLOCKED"
  <2> SUFFICES ASSUME NEW id \in DOMAIN jobs \ S
               PROVE  /\ Kept(id) /\ Announced(id)
                      /\ PhaseOf(jobs'[id].status) = PhaseOf(jobs[id].status)
                      /\ jobs'[id].status = "BLOCKED" => jobs[id].status = "BLOCKED"
    OBVIOUS
  <2>1. CASE jobs'[id] = jobs[id]
    BY <2>1, StaysKept
  <2>2. CASE jobs[id].status = "BLOCKED" /\ jobs'[id] = [jobs[id] EXCEPT !.status = "PENDING"]
    BY <2>2, RaisedKept
  <2> QED BY <2>1, <2>2
<1>2. ASSUME NEW id \in S
      PROVE  /\ Kept(id) /\ Announced(id) /\ jobs'[id].status = "COMPLETED"
             /\ jobs[id].status # "COMPLETED" /\ jobs[id].gen > 0
  <2>1. jobs[id] \in Job /\ JobSound(jobs[id])
    BY JobOf DEF SysInv
  <2>2. /\ SameJob(jobs'[id], jobs[id]) /\ jobs'[id].status = "COMPLETED"
        /\ jobs'[id].gen = jobs[id].gen /\ jobs'[id].worker = jobs[id].worker
        /\ jobs'[id].attempt = jobs[id].attempt
    BY <2>1 DEF Job, SameJob
  <2>3. JobSound(jobs'[id])
    BY <2>1, <2>2 DEF JobSound, Ran
  <2>4. Kept(id)
    BY <2>2, <2>3 DEF Kept
  <2>5. Announced(id)
    <3>1. PICK c : c = jobs[id].chain
      OBVIOUS
    <3>2. PICK s : s = jobs[id].seq
      OBVIOUS
    <3>3. NoneBlockedBehind(c, s)' /\ c = jobs'[id].chain /\ s = jobs'[id].seq
      BY <2>2, <3>1, <3>2 DEF SameJob
    <3>4. NoneBlockedBehind(jobs[id].chain, jobs[id].seq)'
      BY <3>3
    <3> QED BY <3>4 DEF Announced
  <2> QED BY <2>2, <2>4, <2>5
<1>3. Allowed(S, "done")
  <2>1. PhaseOf("COMPLETED") = "done"
    BY DEF PhaseOf, DLQStatus
  <2> QED BY <1>2, <2>1 DEF Allowed
<1>4. \A id \in DOMAIN jobs : jobs'[id].status = "BLOCKED" => jobs[id].status = "BLOCKED"
  BY <1>1, <1>2
<1>5. \A id \in DOMAIN jobs : Kept(id) /\ Announced(id)
  BY <1>1, <1>2
<1> QED BY <1>1, <1>3, <1>4, <1>5, RewriteGood

\* Complete with its promotion, or its lease conflict.
LEMMA WorkerCompletesGood ==
    ASSUME SysInv, NEW w \in Worker, WorkerCompletes(w)
    PROVE  Good
<1>1. pc[w] = "complete" /\ Goes(w, "idle") /\ pauses' = pauses
  BY WorkerGoes DEF WorkerCompletes, SysInv, EngineTyped
<1>2. "idle" \in PC \ Holding /\ pc[w] \in Holding /\ pc[w] \in Busy /\ pc[w] # "died"
  BY <1>1 DEF PC, Holding, Busy, Gone
<1>3. CASE LeaseConflict(HeldId(w), w, HeldGen(w))
  BY <1>1, <1>2, <1>3, FencedGood
<1>4. ASSUME NEW id, id = HeldId(w), Complete(id, w, HeldGen(w)) PROVE Good
  <2>1. /\ id \in DOMAIN jobs /\ jobs \in [DOMAIN jobs -> Job] /\ RepoInv' /\ RepoInv
        /\ jobs[id].worker = w /\ jobs[id].gen = HeldGen(w) /\ UNCHANGED <<chain, issued>>
    BY <1>4, CompleteKeepsInv DEF Complete, Owns, SysInv, RepoInv, MapsOK, MapsTyped
  <2>2. AtWork(w, id)
    BY <1>2, <1>4 DEF AtWork, Complete
  <2>3. jobs[id].status \in Open /\ jobs[id].gen > 0
    BY <1>2, <1>4, <2>1, <2>2 DEF SysInv, ClaimSound
  <2> DEFINE done == [jobs[id] EXCEPT !.status = "COMPLETED", !.lease = "none"]
             js == [jobs EXCEPT ![id] = done]
  <2>4. jobs[id] \in Job
    BY <2>1
  <2>5. /\ done \in Job /\ done.status = "COMPLETED" /\ done.chain = jobs[id].chain
        /\ done.seq = jobs[id].seq /\ done.key = jobs[id].key /\ done.worker = w
    BY <2>1, <2>4 DEF Job, Status, Lease
  <2>6. jobs' = Promoted(js, jobs[id].chain, jobs[id].seq)
    BY <1>4, <2>1, <2>4 DEF Complete, Job
  <2>7. /\ js[id] = done /\ \A k \in DOMAIN jobs \ {id} : js[k] = jobs[k]
        /\ Rewrites(js, jobs)
    <3> HIDE DEF done
    <3> QED BY <2>1, <2>5 DEF Rewrites
  <2> HIDE DEF js
  <2>8. PICK c, s : c = jobs[id].chain /\ s = jobs[id].seq
    OBVIOUS
  <2>9. /\ DOMAIN jobs' = DOMAIN jobs
        /\ \A k \in DOMAIN jobs :
              \/ jobs'[k] = js[k]
              \/ js[k].status = "BLOCKED" /\ jobs'[k] = [js[k] EXCEPT !.status = "PENDING"]
        /\ NoneBlockedBehind(c, s)'
    BY <2>1, <2>6, <2>7, <2>8, PromotedFacts
  <2>10. jobs'[id] = done
    BY <2>1, <2>5, <2>7, <2>9
  <2>11. \A k \in DOMAIN jobs \ {id} :
            \/ jobs'[k] = jobs[k]
            \/ jobs[k].status = "BLOCKED" /\ jobs'[k] = [jobs[k] EXCEPT !.status = "PENDING"]
    BY <2>7, <2>9
  <2>12. \A k \in DOMAIN jobs' : jobs'[k].worker = w => jobs'[k].status # "PROCESSING"
    <3> SUFFICES ASSUME NEW k \in DOMAIN jobs, jobs'[k].worker = w, jobs'[k].status = "PROCESSING"
                 PROVE  FALSE
      BY <2>9
    <3>1. k # id
      BY <2>5, <2>10
    <3>2. jobs[k] \in Job
      BY <2>1
    <3>3. [jobs[k] EXCEPT !.status = "PENDING"].status = "PENDING"
      BY <3>2 DEF Job
    <3>4. jobs'[k] = jobs[k]
      BY <2>11, <3>1, <3>3
    <3> QED BY <1>2, <1>4, <3>1, <3>4, OwnJob
  <2>13. /\ EngineTyped' /\ PromotionsMade /\ pc'[w] = "idle"
         /\ \A v \in Worker : WorkerMove(v)
    BY <1>1, <1>2, <2>12, WorkerMoves DEF Holding
  <2>14. \A v \in Worker : ~(AtWork(v, id) /\ pc'[v] \in Holding)
    BY <1>2, <2>1, <2>13 DEF AtWork, Owns
  <2>15. \A a, b : a = jobs[id].chain /\ b = jobs[id].seq => NoneBlockedBehind(a, b)'
    BY <2>8, <2>9
  <2>16. {id} \in SUBSET DOMAIN jobs /\ jobs[id].status # "COMPLETED"
    BY <2>1, <2>3 DEF Open
  <2>17. \A k \in {id} :
            /\ jobs'[k] = [jobs[k] EXCEPT !.status = "COMPLETED", !.lease = "none"]
            /\ jobs[k].status # "COMPLETED" /\ jobs[k].gen > 0
            /\ \A v \in Worker : ~(AtWork(v, k) /\ pc'[v] \in Holding)
            /\ \A a, b : a = jobs[k].chain /\ b = jobs[k].seq => NoneBlockedBehind(a, b)'
    BY <2>3, <2>10, <2>14, <2>15, <2>16
  <2> HIDE DEF done
  <2> QED BY <1>1, <2>1, <2>9, <2>11, <2>13, <2>16, <2>17, FinishGood
<1> QED BY <1>3, <1>4 DEF WorkerCompletes

\* PromoteNext, after a failure the chain goes on past.
LEMMA WorkerPromotesGood ==
    ASSUME SysInv, NEW w \in Worker, WorkerPromotes(w)
    PROVE  Good
<1>1. /\ pc[w] = "promote" /\ Goes(w, "idle") /\ EngineTyped /\ UNCHANGED pauses
      /\ PromoteNext(held[w].job.chain, held[w].job.seq)
  BY WorkerGoes DEF WorkerPromotes, SysInv, EngineTyped
<1>2. /\ "idle" \in PC /\ "idle" \notin Busy /\ pc[w] \notin Holding
      /\ pc[w] # "off" /\ pc[w] # "died" /\ "idle" \notin Holding
  BY <1>1 DEF PC, Holding, Busy
<1>3. /\ EngineTyped' /\ pauses' = pauses /\ pc'[w] = "idle"
      /\ \A v \in Worker \ {w} : pc'[v] = pc[v] /\ held'[v] = held[v]
  BY <1>1, <1>2, GoesMoves DEF EngineTyped
<1>4. PICK c, s : c = held[w].job.chain /\ s = held[w].job.seq
  OBVIOUS
<1>5. RepoInv /\ jobs \in [DOMAIN jobs -> Job] /\ Rewrites(jobs, jobs)
  BY DEF SysInv, RepoInv, MapsOK, MapsTyped, Rewrites
<1>6. jobs' = Promoted(jobs, c, s) /\ UNCHANGED <<chain, issued>>
  BY <1>1, <1>4 DEF PromoteNext
<1>7. RepoInv'
  BY <1>5, <1>6, PromotionRewrites, RewriteStep
<1>8. /\ DOMAIN jobs' = DOMAIN jobs /\ NoneBlockedBehind(c, s)'
      /\ \A k \in DOMAIN jobs :
            \/ jobs'[k] = jobs[k]
            \/ jobs[k].status = "BLOCKED" /\ jobs'[k] = [jobs[k] EXCEPT !.status = "PENDING"]
  BY <1>5, <1>6, PromotedFacts
<1>9. \A k \in DOMAIN jobs' : jobs'[k].worker = w => jobs'[k].status # "PROCESSING"
  <2> SUFFICES ASSUME NEW k \in DOMAIN jobs, jobs'[k].worker = w, jobs'[k].status = "PROCESSING"
               PROVE  FALSE
    BY <1>8
  <2>1. jobs[k] \in Job
    BY <1>5
  <2>2. [jobs[k] EXCEPT !.status = "PENDING"].status = "PENDING"
    BY <2>1 DEF Job
  <2>3. jobs'[k] = jobs[k]
    BY <1>8, <2>2
  <2> QED BY <1>2, <2>3, OwnJob
<1>10. \A v \in Worker : WorkerMove(v)
  BY <1>2, <1>3, <1>9 DEF WorkerMove
<1>11. PromotionsMade
  BY <1>3, <1>4, <1>8 DEF PromotionsMade
<1>12. {} \in SUBSET DOMAIN jobs
  OBVIOUS
<1> QED BY <1>3, <1>6, <1>7, <1>8, <1>10, <1>11, <1>12, FinishGood

\* A job in the dead letter queue is in nobody's hands; the memory repository has no
\* other job to replay or skip, because no cancel is ever confirmed.
LEMMA DeadIsFree ==
    ASSUME SysInv, NEW id \in DOMAIN jobs, jobs[id].status \in Replayable
    PROVE  /\ jobs[id].status \in DLQStatus /\ jobs[id].gen > 0
           /\ \A w \in Worker : ~AtWork(w, id)
<1>1. JobSound(jobs[id])
  BY DEF SysInv
<1>2. jobs[id].status \in DLQStatus /\ jobs[id].gen > 0
  BY <1>1 DEF JobSound, Replayable, Ran, DLQStatus
<1>3. ASSUME NEW w \in Worker, AtWork(w, id) PROVE FALSE
  <2>1. ClaimSound(w) /\ pc[w] \in Busy /\ HeldId(w) = id
    BY <1>3 DEF SysInv, AtWork, Busy
  <2>2. jobs[id].status \in Open
    BY <1>3, <2>1 DEF ClaimSound
  <2> QED BY <1>2, <2>2 DEF Open, DLQStatus
<1> QED BY <1>2, <1>3

\* SkipJob and BulkSkipDLQ
LEMMA SkipGood ==
    ASSUME SysInv, UNCHANGED engineVars, pauses' = pauses,
           NEW S \in SUBSET DOMAIN jobs, \A id \in S : jobs[id].status \in Replayable,
           jobs' = Skipped(jobs, S), UNCHANGED <<chain, issued>>
    PROVE  Good
<1>1. RepoInv /\ RepoInv' /\ jobs \in [DOMAIN jobs -> Job]
  BY SkipKeepsInv DEF SysInv, RepoInv, MapsOK, MapsTyped
<1>2. EngineTyped' /\ (\A w \in Worker : WorkerMove(w)) /\ PromotionsMade
  BY EnginesStay DEF SysInv, EngineTyped, EngineSound
<1>3. \A id \in S : jobs[id].status \in DLQStatus /\ jobs[id].gen > 0
                    /\ \A w \in Worker : ~AtWork(w, id)
  BY DeadIsFree
<1> DEFINE done(id) == [jobs[id] EXCEPT !.status = "COMPLETED", !.lease = "none"]
           next(id) == [jobs[id] EXCEPT !.status = "PENDING"]
           Behind(id) == \E p \in S : /\ jobs[p].seq + 1 \in DOMAIN chain[jobs[p].chain]
                                      /\ chain[jobs[p].chain][jobs[p].seq + 1] = id
<1>4. /\ DOMAIN jobs' = DOMAIN jobs
      /\ \A id \in S : jobs'[id] = done(id)
      /\ \A id \in DOMAIN jobs \ S :
            jobs'[id] = IF jobs[id].status = "BLOCKED" /\ Behind(id) THEN next(id) ELSE jobs[id]
  BY DEF Skipped
<1>5. \A id \in DOMAIN jobs :
         /\ done(id).status = "COMPLETED" /\ next(id).status = "PENDING"
         /\ SameJob(done(id), jobs[id]) /\ SameJob(next(id), jobs[id])
  BY <1>1 DEF Job, SameJob
<1>6. ASSUME NEW p \in S, NEW c, NEW s, c = jobs[p].chain, s = jobs[p].seq
      PROVE  NoneBlockedBehind(c, s)'
  <2> SUFFICES ASSUME NEW k \in DOMAIN jobs, jobs'[k].chain = c, jobs'[k].seq = s + 1,
                      jobs'[k].status = "BLOCKED"
               PROVE  FALSE
    BY <1>4 DEF NoneBlockedBehind
  <2> HIDE DEF done, next
  <2>1. k \notin S
    BY <1>4, <1>5
  <2>2. jobs[k].chain = c /\ jobs[k].seq = s + 1
    BY <1>4, <1>5, <2>1 DEF SameJob
  <2>3. s + 1 \in DOMAIN chain[c] /\ chain[c][s + 1] = k
    BY <1>1, <2>2 DEF RepoInv, MapsOK, Indexed
  <2>4. Behind(k)
    BY <1>6, <2>3
  <2> QED BY <1>4, <1>5, <2>1, <2>4
<1>7. \A id \in S : /\ jobs'[id] = done(id) /\ jobs[id].status # "COMPLETED" /\ jobs[id].gen > 0
                    /\ \A w \in Worker : ~(AtWork(w, id) /\ pc'[w] \in Holding)
                    /\ \A c, s : c = jobs[id].chain /\ s = jobs[id].seq => NoneBlockedBehind(c, s)'
  BY <1>3, <1>4, <1>6 DEF DLQStatus
<1>8. \A id \in DOMAIN jobs \ S :
         jobs'[id] = jobs[id] \/ (jobs[id].status = "BLOCKED" /\ jobs'[id] = next(id))
  BY <1>4
<1> QED BY <1>1, <1>2, <1>4, <1>7, <1>8, FinishGood

-----------------------------------------------------------------------------
(* Calls that return jobs to the queue                                         *)

\* The jobs of S wait again: those of a recovery or a replay.
LEMMA ReturnGood ==
    ASSUME SysInv, RepoInv', EngineTyped', pauses' = pauses,
           DOMAIN jobs' = DOMAIN jobs, UNCHANGED <<chain, issued>>,
           \A w \in Worker : WorkerMove(w), PromotionsMade,
           NEW S \in SUBSET DOMAIN jobs,
           \A id \in S : /\ Kept(id) /\ jobs'[id].status \in {"PENDING", "RETRYING"}
                         /\ jobs[id].status # "COMPLETED",
           \A id \in DOMAIN jobs \ S : jobs'[id] = jobs[id]
    PROVE  Good
<1>1. \A id \in DOMAIN jobs \ S : Kept(id) /\ Announced(id)
  BY StaysKept
<1>2. \A id \in S : Announced(id)
  BY DEF Announced, PredFinished, DLQStatus
<1>3. Allowed(S, "waiting")
  <2>1. PhaseOf("PENDING") = "waiting" /\ PhaseOf("RETRYING") = "waiting"
    BY DEF PhaseOf, DLQStatus
  <2> QED BY <2>1 DEF Allowed
<1>4. \A id \in DOMAIN jobs : Kept(id) /\ Announced(id)
  BY <1>1, <1>2
<1>5. \A id \in DOMAIN jobs : jobs'[id].status = "BLOCKED" => jobs[id].status = "BLOCKED"
  OBVIOUS
<1> QED BY <1>3, <1>4, <1>5, RewriteGood

\* ReplayJob and BulkReplayDLQ
LEMMA ReplayGood ==
    ASSUME SysInv, UNCHANGED engineVars, pauses' = pauses,
           NEW S \in SUBSET DOMAIN jobs, \A id \in S : jobs[id].status \in Replayable,
           jobs' = Replayed(jobs, S), UNCHANGED <<chain, issued>>
    PROVE  Good
<1>1. RepoInv /\ RepoInv' /\ jobs \in [DOMAIN jobs -> Job]
  BY ReplayKeepsInv DEF SysInv, RepoInv, MapsOK, MapsTyped
<1>2. EngineTyped' /\ (\A w \in Worker : WorkerMove(w)) /\ PromotionsMade
  BY EnginesStay DEF SysInv, EngineTyped, EngineSound
<1>3. /\ DOMAIN jobs' = DOMAIN jobs
      /\ \A id \in DOMAIN jobs \ S : jobs'[id] = jobs[id]
      /\ \A id \in S : jobs'[id] = [jobs[id] EXCEPT !.status = "PENDING", !.attempt = 0,
                                                    !.avail = "due", !.lease = "none"]
  BY DEF Replayed
<1>4. ASSUME NEW id \in S
      PROVE  Kept(id) /\ jobs'[id].status = "PENDING" /\ jobs[id].status # "COMPLETED"
  <2>1. jobs[id] \in Job /\ JobSound(jobs[id])
    BY <1>1 DEF SysInv
  <2>2. /\ jobs[id].status \in DLQStatus /\ jobs[id].gen > 0
        /\ \A w \in Worker : ~AtWork(w, id)
    BY DeadIsFree
  <2>3. /\ SameJob(jobs'[id], jobs[id]) /\ jobs'[id].status = "PENDING"
        /\ jobs'[id].gen = jobs[id].gen /\ jobs'[id].worker = jobs[id].worker
        /\ jobs'[id].attempt = 0
    BY <1>3, <2>1 DEF Job, SameJob
  <2>4. JobSound(jobs'[id])
    BY <2>1, <2>3 DEF JobSound, Ran, DLQStatus
  <2> QED BY <2>2, <2>3, <2>4 DEF Kept, DLQStatus
<1> QED BY <1>1, <1>2, <1>3, <1>4, ReturnGood

\* RecoverStale: the lease of a job that a live worker owns has run out only if some lease
\* did so under a live worker; otherwise the worker died.
LEMMA RecoveryTickGood ==
    ASSUME SysInv, NEW e \in EngineId, RecoveryTick(e)
    PROVE  Good
<1>1. PICK R \in RecoverBatch : RecoverJobs(R) /\ RecoveryReturned(e, Cardinality(R))
  BY DEF RecoveryTick
<1>2. RepoInv /\ RepoInv' /\ jobs \in [DOMAIN jobs -> Job] /\ pauses' = pauses
  BY <1>1, RecoverKeepsInv DEF SysInv, RepoInv, MapsOK, MapsTyped, RecoveryTick
<1>3. /\ R \in SUBSET DOMAIN jobs
      /\ \A id \in R : jobs[id].status = "PROCESSING" /\ jobs[id].lease = "expired"
  BY DEF RecoverBatch, Stale
<1>4. Cardinality(R) \in Nat
  <2>1. R \subseteq issued /\ IsFiniteSet(issued)
    BY <1>3 DEF SysInv, RepoInv
  <2> QED BY <2>1, FS_Subset, FS_CardinalityType
<1>5. EngineTyped' /\ (\A w \in Worker : WorkerMove(w)) /\ PromotionsMade
  <2>1. notify' \in [EngineId -> 0 .. NotifyCap] /\ UNCHANGED <<phase, recovery, pc, held, beats>>
    BY <1>1, <1>4, SendTyped DEF RecoveryReturned, SysInv, EngineTyped
  <2> QED BY <1>2, <2>1 DEF SysInv, EngineTyped, EngineSound, WorkerMove, PromotionsMade
<1>6. /\ DOMAIN jobs' = DOMAIN jobs /\ UNCHANGED <<chain, issued>>
      /\ \A id \in DOMAIN jobs \ R : jobs'[id] = jobs[id]
      /\ \A id \in R : jobs'[id] = [jobs[id] EXCEPT !.status = "RETRYING", !.avail = "later",
                                                    !.lease = "none"]
  BY <1>1, <1>3 DEF RecoverJobs
<1>7. ASSUME NEW id \in R
      PROVE  Kept(id) /\ jobs'[id].status = "RETRYING" /\ jobs[id].status # "COMPLETED"
  <2>1. /\ jobs[id] \in Job /\ JobSound(jobs[id])
        /\ jobs[id].status = "PROCESSING" /\ jobs[id].lease = "expired"
    BY <1>2, <1>3 DEF SysInv
  <2>2. /\ SameJob(jobs'[id], jobs[id]) /\ jobs'[id].status = "RETRYING"
        /\ jobs'[id].gen = jobs[id].gen /\ jobs'[id].worker = jobs[id].worker
        /\ jobs'[id].attempt = jobs[id].attempt
    BY <1>6, <2>1 DEF Job, SameJob
  <2>3. JobSound(jobs'[id])
    BY <2>1, <2>2 DEF JobSound, Ran, DLQStatus
  <2>4. jobs[id].worker \in Worker
    BY <2>1 DEF JobSound, Ran
  <2>5. Disturbed'
    <3>1. AtWork(jobs[id].worker, id) \/ pc[jobs[id].worker] = "died"
      BY <1>3, <2>1 DEF SysInv, ProcessingHasHolder
    <3>2. pauses = 0 => ~AtWork(jobs[id].worker, id)
      BY <2>1, <2>4 DEF SysInv, NobodyRobbed, AtWork
    <3>3. pauses \in Nat /\ pauses' = pauses /\ pc' = pc
      BY <1>1, <1>2 DEF SysInv, EngineTyped, EngineSound, RecoveryReturned
    <3>4. pauses' > 0 \/ pc'[jobs[id].worker] = "died"
      BY <3>1, <3>2, <3>3
    <3> QED BY <2>4, <3>4 DEF Disturbed
  <2>6. Kept(id)
    BY <2>1, <2>2, <2>3, <2>5 DEF Kept, Open
  <2> QED BY <2>1, <2>2, <2>6
<1> QED BY <1>2, <1>3, <1>5, <1>6, <1>7, ReturnGood

-----------------------------------------------------------------------------
(* Operators                                                                   *)

\* BulkPurgeDLQ
LEMMA PurgeGood ==
    ASSUME SysInv, UNCHANGED engineVars, pauses' = pauses, "bulkPurge" \in Commands, BulkPurgeDLQ
    PROVE  Good
<1>1. PICK S \in DLQMatches : jobs' = Without(jobs, S) /\ issued' = issued
  BY DEF BulkPurgeDLQ
<1>2. /\ RepoInv /\ RepoInv' /\ jobs \in [DOMAIN jobs -> Job] /\ jobs' \in [DOMAIN jobs' -> Job]
  BY PurgeKeepsInv DEF SysInv, RepoInv, MapsOK, MapsTyped
<1>3. EngineTyped' /\ (\A w \in Worker : WorkerMove(w)) /\ PromotionsMade
  BY EnginesStay DEF SysInv, EngineTyped, EngineSound
<1>4. /\ S \in SUBSET DOMAIN jobs /\ \A id \in S : jobs[id].status \in DLQStatus
      /\ DOMAIN jobs' = DOMAIN jobs \ S /\ \A id \in DOMAIN jobs' : jobs'[id] = jobs[id]
  BY <1>1 DEF DLQMatches, Without
<1>5. \A id \in DOMAIN jobs' : Kept(id) /\ Announced(id)
  BY <1>4, StaysKept
<1>6. Moved
  BY <1>1, <1>2, <1>3, <1>4, <1>5 DEF Moved, JobMove, SysInv
<1>7. Promotes
  BY <1>3, <1>4, <1>5 DEF Promotes, PromotionsMade
<1>8. Order!Next
  <2>1. Order!ViewTypeOK'
    BY <1>2, ViewTypedNext
  <2>2. /\ DOMAIN ChainView(jobs) = DOMAIN jobs /\ DOMAIN ChainView(jobs') = DOMAIN jobs'
        /\ \A id \in DOMAIN jobs : ChainView(jobs)[id].phase = PhaseOf(jobs[id].status)
        /\ \A id \in DOMAIN jobs' : ChainView(jobs')[id] = ChainView(jobs)[id]
    <3>1. \A id \in DOMAIN jobs' : ChainView(jobs')[id] = ChainView(jobs)[id]
      BY <1>4 DEF ChainView
    <3> QED BY <1>2, <3>1, ViewFacts
  <2>3. \A st \in DLQStatus : PhaseOf(st) = "failed"
    BY DEF PhaseOf, DLQStatus
  <2>4. \A id \in S : ChainView(jobs)[id].phase = "failed"
    BY <1>4, <2>2, <2>3
  <2> QED BY <1>4, <2>1, <2>2, <2>4, Order!RemoveByParts
<1> QED BY <1>6, <1>7, <1>8, MovedGood

\* The dashboard and the Engine API
LEMMA OperatorGood ==
    ASSUME SysInv, Operator
    PROVE  Good
<1>1. UNCHANGED engineVars /\ pauses' = pauses
  BY DEF Operator
<1>2. EngineTyped' /\ (\A w \in Worker : WorkerMove(w)) /\ PromotionsMade
  BY <1>1, EnginesStay DEF SysInv, EngineTyped, EngineSound
<1>3. ASSUME NEW id \in JobId, RequestCancel(id) PROVE Good
  BY <1>1, <1>2, <1>3, CancelGood
<1>4. ASSUME NEW id \in JobId, ReplayJob(id) PROVE Good
  <2>1. /\ {id} \in SUBSET DOMAIN jobs /\ \A k \in {id} : jobs[k].status \in Replayable
        /\ jobs' = Replayed(jobs, {id}) /\ UNCHANGED <<chain, issued>>
    BY <1>4 DEF ReplayJob
  <2> QED BY <1>1, <2>1, ReplayGood
<1>5. ASSUME NEW id \in JobId, SkipJob(id) PROVE Good
  <2>1. /\ {id} \in SUBSET DOMAIN jobs /\ \A k \in {id} : jobs[k].status \in Replayable
        /\ jobs' = Skipped(jobs, {id}) /\ UNCHANGED <<chain, issued>>
    BY <1>5 DEF SkipJob
  <2> QED BY <1>1, <2>1, SkipGood
<1>6. ASSUME NEW id \in JobId, NEW a \in Avail, RescheduleJob(id, a) PROVE Good
  BY <1>1, <1>2, <1>6, Touches, TouchedGood
<1>7. CASE BulkReplayDLQ
  <2>1. PICK S \in DLQMatches : jobs' = Replayed(jobs, S) /\ UNCHANGED <<chain, issued>>
    BY <1>7 DEF BulkReplayDLQ
  <2>2. S \in SUBSET DOMAIN jobs /\ \A id \in S : jobs[id].status \in Replayable
    BY DEF DLQMatches, DLQStatus, Replayable
  <2> QED BY <1>1, <2>1, <2>2, ReplayGood
<1>8. CASE BulkSkipDLQ
  <2>1. PICK S \in DLQMatches : jobs' = Skipped(jobs, S) /\ UNCHANGED <<chain, issued>>
    BY <1>8 DEF BulkSkipDLQ
  <2>2. S \in SUBSET DOMAIN jobs /\ \A id \in S : jobs[id].status \in Replayable
    BY DEF DLQMatches, DLQStatus, Replayable
  <2> QED BY <1>1, <2>1, <2>2, SkipGood
<1>9. CASE "bulkPurge" \in Commands /\ BulkPurgeDLQ
  BY <1>1, <1>9, PurgeGood
<1> QED BY <1>3, <1>4, <1>5, <1>6, <1>7, <1>8, <1>9 DEF Operator, OperatorStep

-----------------------------------------------------------------------------
(* Producers                                                                   *)

\* The maps st hold the jobs of base as they are, and new ones that wait: BLOCKED only
\* behind a job that is not finished.
Grown(st, base) ==
    /\ StoreOK(st) /\ DOMAIN base \subseteq DOMAIN st.jobs
    /\ \A k \in DOMAIN base : st.jobs[k] = base[k]
    /\ \A k \in DOMAIN st.jobs \ DOMAIN base :
          /\ st.jobs[k].status \in {"PENDING", "BLOCKED"}
          /\ st.jobs[k].gen = 0 /\ st.jobs[k].attempt = 0
          /\ BudgetsPositive => st.jobs[k].maxAttempts >= 1
          /\ st.jobs[k].status = "BLOCKED" =>
                ~PredecessorFinished(st.jobs, st.chain[st.jobs[k].chain], st.jobs[k].seq)

\* A job that is not finished lets nobody go: adding it makes no predecessor finished.
LEMMA AddedUnfinished ==
    ASSUME NEW js, NEW ch, Indexed(js, ch), NEW js2, NEW ch2, Indexed(js2, ch2), NEW id,
           id \notin DOMAIN js, DOMAIN js2 = DOMAIN js \cup {id},
           \A k \in DOMAIN js : js2[k] = js[k],
           js2[id].status \in {"PENDING", "BLOCKED"},
           NEW c \in ChainId, NEW s, PredecessorFinished(js2, ch2[c], s)
    PROVE  PredecessorFinished(js, ch[c], s)
<1>1. PICK p : p = ch2[c][s - 1]
  OBVIOUS
<1>2. /\ s - 1 \in DOMAIN ch2[c] /\ p \in DOMAIN js2 /\ PredFinished(js2[p])
      /\ js2[p].chain = c /\ js2[p].seq = s - 1
  BY <1>1 DEF PredecessorFinished, Indexed
<1>3. p # id
  BY <1>2 DEF PredFinished, DLQStatus
<1>4. p \in DOMAIN js /\ js2[p] = js[p]
  BY <1>2, <1>3
<1>5. s - 1 \in DOMAIN ch[c] /\ ch[c][s - 1] = p
  BY <1>2, <1>4 DEF Indexed
<1> QED BY <1>2, <1>4, <1>5 DEF PredecessorFinished

\* enqueueSingleInMemory lets the maps grow.
LEMMA EnqueueGrows ==
    ASSUME NEW base, NEW st, Grown(st, base), NEW req \in Request,
           BudgetsPositive => req.maxAttempts >= 0,
           NEW id \in JobId, id \notin DOMAIN st.jobs
    PROVE  /\ Grown(enqueueSingleInMemory(st, req, id), base)
           /\ DOMAIN enqueueSingleInMemory(st, req, id).jobs \subseteq DOMAIN st.jobs \cup {id}
<1> DEFINE r == enqueueSingleInMemory(st, req, id)
           m == st.chain[req.chain]
           seq == ResolvedSequence(m, req.sequence)
           status == determineInitialStatus(st.jobs, m, seq)
           job == NewJob(req, seq, status)
<1>1. StoreOK(st)
  BY DEF Grown
<1>2. StoreOK(r) /\ DOMAIN r.jobs \subseteq DOMAIN st.jobs \cup {id}
  BY <1>1, EnqueueKeepsMaps
<1>3. CASE r.jobs = st.jobs /\ r.chain = st.chain
  <2> HIDE DEF r
  <2>1. Grown(r, base)
    BY <1>2, <1>3 DEF Grown
  <2> QED BY <1>2, <2>1 DEF r
<1>4. CASE req.chain = NoChain \/ IsDuplicate(st.jobs, req) \/ SequenceRejected(m, req.sequence)
  BY <1>3, <1>4 DEF enqueueSingleInMemory, Refused
<1>5. CASE ~(req.chain = NoChain \/ IsDuplicate(st.jobs, req) \/ SequenceRejected(m, req.sequence))
  <2>1. /\ r.jobs = Put(st.jobs, id, job)
        /\ r.chain = [st.chain EXCEPT ![req.chain] = Put(m, seq, id)]
    BY <1>5 DEF enqueueSingleInMemory
  <2>2. /\ job.chain = req.chain /\ job.seq = seq /\ job.status = status
        /\ job.gen = 0 /\ job.attempt = 0 /\ req.chain \in ChainId
        /\ job.maxAttempts = IF req.maxAttempts = 0 THEN DefaultMaxAttempts ELSE req.maxAttempts
    BY <1>5 DEF NewJob, Request
  <2>3. /\ status \in {"PENDING", "BLOCKED"}
        /\ status = "BLOCKED" => ~PredecessorFinished(st.jobs, m, seq)
    BY DEF determineInitialStatus
  <2>4. BudgetsPositive => job.maxAttempts >= 1
    <3>1. req.maxAttempts \in Int /\ DefaultMaxAttempts \in Int
      BY DefaultAssumption DEF Request
    <3> QED BY <2>2, <3>1 DEF BudgetsPositive
  <2> HIDE DEF r, job, status, seq
  <2>5. /\ DOMAIN r.jobs = DOMAIN st.jobs \cup {id} /\ r.jobs[id] = job
        /\ \A k \in DOMAIN st.jobs : r.jobs[k] = st.jobs[k]
    BY <2>1 DEF Put
  <2>6. Indexed(st.jobs, st.chain) /\ Indexed(r.jobs, r.chain) /\ MapsTyped(st.jobs, st.chain)
    BY <1>1, <1>2 DEF StoreOK, MapsOK
  <2>7. ASSUME NEW c \in ChainId, NEW s, ~PredecessorFinished(st.jobs, st.chain[c], s)
        PROVE  ~PredecessorFinished(r.jobs, r.chain[c], s)
    BY <2>2, <2>3, <2>5, <2>6, <2>7, AddedUnfinished
  <2>8. ASSUME NEW k \in DOMAIN r.jobs \ DOMAIN base
        PROVE  /\ r.jobs[k].status \in {"PENDING", "BLOCKED"}
               /\ r.jobs[k].gen = 0 /\ r.jobs[k].attempt = 0
               /\ BudgetsPositive => r.jobs[k].maxAttempts >= 1
               /\ r.jobs[k].status = "BLOCKED" =>
                     ~PredecessorFinished(r.jobs, r.chain[r.jobs[k].chain], r.jobs[k].seq)
    <3>1. CASE k = id
      BY <2>2, <2>3, <2>4, <2>5, <2>7, <3>1
    <3>2. CASE k # id
      <4>1. k \in DOMAIN st.jobs \ DOMAIN base /\ r.jobs[k] = st.jobs[k]
        BY <2>5, <3>2
      <4>2. st.jobs[k].chain \in ChainId
        BY <2>6, <4>1 DEF MapsTyped, Job
      <4> QED BY <2>7, <4>1, <4>2 DEF Grown
    <3> QED BY <3>1, <3>2
  <2>9. Grown(r, base)
    BY <1>2, <2>5, <2>8 DEF Grown
  <2> QED BY <1>2, <2>9 DEF r
<1> QED BY <1>4, <1>5

\* The maps a producer's call leaves become the state.
LEMMA StoreGood ==
    ASSUME SysInv, UNCHANGED engineVars, pauses' = pauses, NEW st, Grown(st, jobs), Store(st),
           NEW N \in SUBSET (JobId \ issued), IsFiniteSet(N), DOMAIN st.jobs \subseteq DOMAIN jobs \cup N
    PROVE  Good
<1>1. EngineTyped' /\ (\A w \in Worker : WorkerMove(w)) /\ PromotionsMade
  BY EnginesStay DEF SysInv, EngineTyped, EngineSound
<1>2. /\ DOMAIN jobs \subseteq issued /\ issued \subseteq JobId /\ RepoInv /\ IsFiniteSet(issued)
  BY DEF SysInv, RepoInv
<1>3. jobs' = st.jobs /\ chain' = st.chain /\ issued' = issued \cup DOMAIN st.jobs
  BY DEF Store
<1>4. issued' \subseteq issued \cup N /\ issued \subseteq issued'
  BY <1>2, <1>3
<1>5. IsFiniteSet(issued)'
  <2>1. IsFiniteSet(issued \cup N)
    BY <1>2, FS_Union
  <2>2. IsFiniteSet(issued')
    BY <1>4, <2>1, FS_Subset
  <2> QED BY <2>2
<1>6. RepoInv'
  <2>1. MapsOK(jobs', chain')
    BY <1>3 DEF Grown, StoreOK
  <2> QED BY <1>2, <1>3, <1>4, <2>1 DEF RepoInv
<1>7. /\ DOMAIN jobs \subseteq DOMAIN jobs' /\ \A k \in DOMAIN jobs : jobs'[k] = jobs[k]
      /\ \A k \in DOMAIN jobs' \ DOMAIN jobs :
            /\ k \notin issued /\ jobs'[k].status \in {"PENDING", "BLOCKED"}
            /\ jobs'[k].gen = 0 /\ jobs'[k].attempt = 0
            /\ BudgetsPositive => jobs'[k].maxAttempts >= 1
            /\ jobs'[k].status = "BLOCKED" =>
                  ~PredecessorFinished(jobs', chain'[jobs'[k].chain], jobs'[k].seq)
  BY <1>3 DEF Grown
<1>8. \A k \in DOMAIN jobs : Kept(k) /\ Announced(k)
  BY <1>7, StaysKept
<1>9. \A k \in DOMAIN jobs' \ DOMAIN jobs : Added(k) /\ Announced(k)
  BY <1>7 DEF Added, JobSound, Announced, PredFinished, Ran, DLQStatus
<1>10. Moved
  BY <1>1, <1>4, <1>5, <1>6, <1>7, <1>8, <1>9 DEF Moved, JobMove
<1>11. Promotes
  <2>1. \A k \in DOMAIN jobs' : Announced(k)
    BY <1>8, <1>9
  <2>2. \A k \in DOMAIN jobs' : jobs'[k].status = "BLOCKED" =>
           \/ k \in DOMAIN jobs /\ jobs[k].status = "BLOCKED"
           \/ ~PredecessorFinished(jobs, chain[jobs[k].chain], jobs[k].seq)'
    BY <1>7
  <2> QED BY <1>1, <2>1, <2>2 DEF Promotes, PromotionsMade
<1>12. Order!Next
  <2>1. /\ jobs \in [DOMAIN jobs -> Job] /\ jobs' \in [DOMAIN jobs' -> Job]
    BY <1>2, <1>6 DEF RepoInv, MapsOK, MapsTyped
  <2>2. Order!ViewTypeOK' /\ Order!PlacesUnique'
    BY <1>6, ViewTypedNext
  <2>3. /\ DOMAIN ChainView(jobs) = DOMAIN jobs /\ DOMAIN ChainView(jobs') = DOMAIN jobs'
        /\ \A k \in DOMAIN jobs' : /\ ChainView(jobs')[k].phase = PhaseOf(jobs'[k].status)
                                   /\ ChainView(jobs')[k].token = jobs'[k].gen
    BY <2>1, ViewFacts
  <2>4. \A k \in DOMAIN jobs : ChainView(jobs')[k] = ChainView(jobs)[k]
    BY <1>7 DEF ChainView
  <2>5. PhaseOf("PENDING") = "waiting" /\ PhaseOf("BLOCKED") = "waiting"
    BY DEF PhaseOf, DLQStatus
  <2>6. \A k \in DOMAIN jobs' \ DOMAIN jobs :
           ChainView(jobs')[k].phase = "waiting" /\ ChainView(jobs')[k].token = 0
    BY <1>7, <2>3, <2>5
  <2> QED BY <1>7, <2>2, <2>3, <2>4, <2>6, Order!AcceptByParts
<1> QED BY <1>10, <1>11, <1>12, MovedGood

\* Enqueue and EnqueueBatch of requests that ask for no negative number of attempts.
LEMMA RepositoryEnqueueGood ==
    ASSUME SysInv, UNCHANGED engineVars, pauses' = pauses,
           NEW req1 \in Request, NEW req2 \in Request,
           BudgetsPositive => req1.maxAttempts >= 0 /\ req2.maxAttempts >= 0
    PROVE  (Enqueue(req1) => Good) /\ (EnqueueBatch(req1, req2) => Good)
<1>1. Grown(Stored, jobs) /\ Stored.jobs = jobs /\ DOMAIN jobs \subseteq issued
  BY DEF Grown, StoreOK, Stored, SysInv, RepoInv
<1>2. ASSUME Enqueue(req1) PROVE Good
  <2>1. PICK id \in JobId \ issued : Store(enqueueSingleInMemory(Stored, req1, id))
    BY <1>2 DEF Enqueue
  <2>2. /\ Grown(enqueueSingleInMemory(Stored, req1, id), jobs)
        /\ DOMAIN enqueueSingleInMemory(Stored, req1, id).jobs \subseteq DOMAIN jobs \cup {id}
    BY <1>1, EnqueueGrows
  <2>3. {id} \in SUBSET (JobId \ issued) /\ IsFiniteSet({id})
    BY FS_Singleton
  <2> QED BY <2>1, <2>2, <2>3, StoreGood
<1>3. ASSUME EnqueueBatch(req1, req2) PROVE Good
  <2>1. PICK id1 \in JobId \ issued, id2 \in JobId \ issued :
            id1 # id2 /\ Store(BatchResult(req1, req2, id1, id2))
    BY <1>3 DEF EnqueueBatch
  <2> DEFINE first == enqueueSingleInMemory(Stored, req1, id1)
             second == enqueueSingleInMemory(first, req2, id2)
  <2>2. Grown(first, jobs) /\ DOMAIN first.jobs \subseteq DOMAIN jobs \cup {id1}
    BY <1>1, EnqueueGrows
  <2>3. id2 \notin DOMAIN first.jobs
    BY <1>1, <2>1, <2>2
  <2>4. Grown(second, jobs) /\ DOMAIN second.jobs \subseteq DOMAIN first.jobs \cup {id2}
    <3> HIDE DEF first
    <3> QED BY <2>2, <2>3, EnqueueGrows
  <2>5. {id1, id2} \in SUBSET (JobId \ issued) /\ IsFiniteSet({id1, id2})
    <3>1. IsFiniteSet({id1}) /\ IsFiniteSet({id2})
      BY FS_Singleton
    <3>2. IsFiniteSet({id1} \cup {id2})
      BY <3>1, FS_Union
    <3>3. {id1} \cup {id2} = {id1, id2}
      OBVIOUS
    <3> QED BY <3>2, <3>3
  <2>6. CASE first.err
    <3>1. Store(first) /\ DOMAIN first.jobs \subseteq DOMAIN jobs \cup {id1, id2}
      BY <2>1, <2>2, <2>6 DEF BatchResult
    <3> QED BY <2>2, <2>5, <3>1, StoreGood
  <2>7. CASE ~first.err
    <3>1. Store(second) /\ DOMAIN second.jobs \subseteq DOMAIN jobs \cup {id1, id2}
      BY <2>1, <2>2, <2>4, <2>7 DEF BatchResult
    <3> QED BY <2>4, <2>5, <3>1, StoreGood
  <2> QED BY <2>6, <2>7
<1> QED BY <1>2, <1>3

\* The request the engine passes on.
LEMMA ResolvedRequest ==
    ASSUME NEW req \in Request
    PROVE  Resolved(req) \in Request /\ Resolved(req).maxAttempts = req.maxAttempts
<1>1. ResolvedMode(req) \in OrderingMode \cup {""}
  BY EngineAssumption DEF ResolvedMode, Request, OrderingMode
<1> QED BY <1>1 DEF Resolved, Request

\* Enqueue, EnqueueBatch and the batch helper add jobs and change none.
LEMMA ProducerGood ==
    ASSUME SysInv, NEW req1 \in Requests, NEW req2 \in Requests
    PROVE  /\ EngineEnqueue(req1) => Good
           /\ EngineEnqueueBatch(req1, req2) => Good
           /\ BatchEnqueueParallel(req1, req2) => Good
<1>1. req1 \in Request /\ req2 \in Request
  BY RequestAssumption
<1>2. BudgetsPositive => req1.maxAttempts >= 0 /\ req2.maxAttempts >= 0
  BY DEF BudgetsPositive
<1>3. ASSUME NEW r1 \in Request, NEW r2 \in Request,
             BudgetsPositive => r1.maxAttempts >= 0 /\ r2.maxAttempts >= 0
      PROVE  /\ EngineEnqueue(r1) => Good
             /\ EngineEnqueueBatch(r1, r2) => Good
  <2>1. /\ Resolved(r1) \in Request /\ Resolved(r2) \in Request
        /\ BudgetsPositive => Resolved(r1).maxAttempts >= 0 /\ Resolved(r2).maxAttempts >= 0
    BY <1>3, ResolvedRequest
  <2> HIDE DEF Resolved
  <2> QED BY <2>1, RepositoryEnqueueGood DEF EngineEnqueue, EngineEnqueueBatch
<1>4. ASSUME BatchEnqueueParallel(req1, req2) PROVE Good
  <2> DEFINE filled(req) == [req EXCEPT !.maxAttempts = IF @ = 0 THEN DefaultMaxAttempts ELSE @]
  <2>1. ASSUME NEW req \in Request, BudgetsPositive => req.maxAttempts >= 0
        PROVE  filled(req) \in Request /\ (BudgetsPositive => filled(req).maxAttempts >= 0)
    <3>1. /\ req.maxAttempts \in Int /\ DefaultMaxAttempts \in Int
          /\ BudgetsPositive => DefaultMaxAttempts >= 1
      BY DefaultAssumption DEF Request, BudgetsPositive
    <3>2. PICK n : n = IF req.maxAttempts = 0 THEN DefaultMaxAttempts ELSE req.maxAttempts
      OBVIOUS
    <3>3. n \in Int /\ (BudgetsPositive => n >= 0)
      BY <2>1, <3>1, <3>2
    <3>4. filled(req) = [req EXCEPT !.maxAttempts = n]
      BY <3>2
    <3> HIDE DEF filled
    <3> QED BY <3>3, <3>4 DEF Request
  <2>2. EngineEnqueueBatch(filled(req1), filled(req2))
    BY <1>4 DEF BatchEnqueueParallel
  <2> HIDE DEF filled
  <2> QED BY <1>1, <1>2, <1>3, <2>1, <2>2
<1> QED BY <1>1, <1>2, <1>3, <1>4

-----------------------------------------------------------------------------
(* Claim                                                                       *)

\* What a claim does: w, which was idle, has the job id, which waited, its only holder.
Claims(w, id) ==
    /\ id \in DOMAIN jobs /\ DOMAIN jobs' = DOMAIN jobs /\ UNCHANGED <<chain, issued, pauses>>
    /\ jobs[id].status \in {"PENDING", "RETRYING"}
    /\ \A k \in DOMAIN jobs \ {id} : jobs'[k] = jobs[k]
    /\ SameJob(jobs'[id], jobs[id]) /\ jobs'[id] \in Job
    /\ jobs'[id].status = "PROCESSING" /\ jobs'[id].worker = w /\ jobs'[id].lease = "live"
    /\ jobs'[id].gen = jobs[id].gen + 1 /\ jobs'[id].attempt = jobs[id].attempt + 1
    /\ jobs[id].gen \in Nat /\ jobs[id].attempt \in Nat
    /\ pc[w] = "idle" /\ pc'[w] \in {"running", "noHandler"}
    /\ pc'[w] = "noHandler" => jobs'[id].type \notin Registered
    /\ held'[w] = [id |-> id, job |-> jobs'[id]]
    /\ \A v \in Worker \ {w} : pc'[v] = pc[v] /\ held'[v] = held[v]
    /\ RepoInv' /\ EngineTyped'

\* What Claim does to the jobs and to the worker.
LEMMA ClaimEffect ==
    ASSUME SysInv, NEW w \in Worker, NEW id, ClaimJob(w, id), JobClaimed(w, id, jobs'[id]),
           UNCHANGED pauses
    PROVE  Claims(w, id)
<1>1. /\ id \in DOMAIN jobs /\ jobs \in [DOMAIN jobs -> Job] /\ jobs[id] \in Job
      /\ RepoInv' /\ id \in JobId
  BY ClaimKeepsInv DEF ClaimJob, SysInv, RepoInv, MapsOK, MapsTyped
<1>2. /\ DOMAIN jobs' = DOMAIN jobs /\ UNCHANGED <<chain, issued>>
      /\ jobs[id].status \in {"PENDING", "RETRYING"}
      /\ \A k \in DOMAIN jobs \ {id} : jobs'[k] = jobs[k]
      /\ jobs'[id] = [jobs[id] EXCEPT !.status = "PROCESSING", !.worker = w,
                                      !.gen = jobs[id].gen + 1, !.lease = "live",
                                      !.attempt = jobs[id].attempt + 1]
  BY <1>1 DEF ClaimJob, Eligible, CanBeClaimed, Job
<1>3. /\ SameJob(jobs'[id], jobs[id])
      /\ jobs'[id].status = "PROCESSING" /\ jobs'[id].worker = w /\ jobs'[id].lease = "live"
      /\ jobs'[id].gen = jobs[id].gen + 1 /\ jobs'[id].attempt = jobs[id].attempt + 1
      /\ jobs[id].gen \in Nat /\ jobs[id].attempt \in Nat
  BY <1>1, <1>2 DEF Job, SameJob
<1>4. jobs'[id] \in Job
  BY <1>1, <1>2 DEF RepoInv, MapsOK, MapsTyped
<1>5. /\ EngineSound' /\ pc[w] = "idle" /\ pc'[w] \in {"running", "noHandler"}
      /\ held'[w] = [id |-> id, job |-> jobs'[id]]
      /\ \A v \in Worker \ {w} : pc'[v] = pc[v] /\ held'[v] = held[v]
  BY <1>1, <1>4, ClaimedSound DEF SysInv, EngineTyped
<1>6. pc'[w] = "noHandler" => jobs'[id].type \notin Registered
  BY DEF JobClaimed, SysInv, EngineTyped, EngineSound
<1>7. EngineTyped'
  BY <1>5 DEF SysInv, EngineTyped
<1> QED BY <1>1, <1>2, <1>3, <1>4, <1>5, <1>6, <1>7 DEF Claims

\* A claim keeps the invariant: the new generation fences every earlier holder off.
LEMMA ClaimKeepsSysInv ==
    ASSUME SysInv, NEW w \in Worker, NEW id, Claims(w, id)
    PROVE  SysInv'
<1> USE DEF Claims
<1>1. \A k \in DOMAIN jobs : JobSound(jobs[k]) /\ jobs[k] \in Job
  BY JobOf DEF SysInv
<1>2. ASSUME NEW k \in DOMAIN jobs' PROVE JobSound(jobs'[k])
  <2>1. CASE k = id
    <3>1. jobs'[id].gen > 0
      OBVIOUS
    <3> QED BY <2>1, <3>1 DEF JobSound, Ran
  <2>2. CASE k # id
    BY <1>1, <2>2
  <2> QED BY <2>1, <2>2
<1>3. AtWork(w, id)' /\ HeldId(w)' = id /\ HeldGen(w)' = jobs'[id].gen
  BY DEF AtWork, Owns, HeldId, HeldGen, Holding
<1>4. ASSUME NEW v \in Worker PROVE ClaimSound(v)'
  <2>1. CASE v = w
    <3>1. id \in JobId /\ id \in issued' /\ id \in DOMAIN jobs'
      BY DEF SysInv, RepoInv
    <3>2. held'[w] \in [id : JobId, job : Job] /\ held'[w].job = jobs'[id]
      BY <3>1
    <3>3. /\ jobs'[id].gen > 0 /\ jobs'[id].gen <= jobs'[id].gen
          /\ SameJob(jobs'[id], jobs'[id]) /\ jobs'[id].status \in Open
      BY DEF SameJob, Open
    <3>4. pc'[w] \notin {"retry", "cancelThenRetry"}
      OBVIOUS
    <3> QED BY <1>3, <2>1, <3>1, <3>2, <3>3, <3>4 DEF ClaimSound
  <2>2. CASE v # w
    <3>1. /\ pc'[v] = pc[v] /\ held'[v] = held[v] /\ ClaimSound(v)
          /\ HeldId(v)' = HeldId(v) /\ HeldGen(v)' = HeldGen(v)
      BY <2>2 DEF SysInv, HeldId, HeldGen
    <3>2. CASE pc[v] \notin Busy
      BY <3>1, <3>2 DEF ClaimSound
    <3>3. CASE pc[v] \in Busy /\ HeldId(v) # id
      <4>1. HeldId(v) \in DOMAIN jobs => jobs'[HeldId(v)] = jobs[HeldId(v)]
        BY <3>3
      <4>2. HeldId(v) \in DOMAIN jobs => (AtWork(v, HeldId(v))' => AtWork(v, HeldId(v)))
        BY <3>1, <4>1 DEF AtWork, Owns
      <4> QED BY <3>1, <3>3, <4>1, <4>2 DEF ClaimSound, MayRetry
    <3>4. CASE pc[v] \in Busy /\ HeldId(v) = id
      <4>1. ~AtWork(v, id)'
        BY <2>2 DEF AtWork, Owns
      <4>2. /\ held[v] \in [id : JobId, job : Job] /\ HeldGen(v) \in Nat
            /\ SameJob(jobs[id], held[v].job) /\ HeldGen(v) <= jobs[id].gen
        BY <3>1, <3>4 DEF ClaimSound, HeldGen, Job
      <4>3. SameJob(jobs'[id], held[v].job) /\ HeldGen(v) <= jobs'[id].gen
        BY <4>2 DEF SameJob
      <4> QED BY <3>1, <3>4, <4>1, <4>3 DEF ClaimSound, MayRetry
    <3> QED BY <3>2, <3>3, <3>4
  <2> QED BY <2>1, <2>2
<1>5. ProcessingHasHolder'
  <2> SUFFICES ASSUME NEW k \in DOMAIN jobs', jobs'[k].status = "PROCESSING"
               PROVE  AtWork(jobs[k].worker, k)' \/ pc'[jobs'[k].worker] = "died"
    BY DEF ProcessingHasHolder
  <2>1. CASE k = id
    BY <1>3, <2>1
  <2>2. CASE k # id
    <3>1. PICK u : u = jobs[k].worker
      OBVIOUS
    <3>2. jobs'[k] = jobs[k] /\ u \in Worker /\ k \in DOMAIN jobs
      BY <1>1, <2>2, <3>1 DEF JobSound, Ran
    <3>3. AtWork(u, k) \/ pc[u] = "died"
      BY <3>1, <3>2 DEF SysInv, ProcessingHasHolder
    <3>4. u # w
      BY <3>3 DEF AtWork, Holding
    <3>5. pc'[u] = pc[u] /\ held'[u] = held[u]
      BY <3>2, <3>4
    <3>6. AtWork(u, k)' \/ pc'[u] = "died"
      BY <3>2, <3>3, <3>5 DEF AtWork, Owns, HeldId, HeldGen
    <3> QED BY <3>1, <3>2, <3>6
  <2> QED BY <2>1, <2>2
<1>6. NobodyRobbed'
  <2> SUFFICES ASSUME pauses' = 0, NEW v \in Worker, pc'[v] \in Holding
               PROVE  /\ AtWork(v, HeldId(v))' /\ jobs'[HeldId(v)'].status = "PROCESSING"
                      /\ jobs'[HeldId(v)'].lease = "live"
    BY DEF NobodyRobbed
  <2>1. CASE v = w
    BY <1>3, <2>1
  <2>2. CASE v # w
    <3>1. pc'[v] = pc[v] /\ held'[v] = held[v] /\ HeldId(v)' = HeldId(v) /\ pauses = 0
      BY <2>2 DEF HeldId
    <3>2. /\ AtWork(v, HeldId(v)) /\ jobs[HeldId(v)].status = "PROCESSING"
          /\ jobs[HeldId(v)].lease = "live"
      BY <3>1 DEF SysInv, NobodyRobbed
    <3>3. HeldId(v) \in DOMAIN jobs /\ HeldId(v) # id
      BY <3>2 DEF AtWork, Owns
    <3> QED BY <3>1, <3>2, <3>3 DEF AtWork, Owns, HeldId, HeldGen
  <2> QED BY <2>1, <2>2
<1> QED BY <1>2, <1>4, <1>5, <1>6 DEF SysInv

\* A claim uses an attempt the job has left.
LEMMA ClaimKeepsBudget ==
    ASSUME SysInv, NEW w \in Worker, NEW id, Claims(w, id), BudgetsPositive, BudgetKept
    PROVE  BudgetKept'
<1> USE DEF Claims
<1>1. Disturbed => Disturbed'
  <2>1. \A v \in Worker : pc[v] = "died" => pc'[v] = "died"
    OBVIOUS
  <2> QED BY <2>1 DEF Disturbed
<1>2. ASSUME NEW k \in DOMAIN jobs', k # id
      PROVE  /\ jobs'[k].maxAttempts >= 1
             /\ ~Disturbed' => /\ jobs'[k].attempt <= jobs'[k].maxAttempts
                               /\ jobs'[k].attempt <= PolicyMaxAttempts
                               /\ jobs'[k].status = "RETRYING" => MayRetry(jobs'[k])
  BY <1>1, <1>2 DEF BudgetKept
<1>3. jobs'[id].maxAttempts >= 1 /\ jobs'[id].maxAttempts = jobs[id].maxAttempts
  BY DEF BudgetKept, SameJob
<1>4. jobs[id].maxAttempts \in Int /\ PolicyMaxAttempts \in Nat /\ JobSound(jobs[id])
  BY JobOf, EngineAssumption DEF SysInv, Job
<1>5. ~Disturbed' => jobs'[id].attempt <= jobs'[id].maxAttempts /\ jobs'[id].attempt <= PolicyMaxAttempts
  <2>1. CASE jobs[id].status = "PENDING"
    BY <1>3, <1>4, <2>1 DEF JobSound, BudgetsPositive
  <2>2. CASE jobs[id].status = "RETRYING"
    BY <1>1, <1>3, <1>4, <2>2 DEF BudgetKept, MayRetry
  <2> QED BY <2>1, <2>2
<1> QED BY <1>2, <1>3, <1>5 DEF BudgetKept, MayRetry

\* A claim blocks nobody and lets nobody go.
LEMMA ClaimKeepsPromotion ==
    ASSUME SysInv, NEW w \in Worker, NEW id, Claims(w, id), NoLostPromotion
    PROVE  NoLostPromotion'
<1> USE DEF Claims
<1> SUFFICES ASSUME NEW k \in DOMAIN jobs', jobs'[k].status = "BLOCKED",
                    PredecessorFinished(jobs, chain[jobs[k].chain], jobs[k].seq - 1 + 1)'
             PROVE  \/ AboutToPromote(jobs[k].chain, jobs[k].seq - 1)'
                    \/ /\ jobs'[k].seq - 1 \in DOMAIN chain'[jobs'[k].chain]
                       /\ FailedUnpromoted(chain[jobs[k].chain][jobs[k].seq - 1])'
  BY DEF NoLostPromotion, AboutToPromote
<1>1. k \in DOMAIN jobs /\ k # id /\ jobs'[k] = jobs[k] /\ jobs[k].seq \in Int
  BY JobOf DEF SysInv, Job
<1>2. PICK c, n, p : c = jobs[k].chain /\ n = jobs[k].seq - 1 /\ p = chain[c][n]
  OBVIOUS
<1>3. n \in Int /\ n + 1 - 1 = n
  BY <1>1, <1>2
<1>4. n \in DOMAIN chain[c] /\ p \in DOMAIN jobs /\ PredFinished(jobs'[p])
  BY <1>1, <1>2, <1>3 DEF PredecessorFinished
<1>5. p # id /\ jobs'[p] = jobs[p]
  BY <1>4 DEF PredFinished, DLQStatus
<1>6. PredecessorFinished(jobs, chain[c], n + 1)
  BY <1>2, <1>3, <1>4, <1>5 DEF PredecessorFinished
<1>7. AboutToPromote(c, n) \/ FailedUnpromoted(p)
  BY <1>1, <1>2, <1>6 DEF NoLostPromotion, AboutToPromote
<1>8. CASE AboutToPromote(c, n)
  <2>1. AboutToPromote(c, n)'
    BY <1>8 DEF AboutToPromote
  <2> QED BY <1>1, <1>2, <2>1
<1>9. CASE FailedUnpromoted(p)
  <2>1. JobSound(jobs[p]) /\ jobs[p].status \in DLQStatus
    BY <1>4, <1>9 DEF SysInv, FailedUnpromoted
  <2>2. jobs[p].worker \in Worker
    BY <2>1 DEF JobSound, Ran
  <2>3. pc[jobs[p].worker] = "died" => pc'[jobs[p].worker] = "died"
    BY <2>2
  <2>4. FailedUnpromoted(p)'
    BY <1>5, <1>9, <2>3 DEF FailedUnpromoted
  <2> QED BY <1>1, <1>2, <1>4, <2>4
<1> QED BY <1>7, <1>8, <1>9

\* Eligibility is what OrderedChain asks of a start.
LEMMA ClaimStarts ==
    ASSUME SysInv, NEW w \in Worker, NEW id, Claims(w, id), Eligible(id)
    PROVE  Order!Next
<1> USE DEF Claims
<1>1. /\ RepoInv /\ jobs \in [DOMAIN jobs -> Job] /\ jobs' \in [DOMAIN jobs' -> Job]
      /\ jobs[id].chain \in ChainId
  BY DEF SysInv, RepoInv, MapsOK, MapsTyped, Job
<1>2. Order!ViewTypeOK /\ Order!ViewTypeOK'
  BY <1>1, ViewTyped, ViewTypedNext
<1> DEFINE old == ChainView(jobs)
           new == ChainView(jobs')
<1>3. /\ DOMAIN old = DOMAIN jobs
      /\ \A k \in DOMAIN jobs : /\ old[k].chain = jobs[k].chain /\ old[k].seq = jobs[k].seq
                                /\ old[k].strict = (jobs[k].mode = "strict")
                                /\ old[k].phase = PhaseOf(jobs[k].status)
                                /\ old[k].token = jobs[k].gen
  BY <1>1, ViewFacts
<1>4. /\ DOMAIN new = DOMAIN jobs
      /\ \A k \in DOMAIN jobs : /\ new[k].chain = jobs'[k].chain /\ new[k].seq = jobs'[k].seq
                                /\ new[k].strict = (jobs'[k].mode = "strict")
                                /\ new[k].phase = PhaseOf(jobs'[k].status)
                                /\ new[k].token = jobs'[k].gen
  BY <1>1, ViewFacts
<1>5. \A k \in DOMAIN jobs \ {id} : new[k] = old[k]
  BY DEF ChainView
<1> HIDE DEF old, new
<1>6. Order!Keeps({id})
  <2>1. /\ DOMAIN new = DOMAIN old /\ \A k \in DOMAIN old \ {id} : new[k] = old[k]
        /\ new[id].chain = old[id].chain /\ new[id].seq = old[id].seq
        /\ new[id].strict = old[id].strict
    BY <1>3, <1>4, <1>5 DEF SameJob
  <2> QED BY <2>1 DEF Order!Keeps, old, new
<1>7. /\ PhaseOf("PENDING") = "waiting" /\ PhaseOf("RETRYING") = "waiting"
      /\ PhaseOf("PROCESSING") = "running"
  BY DEF PhaseOf, DLQStatus
<1>8. old[id].phase = "waiting" /\ new[id].phase = "running" /\ new[id].token = old[id].token + 1
  BY <1>3, <1>4, <1>7
<1>9. Order!Startable(id)
  <2>1. CASE jobs[id].seq = 1
    BY <1>3, <2>1 DEF Order!Startable, old
  <2>2. CASE jobs[id].seq # 1
    <3>1. PICK p : p = chain[jobs[id].chain][jobs[id].seq - 1]
      OBVIOUS
    <3>2. /\ p \in DOMAIN jobs /\ PredFinished(jobs[p])
          /\ jobs[p].chain = jobs[id].chain /\ jobs[p].seq = jobs[id].seq - 1
      BY <1>1, <2>2, <3>1 DEF Eligible, PredecessorFinished, RepoInv, MapsOK, Indexed
    <3>3. Order!IsAt(p, old[id].chain, old[id].seq - 1)
      BY <1>3, <3>2 DEF Order!IsAt, old
    <3>4. old[p].phase = "done" \/ (~old[p].strict /\ old[p].phase = "failed")
      BY <1>3, <3>2 DEF PredFinished, PhaseOf, DLQStatus, ContinueModes
    <3>5. Order!LetsGo(p)
      BY <3>4 DEF Order!LetsGo, old
    <3> QED BY <1>3, <3>2, <3>3, <3>5 DEF Order!Startable, old
  <2> QED BY <2>1, <2>2
<1> QED BY <1>2, <1>3, <1>6, <1>8, <1>9, Order!StartByParts DEF old, new

\* A claim is good, and it is a start of OrderedChain.
LEMMA WorkerClaimsGood ==
    ASSUME SysInv, NEW w \in Worker, WorkerClaims(w)
    PROVE  Good
<1>1. PICK id \in DOMAIN jobs : ClaimJob(w, id) /\ JobClaimed(w, id, jobs'[id])
  BY DEF WorkerClaims
<1>2. Claims(w, id) /\ Eligible(id)
  BY <1>1, ClaimEffect DEF WorkerClaims, ClaimJob
<1>3. Final
  BY <1>2 DEF Claims, Final
<1> QED BY <1>2, <1>3, ClaimKeepsSysInv, ClaimKeepsBudget, ClaimKeepsPromotion, ClaimStarts DEF Good

-----------------------------------------------------------------------------
(* The system                                                                  *)

\* The invariant, and what it takes to keep it, hold of every step.
LEMMA NextGood ==
    ASSUME SysInv, Next
    PROVE  Good
<1>1. ASSUME NEW w \in Worker, WorkerProgress(w) PROVE Good
  BY <1>1, HandlerEndsGood, WorkerCompletesGood, WorkerRequestsCancelGood, WorkerFailsGood,
     WorkerPromotesGood, WorkerRetriesGood DEF WorkerProgress
<1>2. ASSUME NEW w \in Worker, WorkerClaims(w) \/ WorkerFindsNothing(w) \/ WorkerLeaves(w)
      PROVE  Good
  BY <1>2, WorkerClaimsGood, EngineStepGood, WorkerLeavesGood
<1>3. ASSUME NEW b \in beats, HeartbeatTick(b) \/ HeartbeatEnds(b) PROVE Good
  BY <1>3, HeartbeatTickGood, EngineStepGood
<1>4. ASSUME NEW e \in EngineId, RecoveryTick(e) \/ EngineStep(e) PROVE Good
  BY <1>4, RecoveryTickGood, EngineStepGood
<1>5. ASSUME NEW id \in JobId, JobBecomesDue(id) \/ LeaseLapses(id) \/ LeaseRunsOut(id)
      PROVE  Good
  BY <1>5, TimeGood
<1>6. ASSUME NEW req1 \in Requests, NEW req2 \in Requests,
             EngineEnqueueBatch(req1, req2) \/ BatchEnqueueParallel(req1, req2)
      PROVE  Good
  BY <1>6, ProducerGood
<1>7. ASSUME NEW req \in Requests, EngineEnqueue(req) PROVE Good
  BY <1>7, ProducerGood
<1> QED BY <1>1, <1>2, <1>3, <1>4, <1>5, <1>6, <1>7, OperatorGood DEF Next

\* A stuttering step changes nothing the invariants speak of.
LEMMA StutterGood ==
    ASSUME UNCHANGED vars
    PROVE  /\ SysInv => SysInv'
           /\ BudgetKept => BudgetKept'
           /\ NoLostPromotion => NoLostPromotion'
<1>1. /\ UNCHANGED <<jobs, chain, issued, phase, recovery, pc, held, beats, notify, pauses>>
  BY DEF vars
<1>2. SysInv => SysInv'
  BY <1>1 DEF SysInv, RepoInv, EngineTyped, EngineSound, ClaimSound, ProcessingHasHolder, NobodyRobbed,
     AtWork, Owns, HeldId, HeldGen
<1>3. BudgetKept => BudgetKept'
  BY <1>1 DEF BudgetKept, Disturbed
<1>4. NoLostPromotion => NoLostPromotion'
  BY <1>1 DEF NoLostPromotion, FailedUnpromoted, PredecessorFinished
<1> QED BY <1>2, <1>3, <1>4

\* Empty repository, engines not started.
LEMMA InitGood == Init => SysInv /\ BudgetKept /\ NoLostPromotion
<1> SUFFICES ASSUME Init PROVE SysInv /\ BudgetKept /\ NoLostPromotion
  OBVIOUS
<1>1. RepoInv /\ DOMAIN jobs = {} /\ issued = {} /\ IsFiniteSet(issued)
  BY RepoInitInv, FS_EmptySet DEF Init, RepoInit, EmptyMap
<1>2. EngineTyped
  <2>1. 0 \in 0 .. NotifyCap /\ 0 \in 0 .. MaxPauses
    <3>1. NotifyCap \in Nat /\ MaxPauses \in Nat
      BY EngineAssumption, SystemAssumption
    <3> QED BY <3>1
  <2> QED BY <2>1 DEF Init, EngineInit, EngineTyped, EngineSound, PC, Gone
<1>3. \A w \in Worker : pc[w] = "off"
  BY DEF Init, EngineInit
<1>4. (\A w \in Worker : ClaimSound(w)) /\ NobodyRobbed
  BY <1>3 DEF ClaimSound, NobodyRobbed, Busy, Holding
<1> QED BY <1>1, <1>2, <1>4 DEF SysInv, ProcessingHasHolder, BudgetKept, NoLostPromotion

\* The inductive invariant holds of every behaviour.
LEMMA InvHolds == Spec => []SysInv
<1>1. SysInv /\ [Next]_vars => SysInv'
  <2> SUFFICES ASSUME SysInv, [Next]_vars PROVE SysInv'
    OBVIOUS
  <2>1. CASE Next
    BY <2>1, NextGood DEF Good
  <2>2. CASE UNCHANGED vars
    BY <2>2, StutterGood
  <2> QED BY <2>1, <2>2
<1> QED BY <1>1, InitGood, PTL DEF Spec

-----------------------------------------------------------------------------
(* What follows                                                                *)

\* Engine and repository state always has its types.
THEOREM SystemTypeHolds == Spec => []TypeOK
<1>1. SysInv => TypeOK
  BY DEF SysInv, EngineTyped, EngineSound, ClaimSound, Busy, TypeOK, RepoInv, MapsOK, MapsTyped, RepoTypeOK
<1> QED BY <1>1, InvHolds, PTL

\* A job is PROCESSING only in the hands of a live worker or in the name of one that a
\* panic ended: no return path and no shutdown drops a claimed job.
THEOREM ProcessingHasHolderHolds == Spec => []ProcessingHasHolder
<1>1. SysInv => ProcessingHasHolder
  BY DEF SysInv
<1> QED BY <1>1, InvHolds, PTL

\* Two workers are at work on one chain only after a lease ran out under a live worker, for
\* any number of engines and workers and every operator command.
THEOREM OverlapNeedsPauseHolds == Spec => []OverlapNeedsPause
<1>1. SysInv => OverlapNeedsPause
  <2> SUFFICES ASSUME SysInv, pauses = 0, NEW v \in Worker, NEW w \in Worker,
                      pc[v] \in Holding, pc[w] \in Holding,
                      held[v].job.chain = held[w].job.chain
               PROVE  v = w
    BY DEF OverlapNeedsPause
  <2>1. ASSUME NEW u \in Worker, pc[u] \in Holding
        PROVE  /\ HeldId(u) \in DOMAIN jobs /\ jobs[HeldId(u)].worker = u
               /\ jobs[HeldId(u)].status = "PROCESSING"
               /\ jobs[HeldId(u)].chain = held[u].job.chain
    <3>1. AtWork(u, HeldId(u)) /\ jobs[HeldId(u)].status = "PROCESSING"
      BY <2>1 DEF SysInv, NobodyRobbed
    <3>2. HeldId(u) \in DOMAIN jobs /\ jobs[HeldId(u)].worker = u
      BY <3>1 DEF AtWork, Owns
    <3>3. SameJob(jobs[HeldId(u)], held[u].job)
      BY <2>1, <3>2 DEF SysInv, ClaimSound, Busy
    <3> QED BY <3>1, <3>2, <3>3 DEF SameJob
  <2>2. HeldId(v) = HeldId(w)
    BY <2>1 DEF SysInv, RepoInv, MapsOK, Mutex
  <2> QED BY <2>1, <2>2
<1> QED BY <1>1, InvHolds, PTL

\* A BLOCKED job always waits for something: every completion, skip, late enqueue and
\* failure that lets the chain go on promotes what is behind it or is about to, but for
\* the two failures that never come to PromoteNext.
THEOREM NoLostPromotionHolds == Spec => []NoLostPromotion
<1>1. SysInv /\ NoLostPromotion /\ [Next]_vars => NoLostPromotion'
  <2> SUFFICES ASSUME SysInv, NoLostPromotion, [Next]_vars PROVE NoLostPromotion'
    OBVIOUS
  <2>1. CASE Next
    BY <2>1, NextGood DEF Good
  <2>2. CASE UNCHANGED vars
    BY <2>2, StutterGood
  <2> QED BY <2>1, <2>2
<1> QED BY <1>1, InvHolds, InitGood, PTL DEF Spec

\* While no lease ran out under a live worker and no worker died, no job is attempted more
\* often than it and the retry policy allow.  Both must allow one attempt: the first claim
\* is made without asking.
THEOREM AttemptsWithinBudgetHolds ==
    ASSUME BudgetsPositive
    PROVE  Spec => []AttemptsWithinBudget
<1>1. SysInv /\ BudgetKept /\ [Next]_vars => BudgetKept'
  <2> SUFFICES ASSUME SysInv, BudgetKept, [Next]_vars PROVE BudgetKept'
    OBVIOUS
  <2>1. CASE Next
    BY <2>1, NextGood DEF Good
  <2>2. CASE UNCHANGED vars
    BY <2>2, StutterGood
  <2> QED BY <2>1, <2>2
<1>2. SysInv /\ BudgetKept => AttemptsWithinBudget
  BY DEF SysInv, EngineTyped, EngineSound, BudgetKept, Disturbed, AttemptsWithinBudget
<1> QED BY <1>1, <1>2, InvHolds, InitGood, PTL DEF Spec

\* A COMPLETED job stays COMPLETED through late reports, recovery and every command.
THEOREM SystemCompletedIsFinal == Spec => CompletedIsFinal
<1>1. SysInv /\ [Next]_vars =>
         [\A id \in DOMAIN jobs : jobs[id].status = "COMPLETED" =>
             id \in DOMAIN jobs' /\ jobs'[id].status = "COMPLETED"]_vars
  BY NextGood DEF Good, Final
<1> QED BY <1>1, InvHolds, PTL DEF Spec, CompletedIsFinal

\* The two instances of OrderedChain are the same module with the same substitution.
LEMMA SamePromise == (Order!Init <=> Contract!Init) /\ (Order!Next <=> Contract!Next)
<1>1. Order!Init <=> Contract!Init
  BY DEF Order!Init, Contract!Init
<1>2. Order!Next <=> Contract!Next
  BY DEF Contract!Next, Order!Next, Contract!Accept, Order!Accept, Contract!Start, Order!Start,
         Contract!Fail, Order!Fail, Contract!Cancel, Order!Cancel, Contract!Finish, Order!Finish,
         Contract!Return, Order!Return, Contract!Remove, Order!Remove, Contract!IsAt, Order!IsAt,
         Contract!LetsGo, Order!LetsGo, Contract!JobView, Order!JobView, Contract!Phase, Order!Phase
<1> QED BY <1>1, <1>2

\* Engines and repository together implement OrderedChain: every step is one of the
\* promised ones or changes nothing the promise speaks of.
THEOREM SystemRefinementHolds == Spec => ImplementsOrderedChain
<1>1. Init => Contract!Init
  <2>1. ASSUME Init PROVE ChainView(jobs) = [i \in {} |-> i]
    BY <2>1 DEF Init, RepoInit, EmptyMap, ChainView
  <2> QED BY <2>1 DEF Contract!Init
<1>2. SysInv /\ [Next]_vars => [Contract!Next]_(ChainView(jobs))
  <2> SUFFICES ASSUME SysInv, [Next]_vars PROVE Contract!Next \/ UNCHANGED ChainView(jobs)
    OBVIOUS
  <2>1. CASE Next
    BY <2>1, NextGood, SamePromise DEF Good
  <2>2. CASE UNCHANGED vars
    BY <2>2 DEF vars
  <2> QED BY <2>1, <2>2
<1> QED BY <1>1, <1>2, InvHolds, PTL DEF Spec, ImplementsOrderedChain, Contract!Spec

\* Unless the dead letter queue is purged, a job that was ever claimed has its predecessor
\* in the index, and a strict one is COMPLETED.
THEOREM SystemStrictFIFOHolds == Spec => []StrictFIFO
<1>1. CASE "bulkPurge" \in Commands
  <2>1. StrictFIFO
    BY <1>1 DEF StrictFIFO
  <2> QED BY <2>1, PTL
<1>2. CASE "bulkPurge" \notin Commands
  <2>1. Order!Spec => [](Order!StartedPrefix /\ Order!StrictOrder)
    BY <1>2, Order!StrictOrderHolds
  <2>2. Contract!Spec => Order!Spec
    BY SamePromise, PTL DEF Contract!Spec, Order!Spec
  <2>3. SysInv /\ Order!StartedPrefix /\ Order!StrictOrder => StrictFIFO
    <3> SUFFICES ASSUME SysInv, Order!StartedPrefix, Order!StrictOrder,
                        NEW id \in DOMAIN jobs, jobs[id].gen > 0, jobs[id].seq > 1
                 PROVE  /\ jobs[id].seq - 1 \in DOMAIN chain[jobs[id].chain]
                        /\ LET p == chain[jobs[id].chain][jobs[id].seq - 1]
                           IN jobs[p].mode = "strict" => jobs[p].status = "COMPLETED"
      BY DEF StrictFIFO
    <3> DEFINE v == ChainView(jobs)
    <3>1. /\ jobs \in [DOMAIN jobs -> Job] /\ jobs[id].seq \in Int
          /\ Indexed(jobs, chain)
      BY JobOf DEF SysInv, RepoInv, MapsOK, MapsTyped, Job
    <3>2. /\ DOMAIN v = DOMAIN jobs
          /\ \A k \in DOMAIN jobs : /\ v[k].chain = jobs[k].chain /\ v[k].seq = jobs[k].seq
                                    /\ v[k].strict = (jobs[k].mode = "strict")
                                    /\ v[k].phase = PhaseOf(jobs[k].status)
                                    /\ v[k].token = jobs[k].gen
      BY <3>1, ViewFacts
    <3> HIDE DEF v
    <3>3. jobs[id].seq - 1 \in 1 .. v[id].seq - 1
      BY <3>1, <3>2
    <3>4. PICK p \in DOMAIN jobs : jobs[p].chain = jobs[id].chain /\ jobs[p].seq = jobs[id].seq - 1
      <4>1. \E p \in DOMAIN v : Order!IsAt(p, v[id].chain, jobs[id].seq - 1)
        BY <3>2, <3>3 DEF Order!StartedPrefix, v
      <4> QED BY <3>2, <4>1 DEF Order!IsAt, v
    <3>5. jobs[id].seq - 1 \in DOMAIN chain[jobs[id].chain]
          /\ chain[jobs[id].chain][jobs[id].seq - 1] = p
      BY <3>1, <3>4 DEF Indexed
    <3>6. ASSUME jobs[p].mode = "strict" PROVE jobs[p].status = "COMPLETED"
      <4>1. Order!StrictBetween(v[p].chain, v[p].seq, v[id].seq)
        <5>1. \A k \in v[p].seq .. v[id].seq - 1 : k = v[p].seq
          BY <3>1, <3>2, <3>4
        <5>2. Order!IsAt(p, v[p].chain, v[p].seq)
          BY <3>2 DEF Order!IsAt, v
        <5> QED BY <3>2, <3>6, <5>1, <5>2 DEF Order!StrictBetween, v
      <4>2. 1 <= v[p].seq /\ v[p].seq < v[id].seq
        BY <3>1, <3>2, <3>4
      <4>3. v[p].phase = "done"
        BY <3>2, <3>4, <4>1, <4>2 DEF Order!StrictOrder, v
      <4> QED BY <3>2, <4>3 DEF PhaseOf, DLQStatus
    <3> QED BY <3>5, <3>6
  <2> QED BY <2>1, <2>2, <2>3, InvHolds, SystemRefinementHolds, PTL DEF ImplementsOrderedChain
<1> QED BY <1>1, <1>2
=============================================================================
