# A verification project for orderedjob

TLA+ models of the ordered job engine in `src/` on each of its three repositories, the
TLC configurations that check them on small instances, an abstract specification of what
a repository promises, and TLAPS proofs about that promise, about the three
repositories and about engines on the in-memory and the PostgreSQL one. Every definition is
translated from the Go source (and the SQL in it); `PROJECT.json` maps each one to the lines it stands for.

## 1. The system

orderedjob runs *chains* of jobs. A chain is a list of jobs with sequence numbers 1, 2,
3, ...; job n+1 may run only after job n has finished, while different chains run in
parallel. A library user creates an `Engine` on a `Repository`, registers handlers by
job type, and enqueues requests.

### Inventory

| Component | State it keeps | Operations | Correct when |
| --- | --- | --- | --- |
| Lifecycle (`lifecycle/state.go`, `job.go`) | none: statuses, ordering modes, records | `IsTerminal`, `CanBeClaimed`, transition table | - |
| In-memory repository (`repository/memory`) | job map, per-chain index, one mutex | `Enqueue`, `EnqueueBatch`, `Claim`, `Complete`, `Fail`, `Retry`, `Heartbeat`, `RequestCancel`, `ConfirmCancel`, `PromoteNext`, `RecoverStale`, replay, skip, reschedule, bulk DLQ commands | one job of a chain at a time; index and map agree; keys unique; numbers dense |
| PostgreSQL repository (`repository/postgres`) | table `ordered_jobs`; open transactions; row and advisory locks | the same interface in SQL | numbers and keys safe under concurrent transactions; order kept without a chain lock in `Claim` |
| SQL Server repository (`repository/sqlserver`) | the same table, application locks (`sp_getapplock`), `READPAST` and `NOLOCK` hints | the same interface, most of it as several statements | as PostgreSQL, and order kept in spite of dirty reads |
| Engine (`engine.go`) | worker goroutines, one heartbeat goroutine per claimed job, recovery loop, `notifyCh`, context | `Start`, `Shutdown`, `Enqueue`, `EnqueueBatch`, `NotifyChain`, the loops | order, no overlap, no lost job, no lost promotion, attempts bounded, every job settles |
| Batch helpers (`rill_helpers.go`) | none | `BatchEnqueueParallel` | the order inside a chain is kept |
| Retry policy (`retry/policy.go`) | none | `ShouldRetry`, `Backoff` | attempts end; delay within its cap |
| Handler registry (`handler.go`) | type -> handler | `Register`, `MustGet`, typed decoding | a missing handler is a terminal failure |
| Events, webhooks (`events.go`, `webhook.go`) | listeners | callbacks on DLQ events | a listener does not disturb the engine |
| Dashboard and its authentication (`ui/`) | sessions | HTTP commands that become operator commands | - |
| Observability, clock, façades, migrations, example | none that matters here | - | - |

### How the parts interact

A worker wakes by its poll ticker or a token in `notifyCh`, calls `Claim`, starts a
heartbeat goroutine, runs the handler under a panic guard, stops the heartbeat and reports
the result: `Complete` (which promotes the successor in the same call), or `Fail` followed,
in the two modes that go on past a failure, by a *separate* `PromoteNext`, or `Retry`. A
handler error that is a cancellation first causes `RequestCancel`. The recovery loop
calls `RecoverStale` for leases that ran out. Operators act on the repository at any
time, past the engine. Several engines may share a repository.

### What is hard

* A job's owner is identified by worker name and lease generation only; a worker that
  lost its lease goes on and reports late.
* `Fail` and `PromoteNext` are two calls; everything may happen between them: a listener
  panics, the engine shuts down, the second call fails.
* Operators take finished jobs back (`ReplayJob`) while their successors run.
* Shutdown cancels the context of the reports that are still to come and stops
  heartbeats first: a lease can run out under a worker that is still busy, and a
  repository that honours the context refuses the report.
* A call to a database can fail, and it can take effect and lose its answer: a `Claim`
  nobody knows of, a `Complete` that the engine takes for failed.
* Panics in user callbacks end goroutines for good.
* In PostgreSQL each statement sees its own snapshot: what `Enqueue` read about the
  predecessor may be old when the new row becomes visible.
* In SQL Server `Claim` reads uncommitted rows, and `RecoverStale` and `BulkSkipDLQ`
  select first and update later.

`PROJECT.json` lists these as hazards, each at its line and with the properties aimed at it.

## 2. Modules

| Module | Models | Used by |
| --- | --- | --- |
| `Lifecycle` | statuses, modes, `IsTerminal`, `CanBeClaimed` | all |
| `Jobs` | `Job`, `EnqueueRequest`, maps; `ChainView`, the mapping to `OrderedChain` | all |
| `OrderedChain` | abstract: what every repository promises | `MemorySystem`, `PostgresRepo`, `SqlServerRepo`, `OrderedChainProofs` |
| `MemoryRepo` | `repository/memory/repository.go` | `MemorySystem`, `MemoryRepoProofs`, `MCMemoryRepo` |
| `SqlTable` | the table, transactions, row and named locks, as both SQL repositories use them | `PostgresRepo`, `SqlServerRepo` |
| `PostgresRepo` | `repository/postgres/repository.go` | `PostgresSystem`, `MCPostgresRepo` |
| `SqlServerRepo` | `repository/sqlserver/repository.go` | `MCSqlServerRepo` |
| `Engine` | `engine.go`, `ShouldRetry` | the two systems, `EngineProofs` |
| `MemorySystem` | engines, batch helper and in-memory repository | `MemorySystemProofs`, `MCMemorySystem` |
| `PostgresSystem` | engines and PostgreSQL repository, with calls that fail | `PostgresSystemProofs`, `MCPostgresSystem` |
| `OrderedChainProofs` | theorems about the promise; lemmas that recognise its steps | the SQL proofs, `MemorySystemProofs`, `PostgresSystemProofs` |
| `SqlTableProofs` | lemmas: what the shapes of SQL steps keep of the table | the SQL proofs |
| `MemoryRepoProofs` | theorems about the in-memory repository under any calls | `MemorySystemProofs` |
| `EngineProofs` | lemmas: what the engine's steps keep of its state, whatever repository they call | `MemorySystemProofs`, `PostgresSystemProofs` |
| `MemorySystemProofs` | theorems about engines on the in-memory repository | - |
| `PostgresRepoProofs`, `SqlServerRepoProofs` | theorems about the SQL repositories | `PostgresSystemProofs` (the first) |
| `PostgresSystemProofs` | theorems about engines on the PostgreSQL repository | - |
| `MC*` | instances: request sets, command sets, symmetry | the `.cfg` files |

**MemoryRepo.** Every Go method holds `r.mu` throughout, so each is one action on `jobs`
(`r.jobs`) and `chain` (`r.chain`). An error return leaves the maps alone and is no step. A
batch is two requests; the second runs on the maps the first left, and an error restores both.
`ChainBusy` is the double-check in `Claim`. The order in which `Claim` prefers candidates
(`available_at`, `created_at`) is left open: the model returns any of them. In
`RepoSpec` any worker may repeat any call its fencing token admits, at any time, so
what holds there does not depend on the engine's discipline.

**Engine.** `pc[w]` is the call a worker makes next; other goroutines run between any two
calls. `held[w]` is the value `Claim` returned, as stale as the code's copy. Handlers
are a nondeterministic outcome: success, an error (cancel or not, retryable or not), or
a panic, which the configured policy turns into a result, an error, or the end of the
goroutine. `beats` are heartbeat goroutines, `notify` counts the tokens in the channel.
`CtxAware` says whether the repository honours the context that `Shutdown` cancels: the
in-memory one does not.

**MemorySystem** joins each engine step with the repository action it calls, e.g.
`WorkerCompletes` is `Complete` or its lease conflict. `pauses` counts leases that ran
out while their worker was at work; it separates what holds always from what
holds while workers keep their leases.

**SqlTable, PostgresRepo.** `table` is what is committed, `tx[s]` the open transaction of a
connection: its named locks, its uncommitted rows and the statement that comes next.
A row in some `writes` is locked. `Enqueue` and `EnqueueBatch` are lock, number,
insert and commit; `Complete`, `SkipJob` and `BulkSkipDLQ` are one or two statements and a
commit; a transaction whose effect is one statement is one action. `Rollback` may end a
transaction at any time. In PostgreSQL `Complete`'s two statements are one step: between them it
has changed nothing another session can see, and a row that commits in between is seen by
the second statement, as if it had committed before both. Workers may repeat any call its fencing
admits. `LateConfirms` says whether they also call `ConfirmCancel` when no cancel is requested, which its
WHERE clause does not refuse: `pg_numbering` lets them, the other runs do not. `Claim`'s subquery on the
predecessor and its row lock are one step as well: a predecessor that changes between the
two is one in a mode that goes on past failure, for which overlap is reachable anyhow, since
a strict predecessor that is COMPLETED stays so.

**SqlServerRepo** takes the same table statement by statement, because its statements
interfere: the status of a new job is read in a statement of its own, completion and
promotion are two updates, `RecoverStale` and `BulkSkipDLQ` select and then update, each
recovered job in an update of its own that may fail. So does `BulkSkipDLQ` with its promotions, but
ignores what they return (`PromotionFails`). `READPAST` skips
locked rows; `NOLOCK` (`Dirty`) returns the newest version of each row, committed or not.
`distinctChains` sorts, so chain ids are integers here.

**PostgresSystem** gives each worker a session of its own (it has at most one transaction
open) and leaves the others to producers and operators. A call answers, is refused because
the context is cancelled, or breaks, in which case it may have taken effect or not
(`Answers`, `Refused`, `Breaks`). `MaxMishaps` bounds faults and pauses together. Producers enqueue singly or in batches,
`notifyCh` is filled and drained as in memory, user callbacks may panic, and a `RecoverStale` may commit
and lose its answer; `Operations` and `UserPanics` choose what a run lets the environment do.

**OrderedChain** knows jobs in numbered places of chains that wait, run, fail, are
cancelled or done, and a token that counts starts. A start waits for the job before; what is done stays done;
only failed jobs can be purged. `Guarded` is the full promise: a start
waits until the job before is done, or failed in a mode that goes on, and only a job that has
run is declared done. Without it a start still waits for a strict job. The refinement mapping
`ChainView` forgets leases, attempts, workers and the difference between BLOCKED, PENDING
and RETRYING; the token is `lease_generation`. It is checked as `ImplementsOrderedChain`:

* engines with the in-memory repository: guarded. The repository *alone* does not keep it: its fence ignores
  the status, so a second report of one claim takes a COMPLETED job back; the engine
  reports each claim once.
* PostgreSQL, repository alone: guarded, for callers that confirm a cancel only while it is
  requested (`LateConfirms = FALSE`). The UPDATE of `ConfirmCancel` does not look at the status, so any
  other caller can take a COMPLETED job to CANCELLED. Engines never call it.
* SQL Server, repository alone: unguarded. `Claim` may start a job on an uncommitted
  failure or skip of a predecessor in a mode that goes on, and `SkipJob` declares a
  job done that has never run. With `bulkSkip` it keeps neither (`sq_dirty`).

**Time** is what the code compares it with: `available_at` is due or later, `lease_until`
is nil, live or expired. Payloads, tenants, traces, error texts, audit timestamps,
metrics and logging are left out: no decision reads them (a tenant or trace in a DLQ filter
is modelled by letting a filter match any set of jobs).

## 3. Runs

Bounds are constants: `MaxGen` (times a job's generation is raised), `MaxPauses`,
`MaxMishaps`, the sets `JobId`, `Worker`, `Session`, and the number of requests in a batch,
two. Deadlock checking is off: when all ids are used and all jobs are terminal the system may stop.

| Run | Instance | Shows |
| --- | --- | --- |
| `repo` | in-memory repository: 3 jobs, 2 chains, 1 worker, every command, three modes, repeated key, explicit and negative numbers, a missing chain id, batches that fail half way | `RepoTypeOK`, `ChainMutex`, `IndexConsistent`, `UniqueIdempotencyKey`, `DenseSequences` |
| `system_mixed` | 1 engine, 2 workers; strict, skip-on-failure and unhandled jobs in one chain; replay and skip; a listener that may panic; one pause | `OverlapNeedsPause`, `NoLostPromotion`, `AttemptsWithinBudget`, `StrictFIFO`, `CompletedIsFinal`, `ImplementsOrderedChain` |
| `system_shutdown` | 2 engines that may shut down, one pause | `OverlapNeedsPause`, `ProcessingHasHolder`, `CompletedIsFinal` |
| `system_live` | fair scheduling; panic handler and listeners that may panic, DLQ threshold 1, notifications, one pause, 5 claims per job | `TypeOK`, `EveryJobSettles` |
| `pg_numbering` | 2 sessions, 3 jobs, 2 chains, one key, explicit numbers, purges, batches in any lock order, late confirmations | `PgTypeOK`, `NumberStaysFree`, `KeyUniqueInChain` |
| `pg_chain` | 2 sessions, 2 jobs, 1 chain, every command but the purge, cancels confirmed only when requested, 2 claims per job | `StrictFIFO`, `StrictChainMutex`, `CompletedIsFinal`, `ImplementsOrderedChain` |
| `pg_system` | fair scheduling; 2 engines, one of which may shut down, a batch of a skip-on-failure and an unhandled strict job, one fault or pause, 4 claims per job | `TypeOK`, `OverlapNeedsPause`, `LateReportIsFenced`, `EveryJobSettles` |
| `pg_engine` | fair scheduling; 1 engine, 2 workers; single enqueues, notifications, DLQ threshold 1, panic handlers and listeners that may panic, skip command, one fault or pause, 4 claims per job | `OverlapNeedsPause`, `LateReportIsFenced`, `EveryJobSettles` |
| `sq_numbering` | 2 sessions, 2 jobs, 2 chains, one key, explicit numbers, rejected requests, cancel, reschedule and bulk replay/skip, promotions of a bulk skip that fail | `SqTypeOK`, `NumberStaysFree`, `NoLockCycle`, `KeyUniqueInChain` |
| `sq_chain` | 2 sessions, 2 jobs, 1 chain, strict and dead-letter-and-continue, skip, replay and purge, generations up to 2 | `StrictFIFO`, `LiveLeaseKept`, `CompletedIsFinal`, `ImplementsOrderedChain` |
| `pg_promotion`, `sq_dirty` | smallest instance of each | a documented statement the code does not keep (section 6) |

Why the bounds are enough for what is asked: order and exclusion are relations between
neighbours of a chain, so two jobs show their violations, and three are used where a hole
or a third number matters. Two claims per job let a stale worker meet a second claim. One pause
suffices for every two-worker overlap; two engines or sessions give every pairwise
interleaving. In `system_live` no job needs the fifth claim and in the other fair runs none needs the
last, so `MaxGen` does not stop progress. The mutants in `PROJECT.json` (a dropped guard,
a missing promotion, an unfenced report, a forgotten lock, an update that trusts what was
read, ...) are all caught within these bounds.

**Fairness** (`FairSpec`) is weak fairness of: engine start; a worker's claim (its ticker
fires for ever, and the code's poll loop claims whenever there is a candidate) and of its
remaining steps (goroutines are scheduled, handlers return, repository calls return); the
recovery loop (its own ticker); time (backoffs and leases without an owner run out). In
`PostgresSystem` open transactions end, and a worker's remaining steps are strongly fair: a
statement that waits for a row lock is queued by the server and gets it, however
often another session takes the row first. Nothing is assumed fair about producers,
operators, heartbeats, faults, shutdown, or `notifyCh`, whose tokens may be lost.

**What EveryJobSettles leaves open.** In `MemorySystem` it allows for all workers, or the recovery
loop, having died, which panicking callbacks can bring about, and for a failure on a path
that never promotes (`FailedUnpromoted`). In `PostgresSystem` a worker and the recovery loop of an engine that
is not shut down survive; a failure may lack its promotion after a fault, a shutdown or a panic
(`MayLackPromotion`); and no job is enqueued while its predecessor ends (`EnqueuedTooLate`), because
such a job can stay BLOCKED for ever (`pg_promotion`). No such moment exists for the jobs of one batch (`pg_system`).
Single enqueues (`pg_engine`) meet it, and the behaviours in which they do are left out, for this property only.
No run exercises the limit of `RecoverStale`: with two workers it binds only when both are dead or
paused. The theorems hold for every limit.

## 4. Proofs

`MemoryRepoProofs` proves, for any number of jobs, chains, keys, workers and requests and
any bounds, from the assumptions named in `Jobs` and `MemoryRepo` (requests are typed,
bounds are naturals, the "no value" markers are not values):

* `RepoInvariant`: `RepoSpec => []RepoInv`
* `ChainMutexHolds`, `IndexConsistentHolds`, `UniqueIdempotencyKeyHolds`,
  `RepoTypeCorrect`, which follow from it;
* `DenseSequencesHold`, with one part more.

*The argument.* `RepoInv` collects types, index consistency, key uniqueness, chain
exclusion, and a bound on every chain's sequence numbers. None of the parts is inductive
alone. Automatic numbering draws `getMaxSequence + 1`, and that this number is free needs
that a maximum exists, hence the bound (the model does not assume finite sets).
That an insertion keeps the index consistent needs that its number is free. Exclusion needs
the double-check in `Claim`: eligibility does not imply it, because a replayed job is
eligible while its successor runs. The step lemmas are grouped by what an action does to the
maps: an insertion (`InsertKeepsMaps`, which `EnqueueKeepsMaps` lifts to a request and the
batch applies twice), a rewriting of jobs that keeps chain, sequence and key
(`RewriteKeepsMaps`) and makes nothing PROCESSING (`NoClaimKeepsMutex`), a claim, and a purge.

`DenseSequences` says with a cardinality what is proved step by step as `NoHole`: below a
sequence that a chain has, it has every positive one. Automatic numbering and the gap check keep this, and so
does the rollback of a batch, which puts the index back. It holds until a purge only, and the property recognises
a purge by an issued id that is not stored any more; `NoHoleUnpurged` is the implication. That the positive
sequences are then `1 .. n` needs the maximum again, and that it is never negative:
`getMaxSequence` starts from 0, so that a chain of only negative numbers continues with 1.

`OrderedChainProofs` proves what the promise of `OrderedChain` is worth, for any sets of
ids and chains:

* `PlacesHold`: the promise is well typed and gives no place of a chain twice.
* `StrictOrderHolds`, assuming `Guarded` and no purges: when a job has run, every job
  before it with only strict jobs from there on is done; with it no two jobs of a strict
  stretch run at once, and nothing starts behind a hole.
* `StrictPredecessorHolds`, assuming no purges only: the strict job just before one that
  has run is done.

*The argument.* `StrictOrder` is about any two jobs of a chain, while a start looks only at the job just
before. From a start, order at a distance follows from order up to that neighbour,
which must have run itself: so the invariant `OrderInv` adds that what has ended has run, that
a job that has run has in every place before it a job that has run (`StartedPrefix`), and that
places are unique (the neighbour that let it go is the one the stretch is about). `StartedPrefix`
also shows that an accepted job cannot slip in front of one that has run. Without the guard
a skipped job may end without having run; then only the neighbour is left, and
`PredecessorInv` replaces the prefix by "what has run has a predecessor". Purges are excluded
because they make holes that a later request fills again.

### Engines on the in-memory repository

`MemorySystemProofs` proves, for any number of engines, workers, jobs, chains, keys, requests and
any set of commands, claims and pauses, from the assumptions named in `Jobs`, `MemoryRepo`,
`Engine` and `MemorySystem`: `SystemTypeHolds`, `OverlapNeedsPauseHolds`, `ProcessingHasHolderHolds`,
`NoLostPromotionHolds`, `AttemptsWithinBudgetHolds`, `SystemCompletedIsFinal`,
`SystemRefinementHolds` (guarded) and `SystemStrictFIFOHolds`. One more assumption,
`BudgetsPositive`, is made for the attempts only: the policy, the default and every request allow one
attempt, because `tryClaimAndExecute` asks `ShouldRetry` after an attempt and nobody asks before the first.

*The argument.* The inductive invariant is `SysInv`. To `RepoInv` and the types it adds

* `JobSound`: no job is ever CANCELLED (no code confirms a cancel), and a job has a status that follows
  a claim only after one;
* `ClaimSound`: what a worker holds is not ahead of the record, and while its claim is the
  one on record the job is still PROCESSING, RETRYING (after a recovery) or CANCEL_REQUESTED. A claim is
  reported once. This is what the repository alone lacks, and why a late report cannot take a
  COMPLETED job back although the fence does not look at the status;
* `ProcessingHasHolder`, which needs `ClaimSound` for the worker that goes back to idle;
* `NobodyRobbed`: before the first pause every worker at work owns a PROCESSING job with a live
  lease. With `ChainMutex` from `RepoInv` it gives `OverlapNeedsPause`.

Every step but a claim has one shape, `Moved`: workers stay, go on with their job or are done with it
(`WorkerMove`), jobs keep identity and claim (`Kept`) or are purged, new jobs are new to every
worker (`Added`). That `Moved` keeps `SysInv` is proved once (`MovedKeepsInv`), the budget likewise;
`NoLostPromotion` needs in addition that the step makes its promotions (`Promotes`). Each action is then
shown to have the shape and to be a step of `OrderedChain`; a claim is treated on its own. The strict
order is `StrictOrderHolds` carried over along the refinement.

### The SQL repositories

`SqlTableProofs`, `PostgresRepoProofs` and `SqlServerRepoProofs` prove, for any number of jobs,
chains, keys, sessions, workers and requests and any bounds, from the assumptions named in
`Jobs`, `SqlTable`, `PostgresRepo` and `SqlServerRepo` (as above; PostgreSQL's requests have a
chain id; SQL Server's chain ids are ordered as `sort.Strings` orders them). Theorems of PostgreSQL
marked with a star assume `~LateConfirms` besides: callers confirm a cancel only while it is requested.
The code does not see to that, and without it they are false (section 6):

| Theorem | PostgreSQL | SQL Server |
| --- | --- | --- |
| `TypeHolds`, `NumberStaysFreeHolds`, `KeyUniqueHolds` | every command | every command |
| `CompletedFinalHolds` | every command * | every command |
| `NoLockCycleHolds`, `LiveLeaseHolds` | - | every command |
| `RefinementHolds` (`ImplementsOrderedChain`) | guarded, every command * | unguarded, no purge, no bulk skip |
| `StrictFIFOHolds` | no purge * | no purge, no bulk skip |
| `StrictChainMutexHolds` | no purge * | - |

*The table* (`TableInv`, shared). A number is looked up in one statement and inserted in another, so
that it stays free is no fact about one action. The invariant says: what a transaction
enqueues lies in chains it has locked once it numbers (`Locking`); two transactions hold different
locks and write different rows (`Apart`); a transaction writes new jobs only in chains it
has locked, and otherwise jobs of the table under their own place and key (`WritesOwn`); what it has
found is free in what it sees (`FoundFree`). Hence another session that commits cannot take the
place: what it writes in a chain it has not locked is in the table already. A maximum exists
because sequences stay bounded (`Bounded`), as in memory. The lemmas take one shape of step each:
a session goes on, a statement rewrites or deletes unlocked rows, a commit, a lock, an insert.

*PostgreSQL* (`PgInv`). Added to `TableInv`: a job in a status that follows a claim has been
claimed, and an open transaction either inserts or completes claimed jobs and promotes BLOCKED ones
that are still as it saw them. Each action is then one of the steps of `OrderedChain`, which
`OrderedChainProofs` recognises by their parts (`StartByParts`, `FinishByParts`, ...): a
commit is a Finish or an Accept, everything before it a stutter. The order of strict jobs is not proved
again: `StrictOrderHolds` carries over along the refinement.

*SQL Server* (`SqInv`, `TurnInv`). `LockOrder`, what a batch holds comes before what it waits for,
excludes lock cycles. The order cannot rest on what `Claim` reads, which may be uncommitted.
`TurnInv` says instead that a job is held back (BLOCKED, or cancelled or skipped before it
ever ran) or has been *let go*: a committed row in the place before it is COMPLETED or in a mode
that goes on (`InTurn`); and that the rows of an open transaction are in turn with what it has
itself completed (`TxInTurn`), its promotions included. So a claimable row was let go by a
committed row, whatever the dirty read says. A row before place 1 stays PENDING and never
runs, which is why a dirty predecessor cannot start it. A list that `BulkSkipDLQ` selected may be out of
date, so it promotes past a job that it does not complete (`sq_dirty`); a purge removes the row
that let a job go, and an explicit sequence number may put an unfinished strict job in its place,
which a claim of the job after it then passes on an uncommitted completion. Both are excluded.

### Engines on the PostgreSQL repository

`PostgresSystemProofs` proves, for any number of engines, workers, sessions, jobs, chains, keys and
requests, any set of commands, claims, faults and pauses, single and batch enqueues, panics of user callbacks,
and any set of engines that may be shut down, from the assumptions named in `Jobs`, `SqlTable`, `PostgresRepo`, `Engine` and
`PostgresSystem` (workers have sessions of their own, the repository honours the context; nothing
is assumed about confirmations, since engines and operators make none):

* `OverlapNeedsPauseHolds`, `LateReportHolds`: the two safety properties of `pg_system`;
* `SystemRefinementHolds` (guarded, every command) and, carried over along it unless the DLQ
  is purged, `SystemOrderHolds` (`StrictFIFO`, `StrictChainMutex`);
* `SystemNumbersHold`, `SystemCompletedFinalHolds`, `SystemTypeHolds`.

*The argument.* In memory `ChainMutex` keeps workers apart. Here `Claim` never asks whether the chain is busy, and
a worker's view may differ from the record in both directions: a claim nobody knows
of, a completion whose worker thinks it failed. The inductive invariant is `SystemInv`. To `PgInv`, the types
and the finiteness of what has been issued (recovery sends one token per row, so the number of rows has to be one)
it adds

* `NobodyRobbed`: before the first pause the claim of every worker at work is the one on record
  (`OnRecord`) and secure, that is PROCESSING with a live lease, or to be cancelled. A heartbeat that fails does not end
  this: only the lease running out does, and that is a pause;
* `WorkerTx`: a worker's open transaction is the one of `Complete`, of a job it owns, and has written nothing
  else but BLOCKED rows. So no commit takes a job from another worker, and what is committed is still
  fenced, although the fence was read before: the row is locked since (`LateReportIsFenced`);
* `ClientTx`: the transaction of a producer or operator has written no row of a job at work;
* `FinishedPrefix`: every job before one that was claimed has let its successor go. It is what makes eligibility
  exclude overlap: of two jobs at work in a chain the first would have let the second go, but a
  job at work lets nobody go. A job that is taken back (replay) or removed (purge) breaks it, so
  it is claimed only for command sets without those (`Quiet`), as is `OverlapNeedsPause`.

A step changes the table by a call of one session and the engine by one goroutine. `TableStep(T, X)` says what
the call may do: the sessions of T go on, what other sessions have written stays, claims are kept but those on the jobs
of X. One lemma for each kind of statement shows this (`ClaimTable`, `ReportTable`, `BulkTable`,
`CommitTable`, ...), `EngineProofs` says which worker moves, and `StepGood` concludes for both together
what is kept; whether the answer arrives only decides where the worker goes.

*Only model-checked*: liveness (`EveryJobSettles`; fairness and ENABLED are out of the prover's
reach), and that the documented statements of section 6 fail. Every invariant and action property of a
passing run is stated by a theorem, with the assumptions on purges, bulk skips and confirmations named above.

## 5. What is not modelled

* Reads (`Get`, `GetStats`, `ListJobs`, `ListChains`, `AggregateChainStats`): no state changes.
* Dashboard pages, authentication, HTTP delivery of webhooks, metrics, tracing, the clock
  package (nobody uses it), façades, migrations, the example.
* `AllowedTransitions`, `IsValidTransition`, `BlockNext`: no code calls them.
* `Backoff`: only that a retry is due later. Its delays and jitter are read by no decision
  but "is it due".
* Configuration errors: a zero poll interval makes `NewTicker` panic in every worker
  (`engine.go:328`).
* The listener callbacks' effects, other than a panic.
* PostgreSQL: chains whose `hashtext` collide share an advisory lock; the model keeps them apart.
* SQL Server: shared locks of plain reads, which only delay, and engines on top of it
  (section 7).

## 6. Where documentation and code part

With a run (`findings` in `PROJECT.json`):

* `pg_promotion`: README.md:331 calls promotion atomic. In PostgreSQL an enqueue concurrent with its
  predecessor's `Complete` stays BLOCKED.
* `sq_dirty`: README.md:165 starts a job only after its predecessor is COMPLETED. In SQL Server
  `BulkSkipDLQ` promotes what it selected, also after a replay in between, and `Claim` then
  starts the successor on an uncommitted completion that may still be rolled back.

Met while modelling, without a run of their own:

* README.md:407 says recovery raises `lease_generation`. Only SQL Server does; in memory the worker
  that lost the job can still complete or fail it until it is claimed again.
* README.md:391 lets the worker confirm a cancel. No code calls `ConfirmCancel`; the job stays
  CANCEL_REQUESTED, where nothing claims it, and its chain stands still.
* README.md:394 makes COMPLETED final and README.md:391 confirms only what is CANCEL_REQUESTED. PostgreSQL's
  `ConfirmCancel` (`repository.go:478`) compares worker and generation and no status: a call that comes after
  `Complete` or `SkipJob` takes the row to CANCELLED. With `LateConfirms = TRUE` in `pg_chain.cfg` TLC finds
  `CompletedIsFinal`, and what depends on it, violated. (SQL Server's checks the status. The in-memory
  one does not either; it is one of the reports its fence lets through.)
* README.md:335 promotes the successor of a terminal skip-on-failure failure. The path for a missing
  handler (`engine.go:365`) does not; a listener that panics between `Fail` and `PromoteNext`
  (`engine.go:476`) ends the worker before it does; and a shutdown or a fault between the two calls
  (`engine.go:484`) has `PromoteNext` refused and its error ignored. Nothing promotes the job later.
* SQL Server's `BulkSkipDLQ` ignores the error of each promotion (`repository.go:1104`) and commits: a
  skipped job's successor can stay BLOCKED.
* PostgreSQL's `BulkSkipDLQ` updates what matches by then: a job that failed after the selection is
  completed, and its successor is not promoted (`repository.go:1075`).
* `engine.go:462` requests the cancel without a fencing token: a worker that lost its lease cancels the job that
  recovery has made RETRYING again.
* example/README.md:124 says Shutdown waits for running work. It waits for the goroutines, but
  `Complete` runs on the cancelled context (`engine.go:443`): a SQL job is left PROCESSING,
  recovered after its lease and run again.
* GUIDE.md:778 describes SkipJob for stopped jobs; SQL Server's also accepts BLOCKED ones.
* README.md:618 rules out deadlocks; PostgreSQL's batch locks its chains in the order of a Go map, so
  two batches may wait for each other until the server breaks the cycle.
* README.md:282 rejects negative sequences; every repository stores them and never claims them.
  `StrictFIFO` of the SQL repositories therefore speaks of places from 2 on: place 1 is claimed
  without a look at place 0.
* A purge of the DLQ leaves a hole in a chain, and the SQL repositories accept an explicit number
  that fills it: a strict job can then stand before one that has already run, and be claimed while a
  later one is running. `OverlapNeedsPause` of `PostgresSystem` excludes purges for this reason.
* `memory/repository.go:264` calls `Claim`'s double-check redundant; it is what `ChainMutex` rests on
  (its mutant drops it).
* GUIDE.md:40 bounds the attempts by `MaxAttempts`; recovery does not compare them, so a job that keeps
  losing its worker is attempted without bound. `AttemptsWithinBudget` states what does hold.
* `lifecycle/state.go:43` lists the valid edges; `Fail` goes from PROCESSING to DEAD_LETTERED, which
  is not one.
* PostgreSQL: `Enqueue` drops the ordering mode (README.md:418 allows one per request) and takes only a
  COMPLETED predecessor as finished; a batch makes no gap check (README.md:411); one
  key in two chains may be stored twice (README.md:412); in the modes that go on past a failure
  a replayed job and its successor may both be PROCESSING.

## 7. Plan

Done: lifecycle, in-memory repository with its proofs, engine, both compositions with the proofs of
their safety properties, both SQL repositories with their proofs, the abstract specification with
its proofs, all refinements with theirs.

1. Engines on `SqlServerRepo`: as `PostgresSystem`, with the worker's statements taken apart.
2. `Backoff` as an operator against its reference (doubling up to the cap, jitter within bounds).
3. Overlap on PostgreSQL after replays and purges: which jobs of a chain may then run at once.
