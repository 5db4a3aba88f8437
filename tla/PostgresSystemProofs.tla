------------------------- MODULE PostgresSystemProofs ------------------------
(***************************************************************************)
(* Proofs about engines on the PostgreSQL repository, for every set of     *)
(* jobs, chains, sessions, workers, engines, requests and commands, any    *)
(* number of broken calls and of leases that run out under a live worker.  *)
(***************************************************************************)
EXTENDS PostgresSystem, PostgresRepoProofs, EngineProofs, FiniteSetTheorems

-----------------------------------------------------------------------------
(* The inductive invariant                                                     *)

\* The statuses of a job that some worker is at work on.
Taken == {"PROCESSING", "CANCEL_REQUESTED"}

\* No operator makes a job claimable again that has let its successor go.
Quiet == Commands \cap {"replay", "bulkReplay", "bulkPurge"} = {}

\* The row of a claim that nobody will take away.
Secure(row) == row.status \in Taken /\ (row.status = "PROCESSING" => row.lease = "live")

\* The claim of w is the one on record, and secure.
OnRecord(w) ==
    /\ HeldId(w) \in DOMAIN table
    /\ LET row == table[HeldId(w)]
       IN /\ row.worker = w /\ row.gen = HeldGen(w) /\ row.chain = held[w].job.chain
          /\ Secure(row)

\* Until a lease runs out under a live worker, every worker that has a job owns it.
NobodyRobbed == pauses = 0 => \A w \in Worker : pc[w] \in Holding => OnRecord(w)

\* What a worker got from Claim.
HeldTyped(w) == pc[w] \in Busy => held[w] \in [id : JobId, job : Job] /\ held[w].job.gen > 0

\* A worker's transaction is the one of Complete: it has written, and so locked, the row of
\* the job the worker owns, and rows of jobs that nobody can be at work on.
WorkerTx(w) ==
    \/ tx[w] = NoTx
    \/ /\ tx[w].at = "commit" /\ pc[w] = "complete"
       /\ Owns(HeldId(w), w, HeldGen(w)) /\ HeldId(w) \in DOMAIN tx[w].writes
       /\ \A id \in DOMAIN tx[w].writes \ {HeldId(w)} :
             id \in DOMAIN table /\ table[id].status = "BLOCKED"

\* The transaction of a producer or operator has not written to a job at work.
ClientTx(s) == \A id \in DOMAIN tx[s].writes \cap DOMAIN table : table[id].status \notin Taken

\* All the jobs before one that was claimed have let their successors go.
FinishedPrefix ==
    \A id \in DOMAIN table : table[id].gen > 0 =>
        /\ table[id].seq >= 1
        /\ \A n \in 1 .. table[id].seq - 1 :
              \E p \in At(table, table[id].chain, n) : PredFinished(table[p])

\* The engines' state is sound, and the counters are numbers.
EnginesSound ==
    /\ EngineSound
    /\ faults \in Nat /\ pauses \in Nat

SystemInv ==
    /\ PgInv /\ IsFiniteSet(issued) /\ EnginesSound
    /\ \A w \in Worker : HeldTyped(w) /\ WorkerTx(w)
    /\ \A s \in Session \ Worker : ClientTx(s)
    /\ NobodyRobbed
    /\ Quiet => FinishedPrefix

-----------------------------------------------------------------------------
(* Steps                                                                       *)

\* At most the sessions of T go on, and what the others have written is left alone.
Frame(T) ==
    \A s \in Session \ T :
        /\ tx'[s] = tx[s]
        /\ \A id \in DOMAIN tx[s].writes :
              /\ id \in DOMAIN table' <=> id \in DOMAIN table
              /\ id \in DOMAIN table => table'[id] = table[id]

\* A secure claim is so still, in the name of the same worker.
KeepsClaim(id) ==
    Secure(table[id]) =>
        /\ id \in DOMAIN table' /\ Secure(table'[id])
        /\ table'[id].worker = table[id].worker /\ table'[id].gen = table[id].gen
        /\ table'[id].chain = table[id].chain

\* The row id was claimed before, or could be, and lets its successor go if it did.
KeepsPlace(id) ==
    /\ SameJob(table'[id], table[id])
    /\ table'[id].gen > 0 => table[id].gen > 0 \/ Eligible(id)
    /\ PredFinished(table[id]) => PredFinished(table'[id])

KeepsOrder ==
    Quiet =>
        /\ DOMAIN table \subseteq DOMAIN table'
        /\ \A id \in DOMAIN table' \ DOMAIN table : table'[id].gen = 0
        /\ \A id \in DOMAIN table : KeepsPlace(id)

\* What a step does to the table: X are the jobs it takes from their workers.
TableStep(T, X) ==
    /\ Good /\ IsFiniteSet(issued')
    /\ Frame(T) /\ KeepsOrder
    /\ \A id \in DOMAIN table \ X : KeepsClaim(id)

\* The calls by which a worker reports.
Reporting == {"complete", "fail", "noHandler", "retry"}

\* The worker w leaves a job alone that is not its own any more, when it reports.
Late(w) ==
    pc[w] \in Reporting /\ pc'[w] # pc[w] /\ HeldId(w) \in DOMAIN table =>
        Owns(HeldId(w), w, HeldGen(w)) \/ table'[HeldId(w)] = table[HeldId(w)]

\* What is to be shown of a step of the system.
SystemGood ==
    /\ SystemInv' /\ Final /\ (Order!Next \/ UNCHANGED ChainView(table))
    /\ \A w \in Worker : Late(w)

\* The jobs before a claimed one stay finished, those before a newly claimed one are.
LEMMA PrefixKept ==
    ASSUME PgInv, PgInv', KeepsOrder, Quiet, FinishedPrefix
    PROVE  FinishedPrefix'
<1>1. \A id \in DOMAIN table : table[id] \in Job /\ table[id].seq \in Int
  BY RowIsJob DEF Job
<1>2. \A id \in DOMAIN table' : table'[id].gen \in Nat /\ table'[id].seq \in Int
  BY RowsFacts DEF PgInv, TableInv, TxTyped, Job
<1>3. \A id \in DOMAIN table : PredFinished(table[id]) => table[id].gen > 0
  BY DEF PgInv, RanWasClaimed, Ran, PredFinished, DLQStatus
<1> DEFINE Done(c, n) == \E p \in At(table, c, n) : PredFinished(table[p])
<1>4. ASSUME NEW id \in DOMAIN table, table[id].gen > 0 \/ Eligible(id)
      PROVE  table[id].seq >= 1 /\ \A n \in 1 .. table[id].seq - 1 : Done(table[id].chain, n)
  <2>1. CASE table[id].gen > 0
    BY <2>1 DEF FinishedPrefix
  <2>2. CASE table[id].seq = 1
    BY <2>2
  <2>3. ASSUME NEW p \in At(table, table[id].chain, table[id].seq - 1), PredFinished(table[p])
        PROVE  table[id].seq >= 1 /\ \A n \in 1 .. table[id].seq - 1 : Done(table[id].chain, n)
    <3>1. p \in DOMAIN table /\ table[p].chain = table[id].chain /\ table[p].seq = table[id].seq - 1
      BY <2>3 DEF At
    <3>2. table[p].seq >= 1 /\ \A n \in 1 .. table[p].seq - 1 : Done(table[id].chain, n)
      BY <1>3, <2>3, <3>1 DEF FinishedPrefix
    <3>3. Done(table[id].chain, table[id].seq - 1)
      BY <2>3
    <3> HIDE DEF Done
    <3> QED BY <1>1, <3>1, <3>2, <3>3
  <2> QED BY <1>4, <2>1, <2>2, <2>3 DEF Eligible
<1>5. ASSUME NEW c, NEW n, Done(c, n)
      PROVE  \E p \in At(table', c, n) : PredFinished(table'[p])
  <2>1. PICK p \in At(table, c, n) : PredFinished(table[p])
    BY <1>5
  <2>2. p \in DOMAIN table /\ table[p].chain = c /\ table[p].seq = n
    BY DEF At
  <2>3. p \in DOMAIN table' /\ SameJob(table'[p], table[p]) /\ PredFinished(table'[p])
    BY <2>1, <2>2 DEF KeepsOrder, KeepsPlace
  <2>4. p \in At(table', c, n)
    BY <2>2, <2>3 DEF At, SameJob
  <2> QED BY <2>3, <2>4
<1> HIDE DEF Done
<1> SUFFICES ASSUME NEW id \in DOMAIN table', table'[id].gen > 0
             PROVE  /\ table'[id].seq >= 1
                    /\ \A n \in 1 .. table'[id].seq - 1 :
                          \E p \in At(table', table'[id].chain, n) : PredFinished(table'[p])
  BY DEF FinishedPrefix
<1>6. id \in DOMAIN table
  BY <1>2 DEF KeepsOrder
<1>7. /\ table[id].gen > 0 \/ Eligible(id)
      /\ table'[id].seq = table[id].seq /\ table'[id].chain = table[id].chain
  BY <1>6 DEF KeepsOrder, KeepsPlace, SameJob
<1>8. table[id].seq >= 1 /\ \A n \in 1 .. table[id].seq - 1 : Done(table[id].chain, n)
  BY <1>4, <1>6, <1>7
<1> QED BY <1>5, <1>7, <1>8

\* What a worker has written fits the table still, when the worker and those rows stay.
LEMMA WorkerTxKept ==
    ASSUME SystemInv, NEW T \in SUBSET Session, Frame(T), NEW w \in Worker, w \notin T,
           tx[w] # NoTx => pc'[w] = pc[w] /\ held'[w] = held[w]
    PROVE  WorkerTx(w)'
<1>1. w \in Session \ T /\ WorkerTx(w)
  BY PgSystemAssumption DEF SystemInv
<1>2. /\ tx'[w] = tx[w]
      /\ \A id \in DOMAIN tx[w].writes :
            /\ id \in DOMAIN table' <=> id \in DOMAIN table
            /\ id \in DOMAIN table => table'[id] = table[id]
  BY <1>1 DEF Frame
<1>3. CASE tx[w] = NoTx
  BY <1>2, <1>3 DEF WorkerTx
<1>4. CASE tx[w] # NoTx
  <2>1. /\ tx[w].at = "commit" /\ pc[w] = "complete"
        /\ Owns(HeldId(w), w, HeldGen(w)) /\ HeldId(w) \in DOMAIN tx[w].writes
        /\ \A id \in DOMAIN tx[w].writes \ {HeldId(w)} :
              id \in DOMAIN table /\ table[id].status = "BLOCKED"
    BY <1>1, <1>4 DEF WorkerTx
  <2>2. HeldId(w)' = HeldId(w) /\ HeldGen(w)' = HeldGen(w) /\ pc'[w] = pc[w]
    BY <1>4 DEF HeldId, HeldGen
  <2>3. HeldId(w) \in DOMAIN table' /\ table'[HeldId(w)] = table[HeldId(w)]
    BY <1>2, <2>1 DEF Owns
  <2>4. Owns(HeldId(w), w, HeldGen(w))'
    BY <2>1, <2>2, <2>3 DEF Owns
  <2>5. \A id \in DOMAIN tx[w].writes \ {HeldId(w)} :
           id \in DOMAIN table' /\ table'[id].status = "BLOCKED"
    BY <1>2, <2>1
  <2> QED BY <1>2, <2>1, <2>2, <2>4, <2>5 DEF WorkerTx
<1> QED BY <1>3, <1>4

\* How the invariant is kept, part by part.
LEMMA StepGood ==
    ASSUME SystemInv, NEW T \in SUBSET Session, NEW X, TableStep(T, X), EnginesSound',
           pauses' = 0 => pauses = 0,
           \A w \in Worker : HeldTyped(w)',
           \A w \in Worker : pauses' = 0 /\ pc'[w] \in Holding =>
              OnRecord(w)' \/ (pc[w] \in Holding /\ held'[w] = held[w] /\ HeldId(w) \notin X),
           \A w \in Worker :
              \/ WorkerTx(w)'
              \/ w \notin T /\ (tx[w] # NoTx => pc'[w] = pc[w] /\ held'[w] = held[w]),
           \A s \in T \ Worker : ClientTx(s)',
           \A w \in Worker : Late(w)
    PROVE  SystemGood
<1>1. PgInv' /\ Final /\ (Order!Next \/ UNCHANGED ChainView(table)) /\ IsFiniteSet(issued)'
  BY DEF TableStep, Good
<1>2. \A w \in Worker : WorkerTx(w)'
  BY WorkerTxKept DEF TableStep
<1>3. ASSUME NEW s \in Session \ Worker PROVE ClientTx(s)'
  BY <1>3 DEF SystemInv, TableStep, Frame, ClientTx
<1>4. NobodyRobbed'
  <2> SUFFICES ASSUME pauses' = 0, NEW w \in Worker, pc'[w] \in Holding PROVE OnRecord(w)'
    BY DEF NobodyRobbed
  <2>1. CASE pc[w] \in Holding /\ held'[w] = held[w] /\ HeldId(w) \notin X
    <3>1. OnRecord(w) /\ HeldId(w)' = HeldId(w) /\ HeldGen(w)' = HeldGen(w)
      BY <2>1 DEF SystemInv, NobodyRobbed, HeldId, HeldGen
    <3>2. KeepsClaim(HeldId(w))
      BY <2>1, <3>1 DEF TableStep, OnRecord
    <3> QED BY <2>1, <3>1, <3>2 DEF OnRecord, KeepsClaim
  <2> QED BY <2>1
<1>5. Quiet => FinishedPrefix'
  BY <1>1, PrefixKept DEF SystemInv, TableStep
<1>6. SystemInv'
  BY <1>1, <1>2, <1>3, <1>4, <1>5 DEF SystemInv, Quiet
<1> QED BY <1>1, <1>6 DEF SystemGood

\* A step in which no worker moves.
LEMMA ClientGood ==
    ASSUME SystemInv, NEW T \in SUBSET (Session \ Worker), NEW X, TableStep(T, X),
           EnginesSound', UNCHANGED <<pc, held>>, pauses' = 0 => pauses = 0,
           \A w \in Worker : pauses' = 0 /\ pc[w] \in Holding => HeldId(w) \notin X,
           \A s \in T : ClientTx(s)'
    PROVE  SystemGood
<1>1. \A w \in Worker : HeldTyped(w)' /\ Late(w) /\ w \notin T
  BY DEF SystemInv, HeldTyped, Late
<1>2. T \in SUBSET Session
  OBVIOUS
<1> QED BY <1>1, <1>2, StepGood

\* A step in which the worker w moves, X being the job it takes from itself.
LEMMA WorkerGood ==
    ASSUME SystemInv, NEW w \in Worker, NEW T \in SUBSET {w}, NEW X, TableStep(T, X),
           EnginesSound', pauses' = pauses,
           \A v \in Worker \ {w} : pc'[v] = pc[v] /\ held'[v] = held[v],
           HeldTyped(w)', WorkerTx(w)', Late(w),
           X = {} \/ (X = {HeldId(w)} /\ Owns(HeldId(w), w, HeldGen(w))),
           pc'[w] \in Holding =>
              OnRecord(w)' \/ (pc[w] \in Holding /\ held'[w] = held[w] /\ X = {})
    PROVE  SystemGood
<1>1. T \in SUBSET Session /\ T \ Worker = {}
  BY PgSystemAssumption
<1>2. \A v \in Worker \ {w} : HeldTyped(v)' /\ Late(v) /\ v \notin T
  BY DEF SystemInv, HeldTyped, Late
<1>3. ASSUME NEW v \in Worker \ {w}, pauses = 0, pc[v] \in Holding PROVE HeldId(v) \notin X
  <2>1. OnRecord(v)
    BY <1>3 DEF SystemInv, NobodyRobbed
  <2> QED BY <1>3, <2>1 DEF OnRecord, Owns
<1> QED BY <1>1, <1>2, <1>3, StepGood

-----------------------------------------------------------------------------
(* What the statements of the repository do to the table                       *)

\* The row that a statement puts in the place of an old one: the same job, not claimed
\* anew, finished still if it was, and if it was secure then it is.
Mild(row, old) ==
    /\ SameJob(row, old) /\ row.gen = old.gen
    /\ Quiet => (PredFinished(old) => PredFinished(row))
    /\ Secure(old) => Secure(row) /\ row.worker = old.worker

\* A statement that rewrites rows mildly, except that it takes the jobs of X.
LEMMA WriteTable ==
    ASSUME SystemInv, Good, NEW rows, NEW X, Write(rows), DOMAIN rows \subseteq DOMAIN table,
           \A id \in DOMAIN rows :
              /\ SameJob(rows[id], table[id])
              /\ rows[id].gen > 0 => table[id].gen > 0 \/ Eligible(id)
              /\ Quiet => (PredFinished(table[id]) => PredFinished(rows[id])),
           \A id \in DOMAIN rows \ X : Secure(table[id]) =>
              /\ Secure(rows[id])
              /\ rows[id].worker = table[id].worker /\ rows[id].gen = table[id].gen
    PROVE  /\ TableStep({}, X) /\ DOMAIN table' = DOMAIN table
           /\ \A id \in DOMAIN rows : table'[id] = rows[id]
           /\ \A id \in DOMAIN table \ DOMAIN rows : table'[id] = table[id]
<1>1. /\ table' = Overlay(table, rows) /\ UNCHANGED <<tx, issued>>
      /\ \A id \in DOMAIN rows : ~Locked(id)
  BY DEF Write
<1>2. /\ DOMAIN table' = DOMAIN table
      /\ \A id \in DOMAIN rows : table'[id] = rows[id]
      /\ \A id \in DOMAIN table \ DOMAIN rows : table'[id] = table[id]
  BY <1>1 DEF Overlay
<1>3. Frame({})
  BY <1>1, <1>2 DEF Frame, Locked
<1>4. ASSUME Quiet, NEW id \in DOMAIN table PROVE KeepsPlace(id)
  <2>1. CASE id \in DOMAIN rows
    BY <1>2, <1>4, <2>1 DEF KeepsPlace
  <2>2. CASE id \notin DOMAIN rows
    BY <1>2, <2>2 DEF KeepsPlace, SameJob
  <2> QED BY <2>1, <2>2
<1>5. KeepsOrder
  BY <1>2, <1>4 DEF KeepsOrder
<1>6. ASSUME NEW id \in DOMAIN table \ X PROVE KeepsClaim(id)
  <2>1. CASE id \in DOMAIN rows
    BY <1>2, <2>1 DEF KeepsClaim, SameJob
  <2>2. CASE id \notin DOMAIN rows
    BY <1>2, <2>2 DEF KeepsClaim
  <2> QED BY <2>1, <2>2
<1>7. IsFiniteSet(issued')
  BY <1>1 DEF SystemInv
<1> QED BY <1>2, <1>3, <1>5, <1>6, <1>7 DEF TableStep

\* The same for one row.
LEMMA RowTable ==
    ASSUME SystemInv, Good, NEW id \in DOMAIN table, NEW row, NEW X, WriteRow(id, row),
           SameJob(row, table[id]), row.gen > 0 => table[id].gen > 0 \/ Eligible(id),
           Quiet => (PredFinished(table[id]) => PredFinished(row)),
           id \in X \/ (Secure(table[id]) =>
              Secure(row) /\ row.worker = table[id].worker /\ row.gen = table[id].gen)
    PROVE  TableStep({}, X) /\ DOMAIN table' = DOMAIN table /\ table'[id] = row
<1> DEFINE rows == [i \in {id} |-> row]
<1>1. DOMAIN rows = {id} /\ rows[id] = row
  OBVIOUS
<1>2. Write(rows)
  BY DEF WriteRow
<1> HIDE DEF rows
<1> QED BY <1>1, <1>2, WriteTable

\* Claim takes a job that nobody has.
LEMMA ClaimTable ==
    ASSUME SystemInv, NEW w \in Worker, NEW id \in DOMAIN table, Claim(w, id)
    PROVE  /\ TableStep({}, {}) /\ id \in JobId /\ id \in DOMAIN table' /\ table'[id] \in Job
           /\ table'[id].status = "PROCESSING" /\ table'[id].lease = "live"
           /\ table'[id].worker = w /\ table'[id].gen > 0
<1> DEFINE row == [table[id] EXCEPT !.status = "PROCESSING", !.worker = w,
                                    !.gen = table[id].gen + 1, !.lease = "live",
                                    !.attempt = table[id].attempt + 1]
<1>1. table[id] \in Job /\ id \in JobId /\ PgInv
  BY RowsFacts DEF SystemInv, PgInv, TableInv, TxTyped
<1>2. Eligible(id) /\ WriteRow(id, row) /\ table[id].status \in {"PENDING", "RETRYING"} /\ Good
  BY <1>1, ClaimGood DEF Claim, Eligible, CanBeClaimed
<1>3. /\ SameJob(row, table[id]) /\ row.status = "PROCESSING" /\ row.lease = "live"
      /\ row.worker = w /\ row.gen > 0
  BY <1>1 DEF Job, SameJob
<1>4. ~PredFinished(table[id]) /\ ~Secure(table[id])
  BY <1>2 DEF PredFinished, DLQStatus, Secure, Taken
<1> HIDE DEF row
<1>5. TableStep({}, {}) /\ DOMAIN table' = DOMAIN table /\ table'[id] = row
  BY <1>2, <1>3, <1>4, RowTable
<1>6. table'[id] \in Job
  BY <1>5, RowsFacts DEF TableStep, Good, PgInv, TableInv, TxTyped
<1> QED BY <1>1, <1>3, <1>5, <1>6

\* Fail and Retry take the job from the worker that owns it.
LEMMA ReportTable ==
    ASSUME SystemInv, NEW id \in JobId, NEW w \in Worker, NEW g,
           (\E terminal \in BOOLEAN : Fail(id, w, g, terminal)) \/ Retry(id, w, g)
    PROVE  TableStep({}, {id}) /\ Owns(id, w, g)
<1>1. Good /\ Owns(id, w, g) /\ id \in DOMAIN table /\ table[id].status = "PROCESSING"
  BY FencedGood DEF SystemInv, Fail, Retry, Owns
<1>2. table[id] \in Job /\ table[id].gen > 0 /\ ~PredFinished(table[id])
  BY <1>1, RowIsJob DEF SystemInv, Ran, PredFinished, DLQStatus
<1>3. PICK row : WriteRow(id, row) /\ SameJob(row, table[id])
  <2>1. CASE Retry(id, w, g)
    <3>1. SameJob([table[id] EXCEPT !.status = "RETRYING", !.avail = "later", !.lease = "none"], table[id])
      BY <1>2 DEF SameJob, Job
    <3> QED BY <2>1, <3>1 DEF Retry
  <2>2. ASSUME NEW terminal \in BOOLEAN, Fail(id, w, g, terminal)
        PROVE  \E row : WriteRow(id, row) /\ SameJob(row, table[id])
    <3>1. \A st : SameJob([table[id] EXCEPT !.status = st, !.lease = "none"], table[id])
      BY <1>2 DEF SameJob, Job
    <3> QED BY <2>2, <3>1 DEF Fail
  <2> QED BY <2>1, <2>2
<1> QED BY <1>1, <1>2, <1>3, RowTable

\* A statement that rewrites one row mildly.
LEMMA MildTable ==
    ASSUME SystemInv, Good, NEW id \in DOMAIN table, NEW row, WriteRow(id, row),
           Mild(row, table[id])
    PROVE  TableStep({}, {})
BY RowTable DEF Mild

\* Heartbeat, RequestCancel, RescheduleJob, ReplayJob and time: no claim is taken away.
LEMMA CallTable ==
    ASSUME SystemInv, NEW id \in JobId,
           \/ \E w \in Worker : \E g : Heartbeat(id, w, g)
           \/ RequestCancel(id)
           \/ \E a \in Avail : RescheduleJob(id, a)
           \/ "replay" \in Commands /\ ReplayJob(id)
           \/ BecomesDue(id)
    PROVE  TableStep({}, {})
<1>1. /\ id \in DOMAIN table /\ Good /\ table[id] \in Job
      /\ PgInv
  <2>1. PgInv /\ id \in DOMAIN table
    BY DEF SystemInv, Heartbeat, Owns, RequestCancel, Cancellable, RescheduleJob, ReplayJob, BecomesDue
  <2>2. Good
    BY <2>1, FencedGood, CancelGood, ReplayGood, TimeGood DEF TimeStep
  <2> QED BY <2>1, <2>2, RowIsJob
<1>2. CASE \E w \in Worker : \E g : Heartbeat(id, w, g)
  <2>1. Mild([table[id] EXCEPT !.lease = "live"], table[id])
    BY <1>1 DEF Mild, Job, SameJob, Secure, PredFinished
  <2> QED BY <1>1, <1>2, <2>1, MildTable DEF Heartbeat
<1>3. CASE RequestCancel(id)
  <2>1. Mild([table[id] EXCEPT !.status = "CANCEL_REQUESTED"], table[id])
    BY <1>1, <1>3 DEF Mild, Job, SameJob, Secure, Taken, PredFinished, DLQStatus, RequestCancel, Cancellable
  <2> QED BY <1>1, <1>3, <2>1, MildTable DEF RequestCancel
<1>4. ASSUME NEW a \in Avail, WriteRow(id, [table[id] EXCEPT !.avail = a]) PROVE TableStep({}, {})
  <2>1. Mild([table[id] EXCEPT !.avail = a], table[id])
    BY <1>1 DEF Mild, Job, SameJob, Secure, PredFinished
  <2> QED BY <1>1, <1>4, <2>1, MildTable
<1>5. CASE \E a \in Avail : RescheduleJob(id, a)
  BY <1>4, <1>5 DEF RescheduleJob
<1>6. CASE BecomesDue(id)
  BY <1>4, <1>6 DEF BecomesDue, Avail
<1>7. CASE "replay" \in Commands /\ ReplayJob(id)
  <2>1. ~Quiet /\ ~Secure(table[id])
    BY <1>7 DEF Quiet, ReplayJob, Replayable, Secure, Taken
  <2>2. Mild(ReplayRow(table[id]), table[id])
    BY <1>1, <2>1, ReplayRowFacts DEF Mild
  <2> QED BY <1>1, <1>7, <2>2, MildTable DEF ReplayJob
<1> QED BY <1>2, <1>3, <1>5, <1>6, <1>7

\* A lease runs out.
LEMMA LeaseTable ==
    ASSUME SystemInv, NEW id \in JobId, LeaseExpires(id)
    PROVE  TableStep({}, {id})
<1>1. id \in DOMAIN table /\ Good /\ table[id] \in Job
  BY TimeGood, RowIsJob DEF SystemInv, LeaseExpires, TimeStep
<1> DEFINE row == [table[id] EXCEPT !.lease = "expired"]
<1>2. /\ SameJob(row, table[id]) /\ row.gen = table[id].gen /\ row.status = table[id].status
      /\ row.mode = table[id].mode
  BY <1>1 DEF Job, SameJob
<1>3. WriteRow(id, row)
  BY DEF LeaseExpires
<1> HIDE DEF row
<1>4. PredFinished(table[id]) => PredFinished(row)
  BY <1>2 DEF PredFinished
<1> QED BY <1>1, <1>2, <1>3, <1>4, RowTable


\* PromoteNext, RecoverStale and BulkReplayDLQ: blocked, stale and failed jobs are nobody's.
LEMMA BulkTable ==
    ASSUME SystemInv,
           \/ \E c, n : PromoteNext(c, n)
           \/ RecoverStale
           \/ "bulkReplay" \in Commands /\ \E filter \in SUBSET JobId : BulkReplayDLQ(filter)
    PROVE  TableStep({}, {})
<1>1. Good /\ \A id \in DOMAIN table : table[id] \in Job
  BY BulkGood, RowIsJob DEF SystemInv
<1>2. ASSUME NEW rows, Write(rows), DOMAIN rows \subseteq DOMAIN table,
             \A id \in DOMAIN rows : /\ SameJob(rows[id], table[id]) /\ rows[id].gen = table[id].gen
                                     /\ ~Secure(table[id])
                                     /\ Quiet => ~PredFinished(table[id])
      PROVE  TableStep({}, {})
  BY <1>1, <1>2, WriteTable
<1>3. ASSUME NEW c, NEW n, PromoteNext(c, n) PROVE TableStep({}, {})
  <2> DEFINE S == {i \in At(table, c, n + 1) : table[i].status = "BLOCKED"}
             rows == [id \in S |-> [table[id] EXCEPT !.status = "PENDING"]]
  <2>1. Write(rows)
    BY <1>3 DEF PromoteNext
  <2>2. DOMAIN rows = S /\ S \subseteq DOMAIN table /\ \A id \in S : table[id].status = "BLOCKED"
    BY DEF At
  <2> HIDE DEF S
  <2>3. \A id \in S : SameJob(rows[id], table[id]) /\ rows[id].gen = table[id].gen
    BY <1>1, <2>2 DEF Job, SameJob
  <2>4. \A id \in S : ~Secure(table[id]) /\ ~PredFinished(table[id])
    BY <2>2 DEF Secure, Taken, PredFinished, DLQStatus
  <2> HIDE DEF rows
  <2> QED BY <1>2, <2>1, <2>2, <2>3, <2>4
<1>4. CASE RecoverStale
  <2>1. PICK S \in SUBSET {id \in DOMAIN table : IsStale(id) /\ ~Locked(id)} :
           Write([id \in S |-> [table[id] EXCEPT !.status = "RETRYING", !.avail = "later",
                                                  !.lease = "none"]])
    BY <1>4 DEF RecoverStale
  <2> DEFINE rows == [id \in S |-> [table[id] EXCEPT !.status = "RETRYING", !.avail = "later",
                                                      !.lease = "none"]]
  <2>2. /\ DOMAIN rows = S /\ S \subseteq DOMAIN table /\ Write(rows)
        /\ \A id \in S : table[id].status = "PROCESSING" /\ table[id].lease = "expired"
    BY <2>1 DEF IsStale
  <2>3. \A id \in S : SameJob(rows[id], table[id]) /\ rows[id].gen = table[id].gen
    BY <1>1, <2>2 DEF Job, SameJob
  <2>4. \A id \in S : ~Secure(table[id]) /\ ~PredFinished(table[id])
    BY <2>2 DEF Secure, Taken, PredFinished, DLQStatus
  <2> HIDE DEF rows
  <2> QED BY <1>2, <2>2, <2>3, <2>4
<1>5. ASSUME "bulkReplay" \in Commands, NEW filter \in SUBSET JobId, BulkReplayDLQ(filter)
      PROVE  TableStep({}, {})
  <2> DEFINE S == DLQWhere(filter)
             rows == [id \in S |-> ReplayRow(table[id])]
  <2>1. Write(rows) /\ ~Quiet
    BY <1>5 DEF BulkReplayDLQ, Quiet
  <2>2. DOMAIN rows = S /\ S \subseteq DOMAIN table /\ \A id \in S : ~Secure(table[id])
    BY DEF DLQWhere, DLQStatus, Secure, Taken
  <2> HIDE DEF S
  <2>3. \A id \in S : SameJob(rows[id], table[id]) /\ rows[id].gen = table[id].gen
    BY <1>1, <2>2, ReplayRowFacts
  <2> HIDE DEF rows
  <2> QED BY <1>2, <2>1, <2>2, <2>3
<1> QED BY <1>3, <1>4, <1>5

\* BulkPurgeDLQ removes failed jobs, which nobody has.
LEMMA PurgeTable ==
    ASSUME SystemInv, "bulkPurge" \in Commands, NEW filter \in SUBSET JobId, BulkPurgeDLQ(filter)
    PROVE  TableStep({}, {})
<1> DEFINE S == DLQWhere(filter)
<1>1. /\ \A id \in S : ~Locked(id) /\ ~Secure(table[id])
      /\ table' = [id \in DOMAIN table \ S |-> table[id]] /\ UNCHANGED <<tx, issued>>
  BY DEF BulkPurgeDLQ, DLQWhere, Without, DLQStatus, Secure, Taken
<1> HIDE DEF S
<1>2. DOMAIN table' = DOMAIN table \ S /\ \A id \in DOMAIN table' : table'[id] = table[id]
  BY <1>1
<1>3. Frame({})
  BY <1>1, <1>2 DEF Frame, Locked
<1>4. KeepsOrder /\ \A id \in DOMAIN table : KeepsClaim(id)
  BY <1>1, <1>2 DEF KeepsOrder, KeepsClaim, Quiet
<1>5. Good /\ IsFiniteSet(issued')
  BY <1>1, PurgeGood DEF SystemInv
<1> QED BY <1>3, <1>4, <1>5 DEF TableStep

\* A session goes on, the table stays.
LEMMA SessionTable ==
    ASSUME SystemInv, Good, NEW s \in Session, NEW t, Continue(s, t), UNCHANGED table,
           issued' = issued \/ \E id \in JobId : issued' = issued \cup {id}
    PROVE  TableStep({s}, {}) /\ tx'[s] = t
<1>1. tx' = [tx EXCEPT ![s] = t] /\ tx \in [Session -> Tx]
  BY DEF Continue, SystemInv, PgInv, TableInv, TxTyped
<1>2. tx'[s] = t /\ \A o \in Session \ {s} : tx'[o] = tx[o]
  BY <1>1
<1>3. Frame({s})
  BY <1>2 DEF Frame
<1>4. IsFiniteSet(issued')
  BY FS_AddElement DEF SystemInv
<1>5. KeepsOrder /\ \A id \in DOMAIN table : KeepsClaim(id)
  BY DEF KeepsOrder, KeepsPlace, KeepsClaim, SameJob
<1> QED BY <1>2, <1>3, <1>4, <1>5 DEF TableStep

\* A transaction that enqueues goes on.
LEMMA EnqueueTable ==
    ASSUME SystemInv, NEW s \in Session \ Worker,
           \/ \E req \in Stored : Enqueue(s, req)
           \/ \E req1, req2 \in Stored : EnqueueBatch(s, req1, req2)
           \/ EnqueueGoesOn(s)
    PROVE  TableStep({s}, {}) /\ ClientTx(s)'
<1>1. Good /\ PgInv /\ UNCHANGED table
  BY EnqueueGood, NextLockGood, NumberGood, InsertGood
     DEF SystemInv, EnqueueGoesOn, Enqueue, EnqueueBatch, NextLock, AdvisoryLock, Number, Insert
<1>2. tx[s] \in Tx /\ DOMAIN table \subseteq issued /\ ClientTx(s)
  BY DEF SystemInv, PgInv, TableInv, TxTyped
<1>3. issued' = issued \/ \E id \in JobId : issued' = issued \cup {id}
  BY DEF EnqueueGoesOn, Enqueue, EnqueueBatch, NextLock, AdvisoryLock, Number, Insert
<1>4. PICK t : /\ Continue(s, t)
               /\ DOMAIN t.writes \subseteq DOMAIN tx[s].writes \cup (JobId \ issued)
  <2>1. ASSUME NEW u \in Tx, NEW c, AdvisoryLock(s, u, c), DOMAIN u.writes \subseteq DOMAIN tx[s].writes
        PROVE  \E t : /\ Continue(s, t)
                      /\ DOMAIN t.writes \subseteq DOMAIN tx[s].writes \cup (JobId \ issued)
    <3> DEFINE v == [u EXCEPT !.wait = u.wait \ {c}, !.locks = u.locks \cup {c},
                              !.at = IF u.wait = {c} THEN "number" ELSE "lock"]
    <3>1. Continue(s, v)
      BY <2>1 DEF AdvisoryLock
    <3>2. v.writes = u.writes
      BY <2>1 DEF Tx
    <3> QED BY <2>1, <3>1, <3>2
  <2>2. ASSUME NEW req \in Stored, Enqueue(s, req)
        PROVE  \E t : /\ Continue(s, t)
                      /\ DOMAIN t.writes \subseteq DOMAIN tx[s].writes \cup (JobId \ issued)
    <3>1. <<req>> \in Seq(Stored) /\ <<req>> # <<>>
      OBVIOUS
    <3>2. Begun(<<req>>, FALSE) \in Tx /\ DOMAIN Begun(<<req>>, FALSE).writes = {}
      BY <1>1, <3>1, BegunFacts
    <3> QED BY <2>1, <2>2, <3>2 DEF Enqueue
  <2>3. ASSUME NEW req1 \in Stored, NEW req2 \in Stored, EnqueueBatch(s, req1, req2)
        PROVE  \E t : /\ Continue(s, t)
                      /\ DOMAIN t.writes \subseteq DOMAIN tx[s].writes \cup (JobId \ issued)
    <3>1. <<req1, req2>> \in Seq(Stored) /\ <<req1, req2>> # <<>>
      OBVIOUS
    <3>2. Begun(<<req1, req2>>, TRUE) \in Tx /\ DOMAIN Begun(<<req1, req2>>, TRUE).writes = {}
      BY <1>1, <3>1, BegunFacts
    <3> QED BY <2>1, <2>3, <3>2 DEF EnqueueBatch
  <2>4. CASE NextLock(s)
    BY <1>2, <2>1, <2>4 DEF NextLock
  <2>5. Served(tx[s]).writes = tx[s].writes
    BY <1>2 DEF Served, Tx
  <2>6. CASE Number(s)
    <3>1. CASE Continue(s, Served(tx[s]))
      BY <2>5, <3>1
    <3>2. ASSUME NEW n, Continue(s, [tx[s] EXCEPT !.seq = n, !.at = "insert"])
          PROVE  \E t : /\ Continue(s, t)
                        /\ DOMAIN t.writes \subseteq DOMAIN tx[s].writes \cup (JobId \ issued)
      <4>1. [tx[s] EXCEPT !.seq = n, !.at = "insert"].writes = tx[s].writes
        BY <1>2 DEF Tx
      <4> QED BY <3>2, <4>1
    <3> QED BY <2>6, <3>1, <3>2 DEF Number
  <2>7. CASE Insert(s)
    <3>1. PICK id \in JobId \ issued : \E row :
             Continue(s, [Served(tx[s]) EXCEPT !.writes = Put(Served(tx[s]).writes, id, row)])
      BY <2>7 DEF Insert
    <3> PICK row : Continue(s, [Served(tx[s]) EXCEPT
                                   !.writes = Put(Served(tx[s]).writes, id, row)])
      BY <3>1
    <3> DEFINE w == Put(Served(tx[s]).writes, id, row)
               u == [Served(tx[s]) EXCEPT !.writes = w]
    <3>2. DOMAIN w = DOMAIN tx[s].writes \cup {id}
      BY <2>5 DEF Put
    <3>3. Continue(s, u)
      OBVIOUS
    <3> HIDE DEF w
    <3>4. u.writes = w
      BY <1>2 DEF Served, Tx
    <3> HIDE DEF u
    <3> QED BY <3>2, <3>3, <3>4
  <2> QED BY <2>3, <2>4, <2>6, <2>7, <2>2 DEF EnqueueGoesOn
<1>5. TableStep({s}, {}) /\ tx'[s] = t
  BY <1>1, <1>3, <1>4, SessionTable
<1>6. ClientTx(s)'
  BY <1>1, <1>2, <1>4, <1>5 DEF ClientTx
<1> QED BY <1>5, <1>6

\* The transaction of Complete, SkipJob and BulkSkipDLQ has written the jobs of S and
\* BLOCKED ones.
LEMMA CompleteWrites ==
    ASSUME SystemInv, NEW s \in Session, NEW S \in SUBSET DOMAIN table, NEW places,
           CompleteAndPromote(s, S, places), \A id \in S : table[id].status \in Ran \ {"COMPLETED"}
    PROVE  /\ TableStep({s}, {}) /\ UNCHANGED table
           /\ tx'[s].at = "commit" /\ S \subseteq DOMAIN tx'[s].writes
           /\ \A id \in DOMAIN tx'[s].writes \ S : id \in DOMAIN table /\ table[id].status = "BLOCKED"
<1> DEFINE B == {i \in UNION {At(table, p[1], p[2] + 1) : p \in places} : table[i].status = "BLOCKED"}
           rows == [id \in S \cup B |->
                      IF id \in S THEN [table[id] EXCEPT !.status = "COMPLETED", !.lease = "none"]
                      ELSE [table[id] EXCEPT !.status = "PENDING"]]
           u == [NoTx EXCEPT !.at = "commit", !.writes = rows]
<1>1. Good
  BY CompleteGood DEF SystemInv
<1>2. Continue(s, u) /\ UNCHANGED <<table, issued>>
  BY DEF CompleteAndPromote
<1>3. DOMAIN rows = S \cup B /\ \A id \in B : id \in DOMAIN table /\ table[id].status = "BLOCKED"
  BY DEF At
<1> HIDE DEF rows, B
<1>4. u.at = "commit" /\ u.writes = rows
  BY DEF NoTx
<1> HIDE DEF u
<1>5. TableStep({s}, {}) /\ tx'[s] = u
  BY <1>1, <1>2, SessionTable
<1> QED BY <1>2, <1>3, <1>4, <1>5

\* SkipJob and BulkSkipDLQ.
LEMMA SkipTable ==
    ASSUME SystemInv, NEW s \in Session \ Worker,
           \/ \E id \in JobId : SkipJob(s, id)
           \/ \E filter \in SUBSET JobId : BulkSkipSelect(s, filter)
           \/ BulkSkipUpdate(s)
    PROVE  TableStep({s}, {}) /\ ClientTx(s)'
<1>1. ASSUME NEW S \in SUBSET DOMAIN table, NEW places, CompleteAndPromote(s, S, places),
             \A id \in S : table[id].status \in {"FAILED", "DEAD_LETTERED", "CANCELLED"}
      PROVE  TableStep({s}, {}) /\ ClientTx(s)'
  <2>1. /\ TableStep({s}, {}) /\ UNCHANGED table
        /\ \A id \in DOMAIN tx'[s].writes \ S : id \in DOMAIN table /\ table[id].status = "BLOCKED"
    BY <1>1, CompleteWrites DEF Ran
  <2>2. ClientTx(s)'
    BY <1>1, <2>1 DEF ClientTx, Taken
  <2> QED BY <2>1, <2>2
<1>2. ASSUME NEW id \in JobId, SkipJob(s, id) PROVE TableStep({s}, {}) /\ ClientTx(s)'
  <2>1. /\ id \in DOMAIN table /\ CompleteAndPromote(s, {id}, {Place(id)})
        /\ table[id].status \in {"FAILED", "DEAD_LETTERED", "CANCELLED"}
    BY <1>2 DEF SkipJob, Replayable
  <2>2. {id} \in SUBSET DOMAIN table
    BY <2>1
  <2> QED BY <1>1, <2>1, <2>2
<1>3. CASE BulkSkipUpdate(s)
  <2> DEFINE S == DLQWhere(tx[s].filter)
  <2>1. CompleteAndPromote(s, S, tx[s].items)
    BY <1>3 DEF BulkSkipUpdate
  <2>2. S \in SUBSET DOMAIN table /\ \A id \in S : table[id].status \in {"FAILED", "DEAD_LETTERED"}
    BY DEF DLQWhere, DLQStatus
  <2> HIDE DEF S
  <2> QED BY <1>1, <2>1, <2>2
<1>4. ASSUME NEW filter \in SUBSET JobId, BulkSkipSelect(s, filter)
      PROVE  TableStep({s}, {}) /\ ClientTx(s)'
  <2> DEFINE places == {Place(id) : id \in DLQWhere(filter)}
             u == [NoTx EXCEPT !.at = "skip", !.filter = filter, !.items = places]
  <2>1. Continue(s, u) /\ UNCHANGED <<table, issued>> /\ Good
    BY <1>4, BulkSkipGood DEF BulkSkipSelect, SystemInv
  <2> HIDE DEF places
  <2>2. DOMAIN u.writes = {}
    BY DEF NoTx, EmptyMap
  <2> HIDE DEF u
  <2>3. TableStep({s}, {}) /\ tx'[s] = u
    BY <2>1, SessionTable
  <2>4. ClientTx(s)'
    BY <2>2, <2>3 DEF ClientTx
  <2> QED BY <2>3, <2>4
<1> QED BY <1>2, <1>3, <1>4

\* Rollback leaves no trace.
LEMMA RollbackTable ==
    ASSUME SystemInv, NEW s \in Session, Rollback(s)
    PROVE  TableStep({s}, {}) /\ tx'[s] = NoTx /\ UNCHANGED table
<1>1. Good /\ Continue(s, NoTx) /\ UNCHANGED <<table, issued>>
  BY RollbackGood DEF SystemInv, Rollback
<1> QED BY <1>1, SessionTable

\* Commit makes visible what the transaction has written, and nothing else.
LEMMA CommitTable ==
    ASSUME SystemInv, NEW s \in Session, Commit(s), NEW X,
           \A id \in (DOMAIN tx[s].writes \cap DOMAIN table) \ X : table[id].status \notin Taken
    PROVE  TableStep({s}, X) /\ tx'[s] = NoTx
<1> DEFINE w == tx[s].writes
<1>1. /\ Good /\ TableInv /\ tx \in [Session -> Tx] /\ tx' = [tx EXCEPT ![s] = NoTx]
      /\ table' = Overlay(table, w) /\ issued' = issued
  BY CommitGood DEF SystemInv, PgInv, TableInv, TxTyped, Commit, Continue, Visible
<1>2. /\ DOMAIN table' = DOMAIN table \cup DOMAIN w
      /\ \A id \in DOMAIN w : table'[id] = w[id]
      /\ \A id \in DOMAIN table \ DOMAIN w : table'[id] = table[id]
  <2> HIDE DEF w
  <2> QED BY <1>1 DEF Overlay
<1>3. tx'[s] = NoTx /\ \A o \in Session \ {s} : tx'[o] = tx[o]
  BY <1>1
<1>4. \A o \in Session \ {s} : DOMAIN tx[o].writes \cap DOMAIN w = {}
  BY <1>1 DEF TableInv, Apart
<1>5. Completes(table, tx[s]) \/ Inserts(table, tx[s])
  BY DEF SystemInv, PgInv
<1>6. \A id \in DOMAIN w \cap DOMAIN table : SameJob(w[id], table[id])
  BY <1>1 DEF TableInv, TxInv, WritesOwn
<1>7. /\ \A id \in DOMAIN w \ DOMAIN table : w[id].gen = 0
      /\ \A id \in DOMAIN w \cap DOMAIN table :
            /\ w[id].gen = table[id].gen
            /\ w[id].status = "COMPLETED" \/ table[id].status = "BLOCKED"
  BY <1>5 DEF Completes, Inserts
<1> HIDE DEF w
<1>8. Frame({s})
  BY <1>2, <1>3, <1>4 DEF Frame
<1>9. ASSUME NEW id \in DOMAIN table PROVE KeepsPlace(id)
  <2>1. CASE id \in DOMAIN w
    BY <1>2, <1>6, <1>7, <2>1 DEF KeepsPlace, PredFinished, DLQStatus
  <2>2. CASE id \notin DOMAIN w
    BY <1>2, <2>2 DEF KeepsPlace, SameJob
  <2> QED BY <2>1, <2>2
<1>10. KeepsOrder
  BY <1>2, <1>7, <1>9 DEF KeepsOrder
<1>11. ASSUME NEW id \in DOMAIN table \ X PROVE KeepsClaim(id)
  <2>1. CASE id \in DOMAIN w
    BY <2>1 DEF KeepsClaim, Secure, w
  <2>2. CASE id \notin DOMAIN w
    BY <1>2, <2>2 DEF KeepsClaim
  <2> QED BY <2>1, <2>2
<1>12. IsFiniteSet(issued')
  BY <1>1 DEF SystemInv
<1> QED BY <1>1, <1>3, <1>8, <1>10, <1>11, <1>12 DEF TableStep

\* A call that has no effect.
LEMMA NoEffect ==
    ASSUME SystemInv, UNCHANGED tableVars
    PROVE  TableStep({}, {}) /\ UNCHANGED <<table, tx>>
<1>1. PgInv'
  BY DEF tableVars, SystemInv, PgInv, TableInv, TxTyped, TxInv, Completes, Inserts, RanWasClaimed
<1>2. Good /\ IsFiniteSet(issued')
  BY <1>1 DEF tableVars, Good, Final, SystemInv
<1>3. Frame({}) /\ KeepsOrder /\ \A id \in DOMAIN table : KeepsClaim(id)
  BY DEF tableVars, Frame, KeepsOrder, KeepsPlace, KeepsClaim, SameJob
<1> QED BY <1>2, <1>3 DEF TableStep, tableVars

-----------------------------------------------------------------------------
(* Producers and operators                                                     *)

\* The engines stand still.
LEMMA EnginesStay ==
    ASSUME SystemInv, UNCHANGED engineVars, faults' \in Nat, pauses' \in Nat
    PROVE  EnginesSound' /\ UNCHANGED <<pc, held, phase>>
BY DEF SystemInv, EnginesSound, EngineSound, engineVars

\* The engine resolves a request to one that a transaction can store.
LEMMA ResolvedStored ==
    ASSUME NEW req \in Requests
    PROVE  Resolved(req) \in Stored
<1>1. req \in Request /\ req.chain \in ChainId
  BY RequestAssumption, ChainAssumption
<1>2. ResolvedMode(req) \in OrderingMode \cup {""}
  BY <1>1, EngineAssumption DEF ResolvedMode, Request, OrderingMode
<1> HIDE DEF ResolvedMode
<1> QED BY <1>1, <1>2 DEF Resolved, Request, Stored

\* A session that is no worker's goes on, ends its transaction, or sends a command.
LEMMA SessionsGood ==
    ASSUME SystemInv, NEW s \in Session \ Worker,
           \/ EngineEnqueue(s) \/ EngineEnqueueBatch(s) \/ ClientGoesOn(s)
           \/ ClientEnds(s) \/ Operator(s)
    PROVE  SystemGood
<1>1. EnginesSound' /\ UNCHANGED <<pc, held, faults, pauses>>
  <2>1. UNCHANGED <<engineVars, faults, pauses>> /\ faults \in Nat /\ pauses \in Nat
    BY DEF EngineEnqueue, EngineEnqueueBatch, ClientGoesOn, ClientEnds, Operator, SystemInv,
           EnginesSound
  <2> QED BY <2>1, EnginesStay
<1>2. ASSUME TableStep({s}, {}), ClientTx(s)' PROVE SystemGood
  <2>1. {s} \in SUBSET (Session \ Worker)
    OBVIOUS
  <2> QED BY <1>1, <1>2, <2>1, ClientGood
<1>3. ASSUME TableStep({}, {}) PROVE SystemGood
  BY <1>1, <1>3, ClientGood
<1>4. ASSUME tx'[s] = NoTx PROVE ClientTx(s)'
  BY <1>4 DEF ClientTx, NoTx, EmptyMap
<1>5. CASE EngineEnqueue(s) \/ EngineEnqueueBatch(s) \/ ClientGoesOn(s)
  BY <1>2, <1>5, EnqueueTable, ResolvedStored DEF EngineEnqueue, EngineEnqueueBatch, ClientGoesOn
<1>6. CASE ClientEnds(s)
  <2>1. CASE Rollback(s)
    BY <1>2, <1>4, <2>1, RollbackTable
  <2>2. CASE Commit(s)
    <3>1. \A id \in (DOMAIN tx[s].writes \cap DOMAIN table) \ {} : table[id].status \notin Taken
      BY DEF SystemInv, ClientTx
    <3>2. TableStep({s}, {}) /\ tx'[s] = NoTx
      BY <2>2, <3>1, CommitTable
    <3> QED BY <1>2, <1>4, <3>2
  <2> QED BY <1>6, <2>1, <2>2 DEF ClientEnds
<1>7. CASE Operator(s)
  <2>1. OperatorStep(s)
    BY <1>7 DEF Operator
  <2>2. ASSUME NEW id \in JobId,
               RequestCancel(id) \/ ("replay" \in Commands /\ ReplayJob(id))
                 \/ \E a \in Avail : RescheduleJob(id, a)
        PROVE  SystemGood
    BY <1>3, <2>2, CallTable
  <2>3. ASSUME \/ \E id \in JobId : SkipJob(s, id)
               \/ \E filter \in SUBSET JobId : BulkSkipSelect(s, filter)
               \/ BulkSkipUpdate(s)
        PROVE  SystemGood
    BY <1>2, <2>3, SkipTable
  <2>4. ASSUME "bulkReplay" \in Commands, \E filter \in SUBSET JobId : BulkReplayDLQ(filter)
        PROVE  SystemGood
    BY <1>3, <2>4, BulkTable
  <2>5. ASSUME "bulkPurge" \in Commands, NEW filter \in SUBSET JobId, BulkPurgeDLQ(filter)
        PROVE  SystemGood
    BY <1>3, <2>5, PurgeTable
  <2> QED BY <2>1, <2>2, <2>3, <2>4, <2>5 DEF OperatorStep
<1> QED BY <1>5, <1>6, <1>7

-----------------------------------------------------------------------------
(* A worker's calls                                                            *)

\* A worker that has no transaction open moves on.
LEMMA MovesGood ==
    ASSUME SystemInv, NEW w \in Worker, NEW T \in SUBSET {w}, NEW X, TableStep(T, X),
           NEW x \in PC, Goes(w, x), pc[w] # "off",
           x \in Busy => pc[w] \in Busy, x \in Holding => pc[w] \in Holding /\ X = {},
           X = {} \/ (X = {HeldId(w)} /\ Owns(HeldId(w), w, HeldGen(w))),
           tx'[w] = NoTx, faults' \in Nat, pauses' = pauses, Late(w)
    PROVE  SystemGood
<1>1. EnginesSound /\ HeldTyped(w)
  BY DEF SystemInv
<1>2. /\ EngineSound' /\ pc'[w] = x /\ held'[w] = (IF x \in Busy THEN held[w] ELSE NotHeld)
      /\ \A v \in Worker \ {w} : pc'[v] = pc[v] /\ held'[v] = held[v]
  BY <1>1, GoesMoves DEF EnginesSound
<1>3. EnginesSound'
  BY <1>1, <1>2 DEF EnginesSound, Goes
<1>4. HeldTyped(w)' /\ WorkerTx(w)'
  BY <1>1, <1>2 DEF HeldTyped, WorkerTx
<1>5. pc'[w] \in Holding => pc[w] \in Holding /\ held'[w] = held[w] /\ X = {}
  BY <1>2 DEF Busy
<1> QED BY <1>2, <1>3, <1>4, <1>5, WorkerGood

\* The same, when the table step takes no job from its worker.
LEMMA MovesMildly ==
    ASSUME SystemInv, NEW w \in Worker, TableStep({}, {}),
           NEW x \in PC, Goes(w, x), pc[w] # "off",
           x \in Busy => pc[w] \in Busy, x \in Holding => pc[w] \in Holding,
           tx'[w] = NoTx, faults' \in Nat, pauses' = pauses, Late(w)
    PROVE  SystemGood
<1>1. {} \in SUBSET {w}
  OBVIOUS
<1> QED BY <1>1, MovesGood

\* Where no transaction is open, and what a worker with a job has.
LEMMA WorkerFacts ==
    ASSUME SystemInv, NEW w \in Worker
    PROVE  /\ w \in Session /\ EngineOf[w] \in EngineId /\ EngineSound
           /\ pc[w] # "complete" \/ tx[w].at = "none" => tx[w] = NoTx
           /\ pc[w] \in Busy => HeldId(w) \in JobId
           /\ faults \in Nat /\ (Breaks(EngineOf[w]) => faults' \in Nat)
           /\ \A X : TableStep({}, X) => tx'[w] = tx[w]
<1>1. w \in Session /\ EngineOf[w] \in EngineId
  BY PgSystemAssumption, EngineAssumption
<1>2. WorkerTx(w) /\ HeldTyped(w) /\ EngineSound /\ faults \in Nat
  BY DEF SystemInv, EnginesSound
<1>3. \A X : TableStep({}, X) => tx'[w] = tx[w]
  BY <1>1 DEF TableStep, Frame
<1>4. pc[w] \in Busy => HeldId(w) \in JobId
  BY <1>2 DEF HeldTyped, HeldId
<1>5. Breaks(EngineOf[w]) => faults' \in Nat
  BY <1>2 DEF Breaks
<1> QED BY <1>1, <1>2, <1>3, <1>4, <1>5 DEF WorkerTx

\* Claim answers.
LEMMA WorkerClaimsGood ==
    ASSUME SystemInv, NEW w \in Worker, WorkerClaims(w)
    PROVE  SystemGood
<1>1. PICK id \in DOMAIN table : Claim(w, id) /\ JobClaimed(w, id, table'[id])
  BY DEF WorkerClaims
<1>2. /\ TableStep({}, {}) /\ id \in JobId /\ id \in DOMAIN table' /\ table'[id] \in Job
      /\ table'[id].status = "PROCESSING" /\ table'[id].lease = "live"
      /\ table'[id].worker = w /\ table'[id].gen > 0
  BY <1>1, ClaimTable
<1> DEFINE row == table'[id]
<1> HIDE DEF row
<1>3. /\ EngineSound' /\ pc[w] = "idle"
      /\ pc'[w] \in {"running", "noHandler"} /\ held'[w] = [id |-> id, job |-> row]
      /\ \A v \in Worker \ {w} : pc'[v] = pc[v] /\ held'[v] = held[v]
      /\ UNCHANGED <<phase, recovery>>
  <2>1. JobClaimed(w, id, row) /\ row \in Job
    BY <1>1, <1>2 DEF row
  <2> QED BY <1>2, <2>1, WorkerFacts, ClaimedSound
<1>4. UNCHANGED <<faults, pauses>>
  BY DEF WorkerClaims, Answers
<1>5. EnginesSound'
  BY <1>3, <1>4 DEF SystemInv, EnginesSound
<1>6. HeldId(w)' = id /\ HeldGen(w)' = row.gen /\ held'[w].job.chain = row.chain
  BY <1>3 DEF HeldId, HeldGen
<1>7. OnRecord(w)'
  BY <1>2, <1>6 DEF OnRecord, Secure, Taken, row
<1>8. HeldTyped(w)'
  BY <1>2, <1>3 DEF HeldTyped, row
<1>9. WorkerTx(w)' /\ Late(w)
  BY <1>2, <1>3, WorkerFacts DEF WorkerTx, Late, Reporting
<1>10. {} \in SUBSET {w} /\ pauses' = pauses
  BY <1>4
<1> QED BY <1>2, <1>3, <1>5, <1>7, <1>8, <1>9, <1>10, WorkerGood

\* Claim takes effect and its answer is lost.
LEMMA ClaimIsLostGood ==
    ASSUME SystemInv, NEW w \in Worker, ClaimIsLost(w)
    PROVE  SystemGood
<1>1. PICK id \in DOMAIN table : Claim(w, id)
  BY DEF ClaimIsLost
<1>2. TableStep({}, {})
  BY <1>1, ClaimTable
<1>3. UNCHANGED <<phase, recovery, pc, held, beats, pauses>> /\ faults' \in Nat /\ pauses \in Nat
  BY WorkerFacts DEF ClaimIsLost, SystemInv, EnginesSound
<1>4. notify' \in [EngineId -> 0 .. NotifyCap]
  BY WorkerFacts, WakeTyped DEF ClaimIsLost
<1>5. EnginesSound'
  BY <1>3, <1>4, WorkerFacts DEF EnginesSound, EngineSound
<1> QED BY <1>2, <1>3, <1>5, ClientGood

\* Claim returns no job to a worker that a token has woken.
LEMMA FindsNothingGood ==
    ASSUME SystemInv, NEW w \in Worker, WorkerFindsNothing(w)
    PROVE  SystemGood
<1>1. TableStep({}, {}) /\ pauses' = pauses /\ pauses \in Nat
  BY NoEffect DEF WorkerFindsNothing, SystemInv, EnginesSound
<1>2. faults' \in Nat
  BY WorkerFacts DEF WorkerFindsNothing, Answers, Refused
<1>3. EngineSound' /\ UNCHANGED <<pc, held>>
  BY WorkerFacts, LoopsSound DEF WorkerFindsNothing
<1>4. EnginesSound'
  BY <1>1, <1>2, <1>3 DEF EnginesSound
<1> QED BY <1>1, <1>3, <1>4, ClientGood

\* Fail and Retry, answered, refused or broken.
LEMMA ReportsGood ==
    ASSUME SystemInv, NEW w \in Worker,
           WorkerFails(w) \/ WorkerFailsNoHandler(w) \/ WorkerRetries(w)
    PROVE  SystemGood
<1>1. /\ pc[w] \in {"fail", "noHandler", "retry"} /\ pauses' = pauses
      /\ faults' = faults \/ Breaks(EngineOf[w])
      /\ \/ UNCHANGED tableVars
         \/ Fail(HeldId(w), w, HeldGen(w), TRUE)
         \/ Retry(HeldId(w), w, HeldGen(w))
  BY DEF WorkerFails, WorkerFailsNoHandler, WorkerRetries, CallFail, Call, Answers, Refused,
         LeaseConflict
<1>2. PICK x \in {"idle", "promote", "died"} : Goes(w, x)
  BY WorkerGoes, WorkerFacts DEF WorkerFails, WorkerFailsNoHandler, WorkerRetries, ListenerPanics
<1>3. /\ x \in PC /\ x \notin Holding /\ pc[w] \in Busy /\ pc[w] # "off"
      /\ faults' \in Nat
  BY <1>1, WorkerFacts DEF PC, Holding, Gone, Busy
<1>4. CASE UNCHANGED tableVars
  <2>1. TableStep({}, {}) /\ UNCHANGED <<table, tx>>
    BY <1>4, NoEffect
  <2>2. tx'[w] = NoTx /\ Late(w)
    BY <1>1, <2>1, WorkerFacts DEF Late
  <2> QED BY <1>1, <1>2, <1>3, <2>1, <2>2, MovesMildly
<1>5. CASE Fail(HeldId(w), w, HeldGen(w), TRUE) \/ Retry(HeldId(w), w, HeldGen(w))
  <2>1. TableStep({}, {HeldId(w)}) /\ Owns(HeldId(w), w, HeldGen(w))
    BY <1>3, <1>5, WorkerFacts, ReportTable
  <2>2. tx'[w] = NoTx /\ Late(w)
    BY <1>1, <2>1, WorkerFacts DEF Late
  <2> QED BY <1>1, <1>2, <1>3, <2>1, <2>2, MovesGood
<1> QED BY <1>1, <1>4, <1>5

\* RequestCancel and PromoteNext, the end of a handler and the exit of an idle worker.
LEMMA OthersGood ==
    ASSUME SystemInv, NEW w \in Worker,
           WorkerRequestsCancel(w) \/ WorkerPromotes(w) \/ HandlerEnds(w) \/ WorkerLeaves(w)
    PROVE  SystemGood
<1>1. /\ pc[w] \in {"cancelThenFail", "cancelThenRetry", "promote", "running", "idle"}
      /\ pauses' = pauses /\ (faults' = faults \/ Breaks(EngineOf[w]))
      /\ \/ UNCHANGED tableVars
         \/ pc[w] \in Busy /\ RequestCancel(HeldId(w))
         \/ PromoteNext(held[w].job.chain, held[w].job.seq)
  BY DEF WorkerRequestsCancel, WorkerPromotes, HandlerEnds, WorkerLeaves, CancelReturned,
         HandlerSucceeds, HandlerFails, HandlerPanics, WorkerExit, Call, Answers, Refused, Busy, Holding
<1>2. PICK x \in PC : Goes(w, x) /\ (x \in Busy => pc[w] \in Holding)
  <2>1. CASE HandlerEnds(w)
    <3>1. CASE HandlerSucceeds(w)
      BY <3>1, WorkerGoes, WorkerFacts DEF PC, Holding, Gone
    <3>2. ASSUME NEW err \in HandlerError, HandlerFails(w, err)
          PROVE  \E x \in PC : Goes(w, x) /\ (x \in Busy => pc[w] \in Holding)
      <4>1. held[w] \in [id : JobId, job : Job] /\ pc[w] = "running"
        BY <3>2 DEF HandlerFails, SystemInv, HeldTyped, Busy, Holding
      <4> QED BY <3>2, <4>1, HandlerFailsGoes, WorkerFacts DEF PC, Holding, Gone
    <3>3. CASE HandlerPanics(w)
      <4>1. [cancel |-> FALSE, nonRetryable |-> PanicPolicy = "fail"] \in HandlerError
        BY DEF HandlerError
      <4>2. WorkerDies(w) => Goes(w, "died") /\ "died" \in PC /\ "died" \notin Busy
        BY WorkerGoes, WorkerFacts DEF PC, Busy, Holding, Gone
      <4> QED BY <3>1, <3>2, <3>3, <4>1, <4>2 DEF HandlerPanics
    <3> QED BY <2>1, <3>1, <3>2, <3>3 DEF HandlerEnds
  <2>2. CASE WorkerRequestsCancel(w)
    BY <2>2, WorkerGoes, WorkerFacts DEF WorkerRequestsCancel, PC, Holding, Gone
  <2>3. CASE WorkerPromotes(w)
    BY <2>3, WorkerGoes, WorkerFacts DEF WorkerPromotes, PC, Busy, Holding, Gone
  <2>4. CASE WorkerLeaves(w)
    BY <2>4, WorkerGoes, WorkerFacts DEF WorkerLeaves, PC, Busy, Holding, Gone
  <2> QED BY <2>1, <2>2, <2>3, <2>4
<1>3. TableStep({}, {})
  BY <1>1, NoEffect, CallTable, BulkTable, WorkerFacts
<1>4. tx'[w] = NoTx /\ Late(w) /\ pc[w] # "off" /\ faults' \in Nat
  BY <1>1, <1>3, WorkerFacts DEF Late, Reporting
<1>5. (x \in Busy => pc[w] \in Busy) /\ (x \in Holding => pc[w] \in Holding)
  BY <1>2 DEF Busy
<1> QED BY <1>1, <1>2, <1>3, <1>4, <1>5, MovesMildly

\* Complete opens its transaction, or is told that the job is not the worker's any more.
LEMMA CompletesGood ==
    ASSUME SystemInv, NEW w \in Worker, WorkerCompletes(w)
    PROVE  SystemGood
<1>1. pc[w] = "complete" /\ pc[w] \in Busy /\ UNCHANGED <<faults, pauses>>
  BY DEF WorkerCompletes, Answers, Busy, Holding
<1>2. CASE Complete(w, HeldId(w), w, HeldGen(w)) /\ UNCHANGED engineVars
  <2> DEFINE id == HeldId(w)
  <2>1. Owns(id, w, HeldGen(w)) /\ CompleteAndPromote(w, {id}, {Place(id)})
    BY <1>2 DEF Complete
  <2>2. {id} \in SUBSET DOMAIN table /\ table[id].status \in Ran \ {"COMPLETED"}
    BY <2>1 DEF Owns, Ran
  <2>3. EnginesSound' /\ UNCHANGED <<pc, held>>
    BY <1>1, <1>2, EnginesStay DEF SystemInv, EnginesSound
  <2>4. HeldId(w)' = HeldId(w) /\ HeldGen(w)' = HeldGen(w)
    BY <2>3 DEF HeldId, HeldGen
  <2> HIDE DEF id
  <2>5. /\ TableStep({w}, {}) /\ UNCHANGED table
        /\ tx'[w].at = "commit" /\ {id} \subseteq DOMAIN tx'[w].writes
        /\ \A i \in DOMAIN tx'[w].writes \ {id} : i \in DOMAIN table /\ table[i].status = "BLOCKED"
    BY <2>1, <2>2, WorkerFacts, CompleteWrites
  <2>6. WorkerTx(w)'
    BY <1>1, <2>1, <2>3, <2>4, <2>5 DEF WorkerTx, Owns, id
  <2>7. HeldTyped(w)' /\ Late(w) /\ {w} \in SUBSET {w}
    BY <2>3 DEF SystemInv, HeldTyped, Late
  <2>8. pc'[w] \in Holding => pc[w] \in Holding /\ held'[w] = held[w]
    BY <2>3
  <2> QED BY <1>1, <2>3, <2>5, <2>6, <2>7, <2>8, WorkerGood
<1>3. CASE LeaseConflict(HeldId(w), w, HeldGen(w)) /\ CompleteReturned(w, FALSE)
  <2>1. TableStep({}, {}) /\ UNCHANGED <<table, tx>>
    BY <1>3, NoEffect DEF LeaseConflict
  <2>2. tx[w] = NoTx
    BY <1>3 DEF LeaseConflict, SystemInv, WorkerTx
  <2>3. Goes(w, "idle") /\ "idle" \in PC /\ "idle" \notin Busy /\ "idle" \notin Holding
    BY <1>3, WorkerFacts, WorkerGoes DEF PC, Gone, Holding, Busy
  <2>4. Late(w) /\ tx'[w] = NoTx /\ faults' \in Nat
    BY <1>1, <2>1, <2>2, WorkerFacts DEF Late
  <2> QED BY <1>1, <2>1, <2>3, <2>4, MovesMildly
<1> QED BY <1>2, <1>3 DEF WorkerCompletes

\* Complete commits.  Nobody has taken the job meanwhile: its row is locked.
LEMMA CompleteCommitsGood ==
    ASSUME SystemInv, NEW w \in Worker, CompleteCommits(w)
    PROVE  SystemGood
<1>1. /\ pauses' = pauses /\ Commit(w) /\ tx[w].at = "commit"
      /\ \E ok \in BOOLEAN : CompleteReturned(w, ok)
      /\ faults' \in Nat
  BY WorkerFacts DEF CompleteCommits, Commit, Answers
<1>2. /\ pc[w] = "complete" /\ Owns(HeldId(w), w, HeldGen(w))
      /\ \A id \in DOMAIN tx[w].writes \ {HeldId(w)} : table[id].status = "BLOCKED"
  BY <1>1 DEF SystemInv, WorkerTx, NoTx
<1>3. \A id \in (DOMAIN tx[w].writes \cap DOMAIN table) \ {HeldId(w)} : table[id].status \notin Taken
  BY <1>2 DEF Taken
<1>4. TableStep({w}, {HeldId(w)}) /\ tx'[w] = NoTx
  BY <1>1, <1>3, WorkerFacts, CommitTable
<1>5. Goes(w, "idle") /\ "idle" \in PC /\ "idle" \notin Busy /\ "idle" \notin Holding
  BY <1>1, WorkerFacts, WorkerGoes DEF PC, Gone, Holding, Busy
<1>6. Late(w) /\ {w} \in SUBSET {w} /\ pc[w] # "off"
  BY <1>2 DEF Late
<1> QED BY <1>1, <1>2, <1>4, <1>5, <1>6, MovesGood

\* Complete fails before its commit.
LEMMA CompleteFailsGood ==
    ASSUME SystemInv, NEW w \in Worker, CompleteFails(w)
    PROVE  SystemGood
<1>1. pauses' = pauses /\ CompleteReturned(w, FALSE) /\ pc[w] = "complete" /\ faults' \in Nat
  BY WorkerFacts DEF CompleteFails, CompleteReturned, Refused
<1>2. Goes(w, "idle") /\ "idle" \in PC /\ "idle" \notin Busy /\ "idle" \notin Holding
  BY <1>1, WorkerFacts, WorkerGoes DEF PC, Gone, Holding, Busy
<1>3. CASE Rollback(w)
  <2>1. TableStep({w}, {}) /\ tx'[w] = NoTx /\ UNCHANGED table
    BY <1>3, WorkerFacts, RollbackTable
  <2>2. Late(w) /\ {w} \in SUBSET {w} /\ pc[w] # "off"
    BY <1>1, <2>1 DEF Late
  <2> QED BY <1>1, <1>2, <2>1, <2>2, MovesGood
<1>4. CASE tx[w].at = "none" /\ UNCHANGED tableVars
  <2>1. TableStep({}, {}) /\ UNCHANGED <<table, tx>>
    BY <1>4, NoEffect
  <2>2. Late(w) /\ tx'[w] = NoTx /\ pc[w] # "off"
    BY <1>1, <1>4, <2>1, WorkerFacts DEF Late
  <2> QED BY <1>1, <1>2, <2>1, <2>2, MovesMildly
<1> QED BY <1>3, <1>4 DEF CompleteFails

-----------------------------------------------------------------------------
(* Heartbeats, recovery, start and stop, time                                  *)

\* A heartbeat.
LEMMA HeartbeatTickGood ==
    ASSUME SystemInv, NEW b \in beats, HeartbeatTick(b)
    PROVE  SystemGood
<1>1. b.worker \in Worker /\ b.id \in JobId /\ EngineSound /\ faults \in Nat
  BY DEF SystemInv, EnginesSound, EngineSound, Beat
<1>2. /\ pauses' = pauses /\ faults' \in Nat
      /\ HeartbeatReturned(b, TRUE) \/ HeartbeatReturned(b, FALSE)
      /\ UNCHANGED tableVars \/ Heartbeat(b.id, b.worker, b.gen)
  <2>1. faults' = faults \/ Breaks(EngineOf[b.worker])
    BY DEF HeartbeatTick, Answers
  <2>2. faults' \in Nat
    BY <1>1, <2>1, WorkerFacts
  <2> QED BY <2>2 DEF HeartbeatTick, LeaseConflict
<1>3. EngineSound' /\ UNCHANGED <<recovery, pc, held>>
  BY <1>1, <1>2, LoopsSound
<1>4. EnginesSound'
  BY <1>2, <1>3 DEF SystemInv, EnginesSound
<1>5. TableStep({}, {})
  BY <1>1, <1>2, NoEffect, CallTable
<1> QED BY <1>2, <1>3, <1>4, <1>5, ClientGood

\* RecoverStale, and a token for each job it has recovered.
LEMMA RecoveryTickGood ==
    ASSUME SystemInv, NEW e \in EngineId, RecoveryTick(e)
    PROVE  SystemGood
<1>1. /\ RecoverStale /\ RecoveryReturned(e, Cardinality(Changed))
      /\ UNCHANGED <<faults, pauses>> /\ EngineSound
  BY DEF RecoveryTick, Answers, SystemInv, EnginesSound
<1>2. Cardinality(Changed) \in Nat
  <2>1. Changed \subseteq issued /\ IsFiniteSet(issued)
    BY DEF Changed, SystemInv, PgInv, TableInv, TxTyped
  <2> QED BY <2>1, FS_Subset, FS_CardinalityType
<1>3. EngineSound' /\ UNCHANGED <<recovery, pc, held>>
  BY <1>1, <1>2, LoopsSound
<1>4. EnginesSound'
  BY <1>1, <1>3 DEF SystemInv, EnginesSound
<1>5. TableStep({}, {})
  BY <1>1, BulkTable
<1> QED BY <1>1, <1>3, <1>4, <1>5, ClientGood

\* RecoverStale takes effect and its answer is lost.
LEMMA RecoveryIsLostGood ==
    ASSUME SystemInv, NEW e \in EngineId, RecoveryIsLost(e)
    PROVE  SystemGood
<1>1. TableStep({}, {}) /\ UNCHANGED <<engineVars, pauses>>
  BY BulkTable DEF RecoveryIsLost
<1>2. faults' \in Nat /\ pauses' \in Nat
  BY DEF RecoveryIsLost, Breaks, SystemInv, EnginesSound
<1>3. EnginesSound' /\ UNCHANGED <<pc, held>>
  BY <1>1, <1>2, EnginesStay
<1> QED BY <1>1, <1>3, ClientGood

\* Start, Shutdown, NotifyChain and the end of the loops.
LEMMA EngineStepGood ==
    ASSUME SystemInv, NEW e \in EngineId, EngineStep(e)
    PROVE  SystemGood
<1>1. TableStep({}, {}) /\ UNCHANGED <<table, tx, faults, pauses>> /\ EngineSound
  BY NoEffect DEF EngineStep, SystemInv, EnginesSound
<1>2. CASE Start(e)
  <2>1. /\ EngineSound' /\ held' = held
        /\ pc' = [w \in Worker |-> IF EngineOf[w] = e THEN "idle" ELSE pc[w]]
        /\ \A w \in Worker : EngineOf[w] = e => pc[w] = "off"
    BY <1>1, <1>2, StartSound
  <2>2. \A w \in Worker : pc'[w] = pc[w] \/ (pc[w] = "off" /\ pc'[w] = "idle")
    BY <2>1
  <2>3. EnginesSound'
    BY <1>1, <2>1 DEF SystemInv, EnginesSound
  <2>4. \A w \in Worker : pc'[w] \in Busy => pc[w] \in Busy
    BY <2>2 DEF Busy, Holding
  <2>5. \A w \in Worker : HeldTyped(w)' /\ (pc'[w] \in Holding => pc[w] \in Holding)
    BY <2>1, <2>2, <2>4 DEF SystemInv, HeldTyped, Holding
  <2>6. \A w \in Worker : Late(w) /\ (tx[w] # NoTx => pc'[w] = pc[w] /\ held'[w] = held[w])
    BY <2>1, <2>2 DEF SystemInv, WorkerTx, Late, Reporting
  <2>7. {} \in SUBSET Session
    OBVIOUS
  <2> QED BY <1>1, <2>1, <2>3, <2>5, <2>6, <2>7, StepGood
<1>3. CASE \/ Shutdown(e) \/ ShutdownReturns(e) \/ NotifyChain(e) \/ RecoveryExit(e)
           \/ RecoveryDies(e, CountDLQ)
  <2>1. EngineSound' /\ UNCHANGED <<pc, held>>
    BY <1>1, <1>3, LoopsSound
  <2>2. EnginesSound'
    BY <1>1, <2>1 DEF SystemInv, EnginesSound
  <2> QED BY <1>1, <2>1, <2>2, ClientGood
<1> QED BY <1>2, <1>3 DEF EngineStep

\* A retry time comes, or a lease runs out: of a job that nobody is at work on, or else
\* the step is counted as a pause.
LEMMA TimePassesGood ==
    ASSUME SystemInv, NEW id \in JobId, JobBecomesDue(id) \/ LeaseLapses(id) \/ LeaseRunsOut(id)
    PROVE  SystemGood
<1>1. faults \in Nat /\ pauses \in Nat
  BY DEF SystemInv, EnginesSound
<1>2. faults' \in Nat /\ pauses' \in Nat /\ (pauses' = 0 => pauses = 0) /\ UNCHANGED engineVars
  BY <1>1 DEF JobBecomesDue, LeaseLapses, LeaseRunsOut
<1>3. EnginesSound' /\ UNCHANGED <<pc, held>>
  BY <1>2, EnginesStay
<1>4. CASE JobBecomesDue(id)
  BY <1>2, <1>3, <1>4, CallTable, ClientGood DEF JobBecomesDue
<1>5. CASE LeaseLapses(id)
  <2>1. LeaseExpires(id) /\ pauses' # 0
    BY <1>1, <1>5 DEF LeaseLapses
  <2>2. TableStep({}, {id}) /\ {} \in SUBSET (Session \ Worker)
    BY <2>1, LeaseTable
  <2> QED BY <1>2, <1>3, <2>1, <2>2, ClientGood
<1>6. CASE LeaseRunsOut(id)
  <2>1. LeaseExpires(id) /\ pauses' = pauses /\ \A w \in Worker : ~AtWork(w, id)
    BY <1>6 DEF LeaseRunsOut
  <2>2. \A w \in Worker : pauses' = 0 /\ pc[w] \in Holding => HeldId(w) # id
    BY <2>1 DEF LeaseExpires, SystemInv, NobodyRobbed, OnRecord, AtWork, Owns
  <2>3. \A w \in Worker : pauses' = 0 /\ pc[w] \in Holding => HeldId(w) \notin {id}
    BY <2>2
  <2>4. TableStep({}, {id}) /\ {} \in SUBSET (Session \ Worker)
    BY <2>1, LeaseTable
  <2> QED BY <1>2, <1>3, <2>3, <2>4, ClientGood
<1> QED BY <1>4, <1>5, <1>6

-----------------------------------------------------------------------------
(* The invariant, and what follows from it                                     *)

\* Every step of the system.
LEMMA SystemNextGood ==
    ASSUME SystemInv, Next
    PROVE  SystemGood
<1>1. ASSUME NEW w \in Worker, WorkerProgress(w) PROVE SystemGood
  BY <1>1, OthersGood, CompletesGood, CompleteCommitsGood, CompleteFailsGood, ReportsGood
     DEF WorkerProgress
<1>2. ASSUME NEW w \in Worker, WorkerClaims(w) \/ ClaimIsLost(w) \/ WorkerFindsNothing(w)
                                  \/ WorkerLeaves(w)
      PROVE  SystemGood
  BY <1>2, WorkerClaimsGood, ClaimIsLostGood, FindsNothingGood, OthersGood
<1> QED BY <1>1, <1>2, SessionsGood, HeartbeatTickGood, RecoveryTickGood, RecoveryIsLostGood,
           EngineStepGood, TimePassesGood DEF Next

\* Nothing happens.
LEMMA SystemStutters ==
    ASSUME SystemInv, UNCHANGED vars
    PROVE  SystemGood
<1>1. TableStep({}, {}) /\ UNCHANGED <<engineVars, faults, pauses>>
  BY NoEffect DEF vars, tableVars, engineVars
<1>2. EnginesSound' /\ UNCHANGED <<pc, held, pauses>>
  BY <1>1, EnginesStay DEF SystemInv, EnginesSound
<1> QED BY <1>1, <1>2, ClientGood

\* It holds at the start.
LEMMA SystemInitInv == Init => SystemInv
<1> SUFFICES ASSUME Init PROVE SystemInv
  OBVIOUS
<1>1. PgInv /\ EngineSound
  BY InitInv, InitSound DEF Init
<1>2. /\ table = EmptyMap /\ issued = {} /\ \A s \in Session : tx[s] = NoTx
      /\ \A w \in Worker : pc[w] = "off" /\ w \in Session
  BY PgSystemAssumption DEF Init, TableInit, EngineInit
<1>3. DOMAIN table = {} /\ DOMAIN NoTx.writes = {}
  BY <1>2 DEF EmptyMap, NoTx
<1>4. IsFiniteSet(issued)
  BY <1>2, FS_EmptySet
<1>5. EnginesSound
  BY <1>1, <1>2 DEF EnginesSound, Init
<1>6. \A w \in Worker : pc[w] \notin Busy /\ pc[w] \notin Holding
  BY <1>2 DEF Busy, Holding
<1>7. \A w \in Worker : HeldTyped(w) /\ WorkerTx(w)
  BY <1>2, <1>6 DEF HeldTyped, WorkerTx
<1>8. NobodyRobbed /\ FinishedPrefix /\ \A s \in Session : ClientTx(s)
  BY <1>2, <1>3, <1>6 DEF NobodyRobbed, FinishedPrefix, ClientTx
<1> QED BY <1>1, <1>4, <1>5, <1>7, <1>8 DEF SystemInv

\* SystemInv is an invariant, and every step is one of those to be shown.
LEMMA SystemInvHolds == Spec => []SystemInv /\ [][SystemGood]_vars
<1>1. SystemInv /\ [Next]_vars => SystemGood
  BY SystemNextGood, SystemStutters
<1>2. SystemGood => SystemInv'
  BY DEF SystemGood
<1> QED BY <1>1, <1>2, SystemInitInv, PTL DEF Spec

\* Type correctness of the table, the transactions and the engines, with any number of
\* engines and whatever calls break: among it, that a worker has a job exactly while it is
\* running it or reporting on it, and that the wake-ups never exceed the channel.
THEOREM SystemTypeHolds == Spec => []TypeOK
<1>1. SystemInv => TypeOK
  <2> SUFFICES ASSUME SystemInv PROVE TypeOK
    OBVIOUS
  <2>1. PgTypeOK
    BY InvTyped DEF SystemInv, PgInv, PgTypeOK
  <2>2. EnginesSound /\ EngineSound /\ \A w \in Worker : HeldTyped(w)
    BY DEF SystemInv, EnginesSound
  <2>3. \A w \in Worker : IF pc[w] \in Holding \cup {"promote"}
                          THEN held[w] \in [id : JobId, job : Job] ELSE held[w] = NotHeld
    BY <2>2 DEF EngineSound, HeldTyped, Busy
  <2> QED BY <2>1, <2>2, <2>3 DEF TypeOK, EnginesSound, EngineSound
<1> QED BY <1>1, SystemInvHolds, PTL

\* A job at work has no claimed job behind it in its chain, unless operators interfere.
LEMMA NoneBehind ==
    ASSUME SystemInv, Quiet, NEW i \in DOMAIN table, NEW j \in DOMAIN table,
           table[i].chain = table[j].chain, table[i].status \in Taken,
           table[i].gen > 0, table[j].gen > 0
    PROVE  table[j].seq <= table[i].seq
<1>1. table[i].seq \in Int /\ table[j].seq \in Int /\ FinishedPrefix /\ UniquePlaces(table)
  BY RowIsJob DEF SystemInv, PgInv, TableInv, Job
<1>2. table[i].seq >= 1
  BY <1>1 DEF FinishedPrefix
<1> SUFFICES ASSUME table[i].seq < table[j].seq PROVE FALSE
  BY <1>1
<1>3. table[i].seq \in 1 .. table[j].seq - 1
  BY <1>1, <1>2
<1>4. PICK p \in At(table, table[j].chain, table[i].seq) : PredFinished(table[p])
  BY <1>1, <1>3 DEF FinishedPrefix
<1>5. p = i
  BY <1>1, <1>4 DEF At, UniquePlaces
<1> QED BY <1>4, <1>5 DEF PredFinished, Taken, DLQStatus

\* Two workers are at work on one chain only after a lease ran out under a live worker, or
\* where operators replay or purge: lost claims, lost answers, failed reports, panics and
\* shutdowns do not bring it about, although Claim never asks whether the chain is busy.
THEOREM OverlapNeedsPauseHolds == Spec => []OverlapNeedsPause
<1>1. SystemInv => OverlapNeedsPause
  <2> SUFFICES ASSUME SystemInv, pauses = 0, Quiet, NEW v \in Worker, NEW w \in Worker,
                      pc[v] \in Holding, pc[w] \in Holding,
                      held[v].job.chain = held[w].job.chain
               PROVE  v = w
    BY DEF OverlapNeedsPause, Quiet
  <2> DEFINE i == HeldId(v)
             j == HeldId(w)
  <2>1. OnRecord(v) /\ OnRecord(w) /\ HeldTyped(v) /\ HeldTyped(w)
    BY DEF SystemInv, NobodyRobbed
  <2>2. /\ i \in DOMAIN table /\ table[i].worker = v /\ table[i].status \in Taken
        /\ j \in DOMAIN table /\ table[j].worker = w /\ table[j].status \in Taken
        /\ table[i].chain = table[j].chain
    BY <2>1 DEF OnRecord, Secure
  <2>3. table[i].gen > 0 /\ table[j].gen > 0
    BY <2>1 DEF OnRecord, HeldTyped, HeldGen, Busy
  <2> HIDE DEF i, j
  <2>4. table[i].seq <= table[j].seq /\ table[j].seq <= table[i].seq
    BY <2>2, <2>3, NoneBehind
  <2>5. table[i].seq \in Int /\ table[j].seq \in Int /\ UniquePlaces(table)
    BY <2>2, RowIsJob DEF SystemInv, PgInv, TableInv, Job
  <2>6. table[i].seq = table[j].seq
    BY <2>4, <2>5
  <2>7. i = j
    BY <2>2, <2>5, <2>6 DEF UniquePlaces
  <2> QED BY <2>2, <2>7
<1> QED BY <1>1, SystemInvHolds, PTL

\* What a worker reports late leaves the job alone: the fence in the UPDATE of Complete, Fail
\* and Retry turns it away, and a transaction of Complete keeps the row it has fenced locked.
THEOREM LateReportHolds == Spec => LateReportIsFenced
<1> DEFINE A == \A w \in Worker :
          /\ pc[w] \in {"complete", "fail", "noHandler", "retry"} /\ pc'[w] # pc[w]
          /\ HeldId(w) \in DOMAIN table
          /\ LET row == table[HeldId(w)]
             IN <<row.status, row.worker, row.gen>> # <<"PROCESSING", w, HeldGen(w)>>
          => table'[HeldId(w)] = table[HeldId(w)]
<1>1. SystemGood => A
  BY DEF SystemGood, Late, Reporting, Owns
<1> QED BY <1>1, SystemInvHolds, PTL DEF LateReportIsFenced

\* Numbers that an enqueue has found stay free until it inserts, and keys unique in a chain,
\* while engines complete and promote the jobs of the same chains.
THEOREM SystemNumbersHold == Spec => [](NumberStaysFree /\ KeyUniqueInChain)
<1>1. SystemInv => NumberStaysFree /\ KeyUniqueInChain
  BY InvNumbers
     DEF SystemInv, PgInv, TableInv, UniqueKeys, NumberStaysFree, KeyUniqueInChain
<1> QED BY <1>1, SystemInvHolds, PTL

\* A COMPLETED job stays so under engines whose answers are lost.
THEOREM SystemCompletedFinalHolds == Spec => CompletedIsFinal
<1> DEFINE A == \A id \in DOMAIN table : table[id].status = "COMPLETED" =>
                   id \in DOMAIN table' /\ table'[id].status = "COMPLETED"
<1>1. SystemGood => A
  BY DEF SystemGood, Final
<1>2. UNCHANGED vars => UNCHANGED tableVars
  BY DEF vars, tableVars
<1> QED BY <1>1, <1>2, SystemInvHolds, PTL DEF CompletedIsFinal

\* Engines on the PostgreSQL repository implement OrderedChain: every step of a worker, of
\* recovery, of a producer or an operator, whether its answer arrives or not, is one of the
\* promised steps on the committed rows, or changes nothing the promise speaks of.
THEOREM SystemRefinementHolds == Spec => ImplementsOrderedChain
<1>1. Init => Contract!Init
  <2>1. ASSUME Init PROVE ChainView(table) = [i \in {} |-> i]
    BY <2>1 DEF Init, TableInit, EmptyMap, ChainView
  <2> QED BY <2>1 DEF Contract!Init
<1>2. [SystemGood]_vars => [Contract!Next]_(ChainView(table))
  BY SamePromise DEF SystemGood, vars
<1> QED BY <1>1, <1>2, SystemInvHolds, PTL DEF Spec, ImplementsOrderedChain, Contract!Spec

\* Unless the dead letter queue is purged, jobs of strict chains are claimed in order and one
\* at a time, even when claims and answers are lost and leases run out under live workers.
THEOREM SystemOrderHolds ==
    ASSUME "bulkPurge" \notin Commands
    PROVE  Spec => [](StrictFIFO /\ StrictChainMutex)
<1>1. Order!Spec => [](Order!StartedPrefix /\ Order!StrictOrder)
  BY Order!StrictOrderHolds
<1>2. Contract!Spec => Order!Spec
  BY SamePromise, PTL DEF Contract!Spec, Order!Spec
<1>3. SystemInv /\ Order!StartedPrefix /\ Order!StrictOrder => StrictFIFO /\ StrictChainMutex
  BY FIFOFromOrder, MutexFromOrder DEF SystemInv
<1> QED BY <1>1, <1>2, <1>3, SystemInvHolds, SystemRefinementHolds, PTL DEF ImplementsOrderedChain
=============================================================================
