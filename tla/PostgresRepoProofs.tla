-------------------------- MODULE PostgresRepoProofs -------------------------
(***************************************************************************)
(* The PostgreSQL repository keeps its promises for every set of jobs,     *)
(* chains, sessions, workers and requests: the transactions of             *)
(* SqlTableProofs, the claims of OrderedChain.                             *)
(***************************************************************************)
EXTENDS PostgresRepo, SqlTableProofs, TLAPS

\* The promise with the theorems that follow from it.
Order == INSTANCE OrderedChainProofs WITH
    Id <- JobId, Chain <- ChainId, job <- ChainView(table),
    CanRemove <- "bulkPurge" \in Commands, Guarded <- TRUE

\* A job has these statuses only once it has been claimed.
Ran == {"PROCESSING", "COMPLETED", "FAILED", "DEAD_LETTERED", "CANCELLED"}

RanWasClaimed(rows) == \A id \in DOMAIN rows : rows[id].status \in Ran => rows[id].gen > 0

\* A transaction that completes jobs which have been claimed, and promotes blocked ones;
\* the rows it has written are as it found them.
Completes(rows, t) ==
    /\ t.at = "commit"
    /\ DOMAIN t.writes \subseteq DOMAIN rows
    /\ \A id \in DOMAIN t.writes :
          /\ t.writes[id].gen = rows[id].gen
          /\ rows[id].status # "COMPLETED"
          /\ \/ t.writes[id].status = "COMPLETED" /\ rows[id].gen > 0
             \/ t.writes[id].status = "PENDING" /\ rows[id].status = "BLOCKED"

\* A transaction that writes new jobs only, or nothing yet.
Inserts(rows, t) ==
    /\ DOMAIN t.writes \cap DOMAIN rows = {}
    /\ \A id \in DOMAIN t.writes :
          t.writes[id].gen = 0 /\ t.writes[id].status \in {"PENDING", "BLOCKED"}

\* The inductive invariant: the table's, and what the repository writes into it.
PgInv ==
    /\ TableInv
    /\ RanWasClaimed(table)
    /\ \A s \in Session : /\ tx[s].items \subseteq ChainId \X Int
                          /\ Completes(table, tx[s]) \/ Inserts(table, tx[s])

\* A COMPLETED job stays COMPLETED in this step.
Final ==
    \A id \in DOMAIN table : table[id].status = "COMPLETED" =>
        id \in DOMAIN table' /\ table'[id].status = "COMPLETED"

\* What is to be shown of a step.
Good == PgInv' /\ Final /\ (Order!Next \/ UNCHANGED ChainView(table))

-----------------------------------------------------------------------------
(* The view                                                                    *)

\* The table's view is well typed, its places unique.
LEMMA ViewTyped == TableInv => Order!ViewTypeOK /\ Order!PlacesUnique
<1> SUFFICES ASSUME TableInv PROVE Order!ViewTypeOK /\ Order!PlacesUnique
  OBVIOUS
<1>1. table \in Rows /\ DOMAIN table \subseteq JobId /\ UniquePlaces(table)
  BY RowsFacts DEF TableInv, TxTyped
<1>2. Order!ViewTypeOK
  BY <1>1, ViewFacts DEF Order!ViewTypeOK, Order!JobView, Order!Phase
<1>3. Order!PlacesUnique
  BY <1>1, ViewFacts DEF Order!PlacesUnique, UniquePlaces
<1> QED BY <1>2, <1>3

\* The same after a step.
LEMMA ViewTypedNext == (TableInv => Order!ViewTypeOK /\ Order!PlacesUnique)'
BY ViewTyped, PTL

\* A step that rewrites the rows of S, and others so that OrderedChain does not see it.
LEMMA RowsKept ==
    ASSUME TableInv, TableInv', NEW S \in SUBSET DOMAIN table, DOMAIN table' = DOMAIN table,
           \A id \in S : SameJob(table'[id], table[id]),
           \A id \in DOMAIN table \ S : SameView(table'[id], table[id])
    PROVE  Order!Keeps(S)
<1>1. table \in Rows /\ table' \in Rows
  BY DEF TableInv, TxTyped
<1> DEFINE old == ChainView(table)
           new == ChainView(table')
<1>2. DOMAIN old = DOMAIN table /\ DOMAIN new = DOMAIN table
  BY <1>1, ViewFacts
<1>3. \A id \in DOMAIN table \ S : new[id] = old[id]
  BY <1>1, ViewKept
<1>4. \A id \in S : /\ new[id].chain = old[id].chain /\ new[id].seq = old[id].seq
                    /\ new[id].strict = old[id].strict
  <2> SUFFICES ASSUME NEW id \in S
               PROVE  /\ new[id].chain = old[id].chain /\ new[id].seq = old[id].seq
                      /\ new[id].strict = old[id].strict
    OBVIOUS
  <2>1. id \in DOMAIN table /\ id \in DOMAIN table' /\ SameJob(table'[id], table[id])
    OBVIOUS
  <2> QED BY <1>1, <2>1, ViewFacts DEF SameJob
<1> HIDE DEF old, new
<1>5. /\ DOMAIN new = DOMAIN old
      /\ \A i \in DOMAIN old \ S : new[i] = old[i]
      /\ \A i \in S : /\ new[i].chain = old[i].chain /\ new[i].seq = old[i].seq
                      /\ new[i].strict = old[i].strict
  BY <1>2, <1>3, <1>4
<1> QED BY <1>5 DEF Order!Keeps, old, new

\* A step that OrderedChain does not see at all.
LEMMA ViewUnchanged ==
    ASSUME TableInv, TableInv', DOMAIN table' = DOMAIN table,
           \A id \in DOMAIN table : SameView(table'[id], table[id])
    PROVE  UNCHANGED ChainView(table)
BY DEF ChainView, SameView, SameJob

-----------------------------------------------------------------------------
(* Shapes of steps                                                             *)

\* A session goes on, the table stays.
LEMMA SessionGood ==
    ASSUME PgInv, TableInv', UNCHANGED table, NEW s \in Session, NEW u, Continue(s, u),
           u.items \subseteq ChainId \X Int, Completes(table, u) \/ Inserts(table, u)
    PROVE  Good
<1>1. tx' = [tx EXCEPT ![s] = u] /\ tx \in [Session -> Tx]
  BY DEF Continue, PgInv, TableInv, TxTyped
<1>2. tx'[s] = u /\ \A o \in Session \ {s} : tx'[o] = tx[o]
  BY <1>1
<1>3. PgInv'
  BY <1>2 DEF PgInv, Completes, Inserts, RanWasClaimed
<1>4. Final /\ UNCHANGED ChainView(table)
  BY DEF Final
<1> QED BY <1>3, <1>4 DEF Good

\* What transactions have written fits the table still, when no written row changes.
LEMMA WritesFit ==
    ASSUME NEW t \in Tx, NEW rows \in Rows, NEW new \in Rows,
           Completes(rows, t) \/ Inserts(rows, t),
           DOMAIN new \cap DOMAIN t.writes = DOMAIN rows \cap DOMAIN t.writes,
           \A id \in DOMAIN rows \cap DOMAIN t.writes : new[id] = rows[id]
    PROVE  Completes(new, t) \/ Inserts(new, t)
BY DEF Completes, Inserts

\* A statement rewrites rows.
LEMMA WriteKeepsInv ==
    ASSUME PgInv, NEW rows \in Rows, Write(rows), DOMAIN rows \subseteq DOMAIN table,
           \A id \in DOMAIN rows :
              /\ SameJob(rows[id], table[id])
              /\ rows[id].status \in Ran => rows[id].gen > 0
    PROVE  /\ PgInv'
           /\ TableInv /\ TableInv' /\ DOMAIN table' = DOMAIN table
           /\ \A id \in DOMAIN rows : table'[id] = rows[id]
           /\ \A id \in DOMAIN table \ DOMAIN rows : table'[id] = table[id]
<1>1. /\ TableInv /\ TableInv' /\ table \in Rows
      /\ table' \in Rows /\ DOMAIN table' = DOMAIN table
      /\ \A id \in DOMAIN rows : table'[id] = rows[id] /\ ~Locked(id)
      /\ \A id \in DOMAIN table \ DOMAIN rows : table'[id] = table[id]
  BY WriteStep DEF PgInv, TableInv, TxTyped
<1>2. RanWasClaimed(table')
  BY <1>1 DEF PgInv, RanWasClaimed
<1>3. tx' = tx /\ tx \in [Session -> Tx]
  BY DEF Write, PgInv, TableInv, TxTyped
<1>4. ASSUME NEW s \in Session PROVE Completes(table', tx[s]) \/ Inserts(table', tx[s])
  <2>1. tx[s] \in Tx /\ (Completes(table, tx[s]) \/ Inserts(table, tx[s]))
    BY <1>3 DEF PgInv
  <2>2. \A id \in DOMAIN tx[s].writes : id \notin DOMAIN rows
    BY <1>1 DEF Locked
  <2> QED BY <1>1, <2>1, <2>2, WritesFit
<1>5. PgInv'
  BY <1>1, <1>2, <1>3, <1>4 DEF PgInv
<1> QED BY <1>1, <1>5

\* A statement that rewrites rows and leaves COMPLETED jobs COMPLETED.
LEMMA WriteGood ==
    ASSUME PgInv, NEW rows \in Rows, Write(rows), DOMAIN rows \subseteq DOMAIN table,
           \A id \in DOMAIN rows :
              /\ SameJob(rows[id], table[id])
              /\ table[id].status = "COMPLETED" => rows[id].status = "COMPLETED"
              /\ rows[id].status \in Ran => rows[id].gen > 0
    PROVE  /\ PgInv' /\ Final
           /\ TableInv /\ TableInv' /\ DOMAIN table' = DOMAIN table
           /\ \A id \in DOMAIN rows : table'[id] = rows[id]
           /\ \A id \in DOMAIN table \ DOMAIN rows : table'[id] = table[id]
<1>1. /\ PgInv'
      /\ TableInv /\ TableInv' /\ DOMAIN table' = DOMAIN table
      /\ \A id \in DOMAIN rows : table'[id] = rows[id]
      /\ \A id \in DOMAIN table \ DOMAIN rows : table'[id] = table[id]
  BY WriteKeepsInv
<1>2. Final
  BY <1>1 DEF Final
<1> QED BY <1>1, <1>2

\* A statement rewrites one row.
LEMMA WriteRowGood ==
    ASSUME PgInv, NEW id \in DOMAIN table, NEW row \in Job, WriteRow(id, row),
           SameJob(row, table[id]), table[id].status = "COMPLETED" => row.status = "COMPLETED",
           row.status \in Ran => row.gen > 0
    PROVE  /\ PgInv' /\ Final
           /\ TableInv /\ TableInv' /\ DOMAIN table' = DOMAIN table /\ table'[id] = row
           /\ \A k \in DOMAIN table \ {id} : table'[k] = table[k]
<1> DEFINE rows == [i \in {id} |-> row]
<1>1. DOMAIN rows = {id} /\ rows[id] = row
  OBVIOUS
<1>2. id \in JobId
  BY RowsFacts DEF PgInv, TableInv, TxTyped
<1>3. rows \in Rows
  BY <1>1, <1>2, RowsFacts
<1>4. Write(rows)
  BY DEF WriteRow
<1> HIDE DEF rows
<1> QED BY <1>1, <1>3, <1>4, WriteGood

\* The rows of the table are jobs, with generations that are natural numbers.
LEMMA RowIsJob ==
    ASSUME PgInv, NEW id \in DOMAIN table
    PROVE  table[id] \in Job /\ (table[id].status \in Ran => table[id].gen > 0)
BY RowsFacts DEF PgInv, TableInv, TxTyped, RanWasClaimed

\* The view of one row before and after a step that rewrites it.
LEMMA RowViews ==
    ASSUME TableInv, TableInv', DOMAIN table' = DOMAIN table, NEW id \in DOMAIN table,
           SameJob(table'[id], table[id]),
           \A k \in DOMAIN table \ {id} : table'[k] = table[k]
    PROVE  /\ Order!ViewTypeOK /\ Order!ViewTypeOK' /\ Order!Keeps({id})
           /\ id \in DOMAIN ChainView(table)
           /\ ChainView(table)[id].phase = PhaseOf(table[id].status)
           /\ ChainView(table)[id].token = table[id].gen
           /\ ChainView(table')[id].phase = PhaseOf(table'[id].status)
           /\ ChainView(table')[id].token = table'[id].gen
<1>1. table \in Rows /\ table' \in Rows
  BY DEF TableInv, TxTyped
<1>2. \A k \in DOMAIN table \ {id} : SameView(table'[k], table[k])
  BY DEF SameView, SameJob
<1>3. Order!Keeps({id})
  BY <1>2, RowsKept
<1>4. Order!ViewTypeOK /\ Order!ViewTypeOK'
  BY ViewTyped, ViewTypedNext
<1> QED BY <1>1, <1>3, <1>4, ViewFacts

-----------------------------------------------------------------------------
(* The statements on one row                                                   *)

\* Claim is a Start: the row before it is COMPLETED, or failed and not strict.
LEMMA ClaimGood ==
    ASSUME PgInv, NEW w \in Worker, NEW id \in JobId, Claim(w, id)
    PROVE  Good
<1> DEFINE row == [table[id] EXCEPT !.status = "PROCESSING", !.worker = w,
                                    !.gen = table[id].gen + 1, !.lease = "live",
                                    !.attempt = table[id].attempt + 1]
<1>1. id \in DOMAIN table /\ table[id] \in Job /\ Eligible(id) /\ WriteRow(id, row)
  BY RowIsJob DEF Claim
<1>2. /\ row \in Job /\ SameJob(row, table[id]) /\ row.status = "PROCESSING"
      /\ row.gen = table[id].gen + 1 /\ row.gen > 0 /\ table[id].status \in {"PENDING", "RETRYING"}
  <2>1. table[id].gen + 1 \in Nat /\ table[id].attempt + 1 \in Nat /\ table[id].gen + 1 > 0
    BY <1>1 DEF Job
  <2>2. ASSUME NEW g \in Nat, NEW a \in Nat
        PROVE  [table[id] EXCEPT !.status = "PROCESSING", !.worker = w, !.gen = g, !.lease = "live",
                                 !.attempt = a] \in Job
    BY <1>1 DEF Job, Status, Lease
  <2>3. row.status = "PROCESSING" /\ row.gen = table[id].gen + 1 /\ SameJob(row, table[id])
    BY <1>1 DEF Job, SameJob
  <2> QED BY <1>1, <2>1, <2>2, <2>3 DEF Eligible, CanBeClaimed
<1> HIDE DEF row
<1>3. /\ PgInv' /\ Final
      /\ TableInv /\ TableInv' /\ DOMAIN table' = DOMAIN table /\ table'[id] = row
      /\ \A k \in DOMAIN table \ {id} : table'[k] = table[k]
  BY <1>1, <1>2, WriteRowGood
<1>4. /\ Order!ViewTypeOK /\ Order!ViewTypeOK' /\ Order!Keeps({id})
      /\ id \in DOMAIN ChainView(table)
      /\ ChainView(table)[id].phase = "waiting" /\ ChainView(table')[id].phase = "running"
      /\ ChainView(table')[id].token = ChainView(table)[id].token + 1
  BY <1>1, <1>2, <1>3, RowViews DEF PhaseOf, DLQStatus
<1>5. Order!Startable(id)
  <2>1. table \in Rows
    BY <1>3 DEF TableInv, TxTyped
  <2>2. CASE table[id].seq = 1
    BY <1>1, <2>1, <2>2, ViewFacts DEF Order!Startable
  <2>3. CASE table[id].seq # 1
    <3>1. PICK p \in At(table, table[id].chain, table[id].seq - 1) : PredFinished(table[p])
      BY <1>1, <2>3 DEF Eligible
    <3>2. p \in DOMAIN table /\ table[p].chain = table[id].chain /\ table[p].seq = table[id].seq - 1
      BY <3>1 DEF At
    <3>3. Order!IsAt(p, ChainView(table)[id].chain, ChainView(table)[id].seq - 1)
      BY <1>1, <2>1, <3>2, ViewFacts DEF Order!IsAt
    <3>4. \/ ChainView(table)[p].phase = "done"
          \/ ~ChainView(table)[p].strict /\ ChainView(table)[p].phase = "failed"
      BY <2>1, <3>1, <3>2, ViewFacts DEF PredFinished, PhaseOf, DLQStatus, ContinueModes
    <3>5. Order!LetsGo(p)
      BY <3>4 DEF Order!LetsGo
    <3> QED BY <2>1, <3>2, <3>3, <3>5, ViewFacts DEF Order!Startable
  <2> QED BY <2>2, <2>3
<1>6. Order!Next
  BY <1>4, <1>5, Order!StartByParts
<1> QED BY <1>3, <1>6 DEF Good

\* A statement that changes the phase of one job, other than to start or finish it, and
\* leaves its generation.
LEMMA RowGood ==
    ASSUME PgInv, NEW id \in DOMAIN table, NEW row \in Job, WriteRow(id, row),
           SameJob(row, table[id]), row.gen = table[id].gen,
           row.status \in Ran => row.gen > 0,
           \/ PhaseOf(row.status) = PhaseOf(table[id].status)
           \/ /\ table[id].status # "COMPLETED"
              /\ \/ PhaseOf(row.status) \in {"waiting", "cancelled"}
                 \/ PhaseOf(row.status) = "failed" /\ row.gen > 0
    PROVE  Good
<1>1. table[id].status = "COMPLETED" => row.status = "COMPLETED"
  BY DEF PhaseOf, DLQStatus
<1>2. /\ PgInv' /\ Final
      /\ TableInv /\ TableInv' /\ DOMAIN table' = DOMAIN table /\ table'[id] = row
      /\ \A k \in DOMAIN table \ {id} : table'[k] = table[k]
  BY <1>1, WriteRowGood
<1>3. /\ Order!ViewTypeOK /\ Order!ViewTypeOK' /\ Order!Keeps({id})
      /\ id \in DOMAIN ChainView(table)
      /\ ChainView(table)[id].phase = PhaseOf(table[id].status)
      /\ ChainView(table')[id].phase = PhaseOf(row.status)
      /\ ChainView(table)[id].token = row.gen /\ ChainView(table')[id].token = row.gen
  BY <1>2, RowViews
<1>4. CASE PhaseOf(row.status) = PhaseOf(table[id].status)
  <2>1. \A k \in DOMAIN table : SameView(table'[k], table[k])
    BY <1>2, <1>4 DEF SameView, SameJob
  <2> QED BY <1>2, <2>1, ViewUnchanged DEF Good
<1>5. ASSUME table[id].status # "COMPLETED" PROVE ChainView(table)[id].phase # "done"
  BY <1>3, <1>5 DEF PhaseOf, DLQStatus
<1>6. CASE table[id].status # "COMPLETED" /\ PhaseOf(row.status) = "cancelled"
  BY <1>2, <1>3, <1>5, <1>6, Order!CancelByParts DEF Good
<1>7. CASE table[id].status # "COMPLETED" /\ PhaseOf(row.status) = "waiting"
  <2>1. {id} \in SUBSET DOMAIN ChainView(table)
    BY <1>3
  <2>2. \A i \in {id} : /\ ChainView(table)[i].phase # "done"
                        /\ ChainView(table')[i].phase = "waiting"
                        /\ ChainView(table')[i].token = ChainView(table)[i].token
    BY <1>3, <1>5, <1>7
  <2> QED BY <1>2, <1>3, <2>1, <2>2, Order!ReturnByParts DEF Good
<1>8. CASE table[id].status # "COMPLETED" /\ PhaseOf(row.status) = "failed" /\ row.gen > 0
  BY <1>2, <1>3, <1>5, <1>8, Order!FailByParts DEF Good
<1> QED BY <1>4, <1>6, <1>7, <1>8

\* The worker's fenced statements: Fail, Retry, Heartbeat.
LEMMA FencedGood ==
    ASSUME PgInv, NEW id \in JobId, NEW w \in Worker, NEW g,
           \/ \E terminal \in BOOLEAN : Fail(id, w, g, terminal)
           \/ Retry(id, w, g)
           \/ Heartbeat(id, w, g)
    PROVE  Good
<1>1. id \in DOMAIN table /\ table[id].status = "PROCESSING"
  BY DEF Fail, Retry, Heartbeat, Owns
<1>2. table[id] \in Job /\ table[id].gen > 0
  BY <1>1, RowIsJob DEF Ran
<1>3. ASSUME NEW terminal \in BOOLEAN, Fail(id, w, g, terminal) PROVE Good
  <2>1. PICK status \in DLQStatus : WriteRow(id, [table[id] EXCEPT !.status = status, !.lease = "none"])
    BY <1>3 DEF Fail, DLQStatus
  <2> DEFINE row == [table[id] EXCEPT !.status = status, !.lease = "none"]
  <2>2. row \in Job /\ SameJob(row, table[id]) /\ row.gen = table[id].gen /\ row.status = status
    BY <1>2, <2>1 DEF Job, SameJob, Status, Lease, DLQStatus
  <2> HIDE DEF row
  <2>3. PhaseOf(row.status) = "failed"
    BY <2>1, <2>2 DEF PhaseOf, DLQStatus
  <2> QED BY <1>1, <1>2, <2>1, <2>2, <2>3, RowGood DEF row
<1>4. CASE Retry(id, w, g)
  <2> DEFINE row == [table[id] EXCEPT !.status = "RETRYING", !.avail = "later", !.lease = "none"]
  <2>1. row \in Job /\ SameJob(row, table[id]) /\ row.gen = table[id].gen /\ row.status = "RETRYING"
    BY <1>2 DEF Job, SameJob, Status, Lease, Avail
  <2>2. WriteRow(id, row)
    BY <1>4 DEF Retry
  <2> HIDE DEF row
  <2>3. PhaseOf(row.status) = "waiting" /\ row.status \notin Ran
    BY <2>1 DEF PhaseOf, DLQStatus, Ran
  <2> QED BY <1>1, <1>2, <2>1, <2>2, <2>3, RowGood
<1>5. CASE Heartbeat(id, w, g)
  <2> DEFINE row == [table[id] EXCEPT !.lease = "live"]
  <2>1. row \in Job /\ SameJob(row, table[id]) /\ row.gen = table[id].gen /\ row.status = table[id].status
    BY <1>2 DEF Job, SameJob, Lease
  <2>2. WriteRow(id, row)
    BY <1>5 DEF Heartbeat
  <2> HIDE DEF row
  <2> QED BY <1>1, <1>2, <2>1, <2>2, RowGood
<1> QED BY <1>3, <1>4, <1>5

\* Cancelling: RequestCancel, and ConfirmCancel of a job whose cancellation is requested.
LEMMA CancelGood ==
    ASSUME PgInv, NEW id \in DOMAIN table,
           \/ RequestCancel(id)
           \/ /\ table[id].status = "CANCEL_REQUESTED"
              /\ \E w \in Worker, g \in 1 .. MaxGen : ConfirmCancel(id, w, g)
    PROVE  Good
<1>1. table[id] \in Job
  BY RowIsJob
<1>2. CASE RequestCancel(id)
  <2> DEFINE row == [table[id] EXCEPT !.status = "CANCEL_REQUESTED"]
  <2>1. row \in Job /\ SameJob(row, table[id]) /\ row.gen = table[id].gen /\ row.status = "CANCEL_REQUESTED"
    BY <1>1 DEF Job, SameJob, Status
  <2>2. WriteRow(id, row) /\ table[id].status # "COMPLETED"
    BY <1>2 DEF RequestCancel, Cancellable
  <2> HIDE DEF row
  <2>3. PhaseOf(row.status) = "cancelled" /\ row.status \notin Ran
    BY <2>1 DEF PhaseOf, DLQStatus, Ran
  <2> QED BY <2>1, <2>2, <2>3, RowGood
<1>3. ASSUME table[id].status = "CANCEL_REQUESTED", NEW w \in Worker, NEW g \in 1 .. MaxGen,
             ConfirmCancel(id, w, g)
      PROVE  Good
  <2> DEFINE row == [table[id] EXCEPT !.status = "CANCELLED", !.lease = "none"]
  <2>1. row \in Job /\ SameJob(row, table[id]) /\ row.gen = table[id].gen /\ row.status = "CANCELLED"
    BY <1>1 DEF Job, SameJob, Status, Lease
  <2>2. WriteRow(id, row) /\ table[id].gen = g
    BY <1>3 DEF ConfirmCancel
  <2>3. g > 0
    BY BoundAssumption
  <2> HIDE DEF row
  <2>4. PhaseOf(row.status) = "cancelled"
    BY <2>1 DEF PhaseOf, DLQStatus
  <2> QED BY <1>3, <2>1, <2>2, <2>3, <2>4, RowGood
<1> QED BY <1>2, <1>3

\* ConfirmCancel of any job keeps the invariant: the worker on record has claimed it, and
\* no open transaction has written its row.
LEMMA ConfirmKeepsInv ==
    ASSUME PgInv, NEW id \in JobId, NEW w \in Worker, NEW g \in 1 .. MaxGen,
           ConfirmCancel(id, w, g)
    PROVE  PgInv'
<1> DEFINE row == [table[id] EXCEPT !.status = "CANCELLED", !.lease = "none"]
           rows == [i \in {id} |-> row]
<1>1. id \in DOMAIN table /\ table[id] \in Job /\ table[id].gen = g /\ Write(rows)
  BY RowIsJob DEF ConfirmCancel, WriteRow
<1>2. row \in Job /\ SameJob(row, table[id]) /\ row.gen = table[id].gen /\ row.status = "CANCELLED"
  BY <1>1 DEF Job, SameJob, Status, Lease
<1> HIDE DEF row
<1>3. DOMAIN rows = {id} /\ rows[id] = row /\ rows \in Rows /\ DOMAIN rows \subseteq DOMAIN table
  BY <1>1, <1>2, RowsFacts
<1> HIDE DEF rows
<1>4. \A i \in DOMAIN rows : /\ SameJob(rows[i], table[i])
                             /\ rows[i].status \in Ran => rows[i].gen > 0
  BY <1>1, <1>2, <1>3, BoundAssumption
<1> QED BY <1>1, <1>3, <1>4, WriteKeepsInv

\* ReplayRow makes a job wait again.
LEMMA ReplayRowFacts ==
    ASSUME NEW old \in Job
    PROVE  /\ ReplayRow(old) \in Job /\ SameJob(ReplayRow(old), old)
           /\ ReplayRow(old).gen = old.gen /\ ReplayRow(old).status = "PENDING"
BY DEF ReplayRow, Job, SameJob, Status, Avail, Lease

\* ReplayJob and RescheduleJob.
LEMMA ReplayGood ==
    ASSUME PgInv, NEW id \in DOMAIN table,
           ReplayJob(id) \/ \E a \in Avail : RescheduleJob(id, a)
    PROVE  Good
<1>1. table[id] \in Job /\ (table[id].status \in Ran => table[id].gen > 0)
  BY RowIsJob
<1>2. CASE ReplayJob(id)
  <2> DEFINE row == ReplayRow(table[id])
  <2>1. row \in Job /\ SameJob(row, table[id]) /\ row.gen = table[id].gen /\ row.status = "PENDING"
    BY <1>1, ReplayRowFacts
  <2>2. WriteRow(id, row) /\ table[id].status # "COMPLETED"
    BY <1>2 DEF ReplayJob, Replayable
  <2> HIDE DEF row
  <2>3. PhaseOf(row.status) = "waiting" /\ row.status \notin Ran
    BY <2>1 DEF PhaseOf, DLQStatus, Ran
  <2> QED BY <2>1, <2>2, <2>3, RowGood
<1>3. ASSUME NEW a \in Avail, RescheduleJob(id, a) PROVE Good
  <2> DEFINE row == [table[id] EXCEPT !.avail = a]
  <2>1. row \in Job /\ SameJob(row, table[id]) /\ row.gen = table[id].gen /\ row.status = table[id].status
    BY <1>1 DEF Job, SameJob
  <2>2. WriteRow(id, row)
    BY <1>3 DEF RescheduleJob
  <2> HIDE DEF row
  <2> QED BY <1>1, <2>1, <2>2, RowGood
<1> QED BY <1>2, <1>3

\* Time.
LEMMA TimeGood ==
    ASSUME PgInv, TimeStep
    PROVE  Good
<1>1. PICK id \in JobId : BecomesDue(id) \/ LeaseExpires(id)
  BY DEF TimeStep
<1>2. id \in DOMAIN table /\ table[id] \in Job /\ (table[id].status \in Ran => table[id].gen > 0)
  BY <1>1, RowIsJob DEF BecomesDue, LeaseExpires
<1>3. CASE BecomesDue(id)
  <2> DEFINE row == [table[id] EXCEPT !.avail = "due"]
  <2>1. row \in Job /\ SameJob(row, table[id]) /\ row.gen = table[id].gen /\ row.status = table[id].status
    BY <1>2 DEF Job, SameJob, Avail
  <2>2. WriteRow(id, row)
    BY <1>3 DEF BecomesDue
  <2> HIDE DEF row
  <2> QED BY <1>2, <2>1, <2>2, RowGood
<1>4. CASE LeaseExpires(id)
  <2> DEFINE row == [table[id] EXCEPT !.lease = "expired"]
  <2>1. row \in Job /\ SameJob(row, table[id]) /\ row.gen = table[id].gen /\ row.status = table[id].status
    BY <1>2 DEF Job, SameJob, Lease
  <2>2. WriteRow(id, row)
    BY <1>4 DEF LeaseExpires
  <2> HIDE DEF row
  <2> QED BY <1>2, <2>1, <2>2, RowGood
<1> QED BY <1>1, <1>3, <1>4

-----------------------------------------------------------------------------
(* The statements on several rows                                              *)

\* A statement that makes jobs wait, none of which is COMPLETED.
LEMMA WaitGood ==
    ASSUME PgInv, NEW rows \in Rows, Write(rows), DOMAIN rows \subseteq DOMAIN table,
           \A id \in DOMAIN rows :
              /\ SameJob(rows[id], table[id]) /\ rows[id].gen = table[id].gen
              /\ rows[id].status \in {"PENDING", "RETRYING"} /\ table[id].status # "COMPLETED"
    PROVE  Good
<1>1. /\ PgInv' /\ Final
      /\ TableInv /\ TableInv' /\ DOMAIN table' = DOMAIN table
      /\ \A id \in DOMAIN rows : table'[id] = rows[id]
      /\ \A id \in DOMAIN table \ DOMAIN rows : table'[id] = table[id]
  BY WriteGood DEF Ran
<1>2. table \in Rows /\ table' \in Rows
  BY <1>1 DEF TableInv, TxTyped
<1>3. DOMAIN rows \in SUBSET DOMAIN ChainView(table)
  BY <1>2, ViewFacts
<1>4. Order!Keeps(DOMAIN rows)
  <2>1. \A id \in DOMAIN table \ DOMAIN rows : SameView(table'[id], table[id])
    BY <1>1 DEF SameView, SameJob
  <2>2. \A id \in DOMAIN rows : SameJob(table'[id], table[id])
    BY <1>1
  <2> QED BY <1>1, <2>1, <2>2, RowsKept
<1>5. ASSUME NEW id \in DOMAIN rows
      PROVE  /\ ChainView(table)[id].phase # "done"
             /\ ChainView(table')[id].phase = "waiting"
             /\ ChainView(table')[id].token = ChainView(table)[id].token
  <2>1. id \in DOMAIN table /\ id \in DOMAIN table' /\ table'[id] = rows[id]
    BY <1>1, <1>5
  <2>2. /\ ChainView(table)[id].phase = PhaseOf(table[id].status)
        /\ ChainView(table)[id].token = table[id].gen
        /\ ChainView(table')[id].phase = PhaseOf(rows[id].status)
        /\ ChainView(table')[id].token = rows[id].gen
    BY <1>2, <2>1, ViewFacts
  <2> QED BY <2>2 DEF PhaseOf, DLQStatus
<1>6. Order!ViewTypeOK /\ Order!ViewTypeOK'
  BY <1>1, ViewTyped, ViewTypedNext
<1>7. Order!Next
  BY <1>3, <1>4, <1>5, <1>6, Order!ReturnByParts
<1> QED BY <1>1, <1>7 DEF Good

\* PromoteNext, RecoverStale and BulkReplayDLQ.
LEMMA BulkGood ==
    ASSUME PgInv,
           \/ \E c, n : PromoteNext(c, n)
           \/ RecoverStale
           \/ \E filter \in SUBSET JobId : BulkReplayDLQ(filter)
    PROVE  Good
<1>1. \A id \in DOMAIN table : table[id] \in Job /\ id \in JobId
  BY RowsFacts DEF PgInv, TableInv, TxTyped
<1>2. ASSUME NEW c, NEW n, PromoteNext(c, n) PROVE Good
  <2> DEFINE S == {i \in At(table, c, n + 1) : table[i].status = "BLOCKED"}
             rows == [id \in S |-> [table[id] EXCEPT !.status = "PENDING"]]
  <2>1. Write(rows)
    BY <1>2 DEF PromoteNext
  <2>2. DOMAIN rows = S /\ S \subseteq DOMAIN table /\ \A id \in S : table[id].status = "BLOCKED"
    BY DEF At
  <2> HIDE DEF S
  <2>3. ASSUME NEW id \in S
        PROVE  /\ rows[id] \in Job /\ SameJob(rows[id], table[id])
               /\ rows[id].gen = table[id].gen /\ rows[id].status = "PENDING"
    BY <1>1, <2>2, <2>3 DEF Job, SameJob, Status
  <2>4. rows \in Rows
    BY <1>1, <2>2, <2>3, RowsFacts
  <2> HIDE DEF rows
  <2> QED BY <2>1, <2>2, <2>3, <2>4, WaitGood
<1>3. CASE RecoverStale
  <2>1. PICK S \in SUBSET {id \in DOMAIN table : IsStale(id) /\ ~Locked(id)} :
           Write([id \in S |-> [table[id] EXCEPT !.status = "RETRYING", !.avail = "later",
                                                  !.lease = "none"]])
    BY <1>3 DEF RecoverStale
  <2> DEFINE rows == [id \in S |-> [table[id] EXCEPT !.status = "RETRYING", !.avail = "later",
                                                      !.lease = "none"]]
  <2>2. DOMAIN rows = S /\ S \subseteq DOMAIN table /\ \A id \in S : table[id].status = "PROCESSING"
    BY <2>1 DEF IsStale
  <2>3. ASSUME NEW id \in S
        PROVE  /\ rows[id] \in Job /\ SameJob(rows[id], table[id])
               /\ rows[id].gen = table[id].gen /\ rows[id].status = "RETRYING"
    BY <1>1, <2>2, <2>3 DEF Job, SameJob, Status, Avail, Lease
  <2>4. rows \in Rows
    BY <1>1, <2>2, <2>3, RowsFacts
  <2>5. Write(rows)
    BY <2>1
  <2> HIDE DEF rows
  <2> QED BY <2>2, <2>3, <2>4, <2>5, WaitGood
<1>4. ASSUME NEW filter \in SUBSET JobId, BulkReplayDLQ(filter) PROVE Good
  <2> DEFINE S == DLQWhere(filter)
             rows == [id \in S |-> ReplayRow(table[id])]
  <2>1. Write(rows)
    BY <1>4 DEF BulkReplayDLQ
  <2>2. DOMAIN rows = S /\ S \subseteq DOMAIN table /\ \A id \in S : table[id].status # "COMPLETED"
    BY DEF DLQWhere, DLQStatus
  <2> HIDE DEF S
  <2>3. ASSUME NEW id \in S
        PROVE  /\ rows[id] \in Job /\ SameJob(rows[id], table[id])
               /\ rows[id].gen = table[id].gen /\ rows[id].status = "PENDING"
    BY <1>1, <2>2, <2>3, ReplayRowFacts
  <2>4. rows \in Rows
    BY <1>1, <2>2, <2>3, RowsFacts
  <2> HIDE DEF rows
  <2> QED BY <2>1, <2>2, <2>3, <2>4, WaitGood
<1> QED BY <1>2, <1>3, <1>4

\* BulkPurgeDLQ removes failed jobs.
LEMMA PurgeGood ==
    ASSUME PgInv, NEW filter \in SUBSET JobId, BulkPurgeDLQ(filter), "bulkPurge" \in Commands
    PROVE  Good
<1> DEFINE S == DLQWhere(filter)
<1>1. /\ S \subseteq DOMAIN table /\ \A id \in S : ~Locked(id) /\ table[id].status \in DLQStatus
      /\ table' = [id \in DOMAIN table \ S |-> table[id]] /\ UNCHANGED <<tx, issued>>
  BY DEF BulkPurgeDLQ, DLQWhere, Without
<1> HIDE DEF S
<1>2. /\ table \in Rows /\ TableInv /\ tx \in [Session -> Tx]
      /\ DOMAIN table' = DOMAIN table \ S
      /\ \A id \in DOMAIN table' : table'[id] = table[id]
  BY <1>1 DEF PgInv, TableInv, TxTyped
<1>3. table' \in Rows
  BY <1>1, <1>2, RowsFacts
<1>4. TableInv'
  BY <1>1, <1>2, <1>3, RewriteStep DEF SameJob
<1>5. ASSUME NEW s \in Session PROVE Completes(table', tx[s]) \/ Inserts(table', tx[s])
  <2>1. tx[s] \in Tx /\ (Completes(table, tx[s]) \/ Inserts(table, tx[s]))
    BY <1>2 DEF PgInv
  <2>2. \A id \in DOMAIN tx[s].writes : id \notin S
    BY <1>1 DEF Locked
  <2> QED BY <1>2, <1>3, <2>1, <2>2, WritesFit
<1>6. PgInv'
  BY <1>1, <1>2, <1>4, <1>5 DEF PgInv, RanWasClaimed
<1>7. Final
  BY <1>1, <1>2 DEF Final, DLQStatus
<1>8. Order!Next
  <2> DEFINE old == ChainView(table)
             new == ChainView(table')
  <2>1. DOMAIN old = DOMAIN table /\ DOMAIN new = DOMAIN table'
    BY <1>2, <1>3, ViewFacts
  <2>2. ASSUME NEW id \in DOMAIN table' PROVE new[id] = old[id]
    BY <1>2, <1>3, ViewKept DEF SameView, SameJob
  <2>3. ASSUME NEW id \in S PROVE old[id].phase = "failed"
    BY <1>1, <1>2, ViewFacts DEF PhaseOf, DLQStatus
  <2>4. Order!ViewTypeOK'
    BY <1>4, ViewTypedNext
  <2> HIDE DEF old, new
  <2>5. /\ S \in SUBSET DOMAIN old /\ DOMAIN new = DOMAIN old \ S
        /\ \A i \in DOMAIN new : new[i] = old[i]
        /\ \A i \in S : old[i].phase = "failed"
    BY <1>1, <1>2, <2>1, <2>2, <2>3
  <2> QED BY <2>4, <2>5, Order!RemoveByParts DEF old, new
<1> QED BY <1>6, <1>7, <1>8 DEF Good

-----------------------------------------------------------------------------
(* Transactions that enqueue                                                   *)

\* The transaction that begins asks for the locks of its requests.
LEMMA BegunFacts ==
    ASSUME PgInv, NEW s \in Session, NEW reqs \in Seq(Stored), reqs # <<>>, NEW batch \in BOOLEAN
    PROVE  /\ Begun(reqs, batch) \in Tx /\ TxInv(table, Begun(reqs, batch))
           /\ Begun(reqs, batch).at = "lock" /\ Begun(reqs, batch).writes = EmptyMap
           /\ Begun(reqs, batch).items = {} /\ DOMAIN Begun(reqs, batch).writes = {}
           /\ \A o \in Session : Apart(Begun(reqs, batch), tx[o])
<1> DEFINE t == Begun(reqs, batch)
<1>1. \A i \in DOMAIN reqs : reqs[i] \in Stored
  OBVIOUS
<1>2. {reqs[i].chain : i \in DOMAIN reqs} \in SUBSET ChainId
  BY <1>1 DEF Stored
<1>3. table \in Rows /\ UniquePlaces(table) /\ UniqueKeys(table)
  BY DEF PgInv, TableInv, TxTyped
<1>4. NoTx \in Tx
  BY <1>3, NoTxInv
<1>5. t \in Tx
  BY <1>2, <1>4 DEF Begun, Tx, Step
<1>6. /\ t.at = "lock" /\ t.writes = EmptyMap /\ t.items = {} /\ t.locks = {} /\ t.reqs = reqs
      /\ t.wait = {reqs[i].chain : i \in DOMAIN reqs}
  BY DEF Begun, NoTx
<1>7. DOMAIN t.writes = {}
  BY <1>6 DEF EmptyMap
<1> HIDE DEF t
<1>8. Locking(t)
  BY <1>6 DEF Locking, Enqueuing
<1>9. TxInv(table, t)
  BY <1>3, <1>5, <1>6, <1>8, NoWritesInv
<1>10. \A o \in Session : Apart(t, tx[o])
  BY <1>6, <1>7 DEF Apart
<1> QED BY <1>5, <1>6, <1>7, <1>9, <1>10 DEF t

\* A transaction gets a lock.
LEMMA AdvisoryLockGood ==
    ASSUME PgInv, NEW s \in Session, NEW t \in Tx, NEW c, AdvisoryLock(s, t, c),
           TxInv(table, t), t.at = "lock", t.items \subseteq ChainId \X Int, Inserts(table, t),
           DOMAIN t.writes \subseteq issued,
           \A o \in Session \ {s} : Apart(t, tx[o])
    PROVE  Good
<1> DEFINE u == [t EXCEPT !.wait = t.wait \ {c}, !.locks = t.locks \cup {c},
                          !.at = IF t.wait = {c} THEN "number" ELSE "lock"]
<1>1. c \in t.wait /\ LockFree(s, c) /\ Continue(s, u) /\ UNCHANGED <<table, issued>>
  BY DEF AdvisoryLock, HashLockFree
<1>2. TableInv'
  BY <1>1, LockStep DEF PgInv
<1>3. u.items = t.items /\ u.writes = t.writes
  BY DEF Tx
<1> HIDE DEF u
<1>4. Inserts(table, u)
  BY <1>3 DEF Inserts
<1> QED BY <1>1, <1>2, <1>3, <1>4, SessionGood

\* Enqueue and EnqueueBatch begin.
LEMMA EnqueueGood ==
    ASSUME PgInv, NEW s \in Session,
           \/ \E req \in Stored : Enqueue(s, req)
           \/ \E req1, req2 \in Stored : EnqueueBatch(s, req1, req2)
    PROVE  Good
<1>1. ASSUME NEW reqs \in Seq(Stored), reqs # <<>>, NEW batch \in BOOLEAN, NEW c,
             AdvisoryLock(s, Begun(reqs, batch), c)
      PROVE  Good
  <2> DEFINE t == Begun(reqs, batch)
  <2>1. /\ t \in Tx /\ TxInv(table, t) /\ t.at = "lock" /\ t.items = {} /\ DOMAIN t.writes = {}
        /\ \A o \in Session : Apart(t, tx[o])
    BY <1>1, BegunFacts
  <2> HIDE DEF t
  <2>2. Inserts(table, t)
    BY <2>1 DEF Inserts
  <2>3. AdvisoryLock(s, t, c)
    BY <1>1 DEF t
  <2> QED BY <2>1, <2>2, <2>3, AdvisoryLockGood
<1>2. ASSUME NEW req \in Stored, Enqueue(s, req) PROVE Good
  <2>1. <<req>> \in Seq(Stored) /\ <<req>> # <<>>
    OBVIOUS
  <2> QED BY <1>1, <1>2, <2>1 DEF Enqueue
<1>3. ASSUME NEW req1 \in Stored, NEW req2 \in Stored, EnqueueBatch(s, req1, req2) PROVE Good
  <2>1. <<req1, req2>> \in Seq(Stored) /\ <<req1, req2>> # <<>>
    OBVIOUS
  <2> QED BY <1>1, <1>3, <2>1 DEF EnqueueBatch
<1> QED BY <1>2, <1>3

\* A transaction at one of these statements has inserted or done nothing.
LEMMA NotCommitting ==
    ASSUME PgInv, NEW s \in Session, tx[s].at # "commit"
    PROVE  Inserts(table, tx[s])
BY DEF PgInv, Completes

\* The batch goes on to its other chain.
LEMMA NextLockGood ==
    ASSUME PgInv, NEW s \in Session, NextLock(s)
    PROVE  Good
<1>1. PICK c : AdvisoryLock(s, tx[s], c)
  BY DEF NextLock
<1>2. /\ tx[s].at = "lock" /\ tx[s] \in Tx /\ TxInv(table, tx[s])
      /\ tx[s].items \subseteq ChainId \X Int /\ DOMAIN tx[s].writes \subseteq issued
      /\ \A o \in Session \ {s} : Apart(tx[s], tx[o])
  BY DEF NextLock, PgInv, TableInv, TxTyped
<1>3. Inserts(table, tx[s])
  BY <1>2, NotCommitting
<1> QED BY <1>1, <1>2, <1>3, AdvisoryLockGood

\* The transaction that has served its first request.
LEMMA ServedFacts ==
    ASSUME NEW t \in Tx, Locking(t), t.at \in {"number", "insert"}
    PROVE  /\ Served(t) \in Tx /\ Locking(Served(t)) /\ Served(t).writes = t.writes
           /\ Served(t).locks = t.locks /\ Served(t).items = t.items
           /\ Served(t).at \in {"number", "commit"}
<1>1. t.reqs \in Seq(Stored) /\ t.reqs # <<>> /\ t.wait = {}
  BY DEF Tx, Locking, Enqueuing
<1>2. /\ Tail(t.reqs) \in Seq(Stored)
      /\ \A i \in DOMAIN Tail(t.reqs) : i + 1 \in DOMAIN t.reqs /\ Tail(t.reqs)[i] = t.reqs[i + 1]
      /\ Len(t.reqs) # 1 => Tail(t.reqs) # <<>>
  BY <1>1, TailFacts
<1>3. /\ Served(t) \in Tx /\ Served(t).writes = t.writes /\ Served(t).wait = t.wait
      /\ Served(t).locks = t.locks /\ Served(t).items = t.items /\ Served(t).reqs = Tail(t.reqs)
      /\ Served(t).at = IF Len(t.reqs) = 1 THEN "commit" ELSE "number"
  <2> DEFINE q == Tail(t.reqs)
             a == IF Len(t.reqs) = 1 THEN "commit" ELSE "number"
             u == [t EXCEPT !.reqs = q, !.seq = 0, !.at = a]
  <2>1. q \in Seq(Stored) /\ a \in Step /\ Served(t) = u
    BY <1>2 DEF Served, Step
  <2> HIDE DEF q, a
  <2>2. u \in Tx
    <3>1. \A n \in Int : [t EXCEPT !.reqs = q, !.seq = n, !.at = a] \in Tx
      BY <2>1 DEF Tx
    <3>2. 0 \in Int
      OBVIOUS
    <3> QED BY <3>1, <3>2, Zenon
  <2>3. /\ u.writes = t.writes /\ u.wait = t.wait /\ u.locks = t.locks
        /\ u.items = t.items /\ u.reqs = q /\ u.at = a
    BY DEF Tx
  <2> QED BY <2>1, <2>2, <2>3 DEF q, a
<1>4. Locking(Served(t))
  BY <1>1, <1>2, <1>3 DEF Locking, Enqueuing
<1> QED BY <1>3, <1>4

\* The numbers a request may get are free in its chain.
LEMMA NumbersFree ==
    ASSUME NEW rows \in Rows, Bounded(rows), NEW req \in Stored, NEW batch,
           NEW n \in Numbers(rows, req, batch)
    PROVE  n \in Int /\ \A id \in DOMAIN rows : rows[id].chain = req.chain => rows[id].seq # n
<1>1. \A id \in DOMAIN rows : rows[id].seq \in Int
  BY RowsFacts DEF Job
<1>2. CASE req.sequence # 0
  BY <1>2 DEF Numbers, At, Stored, Request
<1>3. CASE req.sequence = 0 /\ MaxSequence(rows, req.chain) = {}
  BY <1>3, MaxSequenceFacts DEF Numbers
<1>4. CASE req.sequence = 0 /\ MaxSequence(rows, req.chain) # {}
  <2>1. PICK max \in MaxSequence(rows, req.chain) : n = max + 1
    BY <1>4 DEF Numbers
  <2>2. max \in Int /\ \A id \in DOMAIN rows : rows[id].chain = req.chain => rows[id].seq <= max
    BY MaxSequenceFacts
  <2> QED BY <1>1, <2>1, <2>2
<1> QED BY <1>2, <1>3, <1>4

\* Number: what is found is free, and the key not in use.
LEMMA NumberGood ==
    ASSUME PgInv, NEW s \in Session, Number(s)
    PROVE  Good
<1> DEFINE t == tx[s]
           req == Head(t.reqs)
<1>1. /\ t \in Tx /\ t.writes \in Rows /\ table \in Rows /\ Bounded(table) /\ TxInv(table, t)
      /\ TableInv /\ t.at = "number" /\ t.items \subseteq ChainId \X Int
      /\ UNCHANGED <<table, issued>>
  BY DEF PgInv, TableInv, TxTyped, Number, Tx
<1>2. Locking(t) /\ Bounded(t.writes) /\ req \in Stored
  BY <1>1, HeadLocked DEF TxInv
<1>3. Visible(s) \in Rows /\ Bounded(Visible(s))
  BY <1>1, <1>2, OverlayFacts, OverlayBounded DEF Visible
<1>4. Inserts(table, t)
  BY <1>1, NotCommitting
<1>5. CASE IsDuplicate(Visible(s), req)
  <2>1. Continue(s, Served(t))
    BY <1>5 DEF Number
  <2>2. /\ Served(t) \in Tx /\ Locking(Served(t)) /\ Served(t).writes = t.writes
        /\ Served(t).locks = t.locks /\ Served(t).items = t.items
        /\ Served(t).at \in {"number", "commit"}
    BY <1>1, <1>2, ServedFacts
  <2>3. FoundFree(Visible(s), Served(t))
    BY <2>2 DEF FoundFree
  <2>4. TableInv'
    BY <1>1, <2>1, <2>2, <2>3, GoOnStep
  <2>5. Inserts(table, Served(t))
    BY <1>4, <2>2 DEF Inserts
  <2> QED BY <1>1, <2>1, <2>2, <2>4, <2>5, SessionGood
<1>6. CASE ~IsDuplicate(Visible(s), req)
  <2>1. PICK n \in Numbers(Visible(s), req, t.batch) : Continue(s, [t EXCEPT !.seq = n, !.at = "insert"])
    BY <1>6 DEF Number
  <2> DEFINE u == [t EXCEPT !.seq = n, !.at = "insert"]
  <2>2. n \in Int /\ \A id \in DOMAIN Visible(s) : Visible(s)[id].chain = req.chain => Visible(s)[id].seq # n
    BY <1>2, <1>3, <2>1, NumbersFree
  <2>3. /\ u \in Tx /\ u.writes = t.writes /\ u.locks = t.locks /\ u.items = t.items
        /\ u.reqs = t.reqs /\ u.wait = t.wait /\ u.seq = n /\ u.at = "insert"
    BY <1>1, <2>2 DEF Tx, Step
  <2>4. Continue(s, u)
    BY <2>1
  <2> HIDE DEF u
  <2>5. Locking(u)
    BY <1>1, <1>2, <2>3 DEF Locking, Enqueuing
  <2>6. FoundFree(Visible(s), u)
    BY <1>6, <2>2, <2>3 DEF FoundFree, IsDuplicate
  <2>7. TableInv'
    BY <1>1, <2>3, <2>4, <2>5, <2>6, GoOnStep
  <2>8. Inserts(table, u)
    BY <1>4, <2>3 DEF Inserts
  <2> QED BY <1>1, <2>3, <2>4, <2>7, <2>8, SessionGood
<1> QED BY <1>5, <1>6

\* The row that is inserted is a job that nobody has claimed.
LEMMA NewRowFacts ==
    ASSUME NEW req \in Stored, NEW seq \in Int, NEW status \in {"PENDING", "BLOCKED"},
           NEW batch \in BOOLEAN
    PROVE  LET row == NewRow(req, seq, status, batch)
           IN /\ row \in Job /\ row.chain = req.chain /\ row.seq = seq /\ row.key = req.key
              /\ row.gen = 0 /\ row.status = status
<1>1. (IF batch /\ req.mode # "" THEN req.mode ELSE "strict") \in OrderingMode
  BY DEF Stored, Request, OrderingMode
<1>2. (IF req.maxAttempts = 0 THEN DefaultMaxAttempts ELSE req.maxAttempts) \in Int
  BY DefaultAssumption DEF Stored, Request
<1>3. /\ req.chain \in ChainId /\ req.type \in JobType \cup {NoType} /\ req.key \in Key \cup {NoKey}
      /\ req.avail \in Avail
  BY DEF Stored, Request
<1>4. NewRow(req, seq, status, batch) \in Job
  BY <1>1, <1>2, <1>3 DEF NewRow, Job, Status, Lease
<1>5. LET row == NewRow(req, seq, status, batch)
      IN /\ row.chain = req.chain /\ row.seq = seq /\ row.key = req.key
         /\ row.gen = 0 /\ row.status = status
  BY DEF NewRow
<1> QED BY <1>4, <1>5

\* Insert.
LEMMA InsertGood ==
    ASSUME PgInv, NEW s \in Session, Insert(s)
    PROVE  Good
<1> DEFINE t == tx[s]
           req == Head(t.reqs)
           status == InitialStatus(Visible(s), req.chain, t.seq, t.batch)
           row == NewRow(req, t.seq, status, t.batch)
<1>1. PICK id \in JobId \ issued :
         /\ Continue(s, [Served(t) EXCEPT !.writes = Put(Served(t).writes, id, row)])
         /\ issued' = issued \cup {id}
  BY DEF Insert
<1>2. /\ t \in Tx /\ TxInv(table, t) /\ TableInv /\ t.at = "insert" /\ table' = table
      /\ t.items \subseteq ChainId \X Int /\ t.seq \in Int /\ t.batch \in BOOLEAN
      /\ t.writes \in Rows /\ DOMAIN table \subseteq issued
  BY DEF PgInv, TableInv, TxTyped, Insert, Tx
<1>3. Locking(t) /\ req \in Stored
  BY <1>2, HeadLocked DEF TxInv
<1>4. status \in {"PENDING", "BLOCKED"}
  BY DEF InitialStatus
<1> HIDE DEF status
<1>5. /\ row \in Job /\ row.chain = req.chain /\ row.seq = t.seq /\ row.key = req.key
      /\ row.gen = 0 /\ row.status \in {"PENDING", "BLOCKED"}
  BY <1>2, <1>3, <1>4, NewRowFacts
<1> HIDE DEF row
<1>6. /\ Served(t) \in Tx /\ Locking(Served(t)) /\ Served(t).writes = t.writes
      /\ Served(t).locks = t.locks /\ Served(t).items = t.items
      /\ Served(t).at \in {"number", "commit"}
  BY <1>2, <1>3, ServedFacts
<1> DEFINE v == Served(t)
           w == Put(t.writes, id, row)
           u == [v EXCEPT !.writes = w]
<1>7. DOMAIN w = DOMAIN t.writes \cup {id} /\ w[id] = row
      /\ \A k \in DOMAIN t.writes \ {id} : w[k] = t.writes[k]
  BY DEF Put
<1>8. w \in Rows
  <2>1. w = [k \in DOMAIN w |-> w[k]]
    BY DEF Put
  <2>2. DOMAIN w \subseteq JobId /\ \A k \in DOMAIN w : w[k] \in Job
    BY <1>2, <1>5, <1>7, RowsFacts
  <2> HIDE DEF w
  <2> QED BY <2>1, <2>2, RowsFacts
<1>9. Continue(s, u)
  BY <1>1, <1>6
<1> HIDE DEF v, w
<1>10. v \in Tx /\ Locking(v) /\ v.locks = t.locks /\ v.items = t.items /\ v.at \in {"number", "commit"}
  BY <1>6 DEF v
<1>11. /\ u \in Tx /\ u.writes = w /\ u.locks = t.locks /\ u.items = t.items
       /\ u.reqs = v.reqs /\ u.wait = v.wait /\ u.at = v.at
  BY <1>8, <1>10 DEF Tx
<1> HIDE DEF u
<1>12. Locking(u)
  BY <1>10, <1>11 DEF Locking
<1>13. u.writes = Put(t.writes, id, row)
  BY <1>11 DEF w
<1>14. TableInv'
  BY <1>1, <1>2, <1>5, <1>9, <1>10, <1>11, <1>12, <1>13, InsertStep
<1>15. Inserts(table, u)
  <2>1. Inserts(table, t)
    BY <1>2, NotCommitting
  <2>2. id \notin DOMAIN table
    BY <1>1, <1>2
  <2> QED BY <1>5, <1>7, <1>11, <2>1, <2>2 DEF Inserts
<1> QED BY <1>2, <1>9, <1>11, <1>14, <1>15, SessionGood

-----------------------------------------------------------------------------
(* Transactions that complete jobs                                             *)

\* The transaction of Complete, SkipJob and BulkSkipDLQ writes what Completes describes.
LEMMA CompleteGood ==
    ASSUME PgInv, NEW s \in Session, NEW S \in SUBSET DOMAIN table, NEW places,
           CompleteAndPromote(s, S, places),
           \A id \in S : table[id].status \in Ran \ {"COMPLETED"}
    PROVE  Good
<1> DEFINE succ == UNION {At(table, p[1], p[2] + 1) : p \in places}
           B == {i \in succ : table[i].status = "BLOCKED"}
           rows == [id \in S \cup B |->
                      IF id \in S THEN [table[id] EXCEPT !.status = "COMPLETED", !.lease = "none"]
                      ELSE [table[id] EXCEPT !.status = "PENDING"]]
           u == [NoTx EXCEPT !.at = "commit", !.writes = rows]
<1>1. /\ \A id \in S : ~LockedFor(s, id)
      /\ ~PromotionWaits(s, places) /\ Continue(s, u) /\ UNCHANGED <<table, issued>>
  BY DEF CompleteAndPromote
<1>2. B \subseteq DOMAIN table /\ \A id \in B : table[id].status = "BLOCKED"
  BY DEF At
<1>3. \A id \in B : ~LockedFor(s, id)
  BY <1>1 DEF PromotionWaits
<1>4. \A id \in DOMAIN table : id \in JobId /\ table[id] \in Job
  BY RowsFacts DEF PgInv, TableInv, TxTyped
<1> HIDE DEF B
<1>5. DOMAIN rows = S \cup B /\ rows = [id \in DOMAIN rows |-> rows[id]]
  OBVIOUS
<1>6. ASSUME NEW id \in S
      PROVE  /\ rows[id] \in Job /\ SameJob(rows[id], table[id])
             /\ rows[id].gen = table[id].gen /\ rows[id].status = "COMPLETED"
  <2>1. rows[id] = [table[id] EXCEPT !.status = "COMPLETED", !.lease = "none"] /\ table[id] \in Job
    BY <1>4
  <2> QED BY <2>1 DEF Job, SameJob, Status, Lease
<1>7. ASSUME NEW id \in B, id \notin S
      PROVE  /\ rows[id] \in Job /\ SameJob(rows[id], table[id])
             /\ rows[id].gen = table[id].gen /\ rows[id].status = "PENDING"
  <2>1. rows[id] = [table[id] EXCEPT !.status = "PENDING"] /\ table[id] \in Job
    BY <1>2, <1>4, <1>7
  <2> QED BY <2>1 DEF Job, SameJob, Status
<1> HIDE DEF rows
<1>8. rows \in Rows
  <2>1. DOMAIN rows \subseteq JobId /\ \A id \in DOMAIN rows : rows[id] \in Job
    BY <1>2, <1>4, <1>5, <1>6, <1>7
  <2> QED BY <1>5, <2>1, RowsFacts
<1>9. NoTx \in Tx
  BY NoTxInv DEF PgInv, TableInv, TxTyped
<1>10. u \in Tx
  BY <1>8, <1>9 DEF Tx, Step
<1>11. /\ u.at = "commit" /\ u.writes = rows /\ u.locks = {} /\ u.reqs = <<>>
       /\ u.items = {}
  BY DEF NoTx
<1> HIDE DEF u
<1>12. TableInv'
  <2>1. \A id \in DOMAIN u.writes : SameJob(u.writes[id], table[id]) /\ ~LockedFor(s, id)
    BY <1>1, <1>3, <1>5, <1>6, <1>7, <1>11
  <2>2. DOMAIN u.writes \subseteq DOMAIN table /\ u.at \notin Enqueuing
    BY <1>2, <1>5, <1>11 DEF Enqueuing
  <2> QED BY <1>1, <1>10, <1>11, <2>1, <2>2, WritesStep DEF PgInv
<1>13. Completes(table, u)
  <2>1. \A id \in S : table[id].gen > 0 /\ table[id].status # "COMPLETED"
    BY RowIsJob
  <2> QED BY <1>2, <1>5, <1>6, <1>7, <1>11, <2>1 DEF Completes
<1> QED BY <1>1, <1>11, <1>12, <1>13, SessionGood

\* Complete and SkipJob.
LEMMA CompleteOneGood ==
    ASSUME PgInv, NEW s \in Session, NEW id \in JobId,
           (\E w \in Worker : \E g : Complete(s, id, w, g)) \/ SkipJob(s, id)
    PROVE  Good
<1>1. /\ id \in DOMAIN table /\ CompleteAndPromote(s, {id}, {Place(id)})
      /\ table[id].status \in Ran \ {"COMPLETED"}
  BY DEF Complete, SkipJob, Owns, Ran, Replayable
<1>2. {id} \in SUBSET DOMAIN table
  BY <1>1
<1> QED BY <1>1, <1>2, CompleteGood

\* BulkSkipDLQ, both statements.
LEMMA BulkSkipGood ==
    ASSUME PgInv, NEW s \in Session,
           (\E filter \in SUBSET JobId : BulkSkipSelect(s, filter)) \/ BulkSkipUpdate(s)
    PROVE  Good
<1>1. ASSUME NEW filter \in SUBSET JobId, BulkSkipSelect(s, filter) PROVE Good
  <2> DEFINE places == {Place(id) : id \in DLQWhere(filter)}
             u == [NoTx EXCEPT !.at = "skip", !.filter = filter, !.items = places]
  <2>1. Continue(s, u) /\ UNCHANGED <<table, issued>>
    BY <1>1 DEF BulkSkipSelect
  <2>2. places \subseteq ChainId \X Int
    <3>1. \A id \in DLQWhere(filter) : table[id] \in Job
      BY RowIsJob DEF DLQWhere
    <3> QED BY <3>1 DEF Place, Job
  <2> HIDE DEF places
  <2>3. /\ NoTx \in Tx /\ table \in Rows /\ TableInv /\ UniquePlaces(table) /\ UniqueKeys(table)
        /\ issued \subseteq JobId
    BY NoTxInv DEF PgInv, TableInv, TxTyped
  <2>4. places \in SUBSET Item
    BY <2>2 DEF Item
  <2>5. u \in Tx
    BY <2>3, <2>4 DEF Tx, Step
  <2>6. /\ u.at = "skip" /\ u.items = places /\ u.locks = {} /\ u.reqs = <<>>
        /\ u.writes = EmptyMap
    BY DEF NoTx
  <2> HIDE DEF u
  <2>7. DOMAIN u.writes = {}
    BY <2>6 DEF EmptyMap
  <2>8. TableInv'
    <3>1. u.at \notin Enqueuing
      BY <2>6 DEF Enqueuing
    <3> QED BY <2>1, <2>3, <2>5, <2>6, <2>7, <3>1, WritesStep
  <2>9. Inserts(table, u)
    BY <2>7 DEF Inserts
  <2> QED BY <2>1, <2>2, <2>6, <2>8, <2>9, SessionGood
<1>2. CASE BulkSkipUpdate(s)
  <2> DEFINE S == DLQWhere(tx[s].filter)
  <2>1. CompleteAndPromote(s, S, tx[s].items)
    BY <1>2 DEF BulkSkipUpdate
  <2>2. S \in SUBSET DOMAIN table /\ \A id \in S : table[id].status \in Ran \ {"COMPLETED"}
    BY DEF DLQWhere, DLQStatus, Ran
  <2> HIDE DEF S
  <2> QED BY <2>1, <2>2, CompleteGood
<1> QED BY <1>1, <1>2

-----------------------------------------------------------------------------
(* The end of a transaction                                                    *)

\* Rollback.
LEMMA RollbackGood ==
    ASSUME PgInv, NEW s \in Session, Rollback(s)
    PROVE  Good
<1>1. Continue(s, NoTx) /\ UNCHANGED table /\ TableInv'
  BY RollbackStep DEF Rollback, PgInv
<1>2. NoTx.items = {} /\ DOMAIN NoTx.writes = {}
  BY DEF NoTx, EmptyMap
<1>3. Inserts(table, NoTx)
  BY <1>2 DEF Inserts
<1> QED BY <1>1, <1>2, <1>3, SessionGood

\* Commit is a Finish of the jobs it declares COMPLETED, or an Accept of the new ones.
LEMMA CommitGood ==
    ASSUME PgInv, NEW s \in Session, Commit(s)
    PROVE  Good
<1> DEFINE w == tx[s].writes
<1>1. /\ TableInv /\ TableInv' /\ table \in Rows /\ table' \in Rows /\ w \in Rows
      /\ tx \in [Session -> Tx] /\ tx' = [tx EXCEPT ![s] = NoTx]
      /\ table' = Overlay(table, w)
  BY CommitStep DEF PgInv, TableInv, TxTyped, Tx, Commit, Continue, Visible
<1>2. /\ DOMAIN table' = DOMAIN table \cup DOMAIN w
      /\ \A id \in DOMAIN w : table'[id] = w[id]
      /\ \A id \in DOMAIN table \ DOMAIN w : table'[id] = table[id]
  <2> HIDE DEF w
  <2> QED BY <1>1 DEF Overlay
<1>3. Completes(table, tx[s]) \/ Inserts(table, tx[s])
  BY DEF PgInv
<1>4. WritesOwn(table, tx[s])
  BY DEF PgInv, TableInv, TxInv
<1>5. RanWasClaimed(table')
  BY <1>2, <1>3 DEF PgInv, RanWasClaimed, Completes, Inserts, Ran
<1>6. ASSUME NEW o \in Session
      PROVE  /\ tx'[o].items \subseteq ChainId \X Int
             /\ Completes(table', tx'[o]) \/ Inserts(table', tx'[o])
  <2>1. CASE o = s
    <3>1. tx'[o] = NoTx
      BY <1>1, <2>1
    <3>2. NoTx.items = {} /\ DOMAIN NoTx.writes = {}
      BY DEF NoTx, EmptyMap
    <3> QED BY <3>1, <3>2 DEF Inserts
  <2>2. CASE o # s
    <3>1. /\ tx'[o] = tx[o] /\ tx[o] \in Tx /\ tx[o].items \subseteq ChainId \X Int
          /\ Completes(table, tx[o]) \/ Inserts(table, tx[o])
      BY <1>1, <2>2 DEF PgInv
    <3>2. DOMAIN tx[o].writes \cap DOMAIN w = {}
      BY <1>1, <2>2 DEF TableInv, Apart
    <3> HIDE DEF w
    <3>3. Completes(table', tx[o]) \/ Inserts(table', tx[o])
      BY <1>1, <1>2, <3>1, <3>2, WritesFit
    <3> QED BY <3>1, <3>3
  <2> QED BY <2>1, <2>2
<1>7. PgInv'
  BY <1>1, <1>5, <1>6 DEF PgInv
<1>8. Final
  BY <1>2, <1>3 DEF Final, Completes, Inserts
<1>9. Order!ViewTypeOK /\ Order!ViewTypeOK' /\ Order!PlacesUnique'
  BY <1>1, ViewTyped, ViewTypedNext
<1>10. CASE Completes(table, tx[s])
  <2> DEFINE S == {id \in DOMAIN w : w[id].status = "COMPLETED"}
  <2>1. S \in SUBSET DOMAIN table /\ DOMAIN table' = DOMAIN table
    BY <1>2, <1>10 DEF Completes
  <2>2. ASSUME NEW id \in S
        PROVE  /\ SameJob(table'[id], table[id]) /\ table'[id].gen = table[id].gen
               /\ table'[id].status = "COMPLETED" /\ table[id].status # "COMPLETED"
               /\ table[id].gen > 0
    <3>1. id \in DOMAIN w /\ w[id].status = "COMPLETED" /\ table'[id] = w[id] /\ id \in DOMAIN table
      BY <1>2, <1>10 DEF Completes
    <3> QED BY <1>4, <1>10, <3>1 DEF Completes, WritesOwn
  <2>3. ASSUME NEW id \in DOMAIN table, id \notin S PROVE SameView(table'[id], table[id])
    <3>1. CASE id \in DOMAIN w
      <4>1. table'[id] = w[id] /\ w[id].status = "PENDING" /\ table[id].status = "BLOCKED"
            /\ w[id].gen = table[id].gen
        BY <1>2, <1>10, <2>3, <3>1 DEF Completes
      <4>2. SameJob(w[id], table[id])
        BY <1>4, <3>1 DEF WritesOwn
      <4> QED BY <4>1, <4>2 DEF SameView, PhaseOf, DLQStatus
    <3>2. CASE id \notin DOMAIN w
      BY <1>2, <3>2 DEF SameView, SameJob
    <3> QED BY <3>1, <3>2
  <2> HIDE DEF S
  <2>4. Order!Keeps(S)
    BY <1>1, <2>1, <2>2, <2>3, RowsKept
  <2>5. S \in SUBSET DOMAIN ChainView(table)
    BY <1>1, <2>1, ViewFacts
  <2>6. ASSUME NEW id \in S
        PROVE  /\ ChainView(table)[id].phase # "done" /\ ChainView(table)[id].token > 0
               /\ ChainView(table')[id].phase = "done"
               /\ ChainView(table')[id].token = ChainView(table)[id].token
    <3>1. id \in DOMAIN table /\ id \in DOMAIN table'
      BY <2>1
    <3>2. /\ ChainView(table)[id].phase = PhaseOf(table[id].status)
          /\ ChainView(table)[id].token = table[id].gen
          /\ ChainView(table')[id].phase = PhaseOf(table'[id].status)
          /\ ChainView(table')[id].token = table'[id].gen
      BY <1>1, <3>1, ViewFacts
    <3> QED BY <2>2, <3>2 DEF PhaseOf, DLQStatus
  <2>7. Order!Next
    BY <1>9, <2>4, <2>5, <2>6, Order!FinishByParts
  <2> QED BY <1>7, <1>8, <2>7 DEF Good
<1>11. CASE Inserts(table, tx[s])
  <2> DEFINE old == ChainView(table)
             new == ChainView(table')
  <2>1. DOMAIN old = DOMAIN table /\ DOMAIN new = DOMAIN table'
    BY <1>1, ViewFacts
  <2>2. ASSUME NEW id \in DOMAIN table PROVE new[id] = old[id]
    <3>1. table'[id] = table[id] /\ id \in DOMAIN table'
      BY <1>2, <1>11 DEF Inserts
    <3> QED BY <1>1, <3>1, ViewKept DEF SameView, SameJob
  <2>3. ASSUME NEW id \in DOMAIN table' \ DOMAIN table
        PROVE  new[id].phase = "waiting" /\ new[id].token = 0
    <3>1. table'[id].status \in {"PENDING", "BLOCKED"} /\ table'[id].gen = 0
      BY <1>2, <1>11 DEF Inserts
    <3>2. new[id].phase = PhaseOf(table'[id].status) /\ new[id].token = table'[id].gen
      BY <1>1, ViewFacts
    <3> QED BY <3>1, <3>2 DEF PhaseOf, DLQStatus
  <2> HIDE DEF old, new
  <2>4. /\ DOMAIN old \subseteq DOMAIN new
        /\ \A i \in DOMAIN old : new[i] = old[i]
        /\ \A i \in DOMAIN new \ DOMAIN old : new[i].phase = "waiting" /\ new[i].token = 0
    BY <1>2, <2>1, <2>2, <2>3
  <2>5. Order!Next
    BY <1>9, <2>4, Order!AcceptByParts DEF old, new
  <2> QED BY <1>7, <1>8, <2>5 DEF Good
<1> QED BY <1>3, <1>10, <1>11

-----------------------------------------------------------------------------
(* The theorems                                                                *)

\* A cancel is confirmed although none is requested.
ConfirmsLate ==
    LateConfirms /\ \E id \in JobId, w \in Worker, g \in 1 .. MaxGen : ConfirmCancel(id, w, g)

\* Every other step of the repository is good.
LEMMA NextGood ==
    ASSUME PgInv, PgNext, ~ConfirmsLate
    PROVE  Good
<1>1. CASE TimeStep
  BY <1>1, TimeGood
<1>2. ASSUME NEW s \in Session, ProducerStep(s) PROVE Good
  <2>1. Requests \subseteq Stored
    BY RequestAssumption, ChainAssumption DEF Stored
  <2> QED BY <1>2, <2>1, EnqueueGood, NextLockGood, NumberGood, InsertGood
          DEF ProducerStep, EnqueueGoesOn
<1>3. ASSUME NEW s \in Session, WorkerStep(s) PROVE Good
  <2>1. CASE \E w \in Worker, id \in JobId : Claim(w, id)
    BY <2>1, ClaimGood
  <2>2. ASSUME NEW id \in JobId, NEW w \in Worker, NEW g \in 1 .. MaxGen,
               \/ \E terminal \in BOOLEAN : Fail(id, w, g, terminal)
               \/ Retry(id, w, g)
               \/ Heartbeat(id, w, g)
        PROVE  Good
    BY <2>2, FencedGood
  <2>3. ASSUME NEW id \in JobId, NEW w \in Worker, NEW g \in 1 .. MaxGen, Complete(s, id, w, g)
        PROVE  Good
    BY <2>3, CompleteOneGood
  <2>4. ASSUME NEW id \in JobId, NEW w \in Worker, NEW g \in 1 .. MaxGen,
               WorkerConfirms(id, w, g)
        PROVE  Good
    <3>1. id \in DOMAIN table /\ table[id].status = "CANCEL_REQUESTED" /\ ConfirmCancel(id, w, g)
      BY <2>4 DEF WorkerConfirms, ConfirmsLate
    <3> QED BY <3>1, CancelGood
  <2>5. CASE \E id \in DOMAIN table : PromoteNext(table[id].chain, table[id].seq - 1)
    BY <2>5, BulkGood
  <2>6. CASE RecoverStale
    BY <2>6, BulkGood
  <2> QED BY <1>3, <2>1, <2>2, <2>3, <2>4, <2>5, <2>6 DEF WorkerStep
<1>4. ASSUME NEW s \in Session, OperatorStep(s) PROVE Good
  <2>1. ASSUME NEW id \in JobId, RequestCancel(id) PROVE Good
    BY <2>1, CancelGood DEF RequestCancel, Cancellable
  <2>2. ASSUME NEW id \in JobId, ReplayJob(id) PROVE Good
    BY <2>2, ReplayGood DEF ReplayJob
  <2>3. ASSUME NEW id \in JobId, SkipJob(s, id) PROVE Good
    BY <2>3, CompleteOneGood
  <2>4. ASSUME NEW id \in JobId, NEW a \in Avail, RescheduleJob(id, a) PROVE Good
    BY <2>4, ReplayGood DEF RescheduleJob
  <2>5. ASSUME NEW filter \in SUBSET JobId, BulkReplayDLQ(filter) PROVE Good
    BY <2>5, BulkGood
  <2>6. ASSUME NEW filter \in SUBSET JobId, "bulkPurge" \in Commands, BulkPurgeDLQ(filter)
        PROVE  Good
    BY <2>6, PurgeGood
  <2>7. ASSUME NEW filter \in SUBSET JobId, BulkSkipSelect(s, filter) PROVE Good
    BY <2>7, BulkSkipGood
  <2>8. CASE BulkSkipUpdate(s)
    BY <2>8, BulkSkipGood
  <2> QED BY <1>4, <2>1, <2>2, <2>3, <2>4, <2>5, <2>6, <2>7, <2>8 DEF OperatorStep
<1>5. ASSUME NEW s \in Session, Commit(s) \/ Rollback(s) PROVE Good
  BY <1>5, CommitGood, RollbackGood
<1> QED BY <1>1, <1>2, <1>3, <1>4, <1>5 DEF PgNext

\* The empty table satisfies the invariant.
LEMMA InitInv == TableInit => PgInv
<1> SUFFICES ASSUME TableInit PROVE PgInv
  OBVIOUS
<1>1. table = EmptyMap /\ EmptyMap \in Rows /\ DOMAIN EmptyMap = {} /\ issued = {}
  BY RowsFacts DEF TableInit, EmptyMap
<1>2. Bounded(table) /\ UniquePlaces(table) /\ UniqueKeys(table) /\ RanWasClaimed(table)
  BY <1>1 DEF Bounded, UniquePlaces, UniqueKeys, RanWasClaimed
<1>3. NoTx \in Tx /\ TxInv(table, NoTx) /\ \A t : Apart(NoTx, t) /\ Apart(t, NoTx)
  BY <1>1, <1>2, NoTxInv
<1>4. NoTx.items = {} /\ DOMAIN NoTx.writes = {}
  BY DEF NoTx, EmptyMap
<1>5. tx \in [Session -> Tx] /\ \A s \in Session : tx[s] = NoTx
  BY <1>3 DEF TableInit
<1>6. TxTyped
  BY <1>1, <1>4, <1>5 DEF TxTyped
<1>7. TableInv
  BY <1>2, <1>3, <1>5, <1>6 DEF TableInv
<1> QED BY <1>2, <1>4, <1>5, <1>7 DEF PgInv, Inserts

\* PgInv is an invariant.
LEMMA InvHolds == PgSpec => []PgInv
<1>1. PgInv /\ [PgNext]_tableVars => PgInv'
  <2> SUFFICES ASSUME PgInv, [PgNext]_tableVars PROVE PgInv'
    OBVIOUS
  <2>1. CASE PgNext /\ ~ConfirmsLate
    BY <2>1, NextGood DEF Good
  <2>3. CASE ConfirmsLate
    BY <2>3, ConfirmKeepsInv DEF ConfirmsLate
  <2>2. CASE UNCHANGED tableVars
    BY <2>2 DEF tableVars, PgInv, TableInv, TxTyped, TxInv, Completes, Inserts, RanWasClaimed
  <2> QED BY <2>1, <2>2, <2>3
<1> QED BY <1>1, InitInv, PTL DEF PgSpec

\* Type correctness of the table and of every open transaction, for the calls of
\* repository/postgres/repository.go in any order.
THEOREM TypeHolds == PgSpec => []PgTypeOK
<1>1. PgInv => PgTypeOK
  BY InvTyped DEF PgInv, PgTypeOK
<1> QED BY <1>1, InvHolds, PTL

\* A sequence number that a transaction has found stays free until it is inserted, however
\* many producers enqueue: the advisory lock covers the search and the insert.
THEOREM NumberStaysFreeHolds == PgSpec => []NumberStaysFree
<1>1. PgInv => NumberStaysFree
  BY InvNumbers DEF PgInv, NumberStaysFree
<1> QED BY <1>1, InvHolds, PTL

\* No two jobs of a chain carry the same idempotency key, although the key is looked up and
\* the job inserted in different statements.
THEOREM KeyUniqueHolds == PgSpec => []KeyUniqueInChain
<1>1. PgInv => KeyUniqueInChain
  BY DEF PgInv, TableInv, UniqueKeys, KeyUniqueInChain
<1> QED BY <1>1, InvHolds, PTL

\* As long as cancels are confirmed only while they are requested, nothing takes a COMPLETED
\* job back: no late report, recovery, replay, skip or purge, and no transaction that saw the
\* job in another status.  (ConfirmCancel's own WHERE clause does not see to that.)
THEOREM CompletedFinalHolds ==
    ASSUME ~LateConfirms
    PROVE  PgSpec => CompletedIsFinal
<1> DEFINE A == \A id \in DOMAIN table : table[id].status = "COMPLETED" =>
                   id \in DOMAIN table' /\ table'[id].status = "COMPLETED"
<1>1. PgInv /\ [PgNext]_tableVars => [A]_tableVars
  BY NextGood DEF Good, Final, ConfirmsLate
<1> QED BY <1>1, InvHolds, PTL DEF PgSpec, CompletedIsFinal

\* The two instances of OrderedChain are the same specification.
LEMMA SamePromise == (Order!Init <=> Contract!Init) /\ (Order!Next <=> Contract!Next)
<1>1. Order!Init <=> Contract!Init
  BY DEF Order!Init, Contract!Init
<1>2. Order!Next <=> Contract!Next
  BY DEF Contract!Next, Order!Next, Contract!Accept, Order!Accept, Contract!Start, Order!Start,
         Contract!Fail, Order!Fail, Contract!Cancel, Order!Cancel, Contract!Finish, Order!Finish,
         Contract!Return, Order!Return, Contract!Remove, Order!Remove, Contract!IsAt, Order!IsAt,
         Contract!LetsGo, Order!LetsGo, Contract!JobView, Order!JobView, Contract!Phase, Order!Phase
<1> QED BY <1>1, <1>2

\* As long as cancels are confirmed only while they are requested, the repository implements
\* OrderedChain: every commit, statement and rollback is one of the promised steps on the
\* committed rows, or changes nothing the promise speaks of.
THEOREM RefinementHolds ==
    ASSUME ~LateConfirms
    PROVE  PgSpec => ImplementsOrderedChain
<1>1. TableInit => Contract!Init
  <2>1. ASSUME TableInit PROVE ChainView(table) = [i \in {} |-> i]
    BY <2>1 DEF TableInit, EmptyMap, ChainView
  <2> QED BY <2>1 DEF Contract!Init
<1>2. PgInv /\ [PgNext]_tableVars => [Contract!Next]_(ChainView(table))
  <2> SUFFICES ASSUME PgInv, [PgNext]_tableVars PROVE Contract!Next \/ UNCHANGED ChainView(table)
    OBVIOUS
  <2>1. CASE PgNext
    BY <2>1, NextGood, SamePromise DEF Good, ConfirmsLate
  <2>2. CASE UNCHANGED tableVars
    BY <2>2 DEF tableVars
  <2> QED BY <2>1, <2>2
<1> QED BY <1>1, <1>2, InvHolds, PTL DEF PgSpec, ImplementsOrderedChain, Contract!Spec

\* What OrderedChain gives: the order theorem, carried over by the refinement.
LEMMA OrderHolds ==
    ASSUME "bulkPurge" \notin Commands, ~LateConfirms
    PROVE  PgSpec => [](PgInv /\ Order!StartedPrefix /\ Order!StrictOrder)
<1>1. Order!Spec => [](Order!StartedPrefix /\ Order!StrictOrder)
  BY Order!StrictOrderHolds
<1>2. Contract!Spec => Order!Spec
  BY SamePromise, PTL DEF Contract!Spec, Order!Spec
<1> QED BY <1>1, <1>2, InvHolds, RefinementHolds, PTL DEF ImplementsOrderedChain

\* The order of OrderedChain, said of the rows.
LEMMA FIFOFromOrder == PgInv /\ Order!StrictOrder => StrictFIFO
<1> SUFFICES ASSUME PgInv, Order!StrictOrder, NEW id \in DOMAIN table, table[id].gen > 0,
                    table[id].seq > 1, NEW p \in At(table, table[id].chain, table[id].seq - 1),
                    table[p].mode = "strict"
             PROVE  table[p].status = "COMPLETED"
  BY DEF StrictFIFO
<1> DEFINE v == ChainView(table)
<1>1. /\ table \in Rows /\ p \in DOMAIN table /\ table[p].chain = table[id].chain
      /\ table[p].seq = table[id].seq - 1 /\ table[id].seq \in Int
  BY RowIsJob DEF PgInv, TableInv, TxTyped, At, Job
<1>2. /\ p \in DOMAIN v /\ id \in DOMAIN v /\ v[p].chain = table[id].chain
      /\ v[id].chain = table[id].chain /\ v[p].seq = table[id].seq - 1
      /\ v[id].seq = table[id].seq /\ v[p].strict /\ v[id].token > 0
      /\ v[p].phase = PhaseOf(table[p].status)
  BY <1>1, ViewFacts
<1> HIDE DEF v
<1>3. Order!StrictBetween(v[p].chain, v[p].seq, v[id].seq)
  <2>1. \A k \in v[p].seq .. v[id].seq - 1 : k = v[p].seq
    BY <1>1, <1>2
  <2>2. Order!IsAt(p, v[p].chain, v[p].seq)
    BY <1>2 DEF Order!IsAt, v
  <2> QED BY <1>2, <2>1, <2>2 DEF Order!StrictBetween, v
<1>4. 1 <= v[p].seq /\ v[p].seq < v[id].seq
  BY <1>1, <1>2
<1>5. v[p].phase = "done"
  BY <1>2, <1>3, <1>4 DEF Order!StrictOrder, v
<1> QED BY <1>2, <1>5 DEF PhaseOf, DLQStatus

\* So is what keeps a strict chain exclusive.
LEMMA MutexFromOrder == PgInv /\ Order!StartedPrefix /\ Order!StrictOrder => StrictChainMutex
<1> SUFFICES ASSUME PgInv, Order!StartedPrefix, Order!StrictOrder,
                    NEW i \in DOMAIN table, NEW j \in DOMAIN table,
                    table[i].chain = table[j].chain,
                    table[i].status = "PROCESSING", table[j].status = "PROCESSING",
                    table[i].seq < table[j].seq
             PROVE  \E n \in table[i].seq .. table[j].seq - 1 :
                       \A p \in At(table, table[i].chain, n) : table[p].mode # "strict"
  BY DEF StrictChainMutex
<1> DEFINE v == ChainView(table)
<1>1. table \in Rows /\ table[i].gen > 0 /\ table[j].gen > 0
  BY RowIsJob DEF PgInv, TableInv, TxTyped, Ran
<1>2. /\ DOMAIN v = DOMAIN table
      /\ \A k \in DOMAIN table : /\ v[k].chain = table[k].chain /\ v[k].seq = table[k].seq
                                 /\ v[k].strict = (table[k].mode = "strict")
                                 /\ v[k].phase = PhaseOf(table[k].status)
                                 /\ v[k].token = table[k].gen
  BY <1>1, ViewFacts
<1> HIDE DEF v
<1>3. v[i].phase # "done"
  BY <1>2 DEF PhaseOf, DLQStatus
<1>4. 1 <= v[i].seq
  BY <1>1, <1>2 DEF Order!StartedPrefix, v
<1>5. ~Order!StrictBetween(v[i].chain, v[i].seq, v[j].seq)
  BY <1>1, <1>2, <1>3, <1>4 DEF Order!StrictOrder, v
<1>6. PICK n \in v[i].seq .. v[j].seq - 1 :
         \A p \in DOMAIN v : Order!IsAt(p, v[i].chain, n) => ~v[p].strict
  BY <1>5 DEF Order!StrictBetween, v
<1>7. \A p \in At(table, table[i].chain, n) : table[p].mode # "strict"
  BY <1>2, <1>6 DEF At, Order!IsAt, v
<1> QED BY <1>2, <1>6, <1>7

\* Unless the dead letter queue is purged or a cancel confirmed that nobody requested, a
\* claimed job's strict predecessor is COMPLETED, through stale workers, recovery, operators
\* and half-done transactions.
THEOREM StrictFIFOHolds ==
    ASSUME "bulkPurge" \notin Commands, ~LateConfirms
    PROVE  PgSpec => []StrictFIFO
<1>1. PgInv /\ Order!StrictOrder => StrictFIFO
  BY FIFOFromOrder
<1> QED BY <1>1, OrderHolds, PTL

\* Unless the dead letter queue is purged or a cancel confirmed that nobody requested, two
\* jobs of a chain are PROCESSING at once only if the chain may go on past a failed job
\* between them: eligibility alone makes a strict chain exclusive, nothing else in Claim does.
THEOREM StrictChainMutexHolds ==
    ASSUME "bulkPurge" \notin Commands, ~LateConfirms
    PROVE  PgSpec => []StrictChainMutex
<1>1. PgInv /\ Order!StartedPrefix /\ Order!StrictOrder => StrictChainMutex
  BY MutexFromOrder
<1> QED BY <1>1, OrderHolds, PTL
=============================================================================
