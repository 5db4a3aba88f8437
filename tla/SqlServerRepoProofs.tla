------------------------- MODULE SqlServerRepoProofs -------------------------
(***************************************************************************)
(* The SQL Server repository keeps its promises for every set of jobs,     *)
(* chains, sessions, workers and requests.  Places, keys and locks hold    *)
(* whatever the operators do; the order of strict jobs holds although      *)
(* Claim reads uncommitted rows, as long as nobody purges or bulk-skips.   *)
(***************************************************************************)
EXTENDS SqlServerRepo, SqlTableProofs, TLAPS

\* The promise with the theorems that follow from it.
Order == INSTANCE OrderedChainProofs WITH
    Id <- JobId, Chain <- ChainId, job <- ChainView(table),
    CanRemove <- "bulkPurge" \in Commands, Guarded <- FALSE

-----------------------------------------------------------------------------
(* What a transaction writes                                                   *)

\* A transaction that completes jobs and promotes blocked ones.
Completes(rows, t) ==
    /\ t.at \in {"promote", "commit"} /\ t.locks = {} /\ t.reqs = <<>>
    /\ DOMAIN t.writes \subseteq DOMAIN rows
    /\ \A id \in DOMAIN t.writes :
          /\ t.writes[id].gen = rows[id].gen
          /\ rows[id].status # "COMPLETED"
          /\ \/ t.writes[id].status = "COMPLETED"
             \/ t.writes[id].status = "PENDING" /\ rows[id].status = "BLOCKED"

\* A transaction that writes new jobs only, or nothing yet.
Inserts(rows, t) ==
    /\ t.at # "promote"
    /\ DOMAIN t.writes \cap DOMAIN rows = {}
    /\ \A id \in DOMAIN t.writes :
          t.writes[id].gen = 0 /\ t.writes[id].status \in {"PENDING", "BLOCKED"}

\* The chains it has locked come before those it waits for.
LockOrder(t) == \A c \in t.locks, d \in t.wait : c < d

\* What RecoverStale and resolveInitialStatus leave for the next statement.
Found(t) ==
    /\ t.at = "recover" => t.items \subseteq JobId \X {"RETRYING", "PENDING"}
    /\ t.at = "insert" => t.status \in {"PENDING", "BLOCKED"}

Fits(rows, t) == (Completes(rows, t) \/ Inserts(rows, t)) /\ LockOrder(t) /\ Found(t)

\* The inductive invariant under all commands.
SqInv ==
    /\ TableInv
    /\ \A id \in DOMAIN table : table[id].status = "PROCESSING" => table[id].gen > 0
    /\ \A s \in Session : Fits(table, tx[s])

-----------------------------------------------------------------------------
(* Whose turn it is                                                            *)

\* The job before place n is COMPLETED, or may be passed when it fails.
LetGo(rows, c, n) ==
    n <= 1 \/ \E p \in At(rows, c, n - 1) : rows[p].status = "COMPLETED" \/ rows[p].mode # "strict"

\* A job that has never run and cannot be claimed, promoted only by the job before it.
HeldBack(row) == row.gen = 0 /\ row.status \in {"BLOCKED", "CANCEL_REQUESTED", "COMPLETED"}

\* A job is held back until it is let go; one before the first place never runs.
InTurn(rows, row) ==
    /\ HeldBack(row) \/ LetGo(rows, row.chain, row.seq)
    /\ row.seq <= 0 => row.gen = 0 /\ row.status \in {"PENDING", "CANCEL_REQUESTED"}

\* What a transaction has written is in turn with it, a job it is to insert too, and it
\* promotes only past a job that it completes itself.
TxInTurn(rows, t) ==
    /\ t.at # "skip"
    /\ \A id \in DOMAIN t.writes : InTurn(Overlay(rows, t.writes), t.writes[id])
    /\ t.at = "insert" => /\ t.status = "PENDING" => LetGo(rows, Head(t.reqs).chain, t.seq)
                          /\ t.seq <= 0 => t.status = "PENDING"
    /\ t.at = "promote" => \A p \in t.items :
          \E id \in At(t.writes, p[1], p[2]) : t.writes[id].status = "COMPLETED"

\* The inductive invariant when nobody purges or bulk-skips.
TurnInv ==
    /\ \A id \in DOMAIN table : InTurn(table, table[id])
    /\ \A s \in Session : TxInTurn(table, tx[s])

Ordered == "bulkPurge" \notin Commands /\ "bulkSkip" \notin Commands

-----------------------------------------------------------------------------
(* What is to be shown of a step                                               *)

\* A COMPLETED job stays COMPLETED, a live lease is left to its holder.
Final ==
    \A id \in DOMAIN table : table[id].status = "COMPLETED" =>
        id \in DOMAIN table' /\ table'[id].status = "COMPLETED"

LeaseLeft ==
    \A id \in DOMAIN table \cap DOMAIN table' :
        table[id].status = "PROCESSING" /\ table'[id].gen # table[id].gen
            => table[id].lease = "expired"

Safe == SqInv' /\ Final /\ LeaseLeft

\* The order is kept, by a step of OrderedChain or one it does not see.
KeepsTurns == Ordered /\ TurnInv => TurnInv' /\ (Order!Next \/ UNCHANGED ChainView(table))

Good == Safe /\ KeepsTurns

-----------------------------------------------------------------------------
(* The view                                                                    *)

\* The table's view is well typed, its places unique.
LEMMA ViewTyped == TableInv => Order!ViewTypeOK /\ Order!PlacesUnique
<1> SUFFICES ASSUME TableInv PROVE Order!ViewTypeOK /\ Order!PlacesUnique
  OBVIOUS
<1>1. table \in Rows /\ DOMAIN table \subseteq JobId /\ UniquePlaces(table)
  BY RowsFacts DEF TableInv, TxTyped
<1>2. Order!ViewTypeOK
  BY <1>1, ViewFacts DEF Order!ViewTypeOK, Order!JobView, Order!Phase
<1>3. Order!PlacesUnique
  BY <1>1, ViewFacts DEF Order!PlacesUnique, UniquePlaces
<1> QED BY <1>2, <1>3

\* The same after a step.
LEMMA ViewTypedNext == (TableInv => Order!ViewTypeOK /\ Order!PlacesUnique)'
BY ViewTyped, PTL

\* A step that rewrites the rows of S, and others so that OrderedChain does not see it.
LEMMA RowsKept ==
    ASSUME TableInv, TableInv', NEW S \in SUBSET DOMAIN table, DOMAIN table' = DOMAIN table,
           \A id \in S : SameJob(table'[id], table[id]),
           \A id \in DOMAIN table \ S : SameView(table'[id], table[id])
    PROVE  Order!Keeps(S)
<1>1. table \in Rows /\ table' \in Rows
  BY DEF TableInv, TxTyped
<1> DEFINE old == ChainView(table)
           new == ChainView(table')
<1>2. DOMAIN old = DOMAIN table /\ DOMAIN new = DOMAIN table
  BY <1>1, ViewFacts
<1>3. \A id \in DOMAIN table \ S : new[id] = old[id]
  BY <1>1, ViewKept
<1>4. ASSUME NEW id \in S
      PROVE  /\ new[id].chain = old[id].chain /\ new[id].seq = old[id].seq
             /\ new[id].strict = old[id].strict
  <2>1. id \in DOMAIN table /\ id \in DOMAIN table' /\ SameJob(table'[id], table[id])
    OBVIOUS
  <2> QED BY <1>1, <2>1, ViewFacts DEF SameJob
<1> HIDE DEF old, new
<1>5. /\ DOMAIN new = DOMAIN old
      /\ \A i \in DOMAIN old \ S : new[i] = old[i]
      /\ \A i \in S : /\ new[i].chain = old[i].chain /\ new[i].seq = old[i].seq
                      /\ new[i].strict = old[i].strict
  BY <1>2, <1>3, <1>4
<1> QED BY <1>5 DEF Order!Keeps, old, new

\* A step that OrderedChain does not see at all.
LEMMA ViewUnchanged ==
    ASSUME DOMAIN table' = DOMAIN table,
           \A id \in DOMAIN table : SameView(table'[id], table[id])
    PROVE  UNCHANGED ChainView(table)
BY DEF ChainView, SameView, SameJob

\* The view of one row before and after a step that rewrites it.
LEMMA RowViews ==
    ASSUME TableInv, TableInv', DOMAIN table' = DOMAIN table, NEW id \in DOMAIN table,
           SameJob(table'[id], table[id]),
           \A k \in DOMAIN table \ {id} : table'[k] = table[k]
    PROVE  /\ Order!ViewTypeOK /\ Order!ViewTypeOK' /\ Order!Keeps({id})
           /\ id \in DOMAIN ChainView(table)
           /\ ChainView(table)[id].phase = PhaseOf(table[id].status)
           /\ ChainView(table)[id].token = table[id].gen
           /\ ChainView(table')[id].phase = PhaseOf(table'[id].status)
           /\ ChainView(table')[id].token = table'[id].gen
<1>1. table \in Rows /\ table' \in Rows
  BY DEF TableInv, TxTyped
<1>2. \A k \in DOMAIN table \ {id} : SameView(table'[k], table[k])
  BY DEF SameView, SameJob
<1>3. Order!Keeps({id})
  BY <1>2, RowsKept
<1>4. Order!ViewTypeOK /\ Order!ViewTypeOK'
  BY ViewTyped, ViewTypedNext
<1> QED BY <1>1, <1>3, <1>4, ViewFacts

-----------------------------------------------------------------------------
(* Jobs that are let go stay so                                                *)

\* Jobs are added, and none loses its mode or its COMPLETED.
Grows(rows, new) ==
    \A id \in DOMAIN rows : /\ id \in DOMAIN new /\ SameJob(new[id], rows[id])
                            /\ rows[id].status = "COMPLETED" => new[id].status = "COMPLETED"

\* LetGo is kept when the table grows.
LEMMA LetGoKept ==
    ASSUME NEW rows, NEW new, Grows(rows, new), NEW c, NEW n, LetGo(rows, c, n)
    PROVE  LetGo(new, c, n)
<1>1. CASE n <= 1
  BY <1>1 DEF LetGo
<1>2. CASE ~(n <= 1)
  <2>1. PICK p \in At(rows, c, n - 1) : rows[p].status = "COMPLETED" \/ rows[p].mode # "strict"
    BY <1>2 DEF LetGo
  <2>2. p \in At(new, c, n - 1) /\ (new[p].status = "COMPLETED" \/ new[p].mode # "strict")
    BY <2>1 DEF At, Grows, SameJob
  <2> QED BY <2>2 DEF LetGo
<1> QED BY <1>1, <1>2

\* Being in turn is.
LEMMA InTurnKept ==
    ASSUME NEW rows, NEW new, Grows(rows, new), NEW row, InTurn(rows, row)
    PROVE  InTurn(new, row)
BY LetGoKept DEF InTurn

\* So is what holds of a transaction.
LEMMA TxInTurnKept ==
    ASSUME NEW rows \in Rows, NEW new \in Rows, Grows(rows, new), NEW t \in Tx, TxInTurn(rows, t)
    PROVE  TxInTurn(new, t)
<1> DEFINE old == Overlay(rows, t.writes)
           seen == Overlay(new, t.writes)
<1>1. Grows(old, seen)
  BY DEF Grows, Overlay, SameJob
<1> HIDE DEF old, seen
<1>2. \A id \in DOMAIN t.writes : InTurn(seen, t.writes[id])
  BY <1>1, InTurnKept DEF TxInTurn, old
<1>3. ASSUME t.at = "insert", t.status = "PENDING" PROVE LetGo(new, Head(t.reqs).chain, t.seq)
  BY <1>3, LetGoKept DEF TxInTurn
<1> QED BY <1>2, <1>3 DEF TxInTurn, seen

-----------------------------------------------------------------------------
(* Shapes of steps                                                             *)

\* A session goes on, the table stays.
LEMMA SessionGood ==
    ASSUME SqInv, TableInv', UNCHANGED table, NEW s \in Session, NEW u, Continue(s, u),
           Fits(table, u), Ordered /\ TurnInv => TxInTurn(table, u)
    PROVE  Good
<1>1. tx' = [tx EXCEPT ![s] = u] /\ tx \in [Session -> Tx]
  BY DEF Continue, SqInv, TableInv, TxTyped
<1>2. tx'[s] = u /\ \A o \in Session \ {s} : tx'[o] = tx[o]
  BY <1>1
<1>3. \A o \in Session : Fits(table, tx'[o])
  BY <1>2 DEF SqInv
<1>4. SqInv'
  BY <1>3 DEF SqInv
<1>5. Final /\ LeaseLeft /\ UNCHANGED ChainView(table)
  BY DEF Final, LeaseLeft
<1>6. ASSUME Ordered, TurnInv PROVE TurnInv'
  <2>1. \A o \in Session : TxInTurn(table, tx'[o])
    BY <1>2, <1>6 DEF TurnInv
  <2> QED BY <1>6, <2>1 DEF TurnInv
<1> QED BY <1>4, <1>5, <1>6 DEF Good, Safe, KeepsTurns

\* What a transaction has written fits the table still, when no written row changes.
LEMMA FitsKept ==
    ASSUME NEW t \in Tx, NEW rows \in Rows, NEW new \in Rows, Fits(rows, t),
           DOMAIN new \cap DOMAIN t.writes = DOMAIN rows \cap DOMAIN t.writes,
           \A id \in DOMAIN rows \cap DOMAIN t.writes : new[id] = rows[id]
    PROVE  Fits(new, t)
<1>1. Completes(new, t) \/ Inserts(new, t)
  BY DEF Fits, Completes, Inserts
<1> QED BY <1>1 DEF Fits

\* How a statement may rewrite a row.
Rewrites(row, old) ==
    /\ SameJob(row, old)
    /\ old.status = "COMPLETED" => row.status = "COMPLETED"
    /\ row.status = "PROCESSING" => row.gen > 0
    /\ old.status = "PROCESSING" /\ row.gen # old.gen => old.lease = "expired"

\* A statement rewrites rows that no transaction has written.
LEMMA WriteGood ==
    ASSUME SqInv, NEW rows \in Rows, Write(rows), DOMAIN rows \subseteq DOMAIN table,
           \A id \in DOMAIN rows : Rewrites(rows[id], table[id]),
           Ordered /\ TurnInv => \A id \in DOMAIN rows : InTurn(table, rows[id])
    PROVE  /\ Safe /\ (Ordered /\ TurnInv => TurnInv')
           /\ TableInv /\ TableInv' /\ DOMAIN table' = DOMAIN table
           /\ \A id \in DOMAIN rows : table'[id] = rows[id]
           /\ \A id \in DOMAIN table \ DOMAIN rows : table'[id] = table[id]
<1>1. /\ TableInv /\ TableInv' /\ table \in Rows
      /\ table' \in Rows /\ DOMAIN table' = DOMAIN table
      /\ \A id \in DOMAIN rows : table'[id] = rows[id] /\ ~Locked(id)
      /\ \A id \in DOMAIN table \ DOMAIN rows : table'[id] = table[id]
  BY WriteStep DEF SqInv, TableInv, TxTyped, Rewrites
<1>2. tx' = tx /\ tx \in [Session -> Tx]
  BY DEF Write, SqInv, TableInv, TxTyped
<1>3. ASSUME NEW s \in Session PROVE Fits(table', tx[s])
  <2>1. tx[s] \in Tx /\ Fits(table, tx[s])
    BY <1>2 DEF SqInv
  <2>2. \A id \in DOMAIN tx[s].writes : id \notin DOMAIN rows
    BY <1>1 DEF Locked
  <2> QED BY <1>1, <2>1, <2>2, FitsKept
<1>4. SqInv'
  BY <1>1, <1>2, <1>3 DEF SqInv, Rewrites
<1>5. Final /\ LeaseLeft
  BY <1>1 DEF Final, LeaseLeft, Rewrites
<1>6. Grows(table, table')
  BY <1>1 DEF Grows, Rewrites, SameJob
<1>7. ASSUME Ordered, TurnInv PROVE TurnInv'
  <2>1. ASSUME NEW id \in DOMAIN table' PROVE InTurn(table', table'[id])
    <3>1. InTurn(table, table'[id])
      BY <1>1, <1>7 DEF TurnInv
    <3> QED BY <1>6, <3>1, InTurnKept
  <2>2. ASSUME NEW s \in Session PROVE TxInTurn(table', tx[s])
    BY <1>1, <1>2, <1>6, <1>7, TxInTurnKept DEF TurnInv
  <2> QED BY <1>2, <2>1, <2>2 DEF TurnInv
<1> QED BY <1>1, <1>4, <1>5, <1>7 DEF Safe

\* A statement rewrites one row.
LEMMA WriteRowGood ==
    ASSUME SqInv, NEW id \in DOMAIN table, NEW row \in Job, WriteRow(id, row),
           Rewrites(row, table[id]), Ordered /\ TurnInv => InTurn(table, row)
    PROVE  /\ Safe /\ (Ordered /\ TurnInv => TurnInv')
           /\ TableInv /\ TableInv' /\ DOMAIN table' = DOMAIN table /\ table'[id] = row
           /\ \A k \in DOMAIN table \ {id} : table'[k] = table[k]
<1> DEFINE rows == [i \in {id} |-> row]
<1>1. DOMAIN rows = {id} /\ rows[id] = row
  OBVIOUS
<1>2. id \in JobId
  BY RowsFacts DEF SqInv, TableInv, TxTyped
<1>3. rows \in Rows
  BY <1>1, <1>2, RowsFacts
<1>4. Write(rows)
  BY DEF WriteRow
<1> HIDE DEF rows
<1> QED BY <1>1, <1>3, <1>4, WriteGood

\* The rows of the table are jobs.
LEMMA RowIsJob ==
    ASSUME SqInv, NEW id \in DOMAIN table
    PROVE  table[id] \in Job /\ (table[id].status = "PROCESSING" => table[id].gen > 0)
BY RowsFacts DEF SqInv, TableInv, TxTyped

\* A job that has been claimed, or is in one of these statuses, is not held back.
LEMMA OutOfTurn ==
    ASSUME NEW rows, NEW row \in Job, InTurn(rows, row),
           row.gen > 0 \/ row.status \in {"PROCESSING", "RETRYING", "FAILED", "CANCELLED", "DEAD_LETTERED"}
    PROVE  row.seq > 0 /\ LetGo(rows, row.chain, row.seq)
<1>1. row.seq \in Int /\ row.gen \in Nat
  BY DEF Job
<1> QED BY <1>1 DEF InTurn, HeldBack

-----------------------------------------------------------------------------
(* The statements on one row                                                   *)

\* Claim is a Start.  What it reads of the job before, committed or not, does not matter
\* from place 2 on: a claimable job has been let go by a committed row.
LEMMA ClaimGood ==
    ASSUME SqInv, NEW w \in Worker, NEW id \in JobId, Claim(w, id)
    PROVE  Good
<1> DEFINE row == [table[id] EXCEPT !.status = "PROCESSING", !.worker = w,
                                    !.gen = table[id].gen + 1, !.lease = "live",
                                    !.attempt = table[id].attempt + 1]
<1>1. id \in DOMAIN table /\ table[id] \in Job /\ Eligible(id) /\ WriteRow(id, row)
  BY RowIsJob DEF Claim
<1>2. /\ row \in Job /\ SameJob(row, table[id]) /\ row.status = "PROCESSING"
      /\ row.gen = table[id].gen + 1 /\ row.gen > 0 /\ table[id].status \in {"PENDING", "RETRYING"}
  <2>1. table[id].gen + 1 \in Nat /\ table[id].attempt + 1 \in Nat /\ table[id].gen + 1 > 0
    BY <1>1 DEF Job
  <2>2. ASSUME NEW g \in Nat, NEW a \in Nat
        PROVE  [table[id] EXCEPT !.status = "PROCESSING", !.worker = w, !.gen = g, !.lease = "live",
                                 !.attempt = a] \in Job
    BY <1>1 DEF Job, Status, Lease
  <2>3. row.status = "PROCESSING" /\ row.gen = table[id].gen + 1 /\ SameJob(row, table[id])
    BY <1>1 DEF Job, SameJob
  <2> QED BY <1>1, <2>1, <2>2, <2>3 DEF Eligible, CanBeClaimed
<1> HIDE DEF row
<1>3. ASSUME Ordered, TurnInv PROVE table[id].seq > 0 /\ LetGo(table, table[id].chain, table[id].seq)
  <2>1. InTurn(table, table[id]) /\ table[id].seq \in Int
    BY <1>1, <1>3 DEF TurnInv, Job
  <2>2. LetGo(table, table[id].chain, table[id].seq)
    BY <1>2, <2>1 DEF InTurn, HeldBack
  <2>3. ASSUME table[id].seq <= 0 PROVE FALSE
    <3>1. PICK p \in At(Dirty, table[id].chain, table[id].seq - 1) : PredFinished(Dirty[p])
      BY <1>1, <2>1, <2>3 DEF Eligible
    <3>2. p \in DOMAIN Dirty /\ Dirty[p].seq = table[id].seq - 1
      BY <3>1 DEF At
    <3>3. \/ p \in DOMAIN table /\ Dirty[p] = table[p]
          \/ \E o \in Session : p \in DOMAIN tx[o].writes /\ Dirty[p] = tx[o].writes[p]
      <4>1. CASE Locked(p)
        <5> DEFINE o == CHOOSE o \in Session : p \in DOMAIN tx[o].writes
        <5>1. o \in Session /\ p \in DOMAIN tx[o].writes
          BY <4>1 DEF Locked
        <5>2. Dirty[p] = tx[o].writes[p]
          BY <3>2, <4>1 DEF Dirty
        <5> HIDE DEF o
        <5> QED BY <5>1, <5>2
      <4>2. CASE ~Locked(p)
        BY <3>2, <4>2 DEF Dirty, Locked
      <4> QED BY <4>1, <4>2
    <3>4. \E rows : InTurn(rows, Dirty[p])
      BY <1>3, <3>3 DEF TurnInv, TxInTurn
    <3>5. Dirty[p].seq <= 0
      BY <2>1, <2>3, <3>2
    <3>6. Dirty[p].status \in {"PENDING", "CANCEL_REQUESTED"}
      BY <3>4, <3>5 DEF InTurn
    <3> QED BY <3>1, <3>6 DEF PredFinished, DLQStatus
  <2> QED BY <2>1, <2>2, <2>3
<1>4. Ordered /\ TurnInv => InTurn(table, row)
  BY <1>1, <1>2, <1>3 DEF InTurn, SameJob, Job
<1>5. /\ Safe /\ (Ordered /\ TurnInv => TurnInv')
      /\ TableInv /\ TableInv' /\ DOMAIN table' = DOMAIN table /\ table'[id] = row
      /\ \A k \in DOMAIN table \ {id} : table'[k] = table[k]
  BY <1>1, <1>2, <1>4, WriteRowGood DEF Rewrites
<1>6. /\ Order!ViewTypeOK /\ Order!ViewTypeOK' /\ Order!Keeps({id})
      /\ id \in DOMAIN ChainView(table)
      /\ ChainView(table)[id].phase = "waiting" /\ ChainView(table')[id].phase = "running"
      /\ ChainView(table')[id].token = ChainView(table)[id].token + 1
  BY <1>1, <1>2, <1>5, RowViews DEF PhaseOf, DLQStatus
<1>7. ASSUME Ordered, TurnInv PROVE Order!Startable(id)
  <2>1. table \in Rows /\ table[id].seq \in Int
    BY <1>1, <1>5 DEF TableInv, TxTyped, Job
  <2>2. CASE table[id].seq = 1
    BY <1>1, <2>1, <2>2, ViewFacts DEF Order!Startable
  <2>3. CASE table[id].seq # 1
    <3>0. ~(table[id].seq <= 1)
      BY <1>3, <1>7, <2>1, <2>3
    <3>1. PICK p \in At(table, table[id].chain, table[id].seq - 1) :
             table[p].status = "COMPLETED" \/ table[p].mode # "strict"
      BY <1>3, <1>7, <3>0 DEF LetGo
    <3>2. p \in DOMAIN table /\ table[p].chain = table[id].chain /\ table[p].seq = table[id].seq - 1
      BY <3>1 DEF At
    <3>3. Order!IsAt(p, ChainView(table)[id].chain, ChainView(table)[id].seq - 1)
      BY <1>1, <2>1, <3>2, ViewFacts DEF Order!IsAt
    <3>4. ChainView(table)[p].phase = "done" \/ ~ChainView(table)[p].strict
      BY <2>1, <3>1, <3>2, ViewFacts DEF PhaseOf, DLQStatus
    <3>5. Order!LetsGo(p)
      BY <3>4 DEF Order!LetsGo
    <3> QED BY <2>1, <3>2, <3>3, <3>5, ViewFacts DEF Order!Startable
  <2> QED BY <2>2, <2>3
<1>8. Ordered /\ TurnInv => Order!Next
  BY <1>6, <1>7, Order!StartByParts
<1> QED BY <1>5, <1>8 DEF Good, KeepsTurns

\* A statement that changes the phase of one job, other than to start or finish it, and
\* leaves its generation.
LEMMA RowGood ==
    ASSUME SqInv, NEW id \in DOMAIN table, NEW row \in Job, WriteRow(id, row),
           SameJob(row, table[id]), row.gen = table[id].gen,
           row.status = "PROCESSING" => row.gen > 0,
           \/ PhaseOf(row.status) = PhaseOf(table[id].status)
           \/ /\ table[id].status # "COMPLETED"
              /\ \/ PhaseOf(row.status) \in {"waiting", "cancelled"}
                 \/ PhaseOf(row.status) = "failed" /\ row.gen > 0,
           InTurn(table, table[id]) => InTurn(table, row)
    PROVE  Good
<1>1. Rewrites(row, table[id])
  BY DEF PhaseOf, DLQStatus, Rewrites
<1>2. Ordered /\ TurnInv => InTurn(table, row)
  BY DEF TurnInv
<1>3. /\ Safe /\ (Ordered /\ TurnInv => TurnInv')
      /\ TableInv /\ TableInv' /\ DOMAIN table' = DOMAIN table /\ table'[id] = row
      /\ \A k \in DOMAIN table \ {id} : table'[k] = table[k]
  BY <1>1, <1>2, WriteRowGood
<1>4. /\ Order!ViewTypeOK /\ Order!ViewTypeOK' /\ Order!Keeps({id})
      /\ id \in DOMAIN ChainView(table)
      /\ ChainView(table)[id].phase = PhaseOf(table[id].status)
      /\ ChainView(table')[id].phase = PhaseOf(row.status)
      /\ ChainView(table)[id].token = row.gen /\ ChainView(table')[id].token = row.gen
  BY <1>3, RowViews
<1>5. ASSUME table[id].status # "COMPLETED" PROVE ChainView(table)[id].phase # "done"
  BY <1>4, <1>5 DEF PhaseOf, DLQStatus
<1>6. Order!Next \/ UNCHANGED ChainView(table)
  <2>1. CASE PhaseOf(row.status) = PhaseOf(table[id].status)
    <3>1. \A k \in DOMAIN table : SameView(table'[k], table[k])
      BY <1>3, <2>1 DEF SameView, SameJob
    <3> QED BY <1>3, <3>1, ViewUnchanged
  <2>2. CASE table[id].status # "COMPLETED" /\ PhaseOf(row.status) = "cancelled"
    BY <1>4, <1>5, <2>2, Order!CancelByParts
  <2>3. CASE table[id].status # "COMPLETED" /\ PhaseOf(row.status) = "waiting"
    <3>1. {id} \in SUBSET DOMAIN ChainView(table)
      BY <1>4
    <3>2. \A i \in {id} : /\ ChainView(table)[i].phase # "done"
                          /\ ChainView(table')[i].phase = "waiting"
                          /\ ChainView(table')[i].token = ChainView(table)[i].token
      BY <1>4, <1>5, <2>3
    <3> QED BY <1>4, <3>1, <3>2, Order!ReturnByParts
  <2>4. CASE table[id].status # "COMPLETED" /\ PhaseOf(row.status) = "failed" /\ row.gen > 0
    BY <1>4, <1>5, <2>4, Order!FailByParts
  <2> QED BY <2>1, <2>2, <2>3, <2>4
<1> QED BY <1>3, <1>6 DEF Good, KeepsTurns

\* A job that is not held back keeps its turn when it is rewritten.
LEMMA TurnKept ==
    ASSUME SqInv, NEW id \in DOMAIN table, NEW row \in Job, SameJob(row, table[id]),
           \/ table[id].gen > 0
           \/ table[id].status \in {"PROCESSING", "RETRYING", "FAILED", "CANCELLED", "DEAD_LETTERED"}
           \/ row.status = table[id].status /\ row.gen = table[id].gen
    PROVE  InTurn(table, table[id]) => InTurn(table, row)
<1>1. table[id] \in Job /\ table[id].seq \in Int /\ row.seq = table[id].seq /\ row.chain = table[id].chain
  BY RowIsJob DEF Job, SameJob
<1>2. CASE row.status = table[id].status /\ row.gen = table[id].gen
  BY <1>1, <1>2 DEF InTurn, HeldBack
<1>3. CASE \/ table[id].gen > 0
           \/ table[id].status \in {"PROCESSING", "RETRYING", "FAILED", "CANCELLED", "DEAD_LETTERED"}
  <2>1. InTurn(table, table[id]) => table[id].seq > 0 /\ LetGo(table, table[id].chain, table[id].seq)
    BY <1>1, <1>3, OutOfTurn
  <2> QED BY <1>1, <2>1 DEF InTurn
<1> QED BY <1>2, <1>3

\* The worker's fenced statements: Fail, Retry, Heartbeat.
LEMMA FencedGood ==
    ASSUME SqInv, NEW id \in JobId, NEW w \in Worker, NEW g \in 1 .. MaxGen,
           \/ \E terminal \in BOOLEAN : Fail(id, w, g, terminal)
           \/ Retry(id, w, g)
           \/ Heartbeat(id, w, g)
    PROVE  Good
<1>1. id \in DOMAIN table /\ table[id].status = "PROCESSING"
  BY DEF Fail, Retry, Heartbeat, Owns
<1>2. table[id] \in Job /\ table[id].gen > 0
  BY <1>1, RowIsJob
<1>3. ASSUME NEW row \in Job, SameJob(row, table[id]) PROVE InTurn(table, table[id]) => InTurn(table, row)
  BY <1>1, <1>2, <1>3, TurnKept
<1>4. ASSUME NEW terminal \in BOOLEAN, Fail(id, w, g, terminal) PROVE Good
  <2>1. PICK status \in DLQStatus : WriteRow(id, [table[id] EXCEPT !.status = status])
    BY <1>4 DEF Fail, DLQStatus
  <2> DEFINE row == [table[id] EXCEPT !.status = status]
  <2>2. row \in Job /\ SameJob(row, table[id]) /\ row.gen = table[id].gen /\ row.status = status
    BY <1>2, <2>1 DEF Job, SameJob, Status, DLQStatus
  <2> HIDE DEF row
  <2>3. PhaseOf(row.status) = "failed"
    BY <2>1, <2>2 DEF PhaseOf, DLQStatus
  <2> QED BY <1>1, <1>2, <1>3, <2>1, <2>2, <2>3, RowGood DEF row
<1>5. CASE Retry(id, w, g)
  <2> DEFINE row == [table[id] EXCEPT !.status = "RETRYING", !.avail = "later"]
  <2>1. row \in Job /\ SameJob(row, table[id]) /\ row.gen = table[id].gen /\ row.status = "RETRYING"
    BY <1>2 DEF Job, SameJob, Status, Avail
  <2>2. WriteRow(id, row)
    BY <1>5 DEF Retry
  <2> HIDE DEF row
  <2>3. PhaseOf(row.status) = "waiting"
    BY <2>1 DEF PhaseOf, DLQStatus
  <2> QED BY <1>1, <1>2, <1>3, <2>1, <2>2, <2>3, RowGood
<1>6. CASE Heartbeat(id, w, g)
  <2> DEFINE row == [table[id] EXCEPT !.lease = "live"]
  <2>1. row \in Job /\ SameJob(row, table[id]) /\ row.gen = table[id].gen /\ row.status = table[id].status
    BY <1>2 DEF Job, SameJob, Lease
  <2>2. WriteRow(id, row)
    BY <1>6 DEF Heartbeat
  <2> HIDE DEF row
  <2> QED BY <1>1, <1>2, <1>3, <2>1, <2>2, RowGood
<1> QED BY <1>4, <1>5, <1>6

\* Cancelling: RequestCancel and ConfirmCancel.
LEMMA CancelGood ==
    ASSUME SqInv, NEW id \in DOMAIN table,
           RequestCancel(id) \/ \E w \in Worker, g \in 1 .. MaxGen : ConfirmCancel(id, w, g)
    PROVE  Good
<1>1. table[id] \in Job
  BY RowIsJob
<1>2. CASE RequestCancel(id)
  <2> DEFINE row == [table[id] EXCEPT !.status = "CANCEL_REQUESTED"]
  <2>1. row \in Job /\ SameJob(row, table[id]) /\ row.gen = table[id].gen /\ row.status = "CANCEL_REQUESTED"
    BY <1>1 DEF Job, SameJob, Status
  <2>2. WriteRow(id, row) /\ table[id].status \in {"PENDING", "BLOCKED", "PROCESSING", "RETRYING"}
    BY <1>2 DEF RequestCancel
  <2> HIDE DEF row
  <2>3. PhaseOf(row.status) = "cancelled"
    BY <2>1 DEF PhaseOf, DLQStatus
  <2>4. InTurn(table, table[id]) => InTurn(table, row)
    BY <1>1, <2>1, <2>2 DEF InTurn, HeldBack, SameJob, Job
  <2> QED BY <2>1, <2>2, <2>3, <2>4, RowGood
<1>3. ASSUME NEW w \in Worker, NEW g \in 1 .. MaxGen, ConfirmCancel(id, w, g) PROVE Good
  <2> DEFINE row == [table[id] EXCEPT !.status = "CANCELLED"]
  <2>1. row \in Job /\ SameJob(row, table[id]) /\ row.gen = table[id].gen /\ row.status = "CANCELLED"
    BY <1>1 DEF Job, SameJob, Status
  <2>2. WriteRow(id, row) /\ table[id].gen = g /\ table[id].status = "CANCEL_REQUESTED"
    BY <1>3 DEF ConfirmCancel
  <2>3. g > 0
    BY BoundAssumption
  <2> HIDE DEF row
  <2>4. PhaseOf(row.status) = "cancelled"
    BY <2>1 DEF PhaseOf, DLQStatus
  <2>5. InTurn(table, table[id]) => InTurn(table, row)
    BY <2>1, <2>2, <2>3, TurnKept
  <2> QED BY <2>1, <2>2, <2>4, <2>5, RowGood
<1> QED BY <1>2, <1>3

\* ReplayRow makes a job wait again.
LEMMA ReplayRowFacts ==
    ASSUME NEW old \in Job
    PROVE  /\ ReplayRow(old) \in Job /\ SameJob(ReplayRow(old), old)
           /\ ReplayRow(old).gen = old.gen /\ ReplayRow(old).status = "PENDING"
BY DEF ReplayRow, Job, SameJob, Status, Avail

\* ReplayJob and RescheduleJob.
LEMMA ReplayGood ==
    ASSUME SqInv, NEW id \in DOMAIN table,
           ReplayJob(id) \/ \E a \in Avail : RescheduleJob(id, a)
    PROVE  Good
<1>1. table[id] \in Job /\ (table[id].status = "PROCESSING" => table[id].gen > 0)
  BY RowIsJob
<1>2. CASE ReplayJob(id)
  <2> DEFINE row == ReplayRow(table[id])
  <2>1. row \in Job /\ SameJob(row, table[id]) /\ row.gen = table[id].gen /\ row.status = "PENDING"
    BY <1>1, ReplayRowFacts
  <2>2. WriteRow(id, row) /\ table[id].status \in {"FAILED", "CANCELLED", "DEAD_LETTERED"}
    BY <1>2 DEF ReplayJob, Replayable
  <2> HIDE DEF row
  <2>3. PhaseOf(row.status) = "waiting"
    BY <2>1 DEF PhaseOf, DLQStatus
  <2>4. InTurn(table, table[id]) => InTurn(table, row)
    BY <2>1, <2>2, TurnKept
  <2> QED BY <2>1, <2>2, <2>3, <2>4, RowGood
<1>3. ASSUME NEW a \in Avail, RescheduleJob(id, a) PROVE Good
  <2> DEFINE row == [table[id] EXCEPT !.avail = a]
  <2>1. row \in Job /\ SameJob(row, table[id]) /\ row.gen = table[id].gen /\ row.status = table[id].status
    BY <1>1 DEF Job, SameJob
  <2>2. WriteRow(id, row)
    BY <1>3 DEF RescheduleJob
  <2> HIDE DEF row
  <2>3. InTurn(table, table[id]) => InTurn(table, row)
    BY <2>1, TurnKept
  <2> QED BY <1>1, <2>1, <2>2, <2>3, RowGood
<1> QED BY <1>2, <1>3

\* Time.
LEMMA TimeGood ==
    ASSUME SqInv, TimeStep
    PROVE  Good
<1>1. PICK id \in JobId : BecomesDue(id) \/ LeaseExpires(id)
  BY DEF TimeStep
<1>2. /\ id \in DOMAIN table /\ table[id] \in Job
      /\ table[id].status = "PROCESSING" => table[id].gen > 0
  BY <1>1, RowIsJob DEF BecomesDue, LeaseExpires
<1>3. PICK row \in Job : /\ WriteRow(id, row) /\ SameJob(row, table[id])
                         /\ row.gen = table[id].gen /\ row.status = table[id].status
  <2>1. CASE BecomesDue(id)
    <3> DEFINE row == [table[id] EXCEPT !.avail = "due"]
    <3>1. row \in Job /\ SameJob(row, table[id]) /\ row.gen = table[id].gen /\ row.status = table[id].status
      BY <1>2 DEF Job, SameJob, Avail
    <3> QED BY <2>1, <3>1 DEF BecomesDue
  <2>2. CASE LeaseExpires(id)
    <3> DEFINE row == [table[id] EXCEPT !.lease = "expired"]
    <3>1. row \in Job /\ SameJob(row, table[id]) /\ row.gen = table[id].gen /\ row.status = table[id].status
      BY <1>2 DEF Job, SameJob, Lease
    <3> QED BY <2>2, <3>1 DEF LeaseExpires
  <2> QED BY <1>1, <2>1, <2>2
<1>4. InTurn(table, table[id]) => InTurn(table, row)
  BY <1>2, <1>3, TurnKept
<1> QED BY <1>2, <1>3, <1>4, RowGood

-----------------------------------------------------------------------------
(* The statements on several rows                                              *)

\* A statement that makes jobs wait, none of which is COMPLETED.
LEMMA WaitGood ==
    ASSUME SqInv, NEW rows \in Rows, Write(rows), DOMAIN rows \subseteq DOMAIN table,
           \A id \in DOMAIN rows :
              /\ SameJob(rows[id], table[id]) /\ rows[id].gen = table[id].gen
              /\ rows[id].status = "PENDING" /\ table[id].status # "COMPLETED",
           Ordered /\ TurnInv => \A id \in DOMAIN rows : InTurn(table, rows[id])
    PROVE  Good
<1>1. /\ Safe /\ (Ordered /\ TurnInv => TurnInv')
      /\ TableInv /\ TableInv' /\ DOMAIN table' = DOMAIN table
      /\ \A id \in DOMAIN rows : table'[id] = rows[id]
      /\ \A id \in DOMAIN table \ DOMAIN rows : table'[id] = table[id]
  <2>1. \A id \in DOMAIN rows : Rewrites(rows[id], table[id])
    BY DEF Rewrites
  <2> QED BY <2>1, WriteGood
<1>2. table \in Rows /\ table' \in Rows
  BY <1>1 DEF TableInv, TxTyped
<1>3. DOMAIN rows \in SUBSET DOMAIN ChainView(table)
  BY <1>2, ViewFacts
<1>4. Order!Keeps(DOMAIN rows)
  <2>1. \A id \in DOMAIN table \ DOMAIN rows : SameView(table'[id], table[id])
    BY <1>1 DEF SameView, SameJob
  <2>2. \A id \in DOMAIN rows : SameJob(table'[id], table[id])
    BY <1>1
  <2> QED BY <1>1, <2>1, <2>2, RowsKept
<1>5. ASSUME NEW id \in DOMAIN rows
      PROVE  /\ ChainView(table)[id].phase # "done"
             /\ ChainView(table')[id].phase = "waiting"
             /\ ChainView(table')[id].token = ChainView(table)[id].token
  <2>1. id \in DOMAIN table /\ id \in DOMAIN table' /\ table'[id] = rows[id]
    BY <1>1, <1>5
  <2>2. /\ ChainView(table)[id].phase = PhaseOf(table[id].status)
        /\ ChainView(table)[id].token = table[id].gen
        /\ ChainView(table')[id].phase = PhaseOf(rows[id].status)
        /\ ChainView(table')[id].token = rows[id].gen
    BY <1>2, <2>1, ViewFacts
  <2> QED BY <2>2 DEF PhaseOf, DLQStatus
<1>6. Order!ViewTypeOK /\ Order!ViewTypeOK'
  BY <1>1, ViewTyped, ViewTypedNext
<1>7. Order!Next
  BY <1>3, <1>4, <1>5, <1>6, Order!ReturnByParts
<1> QED BY <1>1, <1>7 DEF Good, KeepsTurns

\* PromoteNext after a job whose mode goes on past a failure.
LEMMA PromoteNextGood ==
    ASSUME SqInv, NEW id \in DOMAIN table, table[id].mode \in ContinueModes,
           PromoteNext(table[id].chain, table[id].seq)
    PROVE  Good
<1> DEFINE c == table[id].chain
           n == table[id].seq
           S == {i \in At(table, c, n + 1) : table[i].status = "BLOCKED"}
           rows == [i \in S |-> [table[i] EXCEPT !.status = "PENDING"]]
<1>1. \A i \in DOMAIN table : table[i] \in Job /\ i \in JobId
  BY RowsFacts DEF SqInv, TableInv, TxTyped
<1>2. Write(rows)
  BY DEF PromoteNext
<1>3. /\ DOMAIN rows = S /\ S \subseteq DOMAIN table
      /\ \A i \in S : table[i].status = "BLOCKED" /\ table[i].chain = c /\ table[i].seq = n + 1
  BY DEF At
<1> HIDE DEF S
<1>4. ASSUME NEW i \in S
      PROVE  /\ rows[i] \in Job /\ SameJob(rows[i], table[i])
             /\ rows[i].gen = table[i].gen /\ rows[i].status = "PENDING"
  BY <1>1, <1>3, <1>4 DEF Job, SameJob, Status
<1>5. rows \in Rows
  BY <1>1, <1>3, <1>4, RowsFacts
<1>6. n \in Int /\ id \in At(table, c, n + 1 - 1) /\ table[id].mode # "strict"
  BY <1>1 DEF At, Job, ContinueModes
<1> HIDE DEF rows
<1>7. ASSUME Ordered, TurnInv, NEW i \in S PROVE InTurn(table, rows[i])
  <2>1. rows[i].chain = c /\ rows[i].seq = n + 1
    BY <1>3, <1>4, <1>7 DEF SameJob
  <2>2. LetGo(table, c, n + 1)
    BY <1>6 DEF LetGo
  <2>3. ~(n + 1 <= 0)
    BY <1>3, <1>7 DEF TurnInv, InTurn
  <2> QED BY <2>1, <2>2, <2>3 DEF InTurn
<1> QED BY <1>2, <1>3, <1>4, <1>5, <1>7, WaitGood

\* BulkReplayDLQ.
LEMMA BulkReplayGood ==
    ASSUME SqInv, NEW filter \in SUBSET JobId, BulkReplayDLQ(filter)
    PROVE  Good
<1> DEFINE S == DLQWhere(filter)
           rows == [id \in S |-> [ReplayRow(table[id]) EXCEPT !.lease = "none"]]
<1>1. \A id \in DOMAIN table : table[id] \in Job /\ id \in JobId
  BY RowsFacts DEF SqInv, TableInv, TxTyped
<1>2. Write(rows)
  BY DEF BulkReplayDLQ
<1>3. DOMAIN rows = S /\ S \subseteq DOMAIN table /\ \A id \in S : table[id].status \in DLQStatus
  BY DEF DLQWhere
<1> HIDE DEF S
<1>4. ASSUME NEW id \in S
      PROVE  /\ rows[id] \in Job /\ SameJob(rows[id], table[id])
             /\ rows[id].gen = table[id].gen /\ rows[id].status = "PENDING"
  <2>1. ASSUME NEW r \in Job
        PROVE  LET x == [r EXCEPT !.lease = "none"]
               IN x \in Job /\ SameJob(x, r) /\ x.gen = r.gen /\ x.status = r.status
    BY DEF Job, SameJob, Lease
  <2>2. /\ ReplayRow(table[id]) \in Job /\ SameJob(ReplayRow(table[id]), table[id])
        /\ ReplayRow(table[id]).gen = table[id].gen /\ ReplayRow(table[id]).status = "PENDING"
    BY <1>1, <1>3, <1>4, ReplayRowFacts
  <2> QED BY <1>4, <2>1, <2>2 DEF SameJob
<1>5. rows \in Rows
  BY <1>1, <1>3, <1>4, RowsFacts
<1> HIDE DEF rows
<1>6. ASSUME Ordered, TurnInv, NEW id \in S PROVE InTurn(table, rows[id])
  <2>1. id \in DOMAIN table /\ table[id].status \in {"FAILED", "DEAD_LETTERED"}
    BY <1>3, <1>6 DEF DLQStatus
  <2>2. InTurn(table, table[id]) => InTurn(table, rows[id])
    BY <1>4, <1>6, <2>1, TurnKept
  <2> QED BY <1>6, <2>1, <2>2 DEF TurnInv
<1>7. \A id \in S : table[id].status # "COMPLETED"
  BY <1>3 DEF DLQStatus
<1> QED BY <1>2, <1>3, <1>4, <1>5, <1>6, <1>7, WaitGood

\* BulkPurgeDLQ: the order may be lost, nothing else.
LEMMA PurgeGood ==
    ASSUME SqInv, NEW filter \in SUBSET JobId, BulkPurgeDLQ(filter), "bulkPurge" \in Commands
    PROVE  Good
<1> DEFINE S == DLQWhere(filter)
<1>1. /\ S \subseteq DOMAIN table /\ \A id \in S : ~Locked(id) /\ table[id].status \in DLQStatus
      /\ table' = [id \in DOMAIN table \ S |-> table[id]] /\ UNCHANGED <<tx, issued>>
  BY DEF BulkPurgeDLQ, DLQWhere, Without
<1> HIDE DEF S
<1>2. /\ table \in Rows /\ TableInv /\ tx \in [Session -> Tx]
      /\ DOMAIN table' = DOMAIN table \ S
      /\ \A id \in DOMAIN table' : table'[id] = table[id]
  BY <1>1 DEF SqInv, TableInv, TxTyped
<1>3. table' \in Rows
  BY <1>1, <1>2, RowsFacts
<1>4. TableInv'
  BY <1>1, <1>2, <1>3, RewriteStep DEF SameJob
<1>5. ASSUME NEW s \in Session PROVE Fits(table', tx[s])
  <2>1. tx[s] \in Tx /\ Fits(table, tx[s])
    BY <1>2 DEF SqInv
  <2>2. \A id \in DOMAIN tx[s].writes : id \notin S
    BY <1>1 DEF Locked
  <2> QED BY <1>2, <1>3, <2>1, <2>2, FitsKept
<1>6. SqInv'
  BY <1>1, <1>2, <1>4, <1>5 DEF SqInv
<1>7. Final /\ LeaseLeft
  BY <1>1, <1>2 DEF Final, LeaseLeft, DLQStatus
<1> QED BY <1>6, <1>7 DEF Good, Safe, KeepsTurns, Ordered

-----------------------------------------------------------------------------
(* Transactions that enqueue                                                   *)

\* The transaction that begins asks for the locks of its requests.
LEMMA BegunFacts ==
    ASSUME SqInv, NEW s \in Session, NEW reqs \in Seq(Stored), reqs # <<>>, NEW batch \in BOOLEAN
    PROVE  /\ Begun(reqs, batch) \in Tx /\ TxInv(table, Begun(reqs, batch))
           /\ Begun(reqs, batch).at = "lock" /\ Begun(reqs, batch).locks = {}
           /\ DOMAIN Begun(reqs, batch).writes = {}
           /\ \A o \in Session : Apart(Begun(reqs, batch), tx[o])
<1> DEFINE t == Begun(reqs, batch)
<1>1. \A i \in DOMAIN reqs : reqs[i] \in Stored
  OBVIOUS
<1>2. {reqs[i].chain : i \in DOMAIN reqs} \in SUBSET ChainId
  BY <1>1 DEF Stored
<1>3. table \in Rows /\ UniquePlaces(table) /\ UniqueKeys(table)
  BY DEF SqInv, TableInv, TxTyped
<1>4. NoTx \in Tx
  BY <1>3, NoTxInv
<1>5. t \in Tx
  BY <1>2, <1>4 DEF Begun, Tx, Step
<1>6. /\ t.at = "lock" /\ t.writes = EmptyMap /\ t.locks = {} /\ t.reqs = reqs
      /\ t.wait = {reqs[i].chain : i \in DOMAIN reqs}
  BY DEF Begun, NoTx
<1>7. DOMAIN t.writes = {}
  BY <1>6 DEF EmptyMap
<1> HIDE DEF t
<1>8. Locking(t)
  BY <1>6 DEF Locking, Enqueuing
<1>9. TxInv(table, t)
  BY <1>3, <1>5, <1>6, <1>8, NoWritesInv
<1>10. \A o \in Session : Apart(t, tx[o])
  BY <1>6, <1>7 DEF Apart
<1> QED BY <1>5, <1>6, <1>7, <1>9, <1>10 DEF t

\* What a transaction with nothing to insert or to promote has to satisfy is what it has
\* written already.
LEMMA SameWrites ==
    ASSUME NEW t, NEW u, u.writes = t.writes, u.at \in {"lock", "number", "status", "commit"}
    PROVE  /\ Inserts(table, t) /\ LockOrder(u) => Fits(table, u)
           /\ TxInTurn(table, t) => TxInTurn(table, u)
<1>1. Inserts(table, t) => Inserts(table, u)
  BY DEF Inserts
<1> QED BY <1>1 DEF Fits, Found, TxInTurn

\* A transaction gets the next lock in order.
LEMMA AppLockGood ==
    ASSUME SqInv, NEW s \in Session, NEW t \in Tx, lockAppChain(s, t),
           TxInv(table, t), t.at = "lock", Inserts(table, t), LockOrder(t),
           TurnInv => TxInTurn(table, t),
           DOMAIN t.writes \subseteq issued,
           \A o \in Session \ {s} : Apart(t, tx[o])
    PROVE  Good
<1>1. PICK c \in t.wait :
         /\ NextLock(t.wait, c) /\ LockFree(s, c) /\ UNCHANGED <<table, issued>>
         /\ Continue(s, [t EXCEPT !.wait = t.wait \ {c}, !.locks = t.locks \cup {c},
                                  !.at = IF t.wait = {c} THEN "number" ELSE "lock"])
  BY DEF lockAppChain, AppLockFree
<1> DEFINE u == [t EXCEPT !.wait = t.wait \ {c}, !.locks = t.locks \cup {c},
                          !.at = IF t.wait = {c} THEN "number" ELSE "lock"]
<1>2. TableInv'
  BY <1>1, LockStep DEF SqInv
<1>3. /\ u.writes = t.writes /\ u.wait = t.wait \ {c} /\ u.locks = t.locks \cup {c}
      /\ u.at \in {"number", "lock"}
  BY DEF Tx
<1>4. Continue(s, u)
  BY <1>1
<1> HIDE DEF u
<1>5. LockOrder(u)
  <2>1. t.wait \subseteq Int
    BY ChainOrderAssumption DEF Tx
  <2>2. \A d \in u.wait : d \in t.wait /\ c < d
    BY <1>1, <1>3, <2>1 DEF NextLock
  <2> QED BY <1>3, <2>2 DEF LockOrder
<1>6. Fits(table, u) /\ (TurnInv => TxInTurn(table, u))
  BY <1>3, <1>5, SameWrites
<1> QED BY <1>1, <1>2, <1>4, <1>6, SessionGood

\* Enqueue and EnqueueBatch begin.
LEMMA EnqueueGood ==
    ASSUME SqInv, NEW s \in Session,
           \/ \E req \in Requests : Enqueue(s, req)
           \/ \E req1, req2 \in Requests : EnqueueBatch(s, req1, req2)
    PROVE  Good
<1>1. \A req \in Requests : Accepted(req) => req \in Stored
  BY RequestAssumption DEF Stored, Accepted, Request
<1>2. ASSUME NEW reqs \in Seq(Stored), reqs # <<>>, NEW batch \in BOOLEAN,
             lockAppChain(s, Begun(reqs, batch))
      PROVE  Good
  <2> DEFINE t == Begun(reqs, batch)
  <2>1. /\ t \in Tx /\ TxInv(table, t) /\ t.at = "lock" /\ t.locks = {} /\ DOMAIN t.writes = {}
        /\ \A o \in Session : Apart(t, tx[o])
    BY <1>2, BegunFacts
  <2>2. lockAppChain(s, t)
    BY <1>2
  <2> HIDE DEF t
  <2>3. Inserts(table, t) /\ LockOrder(t) /\ TxInTurn(table, t)
    BY <2>1 DEF Inserts, LockOrder, TxInTurn
  <2> QED BY <2>1, <2>2, <2>3, AppLockGood
<1>3. ASSUME NEW req \in Requests, Enqueue(s, req) PROVE Good
  <2>1. <<req>> \in Seq(Stored) /\ <<req>> # <<>>
    BY <1>1, <1>3 DEF Enqueue
  <2> QED BY <1>2, <1>3, <2>1 DEF Enqueue
<1>4. ASSUME NEW req1 \in Requests, NEW req2 \in Requests, EnqueueBatch(s, req1, req2) PROVE Good
  <2>1. <<req1, req2>> \in Seq(Stored) /\ <<req1, req2>> # <<>>
    BY <1>1, <1>4 DEF EnqueueBatch
  <2> QED BY <1>2, <1>4, <2>1 DEF EnqueueBatch
<1> QED BY <1>3, <1>4

\* A transaction at one of these statements has inserted or done nothing.
LEMMA NotCompleting ==
    ASSUME SqInv, NEW s \in Session, tx[s].at \notin {"promote", "commit"}
    PROVE  Inserts(table, tx[s]) /\ LockOrder(tx[s])
BY DEF SqInv, Fits, Completes

\* The batch goes on to its other chain.
LEMMA LockOtherGood ==
    ASSUME SqInv, NEW s \in Session, LockOther(s)
    PROVE  Good
<1>1. /\ tx[s].at = "lock" /\ lockAppChain(s, tx[s])
      /\ tx[s] \in Tx /\ TxInv(table, tx[s]) /\ DOMAIN tx[s].writes \subseteq issued
      /\ \A o \in Session \ {s} : Apart(tx[s], tx[o])
  BY DEF LockOther, SqInv, TableInv, TxTyped
<1>2. Inserts(table, tx[s]) /\ LockOrder(tx[s])
  BY <1>1, NotCompleting
<1>3. TurnInv => TxInTurn(table, tx[s])
  BY DEF TurnInv
<1> QED BY <1>1, <1>2, <1>3, AppLockGood

\* The transaction that has served its first request.
LEMMA ServedFacts ==
    ASSUME NEW t \in Tx, Locking(t), t.at \in {"number", "insert"}
    PROVE  /\ Served(t) \in Tx /\ Locking(Served(t)) /\ Served(t).writes = t.writes
           /\ Served(t).locks = t.locks /\ Served(t).wait = t.wait
           /\ Served(t).at \in {"number", "commit"}
<1>1. t.reqs \in Seq(Stored) /\ t.reqs # <<>> /\ t.wait = {}
  BY DEF Tx, Locking, Enqueuing
<1>2. /\ Tail(t.reqs) \in Seq(Stored)
      /\ \A i \in DOMAIN Tail(t.reqs) : i + 1 \in DOMAIN t.reqs /\ Tail(t.reqs)[i] = t.reqs[i + 1]
      /\ Len(t.reqs) # 1 => Tail(t.reqs) # <<>>
  BY <1>1, TailFacts
<1>3. /\ Served(t) \in Tx /\ Served(t).writes = t.writes /\ Served(t).wait = t.wait
      /\ Served(t).locks = t.locks /\ Served(t).reqs = Tail(t.reqs)
      /\ Served(t).at = IF Len(t.reqs) = 1 THEN "commit" ELSE "number"
  <2> DEFINE q == Tail(t.reqs)
             a == IF Len(t.reqs) = 1 THEN "commit" ELSE "number"
             u == [t EXCEPT !.reqs = q, !.seq = 0, !.status = "BLOCKED", !.at = a]
  <2>1. q \in Seq(Stored) /\ a \in Step /\ Served(t) = u
    BY <1>2 DEF Served, Step
  <2> HIDE DEF q, a
  <2>2. u \in Tx
    <3>1. \A n \in Int, b \in Status : [t EXCEPT !.reqs = q, !.seq = n, !.status = b, !.at = a] \in Tx
      BY <2>1 DEF Tx
    <3>2. 0 \in Int /\ "BLOCKED" \in Status
      BY DEF Status
    <3> QED BY <3>1, <3>2, Zenon
  <2>3. /\ u.writes = t.writes /\ u.wait = t.wait /\ u.locks = t.locks
        /\ u.reqs = q /\ u.at = a
    BY DEF Tx
  <2> QED BY <2>1, <2>2, <2>3 DEF q, a
<1>4. Locking(Served(t))
  BY <1>1, <1>2, <1>3 DEF Locking, Enqueuing
<1> QED BY <1>3, <1>4

\* The numbers a request may get are free in its chain.
LEMMA NumbersFree ==
    ASSUME NEW rows \in Rows, Bounded(rows), NEW req \in Stored,
           NEW n \in resolveSequence(rows, req)
    PROVE  n \in Int /\ \A id \in DOMAIN rows : rows[id].chain = req.chain => rows[id].seq # n
<1>1. \A id \in DOMAIN rows : rows[id].seq \in Int
  BY RowsFacts DEF Job
<1>2. CASE req.sequence # 0
  BY <1>2 DEF resolveSequence, At, Stored, Request
<1>3. CASE req.sequence = 0 /\ MaxSequence(rows, req.chain) = {}
  BY <1>3, MaxSequenceFacts DEF resolveSequence
<1>4. CASE req.sequence = 0 /\ MaxSequence(rows, req.chain) # {}
  <2>1. PICK max \in MaxSequence(rows, req.chain) : n = max + 1
    BY <1>4 DEF resolveSequence
  <2>2. max \in Int /\ \A id \in DOMAIN rows : rows[id].chain = req.chain => rows[id].seq <= max
    BY MaxSequenceFacts
  <2> QED BY <1>1, <2>1, <2>2
<1> QED BY <1>2, <1>3, <1>4

\* Number: what is found is free, and the key not in use.
LEMMA NumberGood ==
    ASSUME SqInv, NEW s \in Session, Number(s)
    PROVE  Good
<1> DEFINE t == tx[s]
           req == Head(t.reqs)
<1>1. /\ t \in Tx /\ t.writes \in Rows /\ table \in Rows /\ Bounded(table) /\ TxInv(table, t)
      /\ TableInv /\ t.at = "number" /\ UNCHANGED <<table, issued>>
      /\ TurnInv => TxInTurn(table, t)
  BY DEF SqInv, TableInv, TxTyped, Number, Tx, TurnInv
<1>2. Locking(t) /\ Bounded(t.writes) /\ req \in Stored
  BY <1>1, HeadLocked DEF TxInv
<1>3. Visible(s) \in Rows /\ Bounded(Visible(s))
  BY <1>1, <1>2, OverlayFacts, OverlayBounded DEF Visible
<1>4. Inserts(table, t) /\ LockOrder(t)
  BY <1>1, NotCompleting
<1>5. CASE IsDuplicate(Visible(s), req)
  <2>1. Continue(s, Served(t))
    BY <1>5 DEF Number
  <2>2. /\ Served(t) \in Tx /\ Locking(Served(t)) /\ Served(t).writes = t.writes
        /\ Served(t).locks = t.locks /\ Served(t).wait = t.wait
        /\ Served(t).at \in {"number", "commit"}
    BY <1>1, <1>2, ServedFacts
  <2>3. FoundFree(Visible(s), Served(t)) /\ LockOrder(Served(t))
    BY <1>4, <2>2 DEF FoundFree, LockOrder
  <2>4. TableInv'
    BY <1>1, <2>1, <2>2, <2>3, GoOnStep
  <2>5. Fits(table, Served(t)) /\ (TurnInv => TxInTurn(table, Served(t)))
    BY <1>1, <1>4, <2>2, <2>3, SameWrites
  <2> QED BY <1>1, <2>1, <2>4, <2>5, SessionGood
<1>6. CASE ~IsDuplicate(Visible(s), req)
  <2>1. PICK n \in resolveSequence(Visible(s), req) : Continue(s, [t EXCEPT !.seq = n, !.at = "status"])
    BY <1>6 DEF Number
  <2> DEFINE u == [t EXCEPT !.seq = n, !.at = "status"]
  <2>2. n \in Int /\ \A id \in DOMAIN Visible(s) : Visible(s)[id].chain = req.chain => Visible(s)[id].seq # n
    BY <1>2, <1>3, <2>1, NumbersFree
  <2>3. /\ u \in Tx /\ u.writes = t.writes /\ u.locks = t.locks
        /\ u.reqs = t.reqs /\ u.wait = t.wait /\ u.seq = n /\ u.at = "status"
    BY <1>1, <2>2 DEF Tx, Step
  <2>4. Continue(s, u)
    BY <2>1
  <2> HIDE DEF u
  <2>5. Locking(u) /\ LockOrder(u)
    BY <1>1, <1>2, <1>4, <2>3 DEF Locking, Enqueuing, LockOrder
  <2>6. FoundFree(Visible(s), u)
    BY <1>6, <2>2, <2>3 DEF FoundFree, IsDuplicate
  <2>7. TableInv'
    BY <1>1, <2>3, <2>4, <2>5, <2>6, GoOnStep
  <2>8. Fits(table, u) /\ (TurnInv => TxInTurn(table, u))
    BY <1>1, <1>4, <2>3, <2>5, SameWrites
  <2> QED BY <1>1, <2>4, <2>7, <2>8, SessionGood
<1> QED BY <1>5, <1>6

\* resolveInitialStatus finds PENDING only for a job that a committed row lets go: what the
\* transaction has inserted itself has not finished.
LEMMA StatusGood ==
    ASSUME SqInv, NEW s \in Session, resolveInitialStatus(s)
    PROVE  Good
<1> DEFINE t == tx[s]
           c == Head(t.reqs).chain
           seen == Visible(s)
           st == IF t.seq <= 1 \/ \E p \in At(seen, c, t.seq - 1) : PredFinished(seen[p])
                 THEN "PENDING" ELSE "BLOCKED"
           u == [t EXCEPT !.status = st, !.at = "insert"]
<1>1. /\ t \in Tx /\ t.writes \in Rows /\ table \in Rows /\ TxInv(table, t) /\ t.seq \in Int
      /\ TableInv /\ t.at = "status" /\ UNCHANGED <<table, issued>> /\ Continue(s, u)
      /\ TurnInv => TxInTurn(table, t)
  BY DEF SqInv, TableInv, TxTyped, resolveInitialStatus, Tx, TurnInv
<1>2. Locking(t) /\ FoundFree(seen, t)
  BY <1>1 DEF TxInv, Visible
<1>3. Inserts(table, t) /\ LockOrder(t)
  BY <1>1, NotCompleting
<1>4. st \in {"PENDING", "BLOCKED"} /\ (t.seq <= 0 => st = "PENDING")
  BY <1>1
<1>5. st = "PENDING" => LetGo(table, c, t.seq)
  <2>1. CASE t.seq <= 1
    BY <2>1 DEF LetGo
  <2>2. ASSUME NEW p \in At(seen, c, t.seq - 1), PredFinished(seen[p]) PROVE LetGo(table, c, t.seq)
    <3>1. p \in DOMAIN seen /\ seen[p].chain = c /\ seen[p].seq = t.seq - 1
      BY <2>2 DEF At
    <3>2. /\ DOMAIN seen = DOMAIN table \cup DOMAIN t.writes
          /\ \A id \in DOMAIN t.writes : seen[id] = t.writes[id]
          /\ \A id \in DOMAIN table \ DOMAIN t.writes : seen[id] = table[id]
      BY <1>1, OverlayFacts DEF Visible
    <3> HIDE DEF seen
    <3>3. p \notin DOMAIN t.writes
      BY <1>3, <2>2, <3>2 DEF Inserts, PredFinished, DLQStatus
    <3>4. p \in DOMAIN table /\ seen[p] = table[p]
      BY <3>1, <3>2, <3>3
    <3>5. p \in At(table, c, t.seq - 1)
      BY <3>1, <3>4 DEF At
    <3>6. table[p].status = "COMPLETED" \/ table[p].mode # "strict"
      BY <2>2, <3>4 DEF PredFinished, ContinueModes
    <3> QED BY <3>5, <3>6 DEF LetGo
  <2> QED BY <2>1, <2>2
<1> HIDE DEF st
<1>6. /\ u \in Tx /\ u.writes = t.writes /\ u.locks = t.locks /\ u.reqs = t.reqs
      /\ u.wait = t.wait /\ u.seq = t.seq /\ u.at = "insert" /\ u.status = st
  BY <1>1, <1>4 DEF Tx, Step, Status
<1> HIDE DEF u
<1>7. Locking(u) /\ LockOrder(u) /\ FoundFree(seen, u)
  BY <1>1, <1>2, <1>3, <1>6 DEF Locking, Enqueuing, LockOrder, FoundFree
<1>8. TableInv'
  BY <1>1, <1>6, <1>7, GoOnStep
<1>9. Fits(table, u)
  BY <1>3, <1>4, <1>6, <1>7 DEF Fits, Inserts, Found
<1>10. TurnInv => TxInTurn(table, u)
  BY <1>1, <1>4, <1>5, <1>6 DEF TxInTurn
<1> QED BY <1>1, <1>8, <1>9, <1>10, SessionGood

\* The row that is inserted is a job that nobody has claimed.
LEMMA NewRowFacts ==
    ASSUME NEW req \in Stored, NEW seq \in Int, NEW status \in {"PENDING", "BLOCKED"}
    PROVE  LET row == NewRow(req, seq, status)
           IN /\ row \in Job /\ row.chain = req.chain /\ row.seq = seq /\ row.key = req.key
              /\ row.gen = 0 /\ row.status = status
<1>1. (IF req.mode = "" THEN "strict" ELSE req.mode) \in OrderingMode
  BY DEF Stored, Request, OrderingMode
<1>2. (IF req.maxAttempts = 0 THEN DefaultMaxAttempts ELSE req.maxAttempts) \in Int
  BY DefaultAssumption DEF Stored, Request
<1>3. /\ req.chain \in ChainId /\ req.type \in JobType \cup {NoType} /\ req.key \in Key \cup {NoKey}
      /\ req.avail \in Avail
  BY DEF Stored, Request
<1>4. NewRow(req, seq, status) \in Job
  BY <1>1, <1>2, <1>3 DEF NewRow, Job, Status, Lease
<1>5. LET row == NewRow(req, seq, status)
      IN /\ row.chain = req.chain /\ row.seq = seq /\ row.key = req.key
         /\ row.gen = 0 /\ row.status = status
  BY DEF NewRow
<1> QED BY <1>4, <1>5

\* Insert.
LEMMA InsertGood ==
    ASSUME SqInv, NEW s \in Session, Insert(s)
    PROVE  Good
<1> DEFINE t == tx[s]
           req == Head(t.reqs)
           row == NewRow(req, t.seq, t.status)
<1>1. PICK id \in JobId \ issued :
         /\ Continue(s, [Served(t) EXCEPT !.writes = Put(Served(t).writes, id, row)])
         /\ issued' = issued \cup {id}
  BY DEF Insert
<1>2. /\ t \in Tx /\ TxInv(table, t) /\ TableInv /\ t.at = "insert" /\ table' = table
      /\ t.seq \in Int /\ t.writes \in Rows /\ table \in Rows /\ DOMAIN table \subseteq issued
      /\ DOMAIN t.writes \subseteq issued /\ Fits(table, t) /\ (TurnInv => TxInTurn(table, t))
  BY DEF SqInv, TableInv, TxTyped, Insert, Tx, TurnInv
<1>3. Locking(t) /\ req \in Stored
  BY <1>2, HeadLocked DEF TxInv
<1>4. t.status \in {"PENDING", "BLOCKED"} /\ Inserts(table, t) /\ LockOrder(t)
  BY <1>2, NotCompleting DEF Fits, Found
<1>5. /\ row \in Job /\ row.chain = req.chain /\ row.seq = t.seq /\ row.key = req.key
      /\ row.gen = 0 /\ row.status = t.status
  BY <1>2, <1>3, <1>4, NewRowFacts
<1> HIDE DEF row
<1>6. /\ Served(t) \in Tx /\ Locking(Served(t)) /\ Served(t).writes = t.writes
      /\ Served(t).locks = t.locks /\ Served(t).wait = t.wait
      /\ Served(t).at \in {"number", "commit"}
  BY <1>2, <1>3, ServedFacts
<1> DEFINE v == Served(t)
           w == Put(t.writes, id, row)
           u == [v EXCEPT !.writes = w]
<1>7. DOMAIN w = DOMAIN t.writes \cup {id} /\ w[id] = row
      /\ \A k \in DOMAIN t.writes \ {id} : w[k] = t.writes[k]
  BY DEF Put
<1>8. w \in Rows
  <2>1. w = [k \in DOMAIN w |-> w[k]]
    BY DEF Put
  <2>2. DOMAIN w \subseteq JobId /\ \A k \in DOMAIN w : w[k] \in Job
    BY <1>2, <1>5, <1>7, RowsFacts
  <2> HIDE DEF w
  <2> QED BY <2>1, <2>2, RowsFacts
<1>9. Continue(s, u)
  BY <1>1, <1>6
<1> HIDE DEF v, w
<1>10. v \in Tx /\ Locking(v) /\ v.locks = t.locks /\ v.wait = t.wait /\ v.at \in {"number", "commit"}
  BY <1>6 DEF v
<1>11. /\ u \in Tx /\ u.writes = w /\ u.locks = t.locks
       /\ u.reqs = v.reqs /\ u.wait = v.wait /\ u.at = v.at
  BY <1>8, <1>10 DEF Tx
<1> HIDE DEF u
<1>12. Locking(u) /\ LockOrder(u)
  BY <1>4, <1>10, <1>11 DEF Locking, LockOrder
<1>13. u.writes = Put(t.writes, id, row)
  BY <1>11 DEF w
<1>14. TableInv'
  BY <1>1, <1>2, <1>5, <1>9, <1>10, <1>11, <1>12, <1>13, InsertStep
<1>15. id \notin DOMAIN table /\ id \notin DOMAIN t.writes
  BY <1>1, <1>2
<1>16. Fits(table, u)
  <2>1. Inserts(table, u)
    BY <1>4, <1>5, <1>7, <1>10, <1>11, <1>15 DEF Inserts
  <2> QED BY <1>10, <1>11, <1>12, <2>1 DEF Fits, Found
<1>17. ASSUME TurnInv PROVE TxInTurn(table, u)
  <2> DEFINE old == Overlay(table, t.writes)
             new == Overlay(table, w)
  <2>1. /\ DOMAIN old = DOMAIN table \cup DOMAIN t.writes
        /\ \A k \in DOMAIN t.writes : old[k] = t.writes[k]
        /\ \A k \in DOMAIN table \ DOMAIN t.writes : old[k] = table[k]
    BY <1>2, OverlayFacts
  <2>2. /\ DOMAIN new = DOMAIN table \cup DOMAIN w
        /\ \A k \in DOMAIN w : new[k] = w[k]
        /\ \A k \in DOMAIN table \ DOMAIN w : new[k] = table[k]
    BY <1>2, <1>8, OverlayFacts
  <2> HIDE DEF old, new
  <2>3. Grows(old, new)
    BY <1>7, <1>15, <2>1, <2>2 DEF Grows, SameJob
  <2>4. Grows(table, new)
    BY <1>4, <1>7, <1>15, <2>2 DEF Grows, SameJob, Inserts
  <2>5. \A k \in DOMAIN t.writes : InTurn(new, w[k])
    BY <1>2, <1>7, <1>15, <1>17, <2>3, InTurnKept DEF TxInTurn, old
  <2>6. InTurn(new, row)
    <3>1. t.status = "PENDING" => LetGo(new, req.chain, t.seq)
      BY <1>2, <1>17, <2>4, LetGoKept DEF TxInTurn
    <3>2. t.seq <= 0 => t.status = "PENDING"
      BY <1>2, <1>17 DEF TxInTurn
    <3> QED BY <1>4, <1>5, <3>1, <3>2 DEF InTurn, HeldBack
  <2>7. \A k \in DOMAIN w : InTurn(new, w[k])
    BY <1>7, <2>5, <2>6
  <2> QED BY <1>10, <1>11, <2>7 DEF TxInTurn, new
<1> QED BY <1>2, <1>9, <1>14, <1>16, <1>17, SessionGood

-----------------------------------------------------------------------------
(* Transactions that complete jobs                                             *)

\* The jobs that Complete, SkipJob and BulkSkipDLQ may declare COMPLETED.
Completable == {"PROCESSING", "FAILED", "DEAD_LETTERED", "CANCELLED", "BLOCKED"}

\* A job that is declared COMPLETED stays in turn: one skipped while BLOCKED never runs.
LEMMA CompletedInTurn ==
    ASSUME SqInv, NEW id \in DOMAIN table, table[id].status \in Completable, NEW row \in Job,
           SameJob(row, table[id]), row.gen = table[id].gen, row.status = "COMPLETED",
           InTurn(table, table[id])
    PROVE  InTurn(table, row)
<1>1. table[id] \in Job /\ table[id].gen \in Nat /\ row.seq = table[id].seq /\ row.seq \in Int
  BY RowIsJob DEF Job, SameJob
<1>2. CASE table[id].gen > 0 \/ table[id].status # "BLOCKED"
  BY <1>2, TurnKept DEF Completable
<1>3. CASE table[id].gen = 0 /\ table[id].status = "BLOCKED"
  <2>1. ~(row.seq <= 0)
    BY <1>1, <1>3 DEF InTurn
  <2> QED BY <1>3, <2>1 DEF InTurn, HeldBack
<1> QED BY <1>1, <1>2, <1>3

\* The first statement of such a transaction.
LEMMA FinishGood ==
    ASSUME SqInv, NEW s \in Session, NEW rows \in Rows, NEW places \in SUBSET Item,
           NEW filter \in SUBSET JobId, Finish(s, rows, places, filter), DOMAIN rows \subseteq DOMAIN table,
           \A id \in DOMAIN rows :
              /\ SameJob(rows[id], table[id]) /\ rows[id].gen = table[id].gen
              /\ rows[id].status = "COMPLETED" /\ table[id].status \in Completable,
           Ordered /\ TurnInv => \A p \in places : At(rows, p[1], p[2]) # {}
    PROVE  Good
<1> DEFINE u == [NoTx EXCEPT !.at = "promote", !.filter = filter, !.items = places,
                            !.writes = rows]
<1>1. /\ \A id \in DOMAIN rows : ~LockedFor(s, id)
      /\ Continue(s, u) /\ UNCHANGED <<table, issued>>
  BY DEF Finish
<1>2. TableInv /\ table \in Rows /\ NoTx \in Tx
  BY NoTxInv DEF SqInv, TableInv, TxTyped
<1>3. u \in Tx
  BY <1>2 DEF Tx, Step
<1>4. /\ u.at = "promote" /\ u.writes = rows /\ u.locks = {} /\ u.reqs = <<>>
      /\ u.items = places
  BY DEF NoTx
<1> HIDE DEF u
<1>5. TableInv'
  <2>1. u.at \notin Enqueuing
    BY <1>4 DEF Enqueuing
  <2> QED BY <1>1, <1>2, <1>3, <1>4, <2>1, WritesStep
<1>6. Fits(table, u)
  <2>1. \A id \in DOMAIN rows : table[id].status # "COMPLETED"
    BY DEF Completable
  <2>2. Completes(table, u)
    BY <1>4, <2>1 DEF Completes
  <2> QED BY <1>4, <2>2 DEF Fits, LockOrder, Found
<1>7. ASSUME Ordered, TurnInv PROVE TxInTurn(table, u)
  <2> DEFINE new == Overlay(table, rows)
  <2>1. /\ DOMAIN new = DOMAIN table \cup DOMAIN rows
        /\ \A k \in DOMAIN rows : new[k] = rows[k]
        /\ \A k \in DOMAIN table \ DOMAIN rows : new[k] = table[k]
    BY <1>2, OverlayFacts
  <2> HIDE DEF new
  <2>2. Grows(table, new)
    BY <2>1 DEF Grows, SameJob
  <2>3. ASSUME NEW id \in DOMAIN rows PROVE InTurn(new, rows[id])
    <3>1. id \in DOMAIN table /\ rows[id] \in Job /\ InTurn(table, table[id])
      BY <1>7, RowsFacts DEF TurnInv
    <3>2. InTurn(table, rows[id])
      BY <3>1, CompletedInTurn
    <3> QED BY <2>2, <3>2, InTurnKept
  <2>4. \A p \in places : \E id \in At(rows, p[1], p[2]) : rows[id].status = "COMPLETED"
    <3>1. ASSUME NEW p \in places PROVE \E id \in At(rows, p[1], p[2]) : rows[id].status = "COMPLETED"
      <4>1. PICK id : id \in At(rows, p[1], p[2])
        BY <1>7
      <4> QED BY <4>1 DEF At
    <3> QED BY <3>1
  <2> QED BY <1>4, <2>3, <2>4 DEF TxInTurn, new
<1> QED BY <1>1, <1>5, <1>6, <1>7, SessionGood

\* Complete and SkipJob begin.
LEMMA CompleteGood ==
    ASSUME SqInv, NEW s \in Session, NEW id \in JobId,
           (\E w \in Worker, g \in 1 .. MaxGen : Complete(s, id, w, g)) \/ SkipJob(s, id)
    PROVE  Good
<1> DEFINE row == [table[id] EXCEPT !.status = "COMPLETED"]
           rows == [i \in {id} |-> row]
           places == {Place(id)}
<1>1. /\ id \in DOMAIN table /\ Finish(s, rows, places, {})
      /\ table[id].status \in Completable
  BY DEF Complete, SkipJob, Owns, Completable, Replayable, Skippable
<1>2. table[id] \in Job
  BY <1>1, RowIsJob
<1>3. row \in Job /\ SameJob(row, table[id]) /\ row.gen = table[id].gen /\ row.status = "COMPLETED"
  BY <1>2 DEF Job, SameJob, Status
<1>4. DOMAIN rows = {id} /\ rows[id] = row
  OBVIOUS
<1>5. rows \in Rows
  BY <1>3, <1>4, RowsFacts
<1>6. table[id].chain \in ChainId /\ table[id].seq \in Int
  BY <1>2 DEF Job
<1>7. places \in SUBSET Item
  BY <1>6 DEF Place, Item
<1> HIDE DEF row, rows
<1>8. \A p \in places : At(rows, p[1], p[2]) # {}
  BY <1>3, <1>4 DEF At, Place, SameJob
<1> HIDE DEF places
<1> QED BY <1>1, <1>3, <1>4, <1>5, <1>7, <1>8, FinishGood

\* BulkSkipDLQ, both statements.
LEMMA BulkSkipGood ==
    ASSUME SqInv, NEW s \in Session,
           \/ \E filter \in SUBSET JobId : "bulkSkip" \in Commands /\ BulkSkipSelect(s, filter)
           \/ BulkSkipUpdate(s)
    PROVE  Good
<1>1. ASSUME NEW filter \in SUBSET JobId, "bulkSkip" \in Commands, BulkSkipSelect(s, filter)
      PROVE  Good
  <2> DEFINE places == {Place(id) : id \in DLQWhere(filter)}
             u == [NoTx EXCEPT !.at = "skip", !.filter = filter, !.items = places]
  <2>1. Continue(s, u) /\ UNCHANGED <<table, issued>>
    BY <1>1 DEF BulkSkipSelect
  <2>2. places \in SUBSET Item
    <3>1. \A id \in DLQWhere(filter) : table[id].chain \in ChainId /\ table[id].seq \in Int
      BY RowIsJob DEF DLQWhere, Job
    <3> QED BY <3>1 DEF Place, Item
  <2> HIDE DEF places
  <2>3. TableInv /\ NoTx \in Tx
    BY NoTxInv DEF SqInv, TableInv, TxTyped
  <2>4. u \in Tx
    BY <2>2, <2>3 DEF Tx, Step
  <2>5. /\ u.at = "skip" /\ u.locks = {} /\ u.reqs = <<>> /\ u.writes = EmptyMap
    BY DEF NoTx
  <2> HIDE DEF u
  <2>6. DOMAIN u.writes = {}
    BY <2>5 DEF EmptyMap
  <2>7. TableInv'
    <3>1. u.at \notin Enqueuing
      BY <2>5 DEF Enqueuing
    <3> QED BY <2>1, <2>3, <2>4, <2>5, <2>6, <3>1, WritesStep
  <2>8. Fits(table, u)
    BY <2>5, <2>6 DEF Fits, Inserts, LockOrder, Found
  <2> QED BY <1>1, <2>1, <2>7, <2>8, SessionGood DEF Ordered
<1>2. CASE BulkSkipUpdate(s)
  <2> DEFINE S == DLQWhere(tx[s].filter)
             rows == [id \in S |-> [table[id] EXCEPT !.status = "COMPLETED", !.lease = "none"]]
  <2>1. tx[s].at = "skip" /\ Finish(s, rows, tx[s].items, tx[s].filter)
    BY <1>2 DEF BulkSkipUpdate
  <2>2. /\ DOMAIN rows = S /\ S \subseteq DOMAIN table
        /\ \A id \in S : table[id].status \in Completable /\ table[id] \in Job /\ id \in JobId
    BY RowsFacts DEF DLQWhere, DLQStatus, Completable, SqInv, TableInv, TxTyped
  <2> HIDE DEF S
  <2>3. ASSUME NEW id \in S
        PROVE  /\ rows[id] \in Job /\ SameJob(rows[id], table[id])
               /\ rows[id].gen = table[id].gen /\ rows[id].status = "COMPLETED"
    BY <2>2, <2>3 DEF Job, SameJob, Status, Lease
  <2>4. rows \in Rows
    BY <2>2, <2>3, RowsFacts
  <2> HIDE DEF rows
  <2>5. tx[s].items \in SUBSET Item /\ tx[s].filter \in SUBSET JobId
    BY DEF SqInv, TableInv, TxTyped, Tx
  <2>6. ~TurnInv
    BY <2>1 DEF TurnInv, TxInTurn
  <2> QED BY <2>1, <2>2, <2>3, <2>4, <2>5, <2>6, FinishGood
<1> QED BY <1>1, <1>2

\* Promote lets go what comes after a job that the transaction has completed itself, and
\* keeps it locked until then: a claim cannot get between.
LEMMA PromoteGood ==
    ASSUME SqInv, NEW s \in Session, Promote(s)
    PROVE  Good
<1> DEFINE t == tx[s]
           seen == Visible(s)
<1>1. PICK p \in t.items :
         /\ ~PlaceLocked(s, <<p[1], p[2] + 1>>)
         /\ Continue(s, [t EXCEPT
               !.items = t.items \ {p}, !.at = IF t.items = {p} THEN "commit" ELSE t.at,
               !.writes = Overlay(t.writes,
                  [id \in {i \in At(seen, p[1], p[2] + 1) : seen[i].status = "BLOCKED"} |->
                      [seen[id] EXCEPT !.status = "PENDING"]])])
  BY DEF Promote
<1> DEFINE B == {i \in At(seen, p[1], p[2] + 1) : seen[i].status = "BLOCKED"}
           add == [id \in B |-> [seen[id] EXCEPT !.status = "PENDING"]]
           w == Overlay(t.writes, add)
           a == IF t.items = {p} THEN "commit" ELSE t.at
           u == [t EXCEPT !.items = t.items \ {p}, !.at = a, !.writes = w]
<1>2. /\ t \in Tx /\ t.writes \in Rows /\ table \in Rows /\ TableInv /\ TxInv(table, t)
      /\ t.at = "promote" /\ UNCHANGED <<table, issued>> /\ Continue(s, u)
      /\ Fits(table, t) /\ t.items \in SUBSET Item
  BY <1>1 DEF SqInv, TableInv, TxTyped, Promote, Tx
<1>3. Completes(table, t) /\ WritesOwn(table, t)
  BY <1>2 DEF Fits, Inserts, TxInv
<1>4. /\ DOMAIN seen = DOMAIN table
      /\ \A id \in DOMAIN t.writes : id \in DOMAIN table /\ seen[id] = t.writes[id]
      /\ \A id \in DOMAIN table \ DOMAIN t.writes : seen[id] = table[id]
  <2>1. /\ DOMAIN seen = DOMAIN table \cup DOMAIN t.writes
        /\ \A id \in DOMAIN t.writes : seen[id] = t.writes[id]
        /\ \A id \in DOMAIN table \ DOMAIN t.writes : seen[id] = table[id]
    BY <1>2, OverlayFacts DEF Visible
  <2>2. DOMAIN t.writes \subseteq DOMAIN table
    BY <1>3 DEF Completes
  <2> HIDE DEF seen
  <2> QED BY <2>1, <2>2
<1> HIDE DEF seen
<1>5. ASSUME NEW id \in B
      PROVE  /\ id \in DOMAIN table /\ id \notin DOMAIN t.writes /\ seen[id] = table[id]
             /\ table[id].status = "BLOCKED" /\ table[id] \in Job /\ id \in JobId
             /\ table[id].chain = p[1] /\ table[id].seq = p[2] + 1
  <2>1. /\ id \in DOMAIN table /\ seen[id].status = "BLOCKED"
        /\ seen[id].chain = p[1] /\ seen[id].seq = p[2] + 1
    BY <1>4, <1>5 DEF At
  <2>2. id \notin DOMAIN t.writes
    BY <1>3, <1>4, <2>1 DEF Completes
  <2>3. table[id] \in Job /\ id \in JobId
    BY <1>2, <2>1, RowsFacts
  <2> QED BY <1>4, <2>1, <2>2, <2>3
<1>6. ASSUME NEW id \in B PROVE ~LockedFor(s, id)
  <2> SUFFICES ASSUME NEW o \in Session \ {s}, id \in DOMAIN tx[o].writes PROVE FALSE
    BY DEF LockedFor
  <2>1. SameJob(tx[o].writes[id], table[id])
    BY <1>2, <1>5, <1>6 DEF TableInv, TxInv, WritesOwn
  <2>2. id \in At(tx[o].writes, p[1], p[2] + 1)
    BY <1>5, <1>6, <2>1 DEF At, SameJob
  <2>3. <<p[1], p[2] + 1>>[1] = p[1] /\ <<p[1], p[2] + 1>>[2] = p[2] + 1
    OBVIOUS
  <2> QED BY <1>1, <2>2, <2>3 DEF PlaceLocked
<1> HIDE DEF B
<1>7. DOMAIN add = B /\ \A id \in B : add[id] = [table[id] EXCEPT !.status = "PENDING"]
  BY <1>5
<1>8. ASSUME NEW id \in B
      PROVE  /\ add[id] \in Job /\ SameJob(add[id], table[id])
             /\ add[id].gen = table[id].gen /\ add[id].status = "PENDING"
  BY <1>5, <1>7, <1>8 DEF Job, SameJob, Status
<1>9. add \in Rows
  <2>1. add = [id \in DOMAIN add |-> add[id]]
    OBVIOUS
  <2>2. DOMAIN add \subseteq JobId /\ \A id \in DOMAIN add : add[id] \in Job
    BY <1>5, <1>7, <1>8
  <2> HIDE DEF add
  <2> QED BY <2>1, <2>2, RowsFacts
<1> HIDE DEF add
<1>10. /\ w \in Rows /\ DOMAIN w = DOMAIN t.writes \cup B
       /\ \A id \in B : w[id] = add[id]
       /\ \A id \in DOMAIN t.writes : w[id] = t.writes[id]
  <2>1. \A id \in DOMAIN t.writes : id \notin B
    BY <1>5
  <2>2. /\ w \in Rows /\ DOMAIN w = DOMAIN t.writes \cup DOMAIN add
        /\ \A id \in DOMAIN add : w[id] = add[id]
        /\ \A id \in DOMAIN t.writes \ DOMAIN add : w[id] = t.writes[id]
    BY <1>2, <1>9, OverlayFacts
  <2> HIDE DEF w
  <2> QED BY <1>7, <2>1, <2>2
<1>11. a \in {"promote", "commit"}
  BY <1>2
<1> HIDE DEF w, a
<1>12. /\ u \in Tx /\ u.writes = w /\ u.items = t.items \ {p} /\ u.at = a
       /\ u.locks = t.locks /\ u.reqs = t.reqs /\ u.wait = t.wait
  <2>1. t.items \ {p} \in SUBSET Item /\ a \in Step
    BY <1>2, <1>11 DEF Step
  <2> QED BY <1>2, <1>10, <2>1 DEF Tx
<1> HIDE DEF u
<1>13. u.locks = {} /\ u.reqs = <<>>
  BY <1>3, <1>12 DEF Completes
<1>14. TableInv'
  <2>1. u.at \notin Enqueuing
    BY <1>11, <1>12 DEF Enqueuing
  <2>2. DOMAIN u.writes \subseteq DOMAIN table
    BY <1>4, <1>5, <1>10, <1>12
  <2>3. \A id \in DOMAIN t.writes : SameJob(t.writes[id], table[id]) /\ ~LockedFor(s, id)
    BY <1>2, <1>3, <1>4 DEF WritesOwn, LockedFor, TableInv, Apart
  <2>4. \A id \in DOMAIN u.writes : SameJob(u.writes[id], table[id]) /\ ~LockedFor(s, id)
    BY <1>6, <1>8, <1>10, <1>12, <2>3
  <2> QED BY <1>2, <1>12, <1>13, <2>1, <2>2, <2>4, WritesStep
<1>15. Fits(table, u)
  <2>1. Completes(table, u)
    BY <1>3, <1>4, <1>5, <1>8, <1>10, <1>11, <1>12, <1>13 DEF Completes
  <2> QED BY <1>11, <1>12, <1>13, <2>1 DEF Fits, LockOrder, Found
<1>16. ASSUME TurnInv PROVE TxInTurn(table, u)
  <2> DEFINE old == Overlay(table, t.writes)
             new == Overlay(table, w)
  <2>1. TxInTurn(table, t)
    BY <1>16 DEF TurnInv
  <2>2. /\ DOMAIN old = DOMAIN table \cup DOMAIN t.writes
        /\ \A k \in DOMAIN t.writes : old[k] = t.writes[k]
        /\ \A k \in DOMAIN table \ DOMAIN t.writes : old[k] = table[k]
    BY <1>2, OverlayFacts
  <2>3. /\ DOMAIN new = DOMAIN table \cup DOMAIN w
        /\ \A k \in DOMAIN w : new[k] = w[k]
        /\ \A k \in DOMAIN table \ DOMAIN w : new[k] = table[k]
    BY <1>2, <1>10, OverlayFacts
  <2>4. \A k \in DOMAIN t.writes : InTurn(old, t.writes[k])
    BY <2>1 DEF TxInTurn
  <2> HIDE DEF old, new
  <2>5. Grows(old, new)
    <3>1. ASSUME NEW k \in DOMAIN old
          PROVE  /\ k \in DOMAIN new /\ SameJob(new[k], old[k])
                 /\ old[k].status = "COMPLETED" => new[k].status = "COMPLETED"
      <4>1. CASE k \in DOMAIN t.writes
        BY <1>10, <2>2, <2>3, <4>1 DEF SameJob
      <4>2. CASE k \in B
        BY <1>5, <1>8, <1>10, <2>2, <2>3, <4>2
      <4>3. CASE k \notin DOMAIN t.writes /\ k \notin B
        BY <1>10, <2>2, <2>3, <4>3 DEF SameJob
      <4> QED BY <4>1, <4>2, <4>3
    <3> QED BY <3>1 DEF Grows
  <2>6. \A k \in DOMAIN t.writes : InTurn(new, w[k])
    BY <1>10, <2>4, <2>5, InTurnKept
  <2>7. \A q \in t.items : \E id \in At(w, q[1], q[2]) : w[id].status = "COMPLETED"
    <3>1. ASSUME NEW q \in t.items PROVE \E id \in At(w, q[1], q[2]) : w[id].status = "COMPLETED"
      <4>1. PICK id \in At(t.writes, q[1], q[2]) : t.writes[id].status = "COMPLETED"
        BY <1>2, <2>1 DEF TxInTurn
      <4> QED BY <1>10, <4>1 DEF At
    <3> QED BY <3>1
  <2>8. ASSUME NEW k \in B PROVE InTurn(new, w[k])
    <3>1. PICK id \in At(w, p[1], p[2]) : w[id].status = "COMPLETED"
      BY <2>7
    <3>2. id \in DOMAIN w /\ w[id].chain = p[1] /\ w[id].seq = p[2] /\ new[id] = w[id] /\ p[2] \in Int
      <4>1. id \in DOMAIN w /\ w[id].chain = p[1] /\ w[id].seq = p[2] /\ w[id] \in Job
        BY <1>10, <3>1, RowsFacts DEF At
      <4> QED BY <2>3, <4>1 DEF Job
    <3>3. id \in At(new, p[1], (p[2] + 1) - 1)
      BY <2>3, <3>2 DEF At
    <3>4. LetGo(new, p[1], p[2] + 1)
      BY <3>1, <3>2, <3>3 DEF LetGo
    <3>5. ~(table[k].seq <= 0)
      BY <1>5, <1>16, <2>8 DEF TurnInv, InTurn
    <3>6. w[k].chain = p[1] /\ w[k].seq = p[2] + 1 /\ ~(w[k].seq <= 0)
      BY <1>5, <1>8, <1>10, <2>8, <3>5 DEF SameJob
    <3> QED BY <3>4, <3>6 DEF InTurn
  <2>9. \A k \in DOMAIN w : InTurn(new, w[k])
    BY <1>10, <2>6, <2>8
  <2> QED BY <1>11, <1>12, <2>7, <2>9 DEF TxInTurn, new
<1> QED BY <1>2, <1>14, <1>15, <1>16, SessionGood

\* A promotion that fails is struck off the list, and what is written stays.
LEMMA PromotionFailsGood ==
    ASSUME SqInv, NEW s \in Session, PromotionFails(s)
    PROVE  Good
<1> DEFINE t == tx[s]
<1>1. PICK p \in t.items : Continue(s, [t EXCEPT !.items = t.items \ {p},
                                             !.at = IF t.items = {p} THEN "commit" ELSE t.at])
  BY DEF PromotionFails
<1> DEFINE a == IF t.items = {p} THEN "commit" ELSE t.at
           u == [t EXCEPT !.items = t.items \ {p}, !.at = a]
<1>2. /\ t \in Tx /\ TableInv /\ TxInv(table, t) /\ t.at = "promote" /\ Fits(table, t)
      /\ UNCHANGED <<table, issued>> /\ Continue(s, u)
  BY <1>1 DEF PromotionFails, SqInv, TableInv, TxTyped
<1>3. Completes(table, t) /\ WritesOwn(table, t)
  BY <1>2 DEF Fits, Inserts, TxInv
<1>4. a \in {"promote", "commit"}
  BY <1>2
<1> HIDE DEF a
<1>5. /\ u \in Tx /\ u.writes = t.writes /\ u.items = t.items \ {p} /\ u.at = a
      /\ u.locks = t.locks /\ u.reqs = t.reqs
  <2>1. t.items \ {p} \in SUBSET Item /\ a \in Step
    BY <1>2, <1>4 DEF Tx, Step
  <2> QED BY <1>2, <2>1 DEF Tx
<1> HIDE DEF u
<1>6. u.locks = {} /\ u.reqs = <<>> /\ DOMAIN u.writes \subseteq DOMAIN table
  BY <1>3, <1>5 DEF Completes
<1>7. TableInv'
  <2>1. u.at \notin Enqueuing
    BY <1>4, <1>5 DEF Enqueuing
  <2>2. \A id \in DOMAIN u.writes : SameJob(u.writes[id], table[id]) /\ ~LockedFor(s, id)
    BY <1>2, <1>3, <1>5, <1>6 DEF WritesOwn, LockedFor, TableInv, Apart
  <2> QED BY <1>2, <1>5, <1>6, <2>1, <2>2, WritesStep
<1>8. Fits(table, u)
  <2>1. Completes(table, u)
    BY <1>3, <1>4, <1>5 DEF Completes
  <2> QED BY <1>4, <1>5, <1>6, <2>1 DEF Fits, LockOrder, Found
<1>9. TurnInv => TxInTurn(table, u)
  BY <1>2, <1>4, <1>5 DEF TurnInv, TxInTurn
<1> QED BY <1>2, <1>7, <1>8, <1>9, SessionGood

-----------------------------------------------------------------------------
(* Recovery                                                                    *)

\* RecoverStale reads its list.
LEMMA RecoverSelectGood ==
    ASSUME SqInv, NEW s \in Session, RecoverSelect(s)
    PROVE  Good
<1> DEFINE next(id) == IF table[id].attempt < table[id].maxAttempts THEN "RETRYING" ELSE "PENDING"
<1>1. PICK R \in SUBSET DOMAIN table :
         Continue(s, [NoTx EXCEPT !.at = "recover", !.items = {<<id, next(id)>> : id \in R}])
  BY DEF RecoverSelect
<1> DEFINE list == {<<id, next(id)>> : id \in R}
           u == [NoTx EXCEPT !.at = "recover", !.items = list]
<1>2. TableInv /\ NoTx \in Tx /\ DOMAIN table \subseteq JobId /\ UNCHANGED <<table, issued>>
  BY NoTxInv, RowsFacts DEF SqInv, TableInv, TxTyped, RecoverSelect
<1>3. list \subseteq JobId \X {"RETRYING", "PENDING"}
  BY <1>2
<1>4. Continue(s, u)
  BY <1>1
<1> HIDE DEF list
<1>5. list \in SUBSET Item
  BY <1>3 DEF Item, Status
<1>6. u \in Tx
  BY <1>2, <1>5 DEF Tx, Step
<1>7. /\ u.at = "recover" /\ u.locks = {} /\ u.reqs = <<>> /\ u.writes = EmptyMap /\ u.items = list
  BY DEF NoTx
<1> HIDE DEF u
<1>8. DOMAIN u.writes = {}
  BY <1>7 DEF EmptyMap
<1>9. TableInv'
  <2>1. u.at \notin Enqueuing
    BY <1>7 DEF Enqueuing
  <2> QED BY <1>2, <1>4, <1>6, <1>7, <1>8, <2>1, WritesStep
<1>10. Fits(table, u) /\ TxInTurn(table, u)
  BY <1>3, <1>7, <1>8 DEF Fits, Inserts, LockOrder, Found, TxInTurn
<1> QED BY <1>2, <1>4, <1>9, <1>10, SessionGood

\* The list without one of its items.
LEMMA DropItemFacts ==
    ASSUME SqInv, NEW s \in Session, tx[s].at = "recover", NEW it, DropItem(s, it)
    PROVE  \E u \in Tx : /\ Continue(s, u) /\ Fits(table, u) /\ Locking(u)
                         /\ u.writes = tx[s].writes /\ u.locks = tx[s].locks
                         /\ u.at \in {"none", "recover"}
                         /\ TurnInv => TxInTurn(table, u)
<1> DEFINE t == tx[s]
           a == IF t.items = {it} THEN "none" ELSE t.at
           u == [t EXCEPT !.items = t.items \ {it}, !.at = a]
<1>1. t \in Tx /\ Fits(table, t) /\ Locking(t) /\ t.items \in SUBSET Item
  BY DEF SqInv, TableInv, TxTyped, TxInv, Tx
<1>2. Inserts(table, t) /\ LockOrder(t)
  BY NotCompleting
<1>3. Continue(s, u)
  BY DEF DropItem
<1>4. a \in {"none", "recover"}
  OBVIOUS
<1> HIDE DEF a
<1>5. /\ u \in Tx /\ u.items = t.items \ {it} /\ u.at = a /\ u.writes = t.writes
      /\ u.locks = t.locks /\ u.wait = t.wait /\ u.reqs = t.reqs
  <2>1. t.items \ {it} \in SUBSET Item /\ a \in Step
    BY <1>1, <1>4 DEF Step
  <2> QED BY <1>1, <2>1 DEF Tx
<1> HIDE DEF u
<1>6. Locking(u)
  BY <1>1, <1>4, <1>5 DEF Locking, Enqueuing
<1>7. Fits(table, u)
  BY <1>1, <1>2, <1>4, <1>5 DEF Fits, Inserts, LockOrder, Found
<1>8. TurnInv => TxInTurn(table, u)
  BY <1>4, <1>5 DEF TurnInv, TxInTurn
<1> QED BY <1>3, <1>4, <1>5, <1>6, <1>7, <1>8

\* An item of the list is passed over.
LEMMA RecoverMissGood ==
    ASSUME SqInv, NEW s \in Session, RecoverMiss(s)
    PROVE  Good
<1>1. PICK it : tx[s].at = "recover" /\ DropItem(s, it) /\ UNCHANGED <<table, issued>>
  BY DEF RecoverMiss
<1>2. PICK u \in Tx : /\ Continue(s, u) /\ Fits(table, u) /\ Locking(u)
                      /\ u.writes = tx[s].writes /\ u.locks = tx[s].locks
                      /\ u.at \in {"none", "recover"}
                      /\ TurnInv => TxInTurn(table, u)
  BY <1>1, DropItemFacts
<1>3. FoundFree(Visible(s), u)
  BY <1>2 DEF FoundFree
<1>4. TableInv'
  BY <1>1, <1>2, <1>3, GoOnStep DEF SqInv
<1> QED BY <1>1, <1>2, <1>4, SessionGood

\* A job that is still stale is taken back: its lease is over, and its generation raised.
LEMMA RecoverUpdateGood ==
    ASSUME SqInv, NEW s \in Session, RecoverUpdate(s)
    PROVE  Good
<1>1. PICK it \in tx[s].items :
         /\ tx[s].at = "recover" /\ IsStale(it[1]) /\ ~Locked(it[1]) /\ DropItem(s, it)
         /\ table' = Overlay(table, [i \in {it[1]} |-> RecoveredRow(it[1], it[2])])
         /\ UNCHANGED issued
  BY DEF RecoverUpdate
<1> DEFINE id == it[1]
           row == RecoveredRow(it[1], it[2])
<1>2. PICK u \in Tx : /\ Continue(s, u) /\ Fits(table, u) /\ Locking(u)
                      /\ u.writes = tx[s].writes /\ u.locks = tx[s].locks
                      /\ u.at \in {"none", "recover"}
                      /\ TurnInv => TxInTurn(table, u)
  BY <1>1, DropItemFacts
<1>3. it[2] \in {"RETRYING", "PENDING"}
  <2>1. tx[s].items \subseteq JobId \X {"RETRYING", "PENDING"}
    BY <1>1 DEF SqInv, Fits, Found
  <2> QED BY <1>1, <2>1
<1>4. /\ id \in DOMAIN table /\ table[id].status = "PROCESSING" /\ table[id].lease = "expired"
      /\ table[id] \in Job /\ table[id].gen > 0 /\ ~Locked(id)
  BY <1>1, RowIsJob DEF IsStale
<1>5. /\ row \in Job /\ SameJob(row, table[id]) /\ row.gen = table[id].gen + 1
      /\ row.status \in {"RETRYING", "PENDING"}
  <2>1. table[id].gen + 1 \in Nat
    BY <1>4 DEF Job
  <2>2. ASSUME NEW g \in Nat, NEW a \in Avail, NEW st \in {"RETRYING", "PENDING"}
        PROVE  [table[id] EXCEPT !.status = st, !.avail = a, !.worker = NoWorker,
                                 !.lease = "none", !.gen = g] \in Job
    BY <1>4 DEF Job, Status, Lease
  <2>3. (IF it[2] = "PENDING" THEN "due" ELSE "later") \in Avail
    BY DEF Avail
  <2>4. row \in Job
    BY <1>3, <2>1, <2>2, <2>3 DEF RecoveredRow
  <2>5. SameJob(row, table[id]) /\ row.gen = table[id].gen + 1 /\ row.status = it[2]
    BY <1>4 DEF RecoveredRow, Job, SameJob
  <2> QED BY <1>3, <2>4, <2>5
<1> HIDE DEF row, id
<1>6. /\ table \in Rows /\ TableInv /\ tx \in [Session -> Tx] /\ id \in JobId
  BY <1>4, RowsFacts DEF SqInv, TableInv, TxTyped
<1>7. /\ table' \in Rows /\ DOMAIN table' = DOMAIN table /\ table'[id] = row
      /\ \A k \in DOMAIN table \ {id} : table'[k] = table[k]
  <2> DEFINE rows == [i \in {id} |-> row]
  <2>1. DOMAIN rows = {id} /\ rows[id] = row /\ rows \in Rows
    BY <1>5, <1>6, RowsFacts
  <2>2. table' = Overlay(table, rows)
    BY <1>1 DEF id, row
  <2> HIDE DEF rows
  <2> QED BY <1>4, <1>6, <2>1, <2>2, OverlayFacts
<1>8. \A k \in DOMAIN table : SameJob(table'[k], table[k])
  BY <1>5, <1>7 DEF SameJob
<1>9. TableInv'
  BY <1>1, <1>2, <1>6, <1>7, <1>8, RewriteInSession
<1>10. tx'[s] = u /\ \A o \in Session \ {s} : tx'[o] = tx[o]
  BY <1>2, <1>6 DEF Continue
<1>11. \A o \in Session : tx'[o] \in Tx /\ Fits(table, tx'[o]) /\ id \notin DOMAIN tx'[o].writes
  BY <1>2, <1>4, <1>6, <1>10 DEF SqInv, Locked
<1>12. ASSUME NEW o \in Session PROVE Fits(table', tx'[o])
  BY <1>6, <1>7, <1>11, FitsKept
<1>13. SqInv'
  BY <1>5, <1>7, <1>9, <1>12 DEF SqInv
<1>14. Final /\ LeaseLeft
  BY <1>4, <1>7 DEF Final, LeaseLeft
<1>15. Grows(table, table')
  BY <1>4, <1>7, <1>8 DEF Grows
<1>16. ASSUME TurnInv PROVE TurnInv'
  <2>1. ASSUME NEW k \in DOMAIN table' PROVE InTurn(table', table'[k])
    <3>1. InTurn(table, table[k])
      BY <1>7, <1>16 DEF TurnInv
    <3>2. InTurn(table, table[id]) => InTurn(table, row)
      BY <1>4, <1>5, TurnKept
    <3>3. InTurn(table, table'[k])
      BY <1>7, <3>1, <3>2
    <3> QED BY <1>15, <3>3, InTurnKept
  <2>2. ASSUME NEW o \in Session PROVE TxInTurn(table', tx'[o])
    <3>1. TxInTurn(table, tx'[o])
      BY <1>2, <1>10, <1>16 DEF TurnInv
    <3> QED BY <1>6, <1>7, <1>11, <1>15, <3>1, TxInTurnKept
  <2> QED BY <2>1, <2>2 DEF TurnInv
<1>17. Order!Next
  <2>1. /\ Order!ViewTypeOK /\ Order!ViewTypeOK' /\ Order!Keeps({id})
        /\ id \in DOMAIN ChainView(table)
        /\ ChainView(table)[id].phase = PhaseOf(table[id].status)
        /\ ChainView(table)[id].token = table[id].gen
        /\ ChainView(table')[id].phase = PhaseOf(row.status)
        /\ ChainView(table')[id].token = row.gen
    BY <1>4, <1>5, <1>6, <1>7, <1>9, RowViews
  <2>2. ChainView(table)[id].phase = "running" /\ ChainView(table')[id].phase = "waiting"
    BY <1>4, <1>5, <2>1 DEF PhaseOf, DLQStatus
  <2> QED BY <1>4, <1>5, <2>1, <2>2, Order!FenceByParts
<1> QED BY <1>13, <1>14, <1>16, <1>17 DEF Good, Safe, KeepsTurns

-----------------------------------------------------------------------------
(* The end of a transaction                                                    *)

\* A session without a transaction fits every table.
LEMMA NoTxFits ==
    ASSUME NEW rows
    PROVE  Fits(rows, NoTx) /\ TxInTurn(rows, NoTx)
<1>1. NoTx.at = "none" /\ NoTx.locks = {} /\ DOMAIN NoTx.writes = {}
  BY DEF NoTx, EmptyMap
<1> QED BY <1>1 DEF Fits, Inserts, LockOrder, Found, TxInTurn

\* Rollback.
LEMMA RollbackGood ==
    ASSUME SqInv, NEW s \in Session, Rollback(s)
    PROVE  Good
<1>1. Continue(s, NoTx) /\ UNCHANGED table /\ TableInv'
  BY RollbackStep DEF Rollback, SqInv
<1> QED BY <1>1, NoTxFits, SessionGood

\* Commit is a Finish of the jobs it declares COMPLETED, or an Accept of the new ones.
LEMMA CommitGood ==
    ASSUME SqInv, NEW s \in Session, Commit(s)
    PROVE  Good
<1> DEFINE w == tx[s].writes
<1>1. /\ TableInv /\ TableInv' /\ table \in Rows /\ table' \in Rows /\ w \in Rows
      /\ tx \in [Session -> Tx] /\ tx' = [tx EXCEPT ![s] = NoTx]
      /\ table' = Overlay(table, w)
  BY CommitStep DEF SqInv, TableInv, TxTyped, Tx, Commit, Continue, Visible
<1>2. /\ DOMAIN table' = DOMAIN table \cup DOMAIN w
      /\ \A id \in DOMAIN w : table'[id] = w[id]
      /\ \A id \in DOMAIN table \ DOMAIN w : table'[id] = table[id]
  <2> HIDE DEF w
  <2> QED BY <1>1 DEF Overlay
<1>3. Completes(table, tx[s]) \/ Inserts(table, tx[s])
  BY DEF SqInv, Fits
<1>4. WritesOwn(table, tx[s])
  BY DEF SqInv, TableInv, TxInv
<1>5. \A id \in DOMAIN table' : table'[id].status = "PROCESSING" => table'[id].gen > 0
  BY <1>2, <1>3 DEF SqInv, Completes, Inserts
<1>6. tx'[s] = NoTx /\ \A o \in Session \ {s} : tx'[o] = tx[o] /\ tx[o] \in Tx
  BY <1>1
<1>7. ASSUME NEW o \in Session PROVE Fits(table', tx'[o])
  <2>1. CASE o = s
    BY <1>6, <2>1, NoTxFits
  <2>2. CASE o # s
    <3>1. tx'[o] = tx[o] /\ tx[o] \in Tx /\ Fits(table, tx[o])
      BY <1>6, <2>2 DEF SqInv
    <3>2. DOMAIN tx[o].writes \cap DOMAIN w = {}
      BY <1>1, <2>2 DEF TableInv, Apart
    <3> HIDE DEF w
    <3> QED BY <1>1, <1>2, <3>1, <3>2, FitsKept
  <2> QED BY <2>1, <2>2
<1>8. SqInv'
  BY <1>1, <1>5, <1>7 DEF SqInv
<1>9. Final /\ LeaseLeft
  BY <1>2, <1>3 DEF Final, LeaseLeft, Completes, Inserts
<1>10. Grows(table, table')
  BY <1>2, <1>3, <1>4 DEF Grows, WritesOwn, SameJob, Completes, Inserts
<1>11. ASSUME TurnInv PROVE TurnInv'
  <2>1. ASSUME NEW id \in DOMAIN table' PROVE InTurn(table', table'[id])
    <3>1. CASE id \in DOMAIN w
      <4>1. InTurn(Overlay(table, w), w[id])
        BY <1>11, <3>1 DEF TurnInv, TxInTurn
      <4> QED BY <1>1, <1>2, <3>1, <4>1
    <3>2. CASE id \notin DOMAIN w
      <4>1. id \in DOMAIN table /\ table'[id] = table[id] /\ InTurn(table, table[id])
        BY <1>2, <1>11, <2>1, <3>2 DEF TurnInv
      <4> QED BY <1>10, <4>1, InTurnKept
    <3> QED BY <3>1, <3>2
  <2>2. ASSUME NEW o \in Session PROVE TxInTurn(table', tx'[o])
    <3>1. CASE o = s
      BY <1>6, <3>1, NoTxFits
    <3>2. CASE o # s
      <4>1. tx'[o] = tx[o] /\ tx[o] \in Tx /\ TxInTurn(table, tx[o])
        BY <1>6, <1>11, <3>2 DEF TurnInv
      <4> QED BY <1>1, <1>10, <4>1, TxInTurnKept
    <3> QED BY <3>1, <3>2
  <2> QED BY <2>1, <2>2 DEF TurnInv
<1>12. Order!ViewTypeOK /\ Order!ViewTypeOK' /\ Order!PlacesUnique'
  BY <1>1, ViewTyped, ViewTypedNext
<1>13. CASE Completes(table, tx[s])
  <2> DEFINE S == {id \in DOMAIN w : w[id].status = "COMPLETED"}
  <2>1. S \in SUBSET DOMAIN table /\ DOMAIN table' = DOMAIN table
    BY <1>2, <1>13 DEF Completes
  <2>2. ASSUME NEW id \in S
        PROVE  /\ SameJob(table'[id], table[id]) /\ table'[id].gen = table[id].gen
               /\ table'[id].status = "COMPLETED" /\ table[id].status # "COMPLETED"
    <3>1. id \in DOMAIN w /\ w[id].status = "COMPLETED" /\ table'[id] = w[id] /\ id \in DOMAIN table
      BY <1>2, <1>13 DEF Completes
    <3> QED BY <1>4, <1>13, <3>1 DEF Completes, WritesOwn
  <2>3. ASSUME NEW id \in DOMAIN table, id \notin S PROVE SameView(table'[id], table[id])
    <3>1. CASE id \in DOMAIN w
      <4>1. table'[id] = w[id] /\ w[id].status = "PENDING" /\ table[id].status = "BLOCKED"
            /\ w[id].gen = table[id].gen
        BY <1>2, <1>13, <2>3, <3>1 DEF Completes
      <4>2. SameJob(w[id], table[id])
        BY <1>4, <3>1 DEF WritesOwn
      <4> QED BY <4>1, <4>2 DEF SameView, PhaseOf, DLQStatus
    <3>2. CASE id \notin DOMAIN w
      BY <1>2, <3>2 DEF SameView, SameJob
    <3> QED BY <3>1, <3>2
  <2> HIDE DEF S
  <2>4. Order!Keeps(S)
    BY <1>1, <2>1, <2>2, <2>3, RowsKept
  <2>5. S \in SUBSET DOMAIN ChainView(table)
    BY <1>1, <2>1, ViewFacts
  <2>6. ASSUME NEW id \in S
        PROVE  /\ ChainView(table)[id].phase # "done"
               /\ ChainView(table')[id].phase = "done"
               /\ ChainView(table')[id].token = ChainView(table)[id].token
    <3>1. id \in DOMAIN table /\ id \in DOMAIN table'
      BY <2>1
    <3>2. /\ ChainView(table)[id].phase = PhaseOf(table[id].status)
          /\ ChainView(table)[id].token = table[id].gen
          /\ ChainView(table')[id].phase = PhaseOf(table'[id].status)
          /\ ChainView(table')[id].token = table'[id].gen
      BY <1>1, <3>1, ViewFacts
    <3> QED BY <2>2, <3>2 DEF PhaseOf, DLQStatus
  <2>7. Order!Next
    BY <1>12, <2>4, <2>5, <2>6, Order!FinishByParts
  <2> QED BY <1>8, <1>9, <1>11, <2>7 DEF Good, Safe, KeepsTurns
<1>14. CASE Inserts(table, tx[s])
  <2> DEFINE old == ChainView(table)
             new == ChainView(table')
  <2>1. DOMAIN old = DOMAIN table /\ DOMAIN new = DOMAIN table'
    BY <1>1, ViewFacts
  <2>2. ASSUME NEW id \in DOMAIN table PROVE new[id] = old[id]
    <3>1. table'[id] = table[id] /\ id \in DOMAIN table'
      BY <1>2, <1>14 DEF Inserts
    <3> QED BY <1>1, <3>1, ViewKept DEF SameView, SameJob
  <2>3. ASSUME NEW id \in DOMAIN table' \ DOMAIN table
        PROVE  new[id].phase = "waiting" /\ new[id].token = 0
    <3>1. table'[id].status \in {"PENDING", "BLOCKED"} /\ table'[id].gen = 0
      BY <1>2, <1>14 DEF Inserts
    <3>2. new[id].phase = PhaseOf(table'[id].status) /\ new[id].token = table'[id].gen
      BY <1>1, ViewFacts
    <3> QED BY <3>1, <3>2 DEF PhaseOf, DLQStatus
  <2> HIDE DEF old, new
  <2>4. /\ DOMAIN old \subseteq DOMAIN new
        /\ \A i \in DOMAIN old : new[i] = old[i]
        /\ \A i \in DOMAIN new \ DOMAIN old : new[i].phase = "waiting" /\ new[i].token = 0
    BY <1>2, <2>1, <2>2, <2>3
  <2>5. Order!Next
    BY <1>12, <2>4, Order!AcceptByParts DEF old, new
  <2> QED BY <1>8, <1>9, <1>11, <2>5 DEF Good, Safe, KeepsTurns
<1> QED BY <1>3, <1>13, <1>14

-----------------------------------------------------------------------------
(* The theorems                                                                *)

\* Every step of the repository is good.
LEMMA NextGood ==
    ASSUME SqInv, SqNext
    PROVE  Good
<1>1. CASE TimeStep
  BY <1>1, TimeGood
<1>2. ASSUME NEW s \in Session, ProducerStep(s) PROVE Good
  BY <1>2, EnqueueGood, LockOtherGood, NumberGood, StatusGood, InsertGood DEF ProducerStep
<1>3. ASSUME NEW s \in Session, WorkerStep(s) PROVE Good
  <2>1. CASE \E w \in Worker, id \in JobId : Claim(w, id)
    BY <2>1, ClaimGood
  <2>2. ASSUME NEW id \in JobId, NEW w \in Worker, NEW g \in 1 .. MaxGen,
               \/ \E terminal \in BOOLEAN : Fail(id, w, g, terminal)
               \/ Retry(id, w, g)
               \/ Heartbeat(id, w, g)
        PROVE  Good
    BY <2>2, FencedGood
  <2>3. ASSUME NEW id \in JobId, NEW w \in Worker, NEW g \in 1 .. MaxGen, Complete(s, id, w, g)
        PROVE  Good
    BY <2>3, CompleteGood
  <2>4. ASSUME NEW id \in JobId, NEW w \in Worker, NEW g \in 1 .. MaxGen, ConfirmCancel(id, w, g)
        PROVE  Good
    BY <2>4, CancelGood DEF ConfirmCancel
  <2>5. ASSUME NEW id \in DOMAIN table, table[id].mode \in ContinueModes,
               PromoteNext(table[id].chain, table[id].seq)
        PROVE  Good
    BY <2>5, PromoteNextGood
  <2>6. CASE Promote(s) \/ RecoverSelect(s) \/ RecoverUpdate(s) \/ RecoverMiss(s)
    BY <2>6, PromoteGood, RecoverSelectGood, RecoverUpdateGood, RecoverMissGood
  <2> QED BY <1>3, <2>1, <2>2, <2>3, <2>4, <2>5, <2>6 DEF WorkerStep
<1>4. ASSUME NEW s \in Session, OperatorStep(s) PROVE Good
  <2>1. ASSUME NEW id \in JobId, RequestCancel(id) PROVE Good
    BY <2>1, CancelGood DEF RequestCancel
  <2>2. ASSUME NEW id \in JobId, ReplayJob(id) PROVE Good
    BY <2>2, ReplayGood DEF ReplayJob
  <2>3. ASSUME NEW id \in JobId, SkipJob(s, id) PROVE Good
    BY <2>3, CompleteGood
  <2>4. ASSUME NEW id \in JobId, NEW a \in Avail, RescheduleJob(id, a) PROVE Good
    BY <2>4, ReplayGood DEF RescheduleJob
  <2>5. ASSUME NEW filter \in SUBSET JobId, BulkReplayDLQ(filter) PROVE Good
    BY <2>5, BulkReplayGood
  <2>6. ASSUME NEW filter \in SUBSET JobId, "bulkPurge" \in Commands, BulkPurgeDLQ(filter)
        PROVE  Good
    BY <2>6, PurgeGood
  <2>7. ASSUME NEW filter \in SUBSET JobId, "bulkSkip" \in Commands, BulkSkipSelect(s, filter)
        PROVE  Good
    BY <2>7, BulkSkipGood
  <2>8. CASE BulkSkipUpdate(s) \/ PromotionFails(s)
    BY <2>8, BulkSkipGood, PromotionFailsGood
  <2> QED BY <1>4, <2>1, <2>2, <2>3, <2>4, <2>5, <2>6, <2>7, <2>8 DEF OperatorStep
<1>5. ASSUME NEW s \in Session, Commit(s) \/ Rollback(s) PROVE Good
  BY <1>5, CommitGood, RollbackGood
<1> QED BY <1>1, <1>2, <1>3, <1>4, <1>5 DEF SqNext

\* The empty table satisfies both invariants.
LEMMA InitInv == TableInit => SqInv /\ TurnInv
<1> SUFFICES ASSUME TableInit PROVE SqInv /\ TurnInv
  OBVIOUS
<1>1. table = EmptyMap /\ EmptyMap \in Rows /\ DOMAIN EmptyMap = {} /\ issued = {}
  BY RowsFacts DEF TableInit, EmptyMap
<1>2. Bounded(table) /\ UniquePlaces(table) /\ UniqueKeys(table)
  BY <1>1 DEF Bounded, UniquePlaces, UniqueKeys
<1>3. NoTx \in Tx /\ TxInv(table, NoTx) /\ \A t : Apart(NoTx, t) /\ Apart(t, NoTx)
  BY <1>1, <1>2, NoTxInv
<1>4. DOMAIN NoTx.writes = {}
  BY DEF NoTx, EmptyMap
<1>5. tx \in [Session -> Tx] /\ \A s \in Session : tx[s] = NoTx
  BY <1>3 DEF TableInit
<1>6. TxTyped
  BY <1>1, <1>4, <1>5 DEF TxTyped
<1>7. TableInv
  BY <1>2, <1>3, <1>5, <1>6 DEF TableInv
<1>8. \A s \in Session : Fits(table, tx[s]) /\ TxInTurn(table, tx[s])
  BY <1>5, NoTxFits
<1> QED BY <1>1, <1>7, <1>8 DEF SqInv, TurnInv

\* SqInv is an invariant.
LEMMA InvHolds == SqSpec => []SqInv
<1>1. SqInv /\ [SqNext]_tableVars => SqInv'
  <2> SUFFICES ASSUME SqInv, [SqNext]_tableVars PROVE SqInv'
    OBVIOUS
  <2>1. CASE SqNext
    BY <2>1, NextGood DEF Good, Safe
  <2>2. CASE UNCHANGED tableVars
    BY <2>2 DEF tableVars, SqInv, TableInv, TxTyped
  <2> QED BY <2>1, <2>2
<1> QED BY <1>1, InitInv, PTL DEF SqSpec

\* Type correctness of the table and of every open transaction, for the calls of
\* repository/sqlserver/repository.go in any order.
THEOREM TypeHolds == SqSpec => []SqTypeOK
<1>1. SqInv => SqTypeOK
  BY InvTyped DEF SqInv, SqTypeOK
<1> QED BY <1>1, InvHolds, PTL

\* A sequence number that a transaction has found stays free until it is inserted, although
\* the status is read in between: the application lock covers all three statements.
THEOREM NumberStaysFreeHolds == SqSpec => []NumberStaysFree
<1>1. SqInv => NumberStaysFree
  BY InvNumbers DEF SqInv, NumberStaysFree
<1> QED BY <1>1, InvHolds, PTL

\* No two jobs of a chain carry the same idempotency key, although the key is looked up and
\* the job inserted in different statements.
THEOREM KeyUniqueHolds == SqSpec => []KeyUniqueInChain
<1>1. SqInv => KeyUniqueInChain
  BY DEF SqInv, TableInv, UniqueKeys, KeyUniqueInChain
<1> QED BY <1>1, InvHolds, PTL

\* However many batches enqueue, no two of them wait for each other's application locks:
\* distinctChains sorts, so what a batch holds comes before what it waits for.
THEOREM NoLockCycleHolds == SqSpec => []NoLockCycle
<1>1. SqInv => NoLockCycle
  <2> SUFFICES ASSUME SqInv, NEW s \in Session, NEW o \in Session,
                      NEW c \in tx[s].wait \cap tx[o].locks, NEW d \in tx[o].wait \cap tx[s].locks
               PROVE  FALSE
    BY DEF NoLockCycle, LockCycle
  <2>1. c \in Int /\ d \in Int
    BY ChainOrderAssumption DEF SqInv, TableInv, TxTyped, Tx
  <2>2. c < d /\ d < c
    BY DEF SqInv, Fits, LockOrder
  <2> QED BY <2>1, <2>2
<1> QED BY <1>1, InvHolds, PTL

\* Nothing takes a COMPLETED job back: no late report, recovery, replay, skip or purge, and
\* no transaction that saw the job in another status.
THEOREM CompletedFinalHolds == SqSpec => CompletedIsFinal
<1> DEFINE A == \A id \in DOMAIN table : table[id].status = "COMPLETED" =>
                   id \in DOMAIN table' /\ table'[id].status = "COMPLETED"
<1>1. SqInv /\ [SqNext]_tableVars => [A]_tableVars
  BY NextGood DEF Good, Safe, Final
<1> QED BY <1>1, InvHolds, PTL DEF SqSpec, CompletedIsFinal

\* A job is only taken away from its worker when its lease has expired, although RecoverStale
\* decides in one statement and updates in another, with heartbeats in between.
THEOREM LiveLeaseHolds == SqSpec => LiveLeaseKept
<1> DEFINE A == \A id \in DOMAIN table \cap DOMAIN table' :
                   /\ table[id].status = "PROCESSING"
                   /\ table'[id].gen # table[id].gen
                   => table[id].lease = "expired"
<1>1. SqInv /\ [SqNext]_tableVars => [A]_tableVars
  BY NextGood DEF Good, Safe, LeaseLeft
<1> QED BY <1>1, InvHolds, PTL DEF SqSpec, LiveLeaseKept

\* TurnInv is an invariant when nobody purges or bulk-skips.
LEMMA TurnHolds ==
    ASSUME Ordered
    PROVE  SqSpec => [](SqInv /\ TurnInv)
<1>1. SqInv /\ TurnInv /\ [SqNext]_tableVars => SqInv' /\ TurnInv'
  <2> SUFFICES ASSUME SqInv, TurnInv, [SqNext]_tableVars PROVE SqInv' /\ TurnInv'
    OBVIOUS
  <2>1. CASE SqNext
    BY <2>1, NextGood DEF Good, Safe, KeepsTurns
  <2>2. CASE UNCHANGED tableVars
    BY <2>2 DEF tableVars, SqInv, TableInv, TxTyped, TurnInv
  <2> QED BY <2>1, <2>2
<1> QED BY <1>1, InitInv, PTL DEF SqSpec

\* The two instances of OrderedChain are the same specification.
LEMMA SamePromise == (Order!Init <=> Contract!Init) /\ (Order!Next <=> Contract!Next)
<1>1. Order!Init <=> Contract!Init
  BY DEF Order!Init, Contract!Init
<1>2. Order!Next <=> Contract!Next
  BY DEF Contract!Next, Order!Next, Contract!Accept, Order!Accept, Contract!Start, Order!Start,
         Contract!Fail, Order!Fail, Contract!Cancel, Order!Cancel, Contract!Finish, Order!Finish,
         Contract!Return, Order!Return, Contract!Remove, Order!Remove, Contract!IsAt, Order!IsAt,
         Contract!LetsGo, Order!LetsGo, Contract!JobView, Order!JobView, Contract!Phase, Order!Phase
<1> QED BY <1>1, <1>2

\* When nobody purges or bulk-skips, the repository implements OrderedChain: a start waits
\* for the committed end of a strict job, although Claim reads WITH (NOLOCK).
THEOREM RefinementHolds ==
    ASSUME "bulkPurge" \notin Commands, "bulkSkip" \notin Commands
    PROVE  SqSpec => ImplementsOrderedChain
<1>1. TableInit => Contract!Init
  <2>1. ASSUME TableInit PROVE ChainView(table) = [i \in {} |-> i]
    BY <2>1 DEF TableInit, EmptyMap, ChainView
  <2> QED BY <2>1 DEF Contract!Init
<1>2. SqInv /\ TurnInv /\ [SqNext]_tableVars => [Contract!Next]_(ChainView(table))
  <2> SUFFICES ASSUME SqInv, TurnInv, [SqNext]_tableVars
               PROVE  Contract!Next \/ UNCHANGED ChainView(table)
    OBVIOUS
  <2>1. CASE SqNext
    BY <2>1, NextGood, SamePromise DEF Good, KeepsTurns, Ordered
  <2>2. CASE UNCHANGED tableVars
    BY <2>2 DEF tableVars
  <2> QED BY <2>1, <2>2
<1>3. SqSpec => [](SqInv /\ TurnInv)
  BY TurnHolds DEF Ordered
<1> QED BY <1>1, <1>2, <1>3, PTL DEF SqSpec, ImplementsOrderedChain, Contract!Spec

\* When nobody purges or bulk-skips, the strict predecessor of a claimed job is COMPLETED,
\* through dirty reads, rollbacks of a completion that was read, recovery and operators.
THEOREM StrictFIFOHolds ==
    ASSUME "bulkPurge" \notin Commands, "bulkSkip" \notin Commands
    PROVE  SqSpec => []StrictFIFO
<1>1. SqInv /\ TurnInv => StrictFIFO
  <2> SUFFICES ASSUME SqInv, TurnInv, NEW id \in DOMAIN table, table[id].gen > 0, table[id].seq > 1,
                      NEW p \in At(table, table[id].chain, table[id].seq - 1),
                      table[p].mode = "strict"
               PROVE  table[p].status = "COMPLETED"
    BY DEF StrictFIFO
  <2>1. table[id] \in Job /\ InTurn(table, table[id]) /\ table[id].seq \in Int
    BY RowIsJob DEF TurnInv, Job
  <2>2. LetGo(table, table[id].chain, table[id].seq)
    BY <2>1, OutOfTurn
  <2>3. PICK q \in At(table, table[id].chain, table[id].seq - 1) :
           table[q].status = "COMPLETED" \/ table[q].mode # "strict"
    BY <2>1, <2>2 DEF LetGo
  <2>4. q = p
    BY <2>3 DEF SqInv, TableInv, UniquePlaces, At
  <2> QED BY <2>3, <2>4
<1>2. SqSpec => [](SqInv /\ TurnInv)
  BY TurnHolds DEF Ordered
<1> QED BY <1>1, <1>2, PTL
=============================================================================
