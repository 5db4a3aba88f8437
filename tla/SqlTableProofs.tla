--------------------------- MODULE SqlTableProofs ----------------------------
(***************************************************************************)
(* What the transactions of both SQL repositories keep of the table, for   *)
(* every set of jobs, chains, sessions and requests: places and keys stay  *)
(* unique because numbering and inserting lie under a named lock on the    *)
(* chain.  The lemmas are about the shapes of steps; the repositories'     *)
(* proofs show that each of their actions has one of these shapes.         *)
(***************************************************************************)
EXTENDS SqlTable, WellFoundedInduction, TLAPS

\* Requests whose chain id is one, which is all that reaches a transaction.
Stored == {req \in Request : req.chain \in ChainId}

\* Tables: functions from some of the ids to jobs.
Rows == UNION {[D -> Job] : D \in SUBSET JobId}

Step == {"none", "lock", "number", "status", "insert", "skip", "promote", "recover", "commit"}

\* What SELECTs return: places, and ids with a status.
Item == (ChainId \X Int) \cup (JobId \X Status)

Tx == [at : Step, batch : BOOLEAN, wait : SUBSET ChainId, locks : SUBSET ChainId,
       reqs : Seq(Stored), seq : Int, status : Status, filter : SUBSET JobId,
       items : SUBSET Item, writes : Rows]

\* A row keeps what identifies its job, whatever else a statement changes.
SameJob(row, old) ==
    /\ row.chain = old.chain /\ row.seq = old.seq
    /\ row.key = old.key /\ row.mode = old.mode

UniquePlaces(rows) ==
    \A i, k \in DOMAIN rows : rows[i].chain = rows[k].chain /\ rows[i].seq = rows[k].seq => i = k

UniqueKeys(rows) ==
    \A i, k \in DOMAIN rows :
        rows[i].chain = rows[k].chain /\ rows[i].key = rows[k].key /\ rows[i].key # NoKey => i = k

\* The sequences have an upper bound: without it there need not be a highest one.
Bounded(rows) == \E n \in Nat : \A id \in DOMAIN rows : rows[id].seq <= n

Enqueuing == {"lock", "number", "status", "insert"}

\* A transaction that enqueues holds the locks of its chains once it has asked for all.
Locking(t) ==
    /\ \A i \in DOMAIN t.reqs : t.reqs[i].chain \in t.wait \cup t.locks
    /\ t.at \in Enqueuing => t.reqs # <<>>
    /\ t.at \in {"number", "status", "insert"} => t.wait = {}

\* It writes new jobs of chains it has locked, and otherwise jobs that are in the table.
WritesOwn(rows, t) ==
    \A id \in DOMAIN t.writes :
        /\ id \in DOMAIN rows => SameJob(t.writes[id], rows[id])
        /\ id \notin DOMAIN rows => t.writes[id].chain \in t.locks

\* The number it has found is free, and the key new in the chain, until it inserts.
FoundFree(seen, t) ==
    t.at \in {"status", "insert"} =>
        \A id \in DOMAIN seen : seen[id].chain = Head(t.reqs).chain =>
            /\ seen[id].seq # t.seq
            /\ seen[id].key = Head(t.reqs).key => seen[id].key = NoKey

\* What holds of a transaction over the committed rows.
TxInv(rows, t) ==
    /\ Locking(t)
    /\ WritesOwn(rows, t)
    /\ Bounded(t.writes)
    /\ UniquePlaces(Overlay(rows, t.writes))
    /\ UniqueKeys(Overlay(rows, t.writes))
    /\ FoundFree(Overlay(rows, t.writes), t)

\* Two transactions lock different chains and write different rows.
Apart(t, u) == t.locks \cap u.locks = {} /\ DOMAIN t.writes \cap DOMAIN u.writes = {}

TxTyped ==
    /\ issued \subseteq JobId
    /\ table \in Rows /\ DOMAIN table \subseteq issued
    /\ tx \in [Session -> Tx]
    /\ \A s \in Session : DOMAIN tx[s].writes \subseteq issued

\* The inductive invariant of the table and its transactions.
TableInv ==
    /\ TxTyped
    /\ Bounded(table) /\ UniquePlaces(table) /\ UniqueKeys(table)
    /\ \A s \in Session : TxInv(table, tx[s])
    /\ \A s, o \in Session : s # o => Apart(tx[s], tx[o])

-----------------------------------------------------------------------------
(* Tables                                                                      *)

\* Rows is the set of partial functions from ids to jobs.
LEMMA RowsFacts ==
    ASSUME NEW w
    PROVE  w \in Rows <=> DOMAIN w \subseteq JobId /\ w \in [DOMAIN w -> Job]
<1>1. ASSUME w \in Rows PROVE DOMAIN w \subseteq JobId /\ w \in [DOMAIN w -> Job]
  BY <1>1 DEF Rows
<1>2. ASSUME DOMAIN w \subseteq JobId, w \in [DOMAIN w -> Job] PROVE w \in Rows
  BY <1>2 DEF Rows
<1> QED BY <1>1, <1>2

\* What Overlay returns.
LEMMA OverlayFacts ==
    ASSUME NEW rows \in Rows, NEW w \in Rows
    PROVE  /\ Overlay(rows, w) \in Rows
           /\ DOMAIN Overlay(rows, w) = DOMAIN rows \cup DOMAIN w
           /\ \A id \in DOMAIN w : Overlay(rows, w)[id] = w[id]
           /\ \A id \in DOMAIN rows \ DOMAIN w : Overlay(rows, w)[id] = rows[id]
<1> DEFINE ov == Overlay(rows, w)
<1>1. /\ DOMAIN ov = DOMAIN rows \cup DOMAIN w
      /\ \A id \in DOMAIN w : ov[id] = w[id]
      /\ \A id \in DOMAIN rows \ DOMAIN w : ov[id] = rows[id]
  BY DEF Overlay
<1>2. ov = [id \in DOMAIN rows \cup DOMAIN w |-> ov[id]]
  BY DEF Overlay
<1>3. DOMAIN ov \subseteq JobId /\ \A id \in DOMAIN ov : ov[id] \in Job
  BY <1>1, RowsFacts
<1>4. ov \in [DOMAIN ov -> Job]
  BY <1>1, <1>2, <1>3
<1> QED BY <1>1, <1>3, <1>4, RowsFacts

\* Bounds add up.
LEMMA OverlayBounded ==
    ASSUME NEW rows \in Rows, NEW w \in Rows, Bounded(rows), Bounded(w)
    PROVE  Bounded(Overlay(rows, w))
<1>1. PICK m \in Nat : \A id \in DOMAIN rows : rows[id].seq <= m
  BY DEF Bounded
<1>2. PICK n \in Nat : \A id \in DOMAIN w : w[id].seq <= n
  BY DEF Bounded
<1>3. \A id \in DOMAIN rows : rows[id].seq \in Int
  BY RowsFacts DEF Job
<1>4. \A id \in DOMAIN w : w[id].seq \in Int
  BY RowsFacts DEF Job
<1>5. m + n \in Nat /\ m <= m + n /\ n <= m + n
  OBVIOUS
<1>6. ASSUME NEW id \in DOMAIN Overlay(rows, w) PROVE Overlay(rows, w)[id].seq <= m + n
  <2>1. CASE id \in DOMAIN w
    <3>1. Overlay(rows, w)[id] = w[id] /\ w[id].seq <= n /\ w[id].seq \in Int
      BY <1>2, <1>4, <2>1, OverlayFacts
    <3> QED BY <1>5, <3>1
  <2>2. CASE id \in DOMAIN rows \ DOMAIN w
    <3>1. Overlay(rows, w)[id] = rows[id] /\ rows[id].seq <= m /\ rows[id].seq \in Int
      BY <1>1, <1>3, <2>2, OverlayFacts
    <3> QED BY <1>5, <3>1
  <2> QED BY <2>1, <2>2, OverlayFacts
<1> QED BY <1>5, <1>6 DEF Bounded

\* MaxSequence finds the highest sequence of a chain that has one.
LEMMA MaxSequenceFacts ==
    ASSUME NEW rows \in Rows, Bounded(rows), NEW c
    PROVE  /\ \A max \in MaxSequence(rows, c) :
                 max \in Int /\ \A id \in DOMAIN rows : rows[id].chain = c => rows[id].seq <= max
           /\ MaxSequence(rows, c) = {} => \A id \in DOMAIN rows : rows[id].chain # c
<1> DEFINE seqs == {rows[id].seq : id \in {i \in DOMAIN rows : rows[i].chain = c}}
<1>1. MaxSequence(rows, c) = {n \in seqs : \A m \in seqs : m <= n}
  BY DEF MaxSequence
<1>2. seqs \subseteq Int
  BY RowsFacts DEF Job
<1>3. \A id \in DOMAIN rows : rows[id].chain = c => rows[id].seq \in seqs
  OBVIOUS
<1>4. PICK b \in Nat : \A n \in seqs : n <= b
  BY DEF Bounded
<1>5. ASSUME NEW m \in seqs PROVE \E n \in seqs : \A k \in seqs : k <= n
  <2> DEFINE T == {d \in Nat : \A k \in seqs : k <= m + d}
  <2>1. \E d \in T : \A j \in T : ~(<<j, d>> \in OpToRel(<, Nat))
    <3>1. m \in Int /\ b - m \in Int /\ m <= b
      BY <1>2, <1>4, <1>5
    <3>2. b - m \in Nat /\ m + (b - m) = b
      BY <3>1
    <3>3. T \subseteq Nat /\ b - m \in T
      BY <1>4, <3>2
    <3> HIDE DEF T
    <3> QED BY <3>3, NatLessThanWellFounded, WFMin, Zenon
  <2>2. PICK d \in T : \A j \in T : ~(<<j, d>> \in OpToRel(<, Nat))
    BY <2>1
  <2>3. d \in Nat /\ \A j \in T : ~(j < d)
    BY <2>2 DEF OpToRel
  <2>4. m + d \in seqs
    <3>1. CASE d = 0
      <4> HIDE DEF seqs
      <4> QED BY <1>2, <1>5, <3>1
    <3>2. CASE d # 0
      <4> SUFFICES ASSUME m + d \notin seqs PROVE FALSE
        OBVIOUS
      <4>1. d - 1 \in Nat /\ d - 1 < d
        BY <2>3, <3>2
      <4>2. ASSUME NEW k \in seqs PROVE k <= m + (d - 1)
        <5>1. k <= m + d /\ k # m + d /\ k \in Int /\ m \in Int
          BY <1>2, <1>5, <2>2
        <5> QED BY <2>3, <5>1
      <4> HIDE DEF seqs
      <4>3. d - 1 \in T
        BY <4>1, <4>2
      <4> QED BY <2>3, <4>1, <4>3
    <3> QED BY <3>1, <3>2
  <2> QED BY <2>2, <2>4
<1> HIDE DEF seqs
<1>6. ASSUME MaxSequence(rows, c) = {} PROVE seqs = {}
  BY <1>1, <1>5, <1>6
<1> QED BY <1>1, <1>2, <1>3, <1>6

-----------------------------------------------------------------------------
(* The table as OrderedChain sees it                                           *)

\* The row is the same for OrderedChain.
SameView(row, old) ==
    SameJob(row, old) /\ PhaseOf(row.status) = PhaseOf(old.status) /\ row.gen = old.gen

\* The parts of the view, and when an entry of it does not change.
LEMMA ViewFacts ==
    ASSUME NEW rows \in Rows
    PROVE  /\ DOMAIN ChainView(rows) = DOMAIN rows
           /\ ChainView(rows) \in
                [DOMAIN rows -> [chain : ChainId, seq : Int, strict : BOOLEAN,
                                 phase : {"waiting", "running", "failed", "cancelled", "done"},
                                 token : Nat]]
           /\ \A id \in DOMAIN rows :
                 /\ ChainView(rows)[id].chain = rows[id].chain
                 /\ ChainView(rows)[id].seq = rows[id].seq
                 /\ ChainView(rows)[id].strict = (rows[id].mode = "strict")
                 /\ ChainView(rows)[id].phase = PhaseOf(rows[id].status)
                 /\ ChainView(rows)[id].token = rows[id].gen
<1>1. \A id \in DOMAIN rows : rows[id] \in Job
  BY RowsFacts
<1>2. \A status : PhaseOf(status) \in {"waiting", "running", "failed", "cancelled", "done"}
  BY DEF PhaseOf
<1> QED BY <1>1, <1>2 DEF ChainView, Job

\* Rows that are the same for OrderedChain have the same view.
LEMMA ViewKept ==
    ASSUME NEW rows \in Rows, NEW new \in Rows, NEW id \in DOMAIN rows \cap DOMAIN new,
           SameView(new[id], rows[id])
    PROVE  ChainView(new)[id] = ChainView(rows)[id]
BY DEF ChainView, SameView, SameJob

-----------------------------------------------------------------------------
(* Shapes of steps                                                             *)

\* A session takes its transaction on to t, which is sound and apart from the others.
LEMMA SessionStep ==
    ASSUME TableInv, NEW s \in Session, NEW t \in Tx, Continue(s, t), UNCHANGED table,
           issued \subseteq issued', issued' \subseteq JobId,
           DOMAIN t.writes \subseteq issued', TxInv(table, t),
           \A o \in Session \ {s} : Apart(t, tx[o])
    PROVE  TableInv'
<1>1. tx' = [tx EXCEPT ![s] = t] /\ tx \in [Session -> Tx]
  BY DEF Continue, TableInv, TxTyped
<1>2. tx' \in [Session -> Tx] /\ tx'[s] = t /\ \A o \in Session \ {s} : tx'[o] = tx[o]
  BY <1>1
<1>3. TxTyped'
  BY <1>2 DEF TableInv, TxTyped
<1>4. \A o \in Session : TxInv(table, tx'[o])
  BY <1>2 DEF TableInv
<1>5. \A u, v \in Session : u # v => Apart(tx'[u], tx'[v])
  <2> SUFFICES ASSUME NEW u \in Session, NEW v \in Session, u # v PROVE Apart(tx'[u], tx'[v])
    OBVIOUS
  <2>1. CASE u = s
    BY <1>2, <2>1
  <2>2. CASE v = s
    BY <1>2, <2>2 DEF Apart
  <2>3. CASE u # s /\ v # s
    BY <1>2, <2>3 DEF TableInv
  <2> QED BY <2>1, <2>2, <2>3
<1>6. TxInv(table, t)' <=> TxInv(table, t)
  OBVIOUS
<1> QED BY <1>3, <1>4, <1>5 DEF TableInv

\* What holds of a transaction holds over other rows too, when these are the same jobs or
\* fewer, and those it has written are among them.
LEMMA TxOverRewrite ==
    ASSUME NEW rows \in Rows, NEW new \in Rows, NEW t \in Tx, TxInv(rows, t),
           DOMAIN new \subseteq DOMAIN rows,
           \A id \in DOMAIN new : SameJob(new[id], rows[id]),
           \A id \in DOMAIN t.writes \cap DOMAIN rows : id \in DOMAIN new
    PROVE  TxInv(new, t)
<1> DEFINE old == Overlay(rows, t.writes)
           seen == Overlay(new, t.writes)
<1>1. t.writes \in Rows
  BY DEF Tx
<1>2. /\ DOMAIN old = DOMAIN rows \cup DOMAIN t.writes
      /\ \A id \in DOMAIN t.writes : old[id] = t.writes[id]
      /\ \A id \in DOMAIN rows \ DOMAIN t.writes : old[id] = rows[id]
  BY <1>1, OverlayFacts
<1>3. /\ DOMAIN seen = DOMAIN new \cup DOMAIN t.writes
      /\ \A id \in DOMAIN t.writes : seen[id] = t.writes[id]
      /\ \A id \in DOMAIN new \ DOMAIN t.writes : seen[id] = new[id]
  BY <1>1, OverlayFacts
<1> HIDE DEF old, seen
<1>4. ASSUME NEW id \in DOMAIN seen
      PROVE  id \in DOMAIN old /\ SameJob(seen[id], old[id])
  BY <1>2, <1>3, <1>4 DEF SameJob
<1>5. UniquePlaces(old) /\ UniqueKeys(old) /\ FoundFree(old, t)
  BY DEF TxInv, old
<1>6. UniquePlaces(seen)
  BY <1>4, <1>5 DEF UniquePlaces, SameJob
<1>7. UniqueKeys(seen)
  BY <1>4, <1>5 DEF UniqueKeys, SameJob
<1>8. FoundFree(seen, t)
  BY <1>4, <1>5 DEF FoundFree, SameJob
<1>9. WritesOwn(new, t)
  BY DEF WritesOwn, SameJob, TxInv
<1> QED BY <1>6, <1>7, <1>8, <1>9 DEF TxInv, seen

\* A statement rewrites or deletes rows that no transaction has written.
LEMMA RewriteStep ==
    ASSUME TableInv, UNCHANGED <<tx, issued>>, table' \in Rows,
           DOMAIN table' \subseteq DOMAIN table,
           \A id \in DOMAIN table' : SameJob(table'[id], table[id]),
           \A id \in DOMAIN table : Locked(id) => id \in DOMAIN table'
    PROVE  TableInv'
<1>1. TxTyped'
  BY DEF TableInv, TxTyped
<1>2. \A id \in DOMAIN table' : id \in DOMAIN table /\ table'[id].seq = table[id].seq
  BY DEF SameJob
<1>3. Bounded(table')
  BY <1>2 DEF TableInv, Bounded
<1>4. UniquePlaces(table') /\ UniqueKeys(table')
  BY DEF TableInv, UniquePlaces, UniqueKeys, SameJob
<1>5. ASSUME NEW s \in Session PROVE TxInv(table', tx[s])
  <2>1. TxInv(table, tx[s]) /\ tx[s] \in Tx /\ table \in Rows
    BY DEF TableInv, TxTyped
  <2>2. \A id \in DOMAIN tx[s].writes \cap DOMAIN table : id \in DOMAIN table'
    BY DEF Locked
  <2> QED BY <2>1, <2>2, TxOverRewrite
<1> QED BY <1>1, <1>3, <1>4, <1>5 DEF TableInv

\* Write of rows that are in the table has that shape.
LEMMA WriteStep ==
    ASSUME TableInv, NEW rows \in Rows, Write(rows), DOMAIN rows \subseteq DOMAIN table,
           \A id \in DOMAIN rows : SameJob(rows[id], table[id])
    PROVE  /\ TableInv'
           /\ table' \in Rows /\ DOMAIN table' = DOMAIN table
           /\ \A id \in DOMAIN rows : table'[id] = rows[id] /\ ~Locked(id)
           /\ \A id \in DOMAIN table \ DOMAIN rows : table'[id] = table[id]
<1>1. table \in Rows /\ table' = Overlay(table, rows) /\ UNCHANGED <<tx, issued>>
  BY DEF TableInv, TxTyped, Write
<1>2. /\ table' \in Rows /\ DOMAIN table' = DOMAIN table
      /\ \A id \in DOMAIN rows : table'[id] = rows[id]
      /\ \A id \in DOMAIN table \ DOMAIN rows : table'[id] = table[id]
  BY <1>1, OverlayFacts
<1>3. \A id \in DOMAIN table' : SameJob(table'[id], table[id])
  BY <1>2 DEF SameJob
<1>4. TableInv'
  BY <1>1, <1>2, <1>3, RewriteStep
<1> QED BY <1>2, <1>4 DEF Write

\* What holds of a transaction holds after another one has committed.
LEMMA TxOverCommit ==
    ASSUME NEW rows \in Rows, NEW t \in Tx, TxInv(rows, t), NEW u \in Tx, TxInv(rows, u),
           Apart(t, u)
    PROVE  TxInv(Overlay(rows, u.writes), t)
<1> DEFINE old == Overlay(rows, t.writes)
           new == Overlay(rows, u.writes)
           seen == Overlay(new, t.writes)
<1>1. t.writes \in Rows /\ u.writes \in Rows
  BY DEF Tx
<1>2. /\ DOMAIN old = DOMAIN rows \cup DOMAIN t.writes
      /\ \A id \in DOMAIN t.writes : old[id] = t.writes[id]
      /\ \A id \in DOMAIN rows \ DOMAIN t.writes : old[id] = rows[id]
  BY <1>1, OverlayFacts
<1>3. /\ new \in Rows /\ DOMAIN new = DOMAIN rows \cup DOMAIN u.writes
      /\ \A id \in DOMAIN u.writes : new[id] = u.writes[id]
      /\ \A id \in DOMAIN rows \ DOMAIN u.writes : new[id] = rows[id]
  BY <1>1, OverlayFacts
<1>4. /\ DOMAIN seen = DOMAIN new \cup DOMAIN t.writes
      /\ \A id \in DOMAIN t.writes : seen[id] = t.writes[id]
      /\ \A id \in DOMAIN new \ DOMAIN t.writes : seen[id] = new[id]
  <2> HIDE DEF new
  <2> QED BY <1>1, <1>3, OverlayFacts
<1>5. /\ UniquePlaces(old) /\ UniqueKeys(old) /\ FoundFree(old, t)
      /\ UniquePlaces(new) /\ UniqueKeys(new)
  BY DEF TxInv
<1> HIDE DEF old, new, seen
<1>6. ASSUME NEW id \in DOMAIN old PROVE id \in DOMAIN seen /\ SameJob(seen[id], old[id])
  BY <1>2, <1>3, <1>4, <1>6 DEF SameJob, TxInv, WritesOwn, Apart
<1>7. ASSUME NEW id \in DOMAIN new PROVE id \in DOMAIN seen /\ SameJob(seen[id], new[id])
  BY <1>2, <1>3, <1>4, <1>7 DEF SameJob, TxInv, WritesOwn, Apart
<1>8. ASSUME NEW id \in DOMAIN seen, id \notin DOMAIN old
      PROVE  id \in DOMAIN new /\ seen[id].chain \in u.locks
  BY <1>2, <1>3, <1>4, <1>8 DEF TxInv, WritesOwn
<1>9. ASSUME NEW id \in DOMAIN seen, id \notin DOMAIN new
      PROVE  id \in DOMAIN old /\ seen[id].chain \in t.locks
  BY <1>2, <1>3, <1>4, <1>9 DEF TxInv, WritesOwn
<1>10. WritesOwn(new, t)
  BY <1>3 DEF TxInv, WritesOwn, Apart
<1>11. ASSUME NEW i \in DOMAIN seen, NEW k \in DOMAIN seen, seen[i].chain = seen[k].chain
       PROVE  (i \in DOMAIN old /\ k \in DOMAIN old) \/ (i \in DOMAIN new /\ k \in DOMAIN new)
  BY <1>8, <1>9, <1>11 DEF Apart
<1>12. UniquePlaces(seen)
  BY <1>5, <1>6, <1>7, <1>11 DEF UniquePlaces, SameJob
<1>13. UniqueKeys(seen)
  BY <1>5, <1>6, <1>7, <1>11 DEF UniqueKeys, SameJob
<1>14. FoundFree(seen, t)
  <2> SUFFICES ASSUME t.at \in {"status", "insert"}, NEW id \in DOMAIN seen,
                      seen[id].chain = Head(t.reqs).chain
               PROVE  /\ seen[id].seq # t.seq
                      /\ seen[id].key = Head(t.reqs).key => seen[id].key = NoKey
    BY DEF FoundFree
  <2>1. Head(t.reqs).chain \in t.locks
    <3>1. t.reqs \in Seq(Stored) /\ t.reqs # <<>> /\ t.wait = {}
      BY DEF Tx, TxInv, Locking, Enqueuing
    <3>2. 1 \in DOMAIN t.reqs /\ Head(t.reqs) = t.reqs[1]
      BY <3>1
    <3> QED BY <3>1, <3>2 DEF TxInv, Locking
  <2>2. id \in DOMAIN old
    BY <1>8, <2>1 DEF Apart
  <2> QED BY <1>5, <1>6, <2>2 DEF FoundFree, SameJob
<1> QED BY <1>10, <1>12, <1>13, <1>14 DEF TxInv, seen, new

\* A transaction with nothing written and no number found.
LEMMA NoWritesInv ==
    ASSUME NEW rows \in Rows, UniquePlaces(rows), UniqueKeys(rows), NEW t \in Tx,
           t.writes = EmptyMap, Locking(t), t.at \notin {"status", "insert"}
    PROVE  TxInv(rows, t)
<1>1. EmptyMap \in Rows /\ DOMAIN EmptyMap = {}
  BY RowsFacts DEF EmptyMap
<1> DEFINE seen == Overlay(rows, t.writes)
<1>2. DOMAIN seen = DOMAIN rows /\ \A id \in DOMAIN rows : seen[id] = rows[id]
  BY <1>1 DEF Overlay
<1> HIDE DEF seen
<1>3. UniquePlaces(seen) /\ UniqueKeys(seen)
  BY <1>2 DEF UniquePlaces, UniqueKeys
<1>4. Bounded(t.writes)
  BY <1>1 DEF Bounded
<1> QED BY <1>1, <1>3, <1>4 DEF TxInv, WritesOwn, FoundFree, seen

\* A session without a transaction is one.
LEMMA NoTxInv ==
    ASSUME NEW rows \in Rows, UniquePlaces(rows), UniqueKeys(rows)
    PROVE  NoTx \in Tx /\ TxInv(rows, NoTx) /\ \A t : Apart(NoTx, t) /\ Apart(t, NoTx)
<1>1. EmptyMap \in Rows /\ DOMAIN EmptyMap = {}
  BY RowsFacts DEF EmptyMap
<1>2. <<>> \in Seq(Stored) /\ DOMAIN <<>> = {}
  OBVIOUS
<1>3. NoTx \in Tx
  BY <1>1, <1>2 DEF NoTx, Tx, Step, Status
<1>4. Locking(NoTx) /\ NoTx.writes = EmptyMap /\ NoTx.at = "none" /\ NoTx.locks = {}
  BY <1>2 DEF Locking, NoTx, Enqueuing
<1> QED BY <1>1, <1>3, <1>4, NoWritesInv DEF Apart

\* A transaction that goes on with what it has written and locked.
LEMMA TxGoesOn ==
    ASSUME NEW rows \in Rows, NEW t \in Tx, TxInv(rows, t), NEW u \in Tx,
           u.writes = t.writes, t.locks \subseteq u.locks, Locking(u),
           FoundFree(Overlay(rows, t.writes), u)
    PROVE  TxInv(rows, u)
BY DEF TxInv, WritesOwn

\* A transaction that inserts a job at the place it has found.
LEMMA TxInserts ==
    ASSUME NEW rows \in Rows, NEW t \in Tx, TxInv(rows, t), t.at = "insert",
           NEW id \in JobId, id \notin DOMAIN rows, id \notin DOMAIN t.writes,
           NEW row \in Job, row.chain = Head(t.reqs).chain, row.seq = t.seq,
           row.key = Head(t.reqs).key,
           NEW u \in Tx, u.writes = Put(t.writes, id, row), u.locks = t.locks, Locking(u),
           u.at \notin {"status", "insert"}
    PROVE  TxInv(rows, u)
<1> DEFINE old == Overlay(rows, t.writes)
           seen == Overlay(rows, u.writes)
<1>1. t.writes \in Rows /\ u.writes \in Rows
  BY DEF Tx
<1>2. /\ DOMAIN u.writes = DOMAIN t.writes \cup {id}
      /\ u.writes[id] = row
      /\ \A k \in DOMAIN t.writes : u.writes[k] = t.writes[k]
  BY DEF Put
<1>3. /\ DOMAIN old = DOMAIN rows \cup DOMAIN t.writes
      /\ \A k \in DOMAIN t.writes : old[k] = t.writes[k]
      /\ \A k \in DOMAIN rows \ DOMAIN t.writes : old[k] = rows[k]
  BY <1>1, OverlayFacts
<1>4. /\ DOMAIN seen = DOMAIN rows \cup DOMAIN u.writes
      /\ \A k \in DOMAIN u.writes : seen[k] = u.writes[k]
      /\ \A k \in DOMAIN rows \ DOMAIN u.writes : seen[k] = rows[k]
  BY <1>1, OverlayFacts
<1>5. UniquePlaces(old) /\ UniqueKeys(old) /\ FoundFree(old, t)
  BY DEF TxInv
<1> HIDE DEF old, seen
<1>6. /\ DOMAIN seen = DOMAIN old \cup {id} /\ seen[id] = row /\ id \notin DOMAIN old
      /\ \A k \in DOMAIN old : seen[k] = old[k]
  BY <1>2, <1>3, <1>4
<1>7. ASSUME NEW k \in DOMAIN old, old[k].chain = row.chain
      PROVE  old[k].seq # row.seq /\ (old[k].key = row.key => row.key = NoKey)
  BY <1>5, <1>7 DEF FoundFree
<1>8. UniquePlaces(seen)
  BY <1>5, <1>6, <1>7 DEF UniquePlaces
<1>9. UniqueKeys(seen)
  BY <1>5, <1>6, <1>7 DEF UniqueKeys
<1>10. Head(t.reqs).chain \in t.locks
  <2>1. t.reqs \in Seq(Stored) /\ t.reqs # <<>> /\ t.wait = {}
    BY DEF Tx, TxInv, Locking, Enqueuing
  <2>2. 1 \in DOMAIN t.reqs /\ Head(t.reqs) = t.reqs[1]
    BY <2>1
  <2> QED BY <2>1, <2>2 DEF TxInv, Locking
<1>11. WritesOwn(rows, u)
  BY <1>2, <1>10 DEF TxInv, WritesOwn
<1>12. Bounded(u.writes)
  <2>1. PICK n \in Nat : \A k \in DOMAIN t.writes : t.writes[k].seq <= n
    BY DEF TxInv, Bounded
  <2>2. \A k \in DOMAIN u.writes : u.writes[k].seq \in Int
    BY <1>1, RowsFacts DEF Job
  <2>3. row.seq \in Int
    BY DEF Job
  <2>4. CASE row.seq <= n
    BY <1>2, <2>1, <2>4 DEF Bounded
  <2>5. CASE ~(row.seq <= n)
    <3>1. row.seq \in Nat
      BY <2>3, <2>5
    <3>2. ASSUME NEW k \in DOMAIN u.writes PROVE u.writes[k].seq <= row.seq
      BY <1>2, <2>1, <2>2, <2>3, <2>5, <3>2
    <3> QED BY <3>1, <3>2 DEF Bounded
  <2> QED BY <2>4, <2>5
<1>13. FoundFree(seen, u)
  BY DEF FoundFree
<1> QED BY <1>8, <1>9, <1>11, <1>12, <1>13 DEF TxInv, seen

\* The same in the middle of a session's list of rows to go through.
LEMMA RewriteInSession ==
    ASSUME TableInv, NEW s \in Session, NEW u \in Tx, Continue(s, u), UNCHANGED issued,
           u.writes = tx[s].writes, u.locks = tx[s].locks, Locking(u),
           u.at \notin {"status", "insert"},
           table' \in Rows, DOMAIN table' \subseteq DOMAIN table,
           \A id \in DOMAIN table' : SameJob(table'[id], table[id]),
           \A id \in DOMAIN table : Locked(id) => id \in DOMAIN table'
    PROVE  TableInv'
<1>1. /\ tx \in [Session -> Tx] /\ table \in Rows
      /\ tx' = [tx EXCEPT ![s] = u]
  BY DEF TableInv, TxTyped, Continue
<1>2. tx' \in [Session -> Tx] /\ tx'[s] = u /\ \A o \in Session \ {s} : tx'[o] = tx[o]
  BY <1>1
<1>3. \A o \in Session : tx'[o].writes = tx[o].writes /\ tx'[o].locks = tx[o].locks
  BY <1>2
<1>4. TxTyped'
  BY <1>2, <1>3 DEF TableInv, TxTyped
<1>5. \A id \in DOMAIN table' : id \in DOMAIN table /\ table'[id].seq = table[id].seq
  BY DEF SameJob
<1>6. Bounded(table')
  BY <1>5 DEF TableInv, Bounded
<1>7. UniquePlaces(table') /\ UniqueKeys(table')
  BY DEF TableInv, UniquePlaces, UniqueKeys, SameJob
<1>8. ASSUME NEW o \in Session PROVE TxInv(table', tx'[o])
  <2>1. TxInv(table, tx[o]) /\ tx[o] \in Tx
    BY <1>1 DEF TableInv
  <2>2. \A id \in DOMAIN tx[o].writes \cap DOMAIN table : id \in DOMAIN table'
    BY DEF Locked
  <2>3. TxInv(table', tx[o])
    BY <1>1, <2>1, <2>2, TxOverRewrite
  <2>4. CASE o # s
    BY <1>2, <2>3, <2>4
  <2>5. CASE o = s
    <3>1. FoundFree(Overlay(table', tx[s].writes), u)
      BY DEF FoundFree
    <3> QED BY <1>2, <2>1, <2>3, <2>5, <3>1, TxGoesOn
  <2> QED BY <2>4, <2>5
<1>9. \A u1, u2 \in Session : u1 # u2 => Apart(tx'[u1], tx'[u2])
  BY <1>3 DEF TableInv, Apart
<1> QED BY <1>4, <1>6, <1>7, <1>8, <1>9 DEF TableInv

\* Commit.
LEMMA CommitStep ==
    ASSUME TableInv, NEW s \in Session, Commit(s)
    PROVE  TableInv'
<1>1. /\ table \in Rows /\ tx \in [Session -> Tx] /\ issued' = issued
      /\ table' = Overlay(table, tx[s].writes) /\ tx' = [tx EXCEPT ![s] = NoTx]
      /\ tx[s].writes \in Rows /\ TxInv(table, tx[s])
  BY DEF TableInv, TxTyped, Commit, Continue, Visible, Tx
<1>2. table' \in Rows /\ DOMAIN table' = DOMAIN table \cup DOMAIN tx[s].writes
  BY <1>1, OverlayFacts
<1>3. Bounded(table') /\ UniquePlaces(table') /\ UniqueKeys(table')
  BY <1>1, OverlayBounded DEF TableInv, TxInv
<1>4. NoTx \in Tx /\ TxInv(table', NoTx) /\ \A t : Apart(NoTx, t) /\ Apart(t, NoTx)
  BY <1>2, <1>3, NoTxInv
<1>5. DOMAIN NoTx.writes = {}
  BY DEF NoTx, EmptyMap
<1>6. /\ tx' \in [Session -> Tx] /\ tx'[s] = NoTx
      /\ \A o \in Session \ {s} : tx'[o] = tx[o]
  BY <1>1, <1>4
<1>7. TxTyped'
  BY <1>1, <1>2, <1>5, <1>6 DEF TableInv, TxTyped
<1>8. ASSUME NEW o \in Session PROVE TxInv(table', tx'[o])
  <2>1. CASE o = s
    BY <1>4, <1>6, <2>1
  <2>2. CASE o # s
    <3>1. tx'[o] = tx[o] /\ tx[o] \in Tx /\ tx[s] \in Tx
      BY <1>1, <1>6, <2>2
    <3>2. TxInv(table, tx[o]) /\ TxInv(table, tx[s]) /\ Apart(tx[o], tx[s])
      BY <2>2 DEF TableInv
    <3>3. TxInv(Overlay(table, tx[s].writes), tx[o])
      BY <1>1, <3>1, <3>2, TxOverCommit
    <3> QED BY <1>1, <3>1, <3>3
  <2> QED BY <2>1, <2>2
<1>9. ASSUME NEW u \in Session, NEW v \in Session, u # v PROVE Apart(tx'[u], tx'[v])
  <2>1. CASE u = s \/ v = s
    BY <1>4, <1>6, <2>1
  <2>2. CASE u # s /\ v # s
    BY <1>6, <1>9, <2>2 DEF TableInv
  <2> QED BY <2>1, <2>2
<1> QED BY <1>3, <1>7, <1>8, <1>9 DEF TableInv

\* Rollback.
LEMMA RollbackStep ==
    ASSUME TableInv, NEW s \in Session, Rollback(s)
    PROVE  TableInv'
<1>1. table \in Rows /\ UniquePlaces(table) /\ UniqueKeys(table) /\ issued \subseteq JobId
  BY DEF TableInv, TxTyped
<1>2. NoTx \in Tx /\ TxInv(table, NoTx) /\ \A o \in Session : Apart(NoTx, tx[o])
  BY <1>1, NoTxInv
<1>3. DOMAIN NoTx.writes \subseteq issued
  BY DEF NoTx, EmptyMap
<1> QED BY <1>1, <1>2, <1>3, SessionStep DEF Rollback

\* A statement that changes one job.
LEMMA WriteRowStep ==
    ASSUME TableInv, NEW id \in DOMAIN table, NEW row \in Job, WriteRow(id, row),
           SameJob(row, table[id])
    PROVE  /\ TableInv'
           /\ UNCHANGED <<tx, issued>> /\ ~Locked(id)
           /\ table' \in Rows /\ DOMAIN table' = DOMAIN table /\ table'[id] = row
           /\ \A k \in DOMAIN table \ {id} : table'[k] = table[k]
<1> DEFINE rows == [i \in {id} |-> row]
<1>1. DOMAIN rows = {id} /\ rows[id] = row
  OBVIOUS
<1>2. id \in JobId
  BY RowsFacts DEF TableInv, TxTyped
<1>3. rows \in Rows
  BY <1>1, <1>2, RowsFacts
<1>4. Write(rows)
  BY DEF WriteRow
<1> HIDE DEF rows
<1> QED BY <1>1, <1>3, <1>4, WriteStep DEF Write

\* Time: a backoff or a lease runs out.
LEMMA TimeKeeps ==
    ASSUME TableInv, NEW id \in JobId, BecomesDue(id) \/ LeaseExpires(id)
    PROVE  /\ TableInv' /\ UNCHANGED <<tx, issued>>
           /\ table' \in Rows /\ DOMAIN table' = DOMAIN table
           /\ \A k \in DOMAIN table : /\ SameJob(table'[k], table[k])
                                      /\ table'[k].status = table[k].status
                                      /\ table'[k].gen = table[k].gen
<1>1. id \in DOMAIN table /\ table[id] \in Job
  BY RowsFacts DEF TableInv, TxTyped, BecomesDue, LeaseExpires
<1>2. PICK row \in Job : WriteRow(id, row) /\ SameJob(row, table[id])
                        /\ row.status = table[id].status /\ row.gen = table[id].gen
  <2>1. CASE BecomesDue(id)
    <3> DEFINE row == [table[id] EXCEPT !.avail = "due"]
    <3>1. row \in Job /\ SameJob(row, table[id]) /\ row.status = table[id].status
          /\ row.gen = table[id].gen
      BY <1>1 DEF Job, SameJob, Avail
    <3> QED BY <2>1, <3>1 DEF BecomesDue
  <2>2. CASE LeaseExpires(id)
    <3> DEFINE row == [table[id] EXCEPT !.lease = "expired"]
    <3>1. row \in Job /\ SameJob(row, table[id]) /\ row.status = table[id].status
          /\ row.gen = table[id].gen
      BY <1>1 DEF Job, SameJob, Lease
    <3> QED BY <2>2, <3>1 DEF LeaseExpires
  <2> QED BY <2>1, <2>2
<1> QED BY <1>1, <1>2, WriteRowStep DEF SameJob

-----------------------------------------------------------------------------
(* The statements of an enqueuing transaction                                  *)

\* The rest of a list of requests.
LEMMA TailFacts ==
    ASSUME NEW q \in Seq(Stored), q # <<>>
    PROVE  /\ Head(q) \in Stored /\ Head(q) = q[1] /\ 1 \in DOMAIN q
           /\ Tail(q) \in Seq(Stored)
           /\ \A i \in DOMAIN Tail(q) : i + 1 \in DOMAIN q /\ Tail(q)[i] = q[i + 1]
           /\ Len(q) # 1 => Tail(q) # <<>>
<1>1. Len(q) \in Nat /\ Len(q) # 0 /\ DOMAIN q = 1 .. Len(q)
  OBVIOUS
<1>2. 1 \in DOMAIN q /\ Head(q) = q[1] /\ Head(q) \in Stored
  BY <1>1
<1>3. Tail(q) \in Seq(Stored) /\ Len(Tail(q)) = Len(q) - 1
  BY <1>1
<1>4. \A i \in 1 .. Len(Tail(q)) : Tail(q)[i] = q[i + 1]
  BY <1>1, <1>3
<1>5. DOMAIN Tail(q) = 1 .. Len(q) - 1
  BY <1>1, <1>3
<1>6. ASSUME NEW i \in DOMAIN Tail(q) PROVE i + 1 \in DOMAIN q /\ Tail(q)[i] = q[i + 1]
  BY <1>1, <1>3, <1>4, <1>5
<1>7. Tail(q) = <<>> => Len(q) = 1
  <2>1. Len(<<>>) = 0
    OBVIOUS
  <2>2. Tail(q) = <<>> => Len(Tail(q)) = 0
    BY <2>1
  <2> QED BY <1>1, <1>3, <2>2
<1> QED BY <1>2, <1>3, <1>6, <1>7

\* A transaction gets a lock that is free.
LEMMA LockStep ==
    ASSUME TableInv, NEW s \in Session, NEW t \in Tx, TxInv(table, t), t.at = "lock",
           \A o \in Session \ {s} : Apart(t, tx[o]),
           DOMAIN t.writes \subseteq issued,
           NEW c \in t.wait, LockFree(s, c), UNCHANGED <<table, issued>>,
           Continue(s, [t EXCEPT !.wait = t.wait \ {c}, !.locks = t.locks \cup {c},
                                 !.at = IF t.wait = {c} THEN "number" ELSE "lock"])
    PROVE  TableInv'
<1> DEFINE u == [t EXCEPT !.wait = t.wait \ {c}, !.locks = t.locks \cup {c},
                          !.at = IF t.wait = {c} THEN "number" ELSE "lock"]
<1>1. /\ u \in Tx /\ u.writes = t.writes /\ u.reqs = t.reqs /\ u.wait = t.wait \ {c}
      /\ u.locks = t.locks \cup {c} /\ u.at = IF t.wait = {c} THEN "number" ELSE "lock"
  BY DEF Tx, Step
<1> HIDE DEF u
<1>2. Locking(u)
  BY <1>1 DEF TxInv, Locking, Enqueuing
<1>3. FoundFree(Overlay(table, t.writes), u)
  BY <1>1 DEF FoundFree
<1>4. TxInv(table, u)
  BY <1>1, <1>2, <1>3, TxGoesOn DEF TableInv, TxTyped
<1>5. \A o \in Session \ {s} : Apart(u, tx[o])
  BY <1>1 DEF Apart, LockFree
<1> QED BY <1>1, <1>4, <1>5, SessionStep DEF TableInv, TxTyped, u

\* A transaction goes on to another statement, perhaps with a number or status it has found
\* or with one request less.
LEMMA GoOnStep ==
    ASSUME TableInv, NEW s \in Session, NEW u \in Tx, Continue(s, u), UNCHANGED <<table, issued>>,
           u.writes = tx[s].writes, u.locks = tx[s].locks, Locking(u),
           FoundFree(Visible(s), u)
    PROVE  TableInv'
<1>1. tx[s] \in Tx /\ TxInv(table, tx[s]) /\ table \in Rows /\ issued \subseteq JobId
  BY DEF TableInv, TxTyped
<1>2. TxInv(table, u)
  BY <1>1, TxGoesOn DEF Visible
<1>3. \A o \in Session \ {s} : Apart(u, tx[o])
  BY DEF TableInv, Apart
<1>4. DOMAIN u.writes \subseteq issued
  BY DEF TableInv, TxTyped
<1> QED BY <1>1, <1>2, <1>3, <1>4, SessionStep

\* A job is inserted under a new id.
LEMMA InsertStep ==
    ASSUME TableInv, NEW s \in Session, tx[s].at = "insert", UNCHANGED table,
           NEW id \in JobId \ issued, issued' = issued \cup {id},
           NEW row \in Job, row.chain = Head(tx[s].reqs).chain, row.seq = tx[s].seq,
           row.key = Head(tx[s].reqs).key,
           NEW u \in Tx, Continue(s, u), u.writes = Put(tx[s].writes, id, row),
           u.locks = tx[s].locks, Locking(u), u.at \notin {"status", "insert"}
    PROVE  TableInv'
<1>1. /\ tx[s] \in Tx /\ TxInv(table, tx[s]) /\ table \in Rows /\ issued \subseteq JobId
      /\ id \notin DOMAIN table /\ \A o \in Session : id \notin DOMAIN tx[o].writes
  BY DEF TableInv, TxTyped
<1>2. TxInv(table, u)
  BY <1>1, TxInserts
<1>3. DOMAIN u.writes = DOMAIN tx[s].writes \cup {id}
  BY DEF Put
<1>4. \A o \in Session \ {s} : Apart(u, tx[o])
  BY <1>1, <1>3 DEF TableInv, Apart
<1>5. DOMAIN u.writes \subseteq issued'
  BY <1>3 DEF TableInv, TxTyped
<1> QED BY <1>1, <1>2, <1>4, <1>5, SessionStep

\* A transaction begins that writes jobs of the table which no other session has written.
LEMMA WritesStep ==
    ASSUME TableInv, NEW s \in Session, NEW u \in Tx, Continue(s, u), UNCHANGED <<table, issued>>,
           u.locks = {}, u.reqs = <<>>, u.at \notin Enqueuing,
           DOMAIN u.writes \subseteq DOMAIN table,
           \A id \in DOMAIN u.writes : SameJob(u.writes[id], table[id]) /\ ~LockedFor(s, id)
    PROVE  TableInv'
<1> DEFINE seen == Overlay(table, u.writes)
<1>1. table \in Rows /\ u.writes \in Rows /\ issued \subseteq JobId
  BY DEF TableInv, TxTyped, Tx
<1>2. /\ DOMAIN seen = DOMAIN table \cup DOMAIN u.writes
      /\ \A k \in DOMAIN u.writes : seen[k] = u.writes[k]
      /\ \A k \in DOMAIN table \ DOMAIN u.writes : seen[k] = table[k]
  BY <1>1, OverlayFacts
<1> HIDE DEF seen
<1>3. \A k \in DOMAIN seen : k \in DOMAIN table /\ SameJob(seen[k], table[k])
  BY <1>2 DEF SameJob
<1>4. UniquePlaces(seen) /\ UniqueKeys(seen)
  BY <1>3 DEF TableInv, UniquePlaces, UniqueKeys, SameJob
<1>5. Bounded(u.writes)
  BY DEF TableInv, Bounded, SameJob
<1>6. Locking(u) /\ WritesOwn(table, u) /\ FoundFree(seen, u)
  BY DEF Locking, WritesOwn, FoundFree, Enqueuing
<1>7. TxInv(table, u)
  BY <1>4, <1>5, <1>6 DEF TxInv, seen
<1>8. \A o \in Session \ {s} : Apart(u, tx[o])
  BY DEF Apart, LockedFor
<1>9. DOMAIN u.writes \subseteq issued
  BY DEF TableInv, TxTyped
<1> QED BY <1>1, <1>7, <1>8, <1>9, SessionStep

-----------------------------------------------------------------------------
(* What follows                                                                *)

\* Type correctness.
LEMMA InvTyped == TableInv => TableTyped
<1> SUFFICES ASSUME TableInv PROVE TableTyped
  OBVIOUS
<1>1. issued \subseteq JobId /\ DOMAIN table \subseteq issued /\ table \in [DOMAIN table -> Job]
  BY RowsFacts DEF TableInv, TxTyped
<1>2. ASSUME NEW s \in Session
      PROVE  /\ tx[s].at \in Step /\ tx[s].batch \in BOOLEAN /\ tx[s].seq \in Int
             /\ tx[s].status \in Status /\ tx[s].wait \subseteq ChainId
             /\ tx[s].locks \subseteq ChainId /\ tx[s].filter \subseteq JobId
             /\ DOMAIN tx[s].writes \subseteq issued
             /\ tx[s].writes \in [DOMAIN tx[s].writes -> Job]
  <2>1. tx[s] \in Tx /\ DOMAIN tx[s].writes \subseteq issued
    BY DEF TableInv, TxTyped
  <2>2. tx[s].writes \in Rows
    BY <2>1 DEF Tx
  <2>3. tx[s].writes \in [DOMAIN tx[s].writes -> Job]
    BY <2>2, RowsFacts
  <2> QED BY <2>1, <2>3 DEF Tx
<1> QED BY <1>1, <1>2 DEF TableTyped, Step

\* The chain of the request that is being numbered is locked.
LEMMA HeadLocked ==
    ASSUME TableInv, NEW s \in Session, tx[s].at \in {"number", "status", "insert"}
    PROVE  Head(tx[s].reqs).chain \in tx[s].locks /\ Head(tx[s].reqs) \in Stored
<1>1. tx[s].reqs \in Seq(Stored) /\ tx[s].reqs # <<>> /\ tx[s].wait = {} /\ Locking(tx[s])
  BY DEF TableInv, TxTyped, Tx, TxInv, Locking, Enqueuing
<1> QED BY <1>1, TailFacts DEF Locking

\* Numbers stay free because of the lock: what another session has written in the chain
\* are jobs of the table.
LEMMA InvNumbers == TableInv => NumbersStayFree
<1> SUFFICES ASSUME TableInv, NEW s \in Session, tx[s].at \in {"status", "insert"}, NEW o \in Session
             PROVE  /\ At(Visible(o), Head(tx[s].reqs).chain, tx[s].seq) = {}
                    /\ o # s /\ tx[o].at \in {"status", "insert"} =>
                          <<Head(tx[o].reqs).chain, tx[o].seq>>
                              # <<Head(tx[s].reqs).chain, tx[s].seq>>
  BY DEF NumbersStayFree
<1> DEFINE c == Head(tx[s].reqs).chain
           n == tx[s].seq
           mine == Visible(s)
           theirs == Visible(o)
<1>1. c \in tx[s].locks
  BY HeadLocked
<1>2. \A p \in Session : /\ table \in Rows /\ tx[p] \in Tx /\ tx[p].writes \in Rows
                         /\ TxInv(table, tx[p])
  BY DEF TableInv, TxTyped, Tx
<1>3. /\ DOMAIN mine = DOMAIN table \cup DOMAIN tx[s].writes
      /\ \A k \in DOMAIN tx[s].writes : mine[k] = tx[s].writes[k]
      /\ \A k \in DOMAIN table \ DOMAIN tx[s].writes : mine[k] = table[k]
  BY <1>2, OverlayFacts DEF Visible
<1>4. /\ DOMAIN theirs = DOMAIN table \cup DOMAIN tx[o].writes
      /\ \A k \in DOMAIN tx[o].writes : theirs[k] = tx[o].writes[k]
      /\ \A k \in DOMAIN table \ DOMAIN tx[o].writes : theirs[k] = table[k]
  BY <1>2, OverlayFacts DEF Visible
<1>5. FoundFree(mine, tx[s])
  BY <1>2 DEF TxInv, Visible
<1>6. WritesOwn(table, tx[s]) /\ WritesOwn(table, tx[o])
  BY <1>2 DEF TxInv
<1>7. o # s => tx[s].locks \cap tx[o].locks = {}
  BY DEF TableInv, Apart
<1> HIDE DEF c, n, mine, theirs
<1>8. \A k \in DOMAIN mine : mine[k].chain = c => mine[k].seq # n
  BY <1>5 DEF FoundFree, c, n
<1>9. ASSUME NEW k \in DOMAIN table PROVE k \in DOMAIN mine /\ SameJob(mine[k], table[k])
  BY <1>3, <1>6 DEF WritesOwn, SameJob
<1>10. ASSUME NEW k \in DOMAIN table, k \in DOMAIN theirs PROVE SameJob(theirs[k], table[k])
  BY <1>4, <1>6, <1>10 DEF WritesOwn, SameJob
<1>11. ASSUME NEW k \in DOMAIN theirs, theirs[k].chain = c, theirs[k].seq = n PROVE FALSE
  <2>1. CASE k \in DOMAIN table
    BY <1>8, <1>9, <1>10, <1>11, <2>1 DEF SameJob
  <2>2. CASE o = s
    BY <1>8, <1>11, <2>2 DEF mine, theirs
  <2>3. CASE o # s /\ k \notin DOMAIN table
    <3>1. k \in DOMAIN tx[o].writes /\ theirs[k] = tx[o].writes[k]
      BY <1>4, <2>3
    <3>2. c \in tx[o].locks
      BY <1>6, <1>11, <2>3, <3>1 DEF WritesOwn
    <3> QED BY <1>1, <1>7, <2>3, <3>2
  <2> QED BY <2>1, <2>2, <2>3
<1>12. At(theirs, c, n) = {}
  BY <1>11 DEF At
<1>13. ASSUME o # s, tx[o].at \in {"status", "insert"} PROVE Head(tx[o].reqs).chain # c
  BY <1>1, <1>7, <1>13, HeadLocked
<1> QED BY <1>12, <1>13 DEF c, n, theirs
=============================================================================
