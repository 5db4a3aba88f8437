------------------------------ MODULE SqlTable -------------------------------
(***************************************************************************)
(* The table ordered_jobs and the transactions on it, as both SQL          *)
(* repositories use them at READ COMMITTED.                                *)
(*                                                                         *)
(* A statement sees the rows committed when it starts and its own          *)
(* transaction's writes.  A row that a transaction has written is locked   *)
(* until that transaction ends: an UPDATE or DELETE whose condition it     *)
(* meets waits.  A transaction of several statements is several actions    *)
(* and a Commit; one whose effect is a single statement is one action.     *)
(* Time is abstracted as in MemoryRepo.                                    *)
(***************************************************************************)
EXTENDS Jobs, FiniteSets, Sequences

CONSTANTS
    Session,        \* connections of the pool
    AllowGap,       \* WithAllowGap
    RecoverLimit,   \* limit argument of RecoverStale
    Commands,       \* the operator commands this instance issues
    MaxGen          \* bound: a job's generation is raised at most MaxGen times

Command == { "cancel", "replay", "skip", "reschedule",
             "bulkReplay", "bulkSkip", "bulkPurge" }

ASSUME CommandAssumption == Commands \subseteq Command
ASSUME BoundAssumption == MaxGen \in Nat /\ RecoverLimit \in Nat /\ AllowGap \in BOOLEAN

VARIABLES
    table,   \* ordered_jobs as committed: uuid -> Job
    tx,      \* session -> its open transaction
    issued   \* the uuids uuid.New() has returned

tableVars == <<table, tx, issued>>

\* A session without a transaction.  at is the statement that comes next; wait and
\* locks are named locks, reqs what is left to enqueue, seq and status what was found
\* for the first of them, items what a SELECT returned, writes the rows written.
NoTx == [at |-> "none", batch |-> FALSE, wait |-> {}, locks |-> {}, reqs |-> <<>>,
         seq |-> 0, status |-> "BLOCKED", filter |-> {}, items |-> {}, writes |-> EmptyMap]

TableInit ==
    /\ table = EmptyMap
    /\ tx = [s \in Session |-> NoTx]
    /\ issued = {}

-----------------------------------------------------------------------------
(* What a statement sees, and locks                                            *)

\* rows overwritten and extended by the writes w.
Overlay(rows, w) ==
    [id \in DOMAIN rows \cup DOMAIN w |-> IF id \in DOMAIN w THEN w[id] ELSE rows[id]]

\* The rows a statement of session s sees.
Visible(s) == Overlay(table, tx[s].writes)

\* Another session's transaction has written the row.
LockedFor(s, id) == \E o \in Session \ {s} : id \in DOMAIN tx[o].writes
Locked(id) == \E o \in Session : id \in DOMAIN tx[o].writes

\* The named lock on c, advisory lock or application lock, can be had.
LockFree(s, c) == \A o \in Session \ {s} : c \notin tx[o].locks

\* WHERE chain_id = c AND sequence = n
At(rows, c, n) == {id \in DOMAIN rows : rows[id].chain = c /\ rows[id].seq = n}

\* SELECT MAX(sequence): NULL, here the empty set, or the highest sequence.
MaxSequence(rows, c) ==
    LET seqs == {rows[id].seq : id \in {i \in DOMAIN rows : rows[i].chain = c}}
    IN {n \in seqs : \A m \in seqs : m <= n}

Place(id) == <<table[id].chain, table[id].seq>>

-----------------------------------------------------------------------------
(* Transactions                                                                *)

\* The transaction of s goes on with the fields of t.
Continue(s, t) == tx' = [tx EXCEPT ![s] = t]

\* withTx: the writes reach the table, and every lock is released.
Commit(s) ==
    /\ tx[s].at = "commit"
    /\ table' = Visible(s)
    /\ Continue(s, NoTx)
    /\ UNCHANGED issued

\* withTx: an error, a cancelled context, a lost connection or a deadlock the server
\* broke ends the transaction without a trace.
Rollback(s) ==
    /\ tx[s].at # "none"
    /\ Continue(s, NoTx)
    /\ UNCHANGED <<table, issued>>

\* A transaction of one statement writes rows, none of which is locked.
Write(rows) ==
    /\ \A id \in DOMAIN rows : ~Locked(id)
    /\ table' = Overlay(table, rows)
    /\ UNCHANGED <<tx, issued>>

\* The same for a single row.
WriteRow(id, row) == Write([i \in {id} |-> row])

-----------------------------------------------------------------------------
(* Time                                                                        *)

BecomesDue(id) ==
    /\ id \in DOMAIN table
    /\ table[id].avail = "later"
    /\ WriteRow(id, [table[id] EXCEPT !.avail = "due"])

LeaseExpires(id) ==
    /\ id \in DOMAIN table
    /\ table[id].status = "PROCESSING"
    /\ table[id].lease = "live"
    /\ WriteRow(id, [table[id] EXCEPT !.lease = "expired"])

-----------------------------------------------------------------------------
(* What the table of either repository has to be                               *)

\* Type correctness of the table and of the open transactions.
TableTyped ==
    /\ issued \subseteq JobId
    /\ DOMAIN table \subseteq issued
    /\ table \in [DOMAIN table -> Job]
    /\ \A s \in Session :
          LET t == tx[s] IN
          /\ t.at \in {"none", "lock", "number", "status", "insert", "skip", "promote",
                    "recover", "commit"}
          /\ t.batch \in BOOLEAN /\ t.seq \in Int /\ t.status \in Status
          /\ t.wait \subseteq ChainId /\ t.locks \subseteq ChainId /\ t.filter \subseteq JobId
          /\ DOMAIN t.writes \subseteq issued
          /\ t.writes \in [DOMAIN t.writes -> Job]

\* From the moment a transaction has found a sequence number to its insert nobody else
\* commits, writes or finds a job with that number.
NumbersStayFree ==
    \A s \in Session : tx[s].at \in {"status", "insert"} =>
        LET c == Head(tx[s].reqs).chain IN
        \A o \in Session :
            /\ At(Visible(o), c, tx[s].seq) = {}
            /\ o # s /\ tx[o].at \in {"status", "insert"} =>
                  <<Head(tx[o].reqs).chain, tx[o].seq>> # <<c, tx[s].seq>>

\* Two sessions each hold a named lock that the other one waits for.
LockCycle ==
    \E s, o \in Session : tx[s].wait \cap tx[o].locks # {} /\ tx[o].wait \cap tx[s].locks # {}
==============================================================================
