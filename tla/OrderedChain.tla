---------------------------- MODULE OrderedChain -----------------------------
(***************************************************************************)
(* What every repository promises, whatever it is built on: jobs in        *)
(* numbered places of chains, each started only when the one before it     *)
(* lets it go.  Leases, attempts, transactions, locks and the difference   *)
(* between BLOCKED, PENDING and RETRYING are details of how the promise is *)
(* kept.                                                                   *)
(*                                                                         *)
(* A job is waiting, running, failed, cancelled or done.  Its token counts *)
(* the starts: a job with token 0 has never run.                           *)
(***************************************************************************)
EXTENDS Integers

CONSTANTS
    Id,         \* job ids
    Chain,      \* chain ids
    CanRemove,  \* failed jobs may be purged
    Guarded     \* a start waits for the committed end of the job before it, and only a
                \* job that has run is declared done; without it a start still waits for
                \* a strict job

VARIABLE job    \* id -> [chain, seq, strict, phase, token]

Phase == {"waiting", "running", "failed", "cancelled", "done"}

JobView == [chain : Chain, seq : Int, strict : BOOLEAN, phase : Phase, token : Nat]

Init == job = [i \in {} |-> i]

\* The job at place n of chain c, if there is one.
IsAt(i, c, n) == i \in DOMAIN job /\ job[i].chain = c /\ job[i].seq = n

\* p lets the job after it go.
LetsGo(p) ==
    \/ job[p].phase = "done"
    \/ ~job[p].strict /\ (Guarded => job[p].phase = "failed")

\* New jobs take places that are free, and wait.
Accept ==
    /\ DOMAIN job \subseteq DOMAIN job' /\ DOMAIN job' \subseteq Id
    /\ \A i \in DOMAIN job : job'[i] = job[i]
    /\ job' = [i \in DOMAIN job' |-> job'[i]]
    /\ \A i \in DOMAIN job' \ DOMAIN job :
          /\ job'[i] \in JobView
          /\ job'[i].phase = "waiting" /\ job'[i].token = 0
          /\ \A k \in DOMAIN job' \ {i} :
                job'[k].chain # job'[i].chain \/ job'[k].seq # job'[i].seq

\* A waiting job is started: the first of its chain, or one that is let go.
Start(i) ==
    /\ job[i].phase = "waiting"
    /\ job[i].seq = 1 \/ \E p \in DOMAIN job : IsAt(p, job[i].chain, job[i].seq - 1) /\ LetsGo(p)
    /\ job' = [job EXCEPT ![i].phase = "running", ![i].token = @ + 1]

\* The jobs of S that have run are done: completed, or skipped by an operator.
Finish(S) ==
    /\ \A i \in S : job[i].phase # "done" /\ (Guarded => job[i].token > 0)
    /\ job' = [i \in DOMAIN job |-> IF i \in S THEN [job[i] EXCEPT !.phase = "done"] ELSE job[i]]

\* A job that has run has failed for good.
Fail(i) ==
    /\ job[i].phase # "done" /\ job[i].token > 0
    /\ job' = [job EXCEPT ![i].phase = "failed"]

\* A job is cancelled, or is to be.
Cancel(i) ==
    /\ job[i].phase # "done"
    /\ job' = [job EXCEPT ![i].phase = "cancelled"]

\* The jobs of S are to run again: retried, recovered or replayed.  Their tokens may be
\* raised at once, so that whoever ran them is fenced off.
Return(S, raise) ==
    /\ \A i \in S : job[i].phase # "done"
    /\ job' = [i \in DOMAIN job |->
                  IF i \in S THEN [job[i] EXCEPT !.phase = "waiting", !.token = @ + raise] ELSE job[i]]

\* Failed jobs are purged.
Remove(S) ==
    /\ CanRemove
    /\ \A i \in S : job[i].phase = "failed"
    /\ job' = [i \in DOMAIN job \ S |-> job[i]]

Next ==
    \/ Accept
    \/ \E i \in DOMAIN job : Start(i) \/ Fail(i) \/ Cancel(i)
    \/ \E S \in SUBSET DOMAIN job : Finish(S) \/ Return(S, 0) \/ Remove(S)
    \/ \E i \in DOMAIN job : job[i].token > 0 /\ Return({i}, 1)

Spec == Init /\ [][Next]_job

-----------------------------------------------------------------------------
(* What follows from the promise                                               *)

\* Type correctness.
ViewTypeOK == job \in [DOMAIN job -> JobView] /\ DOMAIN job \subseteq Id

\* No two jobs have the same place.
PlacesUnique ==
    \A i, k \in DOMAIN job : job[i].chain = job[k].chain /\ job[i].seq = job[k].seq => i = k

\* A job that has run is not before the first place of its chain, and has in every place
\* from the first to its own a job that has run.
StartedPrefix ==
    \A i \in DOMAIN job : job[i].token > 0 =>
        /\ job[i].seq >= 1
        /\ \A n \in 1 .. job[i].seq - 1 :
              \E p \in DOMAIN job : IsAt(p, job[i].chain, n) /\ job[p].token > 0

\* The places from m up to, not including, n are taken by strict jobs.
StrictBetween(c, m, n) ==
    \A k \in m .. n - 1 : \E p \in DOMAIN job : IsAt(p, c, k) /\ job[p].strict

\* When a job has run, every job before it with only strict jobs from there on is done:
\* order and, for two running jobs, exclusion.
StrictOrder ==
    \A i, k \in DOMAIN job :
        /\ job[i].chain = job[k].chain
        /\ 1 <= job[i].seq /\ job[i].seq < job[k].seq
        /\ job[k].token > 0
        /\ StrictBetween(job[i].chain, job[i].seq, job[k].seq)
        => job[i].phase = "done"

\* The same for the job just before, which is all that an unguarded repository keeps.
StrictPredecessor ==
    \A i, k \in DOMAIN job :
        /\ job[i].chain = job[k].chain /\ job[k].seq > 1 /\ job[i].seq = job[k].seq - 1
        /\ job[k].token > 0 /\ job[i].strict
        => job[i].phase = "done"
==============================================================================
