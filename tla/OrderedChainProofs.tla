-------------------------- MODULE OrderedChainProofs -------------------------
(***************************************************************************)
(* What the promise of OrderedChain gives the user of a repository, for    *)
(* every set of jobs and chains, proved once for all repositories, and the *)
(* lemmas by which the proofs of the SQL repositories show their steps to  *)
(* be the promised ones.                                                   *)
(***************************************************************************)
EXTENDS OrderedChain, TLAPS

\* The first of its chain, or let go by the job before it.
Startable(i) ==
    \/ job[i].seq = 1
    \/ \E p \in DOMAIN job : IsAt(p, job[i].chain, job[i].seq - 1) /\ LetsGo(p)

\* What every step except Accept leaves of the jobs: places and modes stay, tokens do not
\* fall, done is final, a first start is a start by the rules.
Frame ==
    /\ DOMAIN job' \subseteq DOMAIN job
    /\ ~CanRemove => DOMAIN job' = DOMAIN job
    /\ \A i \in DOMAIN job' :
          /\ job'[i].chain = job[i].chain
          /\ job'[i].seq = job[i].seq
          /\ job'[i].strict = job[i].strict
          /\ job'[i].token >= job[i].token
          /\ job[i].phase = "done" => job'[i].phase = "done"
          /\ job'[i].token > 0 => job[i].token > 0 \/ Startable(i)
          /\ Guarded /\ job'[i].phase \in {"done", "failed"}
                => job[i].phase \in {"done", "failed"} \/ job'[i].token > 0

\* Every step is an Accept or keeps the frame, and the types.
LEMMA StepFrame ==
    ASSUME ViewTypeOK, Next
    PROVE  ViewTypeOK' /\ (Accept \/ Frame)
<1> USE DEF ViewTypeOK, JobView, Phase
<1>1. CASE Accept
  BY <1>1 DEF Accept
<1>2. ASSUME NEW i \in DOMAIN job, Start(i) PROVE ViewTypeOK' /\ Frame
  BY <1>2 DEF Start, Frame, Startable
<1>3. ASSUME NEW i \in DOMAIN job, Fail(i) PROVE ViewTypeOK' /\ Frame
  BY <1>3 DEF Fail, Frame
<1>4. ASSUME NEW i \in DOMAIN job, Cancel(i) PROVE ViewTypeOK' /\ Frame
  BY <1>4 DEF Cancel, Frame
<1>5. ASSUME NEW S \in SUBSET DOMAIN job, Finish(S) PROVE ViewTypeOK' /\ Frame
  BY <1>5 DEF Finish, Frame
<1>6. ASSUME NEW S \in SUBSET DOMAIN job, NEW n \in Nat, Return(S, n),
             n = 0 \/ \A i \in S : job[i].token > 0
      PROVE  ViewTypeOK' /\ Frame
  <2>1. DOMAIN job' = DOMAIN job /\ job' = [k \in DOMAIN job |-> job'[k]]
    BY <1>6 DEF Return
  <2>2. ASSUME NEW k \in S
        PROVE  /\ job'[k].chain = job[k].chain /\ job'[k].seq = job[k].seq
               /\ job'[k].strict = job[k].strict
               /\ job'[k].phase = "waiting" /\ job[k].phase # "done"
               /\ job'[k].token = job[k].token + n
               /\ job'[k] \in JobView
    <3>1. job[k] \in JobView
      OBVIOUS
    <3>2. job'[k] = [job[k] EXCEPT !.phase = "waiting", !.token = job[k].token + n]
      BY <1>6 DEF Return
    <3>3. job[k].token + n \in Nat
      BY <3>1
    <3>4. \A t \in Nat : [job[k] EXCEPT !.phase = "waiting", !.token = t] \in JobView
      BY <3>1
    <3>5. job'[k].token = job[k].token + n /\ job'[k].phase = "waiting"
      BY <3>1, <3>2
    <3>6. job'[k].chain = job[k].chain /\ job'[k].seq = job[k].seq
          /\ job'[k].strict = job[k].strict
      BY <3>1, <3>2
    <3> QED BY <1>6, <3>2, <3>3, <3>4, <3>5, <3>6 DEF Return
  <2>3. ASSUME NEW k \in DOMAIN job \ S PROVE job'[k] = job[k] /\ job[k].token \in Nat
    BY <1>6, <2>3 DEF Return
  <2>4. ViewTypeOK'
    BY <2>1, <2>2, <2>3
  <2>5. ASSUME NEW k \in S
        PROVE  /\ job'[k].token >= job[k].token
               /\ job'[k].token > 0 => job[k].token > 0
    <3>1. job'[k].token = job[k].token + n /\ job[k].token \in Nat
      BY <2>2
    <3>2. n = 0 \/ job[k].token > 0
      BY <1>6
    <3> QED BY <3>1, <3>2
  <2> QED BY <2>1, <2>2, <2>3, <2>4, <2>5 DEF Frame
<1>7. ASSUME NEW S \in SUBSET DOMAIN job, Remove(S) PROVE ViewTypeOK' /\ Frame
  BY <1>7 DEF Remove, Frame
<1>8. ASSUME NEW i \in DOMAIN job, job[i].token > 0, Return({i}, 1) PROVE ViewTypeOK' /\ Frame
  BY <1>6, <1>8
<1> QED BY <1>1, <1>2, <1>3, <1>4, <1>5, <1>6, <1>7, <1>8 DEF Next

-----------------------------------------------------------------------------
(* The steps by their parts: how a repository shows that it takes one           *)

\* The jobs outside S stay as they are, those of S keep place and mode.
Keeps(S) ==
    /\ DOMAIN job' = DOMAIN job
    /\ \A i \in DOMAIN job \ S : job'[i] = job[i]
    /\ \A i \in S : /\ job'[i].chain = job[i].chain
                   /\ job'[i].seq = job[i].seq
                   /\ job'[i].strict = job[i].strict

\* Start.
LEMMA StartByParts ==
    ASSUME ViewTypeOK, ViewTypeOK', NEW i \in DOMAIN job, Keeps({i}), Startable(i),
           job[i].phase = "waiting", job'[i].phase = "running", job'[i].token = job[i].token + 1
    PROVE  Next
<1>1. job'[i] = [job[i] EXCEPT !.phase = "running", !.token = job[i].token + 1]
  <2>1. job[i] \in JobView /\ job'[i] \in JobView
    BY DEF Keeps, ViewTypeOK
  <2> QED BY <2>1 DEF Keeps, JobView
<1>2. job' = [k \in DOMAIN job |-> job'[k]] /\ job = [k \in DOMAIN job |-> job[k]]
  BY DEF Keeps, ViewTypeOK
<1>3. job' = [job EXCEPT ![i] = job'[i]]
  BY <1>2 DEF Keeps
<1>4. job' = [job EXCEPT ![i].phase = "running", ![i].token = job[i].token + 1]
  BY <1>1, <1>3
<1> QED BY <1>4 DEF Next, Start, Startable

\* Fail.
LEMMA FailByParts ==
    ASSUME ViewTypeOK, ViewTypeOK', NEW i \in DOMAIN job, Keeps({i}), job[i].phase # "done",
           job[i].token > 0, job'[i].phase = "failed", job'[i].token = job[i].token
    PROVE  Next
<1>1. job' = [job EXCEPT ![i].phase = "failed"]
  BY DEF Keeps, ViewTypeOK, JobView
<1> QED BY <1>1 DEF Next, Fail

\* Cancel.
LEMMA CancelByParts ==
    ASSUME ViewTypeOK, ViewTypeOK', NEW i \in DOMAIN job, Keeps({i}), job[i].phase # "done",
           job'[i].phase = "cancelled", job'[i].token = job[i].token
    PROVE  Next
<1>1. job' = [job EXCEPT ![i].phase = "cancelled"]
  BY DEF Keeps, ViewTypeOK, JobView
<1> QED BY <1>1 DEF Next, Cancel

\* Finish.
LEMMA FinishByParts ==
    ASSUME ViewTypeOK, ViewTypeOK', NEW S \in SUBSET DOMAIN job, Keeps(S),
           \A i \in S : /\ job[i].phase # "done" /\ (Guarded => job[i].token > 0)
                        /\ job'[i].phase = "done" /\ job'[i].token = job[i].token
    PROVE  Next
<1>1. ASSUME NEW i \in S PROVE job'[i] = [job[i] EXCEPT !.phase = "done"]
  <2>1. job[i] \in JobView /\ job'[i] \in JobView
    BY DEF Keeps, ViewTypeOK
  <2> QED BY <2>1 DEF Keeps, JobView
<1>2. job' = [i \in DOMAIN job |-> job'[i]]
  BY DEF Keeps, ViewTypeOK
<1>3. job' = [i \in DOMAIN job |-> IF i \in S THEN [job[i] EXCEPT !.phase = "done"] ELSE job[i]]
  BY <1>1, <1>2 DEF Keeps
<1>4. Finish(S)
  BY <1>3 DEF Finish
<1> QED BY <1>4 DEF Next

\* Return without a raised token.
LEMMA ReturnByParts ==
    ASSUME ViewTypeOK, ViewTypeOK', NEW S \in SUBSET DOMAIN job, Keeps(S),
           \A i \in S : /\ job[i].phase # "done"
                        /\ job'[i].phase = "waiting" /\ job'[i].token = job[i].token
    PROVE  Next
<1>1. ASSUME NEW i \in S
      PROVE  job'[i] = [job[i] EXCEPT !.phase = "waiting", !.token = job[i].token + 0]
  <2>1. job[i] \in JobView /\ job'[i] \in JobView
    BY DEF Keeps, ViewTypeOK
  <2>2. job[i].token + 0 = job[i].token
    BY <2>1 DEF JobView
  <2>3. job'[i] = [job[i] EXCEPT !.phase = "waiting", !.token = job[i].token]
    BY <2>1 DEF Keeps, JobView
  <2> QED BY <2>2, <2>3
<1>2. job' = [i \in DOMAIN job |-> job'[i]]
  BY DEF Keeps, ViewTypeOK
<1>3. job' = [i \in DOMAIN job |->
                 IF i \in S THEN [job[i] EXCEPT !.phase = "waiting", !.token = job[i].token + 0]
                 ELSE job[i]]
  BY <1>1, <1>2 DEF Keeps
<1>4. Return(S, 0)
  BY <1>3 DEF Return
<1> QED BY <1>4 DEF Next

\* Return of one job, which is fenced off from whoever ran it.
LEMMA FenceByParts ==
    ASSUME ViewTypeOK, ViewTypeOK', NEW i \in DOMAIN job, Keeps({i}), job[i].phase # "done",
           job[i].token > 0, job'[i].phase = "waiting", job'[i].token = job[i].token + 1
    PROVE  Next
<1>1. job'[i] = [job[i] EXCEPT !.phase = "waiting", !.token = job[i].token + 1]
  <2>1. job[i] \in JobView /\ job'[i] \in JobView
    BY DEF Keeps, ViewTypeOK
  <2> QED BY <2>1 DEF Keeps, JobView
<1>2. job' = [k \in DOMAIN job |-> job'[k]]
  BY DEF Keeps, ViewTypeOK
<1>3. job' = [k \in DOMAIN job |->
                 IF k \in {i} THEN [job[k] EXCEPT !.phase = "waiting", !.token = job[k].token + 1]
                 ELSE job[k]]
  BY <1>1, <1>2 DEF Keeps
<1>4. Return({i}, 1)
  BY <1>3 DEF Return
<1> QED BY <1>4 DEF Next

\* Remove.
LEMMA RemoveByParts ==
    ASSUME ViewTypeOK', NEW S \in SUBSET DOMAIN job, CanRemove,
           DOMAIN job' = DOMAIN job \ S, \A i \in DOMAIN job' : job'[i] = job[i],
           \A i \in S : job[i].phase = "failed"
    PROVE  Next
<1>1. job' = [i \in DOMAIN job \ S |-> job[i]]
  BY DEF ViewTypeOK
<1> QED BY <1>1 DEF Next, Remove

\* Accept.
LEMMA AcceptByParts ==
    ASSUME ViewTypeOK', PlacesUnique', DOMAIN job \subseteq DOMAIN job',
           \A i \in DOMAIN job : job'[i] = job[i],
           \A i \in DOMAIN job' \ DOMAIN job : job'[i].phase = "waiting" /\ job'[i].token = 0
    PROVE  Next
<1>1. job' = [i \in DOMAIN job' |-> job'[i]] /\ DOMAIN job' \subseteq Id
      /\ \A i \in DOMAIN job' : job'[i] \in JobView
  BY DEF ViewTypeOK
<1>2. Accept
  BY <1>1 DEF Accept, PlacesUnique
<1> QED BY <1>2 DEF Next

-----------------------------------------------------------------------------
(* Places                                                                      *)

\* Places stay unique: new jobs take free ones, old jobs keep theirs.
LEMMA StepPlaces ==
    ASSUME ViewTypeOK, PlacesUnique, Next
    PROVE  PlacesUnique'
<1>1. CASE Accept
  <2> SUFFICES ASSUME NEW i \in DOMAIN job', NEW k \in DOMAIN job',
                      job'[i].chain = job'[k].chain, job'[i].seq = job'[k].seq
               PROVE  i = k
    BY DEF PlacesUnique
  <2>1. CASE i \in DOMAIN job /\ k \in DOMAIN job
    BY <1>1, <2>1 DEF Accept, PlacesUnique
  <2>2. CASE i \notin DOMAIN job
    BY <1>1, <2>2 DEF Accept
  <2>3. CASE k \notin DOMAIN job
    BY <1>1, <2>3 DEF Accept
  <2> QED BY <2>1, <2>2, <2>3
<1>2. CASE Frame
  BY <1>2 DEF Frame, PlacesUnique
<1> QED BY <1>1, <1>2, StepFrame

\* The promise is well typed and gives no place twice, for every repository.
THEOREM PlacesHold == Spec => [](ViewTypeOK /\ PlacesUnique)
<1>1. Init => ViewTypeOK /\ PlacesUnique
  BY DEF Init, ViewTypeOK, PlacesUnique
<1>2. ViewTypeOK /\ PlacesUnique /\ [Next]_job => (ViewTypeOK /\ PlacesUnique)'
  BY StepFrame, StepPlaces DEF ViewTypeOK, PlacesUnique
<1> QED BY <1>1, <1>2, PTL DEF Spec

-----------------------------------------------------------------------------
(* Strict order, when no job is removed and starts are guarded                 *)

\* Only a job that has run is done or failed.
EndedHasRun == \A i \in DOMAIN job : job[i].phase \in {"done", "failed"} => job[i].token > 0

\* A step keeps it.
LEMMA StepEnded ==
    ASSUME ViewTypeOK, EndedHasRun, Guarded, Next
    PROVE  EndedHasRun'
<1>1. CASE Accept
  BY <1>1 DEF Accept, EndedHasRun, ViewTypeOK, JobView
<1>2. CASE Frame
  <2>1. ViewTypeOK'
    BY StepFrame
  <2> QED BY <1>2, <2>1 DEF Frame, EndedHasRun, ViewTypeOK, JobView
<1> QED BY <1>1, <1>2, StepFrame

\* The job before a started one has run: a started job never has an unstarted one, or a
\* hole, in front of it.
LEMMA StepPrefix ==
    ASSUME ViewTypeOK, EndedHasRun, StartedPrefix, Guarded, ~CanRemove, Next
    PROVE  StartedPrefix'
<1> SUFFICES ASSUME NEW i \in DOMAIN job', job'[i].token > 0
             PROVE  /\ job'[i].seq >= 1
                    /\ \A n \in 1 .. job'[i].seq - 1 :
                          \E p \in DOMAIN job' : IsAt(p, job[i].chain, n)' /\ job'[p].token > 0
  BY DEF StartedPrefix, IsAt
<1>1. CASE Accept
  <2>1. i \in DOMAIN job /\ job'[i] = job[i]
    BY <1>1 DEF Accept
  <2>2. ASSUME NEW n \in 1 .. job[i].seq - 1
        PROVE  \E p \in DOMAIN job' : IsAt(p, job[i].chain, n)' /\ job'[p].token > 0
    <3>1. PICK p \in DOMAIN job : IsAt(p, job[i].chain, n) /\ job[p].token > 0
      BY <2>1 DEF StartedPrefix
    <3> QED BY <1>1, <2>1, <3>1 DEF Accept, IsAt
  <2> QED BY <2>1, <2>2 DEF StartedPrefix
<1>2. CASE Frame
  <2>1. /\ i \in DOMAIN job /\ DOMAIN job' = DOMAIN job
        /\ job'[i].chain = job[i].chain /\ job'[i].seq = job[i].seq /\ job[i].seq \in Int
    BY <1>2 DEF Frame, ViewTypeOK, JobView
  <2>2. ASSUME NEW p \in DOMAIN job, NEW n, IsAt(p, job[i].chain, n), job[p].token > 0
        PROVE  IsAt(p, job[i].chain, n)' /\ job'[p].token > 0
    <3>1. ViewTypeOK'
      BY StepFrame
    <3>2. job[p].token \in Nat /\ job'[p].token \in Nat
      BY <2>1, <3>1 DEF ViewTypeOK, JobView
    <3> QED BY <1>2, <2>1, <2>2, <3>2 DEF Frame, IsAt
  <2>3. /\ job[i].seq >= 1
        /\ \A n \in 1 .. job[i].seq - 1 :
              \E p \in DOMAIN job : IsAt(p, job[i].chain, n) /\ job[p].token > 0
    <3>1. CASE job[i].token > 0
      BY <2>1, <3>1 DEF StartedPrefix
    <3>2. CASE ~(job[i].token > 0) /\ job[i].seq = 1
      BY <3>2
    <3>3. CASE ~(job[i].token > 0) /\ job[i].seq # 1
      <4>1. PICK p \in DOMAIN job : IsAt(p, job[i].chain, job[i].seq - 1) /\ LetsGo(p)
        BY <1>2, <3>3 DEF Frame, Startable
      <4>2. /\ job[p].token > 0 /\ job[p].seq = job[i].seq - 1 /\ job[p].chain = job[i].chain
            /\ job[p].seq >= 1
        BY <4>1 DEF LetsGo, EndedHasRun, IsAt, StartedPrefix
      <4>3. ASSUME NEW n \in 1 .. job[i].seq - 1
            PROVE  \E q \in DOMAIN job : IsAt(q, job[i].chain, n) /\ job[q].token > 0
        <5>1. CASE n = job[i].seq - 1
          BY <4>1, <4>2, <5>1
        <5>2. CASE n # job[i].seq - 1
          <6>1. n \in 1 .. job[p].seq - 1
            BY <2>1, <4>2, <5>2
          <6> QED BY <4>2, <6>1 DEF StartedPrefix
        <5> QED BY <5>1, <5>2
      <4>4. job[i].seq >= 1
        BY <2>1, <4>2
      <4> QED BY <4>3, <4>4
    <3> QED BY <3>1, <3>2, <3>3
  <2> QED BY <2>1, <2>2, <2>3
<1> QED BY <1>1, <1>2, StepFrame

\* In front of a started job every place is taken by an old job, so an Accept changes
\* nothing there.
LEMMA AcceptBefore ==
    ASSUME ViewTypeOK, StartedPrefix, Accept, NEW k \in DOMAIN job', job'[k].token > 0,
           NEW i \in DOMAIN job', job'[i].chain = job'[k].chain,
           1 <= job'[i].seq, job'[i].seq < job'[k].seq
    PROVE  /\ k \in DOMAIN job /\ job'[k] = job[k]
           /\ i \in DOMAIN job /\ job'[i] = job[i]
<1>1. k \in DOMAIN job /\ job'[k] = job[k]
  BY DEF Accept
<1>2. job'[i].seq \in Int /\ job[k].seq \in Int
  BY <1>1 DEF Accept, ViewTypeOK, JobView
<1>3. PICK p \in DOMAIN job : IsAt(p, job[k].chain, job'[i].seq)
  BY <1>1, <1>2 DEF StartedPrefix
<1>4. p \in DOMAIN job' /\ job'[p].chain = job'[i].chain /\ job'[p].seq = job'[i].seq
  BY <1>1, <1>3 DEF Accept, IsAt
<1>5. i \in DOMAIN job
  BY <1>3, <1>4 DEF Accept
<1> QED BY <1>1, <1>5 DEF Accept

\* Strict order is kept: whatever starts is let go by the job before it, which has run.
LEMMA StepOrder ==
    ASSUME ViewTypeOK, PlacesUnique, EndedHasRun, StartedPrefix, StrictOrder,
           Guarded, ~CanRemove, Next
    PROVE  StrictOrder'
<1> SUFFICES ASSUME NEW i \in DOMAIN job', NEW k \in DOMAIN job',
                    job'[i].chain = job'[k].chain,
                    1 <= job'[i].seq, job'[i].seq < job'[k].seq, job'[k].token > 0,
                    StrictBetween(job[i].chain, job[i].seq, job[k].seq)'
             PROVE  job'[i].phase = "done"
  BY DEF StrictOrder
<1> DEFINE Strict(n) == \E p \in DOMAIN job : IsAt(p, job[i].chain, n) /\ job[p].strict
<1>1. CASE Accept
  <2>1. /\ i \in DOMAIN job /\ job'[i] = job[i]
        /\ k \in DOMAIN job /\ job'[k] = job[k]
    BY <1>1, AcceptBefore
  <2>2. ASSUME NEW n \in job[i].seq .. job[k].seq - 1 PROVE Strict(n)
    <3>1. PICK p \in DOMAIN job' : IsAt(p, job[i].chain, n)' /\ job'[p].strict
      BY <2>1 DEF StrictBetween
    <3>2. /\ job'[p].chain = job'[k].chain /\ job'[p].seq = n
          /\ 1 <= job'[p].seq /\ job'[p].seq < job'[k].seq
      BY <2>1, <3>1 DEF IsAt, ViewTypeOK, JobView
    <3>3. p \in DOMAIN job /\ job'[p] = job[p]
      BY <1>1, <3>2, AcceptBefore
    <3> QED BY <2>1, <3>1, <3>3 DEF IsAt
  <2>3. StrictBetween(job[i].chain, job[i].seq, job[k].seq)
    BY <2>2 DEF StrictBetween
  <2> QED BY <2>1, <2>3 DEF StrictOrder
<1>2. CASE Frame
  <2>1. /\ i \in DOMAIN job /\ k \in DOMAIN job /\ DOMAIN job' = DOMAIN job
        /\ job'[i].chain = job[i].chain /\ job'[i].seq = job[i].seq
        /\ job'[k].chain = job[k].chain /\ job'[k].seq = job[k].seq
        /\ job[i].seq \in Int /\ job[k].seq \in Int
    BY <1>2 DEF Frame, ViewTypeOK, JobView
  <2>2. ASSUME NEW n \in job[i].seq .. job[k].seq - 1 PROVE Strict(n)
    <3>1. PICK p \in DOMAIN job' : IsAt(p, job[i].chain, n)' /\ job'[p].strict
      BY <2>1 DEF StrictBetween
    <3> QED BY <1>2, <2>1, <3>1 DEF Frame, IsAt
  <2>3. job[i].phase = "done"
    <3>1. CASE job[k].token > 0
      <4>1. StrictBetween(job[i].chain, job[i].seq, job[k].seq)
        BY <2>2 DEF StrictBetween
      <4> QED BY <2>1, <3>1, <4>1 DEF StrictOrder
    <3>2. CASE ~(job[k].token > 0)
      <4>1. PICK p \in DOMAIN job : IsAt(p, job[k].chain, job[k].seq - 1) /\ LetsGo(p)
        BY <1>2, <2>1, <3>2 DEF Frame, Startable
      <4>2. /\ job[p].token > 0 /\ job[p].chain = job[i].chain
            /\ job[p].seq = job[k].seq - 1
        BY <2>1, <4>1 DEF LetsGo, EndedHasRun, IsAt
      <4>3. CASE job[i].seq = job[k].seq - 1
        <5>1. i = p
          BY <2>1, <4>2, <4>3 DEF PlacesUnique
        <5>2. job[i].strict
          <6>1. PICK q \in DOMAIN job : IsAt(q, job[i].chain, job[i].seq) /\ job[q].strict
            BY <2>1, <2>2
          <6> QED BY <2>1, <6>1 DEF PlacesUnique, IsAt
        <5> QED BY <4>1, <5>1, <5>2 DEF LetsGo
      <4>4. CASE job[i].seq # job[k].seq - 1
        <5>1. job[i].seq < job[p].seq
          BY <2>1, <4>2, <4>4
        <5>2. StrictBetween(job[i].chain, job[i].seq, job[p].seq)
          BY <2>1, <2>2, <4>2 DEF StrictBetween
        <5> QED BY <2>1, <4>2, <5>1, <5>2 DEF StrictOrder
      <4> QED BY <4>3, <4>4
    <3> QED BY <3>1, <3>2
  <2> QED BY <1>2, <2>1, <2>3 DEF Frame
<1> QED BY <1>1, <1>2, StepFrame

\* The inductive invariant of a guarded promise without removals: StrictOrder is not
\* inductive alone, it needs to know that a started job has no hole in front of it.
OrderInv == ViewTypeOK /\ PlacesUnique /\ EndedHasRun /\ StartedPrefix /\ StrictOrder

\* A guarded repository from which nothing is purged runs every strict stretch of a chain
\* in order and one job at a time, and starts no job behind a hole.
THEOREM StrictOrderHolds ==
    ASSUME Guarded, ~CanRemove
    PROVE  Spec => [](StartedPrefix /\ StrictOrder)
<1>1. Init => OrderInv
  BY DEF Init, OrderInv, ViewTypeOK, PlacesUnique, EndedHasRun, StartedPrefix, StrictOrder
<1>2. OrderInv /\ [Next]_job => OrderInv'
  <2> SUFFICES ASSUME OrderInv, [Next]_job PROVE OrderInv'
    OBVIOUS
  <2>1. CASE Next
    BY <2>1, StepFrame, StepPlaces, StepEnded, StepPrefix, StepOrder DEF OrderInv
  <2>2. CASE UNCHANGED job
    BY <2>2 DEF OrderInv, ViewTypeOK, PlacesUnique, EndedHasRun, StartedPrefix, StrictOrder,
                StrictBetween, IsAt
  <2> QED BY <2>1, <2>2
<1>3. OrderInv => StartedPrefix /\ StrictOrder
  BY DEF OrderInv
<1> QED BY <1>1, <1>2, <1>3, PTL DEF Spec

-----------------------------------------------------------------------------
(* What is left of it without the guard                                        *)

\* The place before a started job is taken.
StartedHasPredecessor ==
    \A i \in DOMAIN job : job[i].token > 0 /\ job[i].seq > 1 =>
        \E p \in DOMAIN job : IsAt(p, job[i].chain, job[i].seq - 1)

\* A step keeps it.
LEMMA StepPredecessor ==
    ASSUME ViewTypeOK, StartedHasPredecessor, ~CanRemove, Next
    PROVE  StartedHasPredecessor'
<1> SUFFICES ASSUME NEW i \in DOMAIN job', job'[i].token > 0, job'[i].seq > 1
             PROVE  \E p \in DOMAIN job' : IsAt(p, job[i].chain, job[i].seq - 1)'
  BY DEF StartedHasPredecessor
<1>1. CASE Accept
  <2>1. i \in DOMAIN job /\ job'[i] = job[i]
    BY <1>1 DEF Accept
  <2>2. PICK p \in DOMAIN job : IsAt(p, job[i].chain, job[i].seq - 1)
    BY <2>1 DEF StartedHasPredecessor
  <2> QED BY <1>1, <2>1, <2>2 DEF Accept, IsAt
<1>2. CASE Frame
  <2>1. /\ i \in DOMAIN job /\ DOMAIN job' = DOMAIN job
        /\ job'[i].chain = job[i].chain /\ job'[i].seq = job[i].seq /\ job[i].seq \in Int
    BY <1>2 DEF Frame, ViewTypeOK, JobView
  <2>2. PICK p \in DOMAIN job : IsAt(p, job[i].chain, job[i].seq - 1)
    BY <1>2, <2>1 DEF Frame, Startable, StartedHasPredecessor
  <2> QED BY <1>2, <2>1, <2>2 DEF Frame, IsAt
<1> QED BY <1>1, <1>2, StepFrame

\* A strict job is done once the job after it has started, and stays so.
LEMMA StepStrictPredecessor ==
    ASSUME ViewTypeOK, PlacesUnique, StartedHasPredecessor, StrictPredecessor,
           ~CanRemove, Next
    PROVE  StrictPredecessor'
<1> SUFFICES ASSUME NEW i \in DOMAIN job', NEW k \in DOMAIN job',
                    job'[i].chain = job'[k].chain, job'[k].seq > 1,
                    job'[i].seq = job'[k].seq - 1, job'[k].token > 0, job'[i].strict
             PROVE  job'[i].phase = "done"
  BY DEF StrictPredecessor
<1>1. CASE Accept
  <2>1. k \in DOMAIN job /\ job'[k] = job[k]
    BY <1>1 DEF Accept
  <2>2. PICK p \in DOMAIN job : IsAt(p, job[k].chain, job[k].seq - 1)
    BY <2>1 DEF StartedHasPredecessor
  <2>3. p \in DOMAIN job' /\ job'[p].chain = job'[i].chain /\ job'[p].seq = job'[i].seq
    BY <1>1, <2>1, <2>2 DEF Accept, IsAt
  <2>4. i \in DOMAIN job /\ job'[i] = job[i]
    BY <1>1, <2>2, <2>3 DEF Accept
  <2> QED BY <2>1, <2>4 DEF StrictPredecessor
<1>2. CASE Frame
  <2>1. /\ i \in DOMAIN job /\ k \in DOMAIN job /\ DOMAIN job' = DOMAIN job
        /\ job'[i].chain = job[i].chain /\ job'[i].seq = job[i].seq
        /\ job'[k].chain = job[k].chain /\ job'[k].seq = job[k].seq
        /\ job[i].seq \in Int /\ job[k].seq \in Int
    BY <1>2 DEF Frame, ViewTypeOK, JobView
  <2>2. job[i].strict
    BY <1>2 DEF Frame
  <2>3. job[i].phase = "done"
    <3>1. CASE job[k].token > 0
      BY <2>1, <2>2, <3>1 DEF StrictPredecessor
    <3>2. CASE ~(job[k].token > 0)
      <4>1. PICK p \in DOMAIN job : IsAt(p, job[k].chain, job[k].seq - 1) /\ LetsGo(p)
        BY <1>2, <2>1, <3>2 DEF Frame, Startable
      <4>2. i = p
        BY <2>1, <4>1 DEF PlacesUnique, IsAt
      <4> QED BY <2>2, <4>1, <4>2 DEF LetsGo
    <3> QED BY <3>1, <3>2
  <2> QED BY <1>2, <2>1, <2>3 DEF Frame
<1> QED BY <1>1, <1>2, StepFrame

\* The inductive invariant of an unguarded promise without removals.
PredecessorInv == ViewTypeOK /\ PlacesUnique /\ StartedHasPredecessor /\ StrictPredecessor

\* Even an unguarded repository, where waiting jobs are skipped and uncommitted ends are
\* read, never starts a job before the strict job just in front of it is done, unless jobs
\* are purged.
THEOREM StrictPredecessorHolds ==
    ASSUME ~CanRemove
    PROVE  Spec => []StrictPredecessor
<1>1. Init => PredecessorInv
  BY DEF Init, PredecessorInv, ViewTypeOK, PlacesUnique, StartedHasPredecessor, StrictPredecessor
<1>2. PredecessorInv /\ [Next]_job => PredecessorInv'
  <2> SUFFICES ASSUME PredecessorInv, [Next]_job PROVE PredecessorInv'
    OBVIOUS
  <2>1. CASE Next
    BY <2>1, StepFrame, StepPlaces, StepPredecessor, StepStrictPredecessor DEF PredecessorInv
  <2>2. CASE UNCHANGED job
    BY <2>2 DEF PredecessorInv, ViewTypeOK, PlacesUnique, StartedHasPredecessor,
                StrictPredecessor, IsAt
  <2> QED BY <2>1, <2>2
<1>3. PredecessorInv => StrictPredecessor
  BY DEF PredecessorInv
<1> QED BY <1>1, <1>2, <1>3, PTL DEF Spec
==============================================================================
