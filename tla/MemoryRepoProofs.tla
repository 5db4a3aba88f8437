-------------------------- MODULE MemoryRepoProofs ---------------------------
(***************************************************************************)
(* Proofs about the in-memory repository, for every set of jobs, chains,   *)
(* workers, requests and commands.                                         *)
(***************************************************************************)
EXTENDS MemoryRepo, FiniteSetTheorems, WellFoundedInduction, TLAPS

\* The two maps have their types.
MapsTyped(js, ch) ==
    /\ DOMAIN js \subseteq JobId
    /\ js \in [DOMAIN js -> Job]
    /\ ch = [c \in ChainId |-> ch[c]]
    /\ \A c \in ChainId : /\ ch[c] \in [DOMAIN ch[c] -> JobId]
                          /\ DOMAIN ch[c] \subseteq Int

\* Every chain's sequences have an upper bound: without it a highest sequence, which
\* automatic numbering starts from, need not exist.
IndexBounded(ch) == \A c \in ChainId : \E n \in Nat : \A s \in DOMAIN ch[c] : s <= n

\* IndexConsistent, UniqueIdempotencyKey and ChainMutex of arbitrary maps.
Indexed(js, ch) ==
    /\ \A c \in ChainId : \A s \in DOMAIN ch[c] :
          /\ ch[c][s] \in DOMAIN js
          /\ js[ch[c][s]].chain = c
          /\ js[ch[c][s]].seq = s
    /\ \A id \in DOMAIN js : /\ js[id].seq \in DOMAIN ch[js[id].chain]
                             /\ ch[js[id].chain][js[id].seq] = id

KeysUnique(js) ==
    \A i, j \in DOMAIN js : js[i].key = js[j].key /\ js[i].key # NoKey => i = j

Mutex(js) ==
    \A i, j \in DOMAIN js :
        /\ js[i].chain = js[j].chain
        /\ js[i].status = "PROCESSING" /\ js[j].status = "PROCESSING"
        => i = j

MapsOK(js, ch) ==
    MapsTyped(js, ch) /\ IndexBounded(ch) /\ Indexed(js, ch) /\ KeysUnique(js) /\ Mutex(js)

\* The inductive invariant of the repository.
RepoInv == MapsOK(jobs, chain) /\ DOMAIN jobs \subseteq issued /\ issued \subseteq JobId

-----------------------------------------------------------------------------
(* Enqueue                                                                     *)

\* getMaxSequence returns an upper bound of the chain's sequences: the sequence that
\* automatic numbering picks is free.
LEMMA MaxSequence ==
    ASSUME NEW m, DOMAIN m \subseteq Int,
           NEW n \in Nat, \A s \in DOMAIN m : s <= n
    PROVE  /\ getMaxSequence(m) \in DOMAIN m \cup {0}
           /\ getMaxSequence(m) \in Nat
           /\ \A s \in DOMAIN m : s <= getMaxSequence(m)
<1> DEFINE T == {k \in Nat : \A s \in DOMAIN m : s <= k}
<1>1. T \subseteq Nat /\ n \in T
  OBVIOUS
<1>2. PICK k \in T : \A j \in T : ~(<<j, k>> \in OpToRel(<, Nat))
  <2>1. \E k \in T : \A j \in T : ~(<<j, k>> \in OpToRel(<, Nat))
    <3> HIDE DEF T
    <3> QED BY <1>1, NatLessThanWellFounded, WFMin, Zenon
  <2> QED BY <2>1
<1>3. \A j \in T : ~(j < k)
  BY <1>2 DEF OpToRel
<1>4. k \in DOMAIN m \cup {0}
  <2> SUFFICES ASSUME k \notin DOMAIN m \cup {0} PROVE FALSE
    OBVIOUS
  <2>1. k \in Nat /\ k # 0 /\ k - 1 \in Nat /\ k - 1 < k
    OBVIOUS
  <2>2. \A s \in DOMAIN m : s <= k - 1
    <3> SUFFICES ASSUME NEW s \in DOMAIN m PROVE s <= k - 1
      OBVIOUS
    <3>1. s \in Int /\ s <= k /\ s # k
      OBVIOUS
    <3> QED BY <3>1, <2>1
  <2>3. k - 1 \in T
    BY <2>1, <2>2
  <2> QED BY <2>1, <2>3, <1>3
<1>5. k \in Nat /\ \A s \in DOMAIN m \cup {0} : s <= k
  <2>1. k \in Nat /\ \A s \in DOMAIN m : s <= k
    OBVIOUS
  <2>2. 0 <= k
    BY <2>1
  <2> QED BY <2>1, <2>2
<1>6. /\ getMaxSequence(m) \in DOMAIN m \cup {0}
      /\ \A s \in DOMAIN m \cup {0} : s <= getMaxSequence(m)
  <2>1. \E x \in DOMAIN m \cup {0} : \A s \in DOMAIN m \cup {0} : s <= x
    BY <1>4, <1>5
  <2> QED BY <2>1 DEF getMaxSequence
<1>7. 0 <= getMaxSequence(m) /\ getMaxSequence(m) \in Int
  BY <1>6
<1> QED BY <1>6, <1>7

\* The job a request becomes is well typed.
LEMMA NewJobTyped ==
    ASSUME NEW req \in Request, req.chain \in ChainId, NEW seq \in Int, NEW st \in Status
    PROVE  NewJob(req, seq, st) \in Job
BY DefaultAssumption DEF NewJob, Request, Job, OrderingMode, Avail, Lease, Status

\* The sequence Enqueue settles on is an integer that the chain does not use yet.
LEMMA SequenceIsFree ==
    ASSUME NEW js, NEW ch, MapsOK(js, ch), NEW c \in ChainId, NEW q \in Int,
           ~SequenceRejected(ch[c], q)
    PROVE  /\ ResolvedSequence(ch[c], q) \in Int
           /\ ResolvedSequence(ch[c], q) \notin DOMAIN ch[c]
<1>1. PICK n \in Nat : \A s \in DOMAIN ch[c] : s <= n
  BY DEF MapsOK, IndexBounded
<1>2. DOMAIN ch[c] \subseteq Int
  BY DEF MapsOK, MapsTyped
<1>3. /\ getMaxSequence(ch[c]) \in Int
      /\ \A s \in DOMAIN ch[c] : s <= getMaxSequence(ch[c])
  BY <1>1, <1>2, MaxSequence
<1>4. CASE q = 0
  <2>1. getMaxSequence(ch[c]) + 1 \notin DOMAIN ch[c]
    BY <1>2, <1>3
  <2> QED BY <1>3, <1>4, <2>1 DEF ResolvedSequence
<1>5. CASE q # 0
  BY <1>5 DEF SequenceRejected, ResolvedSequence
<1> QED BY <1>4, <1>5

\* Inserting a job under a fresh id and a free sequence, with a key no stored job has,
\* keeps the maps in order.
LEMMA InsertKeepsMaps ==
    ASSUME NEW js, NEW ch, MapsOK(js, ch),
           NEW id \in JobId, id \notin DOMAIN js,
           NEW job \in Job, job.status # "PROCESSING",
           job.seq \notin DOMAIN ch[job.chain],
           job.key # NoKey => \A i \in DOMAIN js : js[i].key # job.key
    PROVE  MapsOK(Put(js, id, job), [ch EXCEPT ![job.chain] = Put(ch[job.chain], job.seq, id)])
<1> DEFINE c == job.chain
           ch2 == [ch EXCEPT ![c] = Put(ch[c], job.seq, id)]
           js2 == Put(js, id, job)
<1>1. c \in ChainId /\ job.seq \in Int
  BY DEF Job
<1>2. /\ DOMAIN js2 = DOMAIN js \cup {id}
      /\ js2[id] = job
      /\ \A x \in DOMAIN js : js2[x] = js[x]
  BY DEF Put
<1>3. /\ ch2 = [x \in ChainId |-> ch2[x]]
      /\ ch2[c] = Put(ch[c], job.seq, id)
      /\ \A x \in ChainId : x # c => ch2[x] = ch[x]
  BY <1>1 DEF MapsOK, MapsTyped
<1>4. /\ DOMAIN ch2[c] = DOMAIN ch[c] \cup {job.seq}
      /\ ch2[c][job.seq] = id
      /\ \A s \in DOMAIN ch[c] : ch2[c][s] = ch[c][s]
  BY <1>3 DEF Put
<1>5. MapsTyped(js2, ch2)
  <2>1. DOMAIN js2 \subseteq JobId
    BY <1>2 DEF MapsOK, MapsTyped
  <2>2. js2 \in [DOMAIN js2 -> Job]
    BY <1>2 DEF MapsOK, MapsTyped, Put
  <2>3. ASSUME NEW x \in ChainId
        PROVE  ch2[x] \in [DOMAIN ch2[x] -> JobId] /\ DOMAIN ch2[x] \subseteq Int
    <3>1. CASE x = c
      BY <1>1, <1>3, <1>4, <3>1 DEF MapsOK, MapsTyped, Put
    <3>2. CASE x # c
      BY <1>3, <3>2 DEF MapsOK, MapsTyped
    <3> QED BY <3>1, <3>2
  <2> HIDE DEF ch2, js2
  <2> QED BY <1>3, <2>1, <2>2, <2>3 DEF MapsTyped
<1>6. IndexBounded(ch2)
  <2> SUFFICES ASSUME NEW x \in ChainId PROVE \E n \in Nat : \A s \in DOMAIN ch2[x] : s <= n
    BY DEF IndexBounded
  <2>1. PICK n \in Nat : \A s \in DOMAIN ch[x] : s <= n
    BY DEF MapsOK, IndexBounded
  <2>2. CASE x # c
    BY <1>3, <2>1, <2>2
  <2>3. CASE x = c
    <3> DEFINE b == IF job.seq > n THEN job.seq ELSE n
    <3>1. b \in Nat /\ job.seq <= b /\ n <= b
      BY <1>1
    <3>2. \A s \in DOMAIN ch[c] : s \in Int /\ s <= n
      BY <1>1, <2>1, <2>3 DEF MapsOK, MapsTyped
    <3>3. \A s \in DOMAIN ch2[c] : s <= b
      <4> HIDE DEF ch2, b
      <4> QED BY <3>1, <3>2, <1>4
    <3> QED BY <3>1, <3>3, <2>3
  <2> QED BY <2>2, <2>3
<1>7. Indexed(js2, ch2)
  <2>1. ASSUME NEW x \in ChainId, NEW s \in DOMAIN ch2[x]
        PROVE  ch2[x][s] \in DOMAIN js2 /\ js2[ch2[x][s]].chain = x /\ js2[ch2[x][s]].seq = s
    <3>1. CASE x = c /\ s = job.seq
      BY <1>2, <1>4, <3>1
    <3>2. CASE ~(x = c /\ s = job.seq)
      <4>1. s \in DOMAIN ch[x] /\ ch2[x][s] = ch[x][s]
        BY <1>3, <1>4, <2>1, <3>2
      <4>2. ch[x][s] \in DOMAIN js /\ js[ch[x][s]].chain = x /\ js[ch[x][s]].seq = s
        BY <4>1 DEF MapsOK, Indexed
      <4> QED BY <1>2, <4>1, <4>2
    <3> QED BY <3>1, <3>2
  <2>2. ASSUME NEW i \in DOMAIN js2
        PROVE  /\ js2[i].seq \in DOMAIN ch2[js2[i].chain]
               /\ ch2[js2[i].chain][js2[i].seq] = i
    <3>1. CASE i = id
      BY <1>2, <1>4, <3>1
    <3>2. CASE i # id
      <4>1. i \in DOMAIN js /\ js2[i] = js[i] /\ js[i].chain \in ChainId
        BY <1>2, <2>2, <3>2 DEF MapsOK, MapsTyped, Job
      <4>2. js[i].seq \in DOMAIN ch[js[i].chain] /\ ch[js[i].chain][js[i].seq] = i
        BY <4>1 DEF MapsOK, Indexed
      <4> QED BY <1>3, <1>4, <4>1, <4>2
    <3> QED BY <3>1, <3>2
  <2> HIDE DEF ch2, js2
  <2> QED BY <2>1, <2>2 DEF Indexed
<1>8. KeysUnique(js2)
  BY <1>2 DEF MapsOK, KeysUnique
<1>9. Mutex(js2)
  BY <1>2 DEF MapsOK, Mutex
<1> HIDE DEF ch2, js2
<1>10. MapsOK(js2, ch2)
  BY <1>5, <1>6, <1>7, <1>8, <1>9 DEF MapsOK
<1> QED BY <1>10 DEF ch2, js2

\* A result of enqueueSingleInMemory: a record of two maps in order and an error flag.
StoreOK(st) ==
    st = [jobs |-> st.jobs, chain |-> st.chain, err |-> st.err] /\ MapsOK(st.jobs, st.chain)

\* enqueueSingleInMemory keeps the maps in order and adds at most the id it drew.
LEMMA EnqueueKeepsMaps ==
    ASSUME NEW st, StoreOK(st), NEW req \in Request,
           NEW id \in JobId, id \notin DOMAIN st.jobs
    PROVE  /\ StoreOK(enqueueSingleInMemory(st, req, id))
           /\ DOMAIN st.jobs \subseteq DOMAIN enqueueSingleInMemory(st, req, id).jobs
           /\ DOMAIN enqueueSingleInMemory(st, req, id).jobs \subseteq DOMAIN st.jobs \cup {id}
<1> DEFINE r == enqueueSingleInMemory(st, req, id)
           m == st.chain[req.chain]
           seq == ResolvedSequence(m, req.sequence)
           job == NewJob(req, seq, determineInitialStatus(st.jobs, m, seq))
           inserted == [jobs  |-> Put(st.jobs, id, job),
                        chain |-> [st.chain EXCEPT ![req.chain] = Put(m, seq, id)],
                        err   |-> FALSE]
<1>1. StoreOK(Refused(st)) /\ Refused(st).jobs = st.jobs
  BY DEF StoreOK, Refused
<1>3. CASE req.chain = NoChain
  BY <1>1, <1>3 DEF enqueueSingleInMemory
<1>4. CASE req.chain # NoChain /\ IsDuplicate(st.jobs, req)
  BY <1>4 DEF enqueueSingleInMemory
<1>5. CASE /\ req.chain # NoChain /\ ~IsDuplicate(st.jobs, req)
           /\ SequenceRejected(m, req.sequence)
  BY <1>1, <1>5 DEF enqueueSingleInMemory
<1>6. CASE /\ req.chain # NoChain /\ ~IsDuplicate(st.jobs, req)
           /\ ~SequenceRejected(m, req.sequence)
  <2>1. r = inserted
    BY <1>6 DEF enqueueSingleInMemory
  <2>2. req.chain \in ChainId /\ req.sequence \in Int
    BY <1>6 DEF Request
  <2>3. seq \in Int /\ seq \notin DOMAIN m
    BY <1>6, <2>2, SequenceIsFree DEF StoreOK
  <2>4. determineInitialStatus(st.jobs, m, seq) \in Status \ {"PROCESSING"}
    BY DEF determineInitialStatus, Status
  <2>5. job \in Job
    BY <2>2, <2>3, <2>4, NewJobTyped
  <2>6. /\ job.chain = req.chain /\ job.seq = seq /\ job.key = req.key
        /\ job.status # "PROCESSING"
    BY <2>4 DEF NewJob
  <2>7. job.key # NoKey => \A i \in DOMAIN st.jobs : st.jobs[i].key # job.key
    BY <1>6, <2>6 DEF IsDuplicate, findJobByIdempotencyKey
  <2>8. MapsOK(inserted.jobs, inserted.chain)
    <3> HIDE DEF job, seq
    <3> QED BY <2>3, <2>5, <2>6, <2>7, InsertKeepsMaps DEF StoreOK
  <2>9. StoreOK(inserted)
    <3> HIDE DEF job, seq, m
    <3> QED BY <2>8 DEF StoreOK
  <2>10. DOMAIN inserted.jobs = DOMAIN st.jobs \cup {id}
    BY DEF Put
  <2> QED BY <2>1, <2>9, <2>10
<1> QED BY <1>3, <1>4, <1>5, <1>6

-----------------------------------------------------------------------------
(* Calls that change jobs and leave the index alone                            *)

\* js2 is js with some jobs changed, none of them in chain, sequence or key.
Rewrites(js2, js) ==
    /\ js2 \in [DOMAIN js -> Job]
    /\ \A id \in DOMAIN js : /\ js2[id].chain = js[id].chain
                             /\ js2[id].seq = js[id].seq
                             /\ js2[id].key = js[id].key

\* No job of js2 is PROCESSING that was not so in js.
NoClaim(js2, js) ==
    \A id \in DOMAIN js : js2[id].status = "PROCESSING" => js[id].status = "PROCESSING"

\* Rewriting jobs keeps the maps in order as long as it keeps the chains exclusive.
LEMMA RewriteKeepsMaps ==
    ASSUME NEW js, NEW ch, MapsOK(js, ch), NEW js2, Rewrites(js2, js), Mutex(js2)
    PROVE  MapsOK(js2, ch) /\ DOMAIN js2 = DOMAIN js
<1>1. DOMAIN js2 = DOMAIN js /\ js2 \in [DOMAIN js2 -> Job]
  BY DEF Rewrites
<1>2. MapsTyped(js2, ch)
  BY <1>1 DEF MapsOK, MapsTyped
<1>3. Indexed(js2, ch)
  <2>1. ASSUME NEW c \in ChainId, NEW s \in DOMAIN ch[c]
        PROVE  ch[c][s] \in DOMAIN js2 /\ js2[ch[c][s]].chain = c /\ js2[ch[c][s]].seq = s
    BY <1>1 DEF MapsOK, Indexed, Rewrites
  <2>2. ASSUME NEW id \in DOMAIN js2
        PROVE  js2[id].seq \in DOMAIN ch[js2[id].chain] /\ ch[js2[id].chain][js2[id].seq] = id
    BY <1>1 DEF MapsOK, Indexed, Rewrites
  <2> QED BY <2>1, <2>2 DEF Indexed
<1>4. KeysUnique(js2)
  BY <1>1 DEF MapsOK, KeysUnique, Rewrites
<1> QED BY <1>1, <1>2, <1>3, <1>4 DEF MapsOK

\* Only a claim can make a second job of a chain PROCESSING.
LEMMA NoClaimKeepsMutex ==
    ASSUME NEW js, NEW ch, MapsOK(js, ch), NEW js2, Rewrites(js2, js), NoClaim(js2, js)
    PROVE  Mutex(js2)
BY DEF MapsOK, Mutex, Rewrites, NoClaim

\* One job changed in some of its fields other than chain, sequence, key.
LEMMA ChangeOne ==
    ASSUME NEW js, NEW ch, MapsOK(js, ch), NEW id \in DOMAIN js, NEW r \in Job,
           r.chain = js[id].chain, r.seq = js[id].seq, r.key = js[id].key
    PROVE  /\ Rewrites([js EXCEPT ![id] = r], js)
           /\ (r.status = "PROCESSING" => js[id].status = "PROCESSING")
                 => NoClaim([js EXCEPT ![id] = r], js)
BY DEF MapsOK, MapsTyped, Rewrites, NoClaim

\* Promotion makes a BLOCKED job PENDING and changes nothing else.
LEMMA PromotionRewrites ==
    ASSUME NEW js, js \in [DOMAIN js -> Job], NEW c, NEW s
    PROVE  Rewrites(Promoted(js, c, s), js) /\ NoClaim(Promoted(js, c, s), js)
<1>1. \A id \in DOMAIN js : [js[id] EXCEPT !.status = "PENDING"] \in Job
  BY DEF Job, Status
<1> QED BY <1>1 DEF Rewrites, NoClaim, Promoted, Job

\* A step that leaves the index alone, rewrites jobs and claims none keeps the invariant.
LEMMA RewriteStep ==
    ASSUME RepoInv, Rewrites(jobs', jobs), NoClaim(jobs', jobs), UNCHANGED <<chain, issued>>
    PROVE  RepoInv'
<1>1. Mutex(jobs')
  BY NoClaimKeepsMutex DEF RepoInv
<1>2. MapsOK(jobs', chain) /\ DOMAIN jobs' = DOMAIN jobs
  BY <1>1, RewriteKeepsMaps DEF RepoInv
<1> QED BY <1>2 DEF RepoInv

\* A step that changes one job to r, which is not a claim, keeps the invariant.
LEMMA ChangeStep ==
    ASSUME RepoInv, NEW id \in DOMAIN jobs, NEW r \in Job,
           r.chain = jobs[id].chain, r.seq = jobs[id].seq, r.key = jobs[id].key,
           r.status = "PROCESSING" => jobs[id].status = "PROCESSING",
           jobs' = [jobs EXCEPT ![id] = r], UNCHANGED <<chain, issued>>
    PROVE  RepoInv'
<1>1. Rewrites(jobs', jobs) /\ NoClaim(jobs', jobs)
  BY ChangeOne DEF RepoInv
<1> QED BY <1>1, RewriteStep

\* The value stored under an id is a Job.
LEMMA JobOf ==
    ASSUME RepoInv, NEW id \in DOMAIN jobs
    PROVE  jobs[id] \in Job
BY DEF RepoInv, MapsOK, MapsTyped

\* Enqueue and EnqueueBatch
LEMMA ProducerKeepsInv == RepoInv /\ ProducerStep => RepoInv'
<1> SUFFICES ASSUME RepoInv, ProducerStep PROVE RepoInv'
  OBVIOUS
<1>1. StoreOK(Stored) /\ Stored.jobs = jobs /\ DOMAIN jobs \subseteq issued
  BY DEF StoreOK, Stored, RepoInv
<1>2. ASSUME NEW st, StoreOK(st), Store(st), DOMAIN st.jobs \subseteq JobId PROVE RepoInv'
  BY <1>2 DEF Store, StoreOK, RepoInv
<1>3. ASSUME NEW req \in Requests, Enqueue(req) PROVE RepoInv'
  <2>1. PICK id \in JobId \ issued : Store(enqueueSingleInMemory(Stored, req, id))
    BY <1>3 DEF Enqueue
  <2>2. req \in Request
    BY RequestAssumption
  <2>3. /\ StoreOK(enqueueSingleInMemory(Stored, req, id))
        /\ DOMAIN enqueueSingleInMemory(Stored, req, id).jobs \subseteq DOMAIN jobs \cup {id}
    BY <1>1, <2>2, EnqueueKeepsMaps
  <2>4. DOMAIN enqueueSingleInMemory(Stored, req, id).jobs \subseteq JobId
    BY <2>3 DEF RepoInv
  <2> QED BY <1>2, <2>1, <2>3, <2>4
<1>4. ASSUME NEW req1 \in Requests, NEW req2 \in Requests, EnqueueBatch(req1, req2)
      PROVE  RepoInv'
  <2>1. PICK id1 \in JobId \ issued, id2 \in JobId \ issued :
            id1 # id2 /\ Store(BatchResult(req1, req2, id1, id2))
    BY <1>4 DEF EnqueueBatch
  <2> DEFINE first == enqueueSingleInMemory(Stored, req1, id1)
             second == enqueueSingleInMemory(first, req2, id2)
  <2>2. req1 \in Request /\ req2 \in Request
    BY RequestAssumption
  <2>3. StoreOK(first) /\ DOMAIN first.jobs \subseteq DOMAIN jobs \cup {id1}
    BY <1>1, <2>2, EnqueueKeepsMaps
  <2>4. id2 \notin DOMAIN first.jobs
    BY <1>1, <2>1, <2>3
  <2>5. StoreOK(second) /\ DOMAIN second.jobs \subseteq DOMAIN first.jobs \cup {id2}
    <3> HIDE DEF first
    <3> QED BY <2>2, <2>3, <2>4, EnqueueKeepsMaps
  <2>6. DOMAIN first.jobs \subseteq JobId /\ DOMAIN second.jobs \subseteq JobId
    BY <2>3, <2>5 DEF RepoInv
  <2>7. CASE first.err
    BY <1>2, <2>1, <2>3, <2>6, <2>7 DEF BatchResult
  <2>8. CASE ~first.err
    BY <1>2, <2>1, <2>5, <2>6, <2>8 DEF BatchResult
  <2> QED BY <2>7, <2>8
<1> QED BY <1>3, <1>4 DEF ProducerStep

\* Claim: the double-check leaves no other job of the chain PROCESSING.
LEMMA ClaimKeepsInv ==
    ASSUME RepoInv, NEW w \in Worker, NEW id, ClaimJob(w, id)
    PROVE  RepoInv'
<1> DEFINE r == [jobs[id] EXCEPT !.status = "PROCESSING", !.worker = w,
                                 !.gen = jobs[id].gen + 1, !.lease = "live",
                                 !.attempt = jobs[id].attempt + 1]
<1>1. id \in DOMAIN jobs /\ jobs[id] \in Job
  BY JobOf DEF ClaimJob
<1>2. /\ r \in Job
      /\ r.chain = jobs[id].chain /\ r.seq = jobs[id].seq /\ r.key = jobs[id].key
  <2>1. jobs[id].gen + 1 \in Nat /\ jobs[id].attempt + 1 \in Nat
    BY <1>1 DEF Job
  <2> QED BY <1>1, <2>1 DEF Job, Status, Lease
<1>3. jobs' = [jobs EXCEPT ![id] = r]
  BY <1>1 DEF ClaimJob, RepoInv, MapsOK, MapsTyped, Job
<1>4. Rewrites(jobs', jobs)
  <2> HIDE DEF r
  <2> QED BY <1>1, <1>2, <1>3, ChangeOne DEF RepoInv
<1>5. \A i \in DOMAIN jobs : i # id => jobs'[i] = jobs[i]
  BY <1>3 DEF RepoInv, MapsOK, MapsTyped
<1>6. \A i \in DOMAIN jobs : jobs[i].chain = jobs[id].chain => jobs[i].status # "PROCESSING"
  BY DEF ClaimJob, ChainBusy
<1>7. DOMAIN jobs' = DOMAIN jobs
  BY <1>4 DEF Rewrites
<1>8. Mutex(jobs')
  <2> SUFFICES ASSUME NEW i \in DOMAIN jobs, NEW j \in DOMAIN jobs,
                      jobs'[i].chain = jobs'[j].chain,
                      jobs'[i].status = "PROCESSING", jobs'[j].status = "PROCESSING", i # j
               PROVE  FALSE
    BY <1>7 DEF Mutex
  <2>1. jobs[i].chain = jobs[j].chain
    BY <1>4 DEF Rewrites
  <2>2. CASE i = id
    BY <1>5, <1>6, <2>1, <2>2
  <2>3. CASE j = id
    BY <1>5, <1>6, <2>1, <2>3
  <2>4. CASE i # id /\ j # id
    BY <1>5, <2>1, <2>4 DEF RepoInv, MapsOK, Mutex
  <2> QED BY <2>2, <2>3, <2>4
<1>9. MapsOK(jobs', chain)
  BY <1>4, <1>8, RewriteKeepsMaps DEF RepoInv
<1> QED BY <1>7, <1>9 DEF RepoInv, ClaimJob

-----------------------------------------------------------------------------
(* The calls that change one job                                               *)

\* Complete: the job is COMPLETED, then its successor promoted.
LEMMA CompleteKeepsInv ==
    ASSUME RepoInv, NEW id, NEW w, NEW g, Complete(id, w, g)
    PROVE  RepoInv'
<1> DEFINE r == [jobs[id] EXCEPT !.status = "COMPLETED", !.lease = "none"]
           js == [jobs EXCEPT ![id] = r]
<1>1. id \in DOMAIN jobs /\ jobs[id] \in Job
  BY JobOf DEF Complete, Owns
<1>2. /\ r \in Job /\ r.status # "PROCESSING"
      /\ r.chain = jobs[id].chain /\ r.seq = jobs[id].seq /\ r.key = jobs[id].key
  BY <1>1 DEF Job, Status, Lease
<1>3. jobs' = Promoted(js, jobs[id].chain, jobs[id].seq)
  BY <1>1 DEF Complete, RepoInv, MapsOK, MapsTyped, Job
<1>4. Rewrites(js, jobs) /\ NoClaim(js, jobs)
  <2> HIDE DEF r
  <2> QED BY <1>1, <1>2, ChangeOne DEF RepoInv
<1> HIDE DEF js
<1>5. DOMAIN js = DOMAIN jobs
  BY <1>4 DEF Rewrites
<1>6. Rewrites(jobs', js) /\ NoClaim(jobs', js)
  BY <1>3, <1>4, <1>5, PromotionRewrites DEF Rewrites
<1>7. Rewrites(jobs', jobs) /\ NoClaim(jobs', jobs)
  BY <1>4, <1>5, <1>6 DEF Rewrites, NoClaim
<1> QED BY <1>7, RewriteStep DEF Complete

\* Fail
LEMMA FailKeepsInv ==
    ASSUME RepoInv, NEW id, NEW w, NEW g, NEW terminal, Fail(id, w, g, terminal)
    PROVE  RepoInv'
<1> DEFINE s == IF terminal /\ jobs[id].mode = "dead-letter-and-continue"
                THEN "DEAD_LETTERED" ELSE "FAILED"
           r == [jobs[id] EXCEPT !.status = s, !.lease = "none"]
<1>1. id \in DOMAIN jobs /\ jobs[id] \in Job
  BY JobOf DEF Fail, Owns
<1>2. /\ r \in Job
      /\ r.chain = jobs[id].chain /\ r.seq = jobs[id].seq /\ r.key = jobs[id].key
      /\ r.status = "PROCESSING" => jobs[id].status = "PROCESSING"
  <2>1. s \in Status \ {"PROCESSING"}
    BY DEF Status
  <2> HIDE DEF s
  <2> QED BY <1>1, <2>1 DEF Job, Lease
<1>3. jobs' = [jobs EXCEPT ![id] = r] /\ UNCHANGED <<chain, issued>>
  BY <1>1 DEF Fail, RepoInv, MapsOK, MapsTyped, Job
<1> HIDE DEF r
<1> QED BY <1>1, <1>2, <1>3, ChangeStep

\* Retry
LEMMA RetryKeepsInv ==
    ASSUME RepoInv, NEW id, NEW w, NEW g, Retry(id, w, g)
    PROVE  RepoInv'
<1> DEFINE r == [jobs[id] EXCEPT !.status = "RETRYING", !.avail = "later", !.lease = "none"]
<1>1. id \in DOMAIN jobs /\ jobs[id] \in Job
  BY JobOf DEF Retry, Owns
<1>2. /\ r \in Job
      /\ r.chain = jobs[id].chain /\ r.seq = jobs[id].seq /\ r.key = jobs[id].key
      /\ r.status = "PROCESSING" => jobs[id].status = "PROCESSING"
  BY <1>1 DEF Job, Status, Lease, Avail
<1>3. jobs' = [jobs EXCEPT ![id] = r] /\ UNCHANGED <<chain, issued>>
  BY <1>1 DEF Retry, RepoInv, MapsOK, MapsTyped, Job
<1> HIDE DEF r
<1> QED BY <1>1, <1>2, <1>3, ChangeStep

\* Heartbeat: on a job that is no longer PROCESSING it only leaves a lease behind.
LEMMA HeartbeatKeepsInv ==
    ASSUME RepoInv, NEW id, NEW w, NEW g, Heartbeat(id, w, g)
    PROVE  RepoInv'
<1> DEFINE r == [jobs[id] EXCEPT !.lease = "live"]
<1>1. id \in DOMAIN jobs /\ jobs[id] \in Job
  BY JobOf DEF Heartbeat, Owns
<1>2. /\ r \in Job
      /\ r.chain = jobs[id].chain /\ r.seq = jobs[id].seq /\ r.key = jobs[id].key
      /\ r.status = "PROCESSING" => jobs[id].status = "PROCESSING"
  BY <1>1 DEF Job, Status, Lease, Avail
<1>3. jobs' = [jobs EXCEPT ![id] = r] /\ UNCHANGED <<chain, issued>>
  BY <1>1 DEF Heartbeat, RepoInv, MapsOK, MapsTyped, Job
<1> HIDE DEF r
<1> QED BY <1>1, <1>2, <1>3, ChangeStep

\* ConfirmCancel
LEMMA ConfirmCancelKeepsInv ==
    ASSUME RepoInv, NEW id, NEW w, NEW g, ConfirmCancel(id, w, g)
    PROVE  RepoInv'
<1> DEFINE r == [jobs[id] EXCEPT !.status = "CANCELLED", !.lease = "none"]
<1>1. id \in DOMAIN jobs /\ jobs[id] \in Job
  BY JobOf DEF ConfirmCancel, Owns
<1>2. /\ r \in Job
      /\ r.chain = jobs[id].chain /\ r.seq = jobs[id].seq /\ r.key = jobs[id].key
      /\ r.status = "PROCESSING" => jobs[id].status = "PROCESSING"
  BY <1>1 DEF Job, Status, Lease, Avail
<1>3. jobs' = [jobs EXCEPT ![id] = r] /\ UNCHANGED <<chain, issued>>
  BY <1>1 DEF ConfirmCancel, RepoInv, MapsOK, MapsTyped, Job
<1> HIDE DEF r
<1> QED BY <1>1, <1>2, <1>3, ChangeStep

\* RescheduleJob
LEMMA RescheduleJobKeepsInv ==
    ASSUME RepoInv, NEW id, NEW avail \in Avail, RescheduleJob(id, avail)
    PROVE  RepoInv'
<1> DEFINE r == [jobs[id] EXCEPT !.avail = avail]
<1>1. id \in DOMAIN jobs /\ jobs[id] \in Job
  BY JobOf DEF RescheduleJob
<1>2. /\ r \in Job
      /\ r.chain = jobs[id].chain /\ r.seq = jobs[id].seq /\ r.key = jobs[id].key
      /\ r.status = "PROCESSING" => jobs[id].status = "PROCESSING"
  BY <1>1 DEF Job, Status, Lease, Avail
<1>3. jobs' = [jobs EXCEPT ![id] = r] /\ UNCHANGED <<chain, issued>>
  BY <1>1 DEF RescheduleJob, RepoInv, MapsOK, MapsTyped, Job
<1> HIDE DEF r
<1> QED BY <1>1, <1>2, <1>3, ChangeStep

\* Time passing: an available_at
LEMMA BecomesDueKeepsInv ==
    ASSUME RepoInv, NEW id, BecomesDue(id)
    PROVE  RepoInv'
<1> DEFINE r == [jobs[id] EXCEPT !.avail = "due"]
<1>1. id \in DOMAIN jobs /\ jobs[id] \in Job
  BY JobOf DEF BecomesDue
<1>2. /\ r \in Job
      /\ r.chain = jobs[id].chain /\ r.seq = jobs[id].seq /\ r.key = jobs[id].key
      /\ r.status = "PROCESSING" => jobs[id].status = "PROCESSING"
  BY <1>1 DEF Job, Status, Lease, Avail
<1>3. jobs' = [jobs EXCEPT ![id] = r] /\ UNCHANGED <<chain, issued>>
  BY <1>1 DEF BecomesDue, RepoInv, MapsOK, MapsTyped, Job
<1> HIDE DEF r
<1> QED BY <1>1, <1>2, <1>3, ChangeStep

\* Time passing: a lease
LEMMA LeaseExpiresKeepsInv ==
    ASSUME RepoInv, NEW id, LeaseExpires(id)
    PROVE  RepoInv'
<1> DEFINE r == [jobs[id] EXCEPT !.lease = "expired"]
<1>1. id \in DOMAIN jobs /\ jobs[id] \in Job
  BY JobOf DEF LeaseExpires
<1>2. /\ r \in Job
      /\ r.chain = jobs[id].chain /\ r.seq = jobs[id].seq /\ r.key = jobs[id].key
      /\ r.status = "PROCESSING" => jobs[id].status = "PROCESSING"
  BY <1>1 DEF Job, Status, Lease, Avail
<1>3. jobs' = [jobs EXCEPT ![id] = r] /\ UNCHANGED <<chain, issued>>
  BY <1>1 DEF LeaseExpires, RepoInv, MapsOK, MapsTyped, Job
<1> HIDE DEF r
<1> QED BY <1>1, <1>2, <1>3, ChangeStep

\* RequestCancel
LEMMA RequestCancelKeepsInv ==
    ASSUME RepoInv, NEW id, RequestCancel(id)
    PROVE  RepoInv'
<1> DEFINE cancelled == [jobs[id] EXCEPT !.status = "CANCEL_REQUESTED"]
           r == IF jobs[id].status \in {"PENDING", "RETRYING", "BLOCKED"}
                THEN cancelled ELSE jobs[id]
<1>1. id \in DOMAIN jobs /\ jobs[id] \in Job
  BY JobOf DEF RequestCancel
<1>2. /\ cancelled \in Job
      /\ cancelled.chain = jobs[id].chain /\ cancelled.seq = jobs[id].seq
      /\ cancelled.key = jobs[id].key /\ cancelled.status # "PROCESSING"
  BY <1>1 DEF Job, Status
<1>3. jobs' = [jobs EXCEPT ![id] = r] /\ UNCHANGED <<chain, issued>>
  BY <1>1 DEF RequestCancel, RepoInv, MapsOK, MapsTyped, Job
<1> HIDE DEF cancelled
<1>4. /\ r \in Job
      /\ r.chain = jobs[id].chain /\ r.seq = jobs[id].seq /\ r.key = jobs[id].key
      /\ r.status = "PROCESSING" => jobs[id].status = "PROCESSING"
  BY <1>1, <1>2
<1> HIDE DEF r
<1> QED BY <1>1, <1>3, <1>4, ChangeStep

-----------------------------------------------------------------------------
(* The calls that change several jobs                                          *)

\* RecoverStale
LEMMA RecoverKeepsInv ==
    ASSUME RepoInv, NEW R, RecoverJobs(R)
    PROVE  RepoInv'
<1> DEFINE r(id) == [jobs[id] EXCEPT !.status = "RETRYING", !.avail = "later", !.lease = "none"]
<1>1. ASSUME NEW id \in DOMAIN jobs
      PROVE  /\ r(id) \in Job /\ r(id).status # "PROCESSING"
             /\ r(id).chain = jobs[id].chain /\ r(id).seq = jobs[id].seq
             /\ r(id).key = jobs[id].key
  BY JobOf DEF Job, Status, Lease, Avail
<1>2. jobs' = [id \in DOMAIN jobs |-> IF id \in R THEN r(id) ELSE jobs[id]]
  BY DEF RecoverJobs
<1>3. \A id \in DOMAIN jobs : jobs[id] \in Job
  BY JobOf
<1>4. Rewrites(jobs', jobs) /\ NoClaim(jobs', jobs)
  <2> HIDE DEF r
  <2> QED BY <1>1, <1>2, <1>3 DEF Rewrites, NoClaim
<1> QED BY <1>4, RewriteStep DEF RecoverJobs

\* ReplayJob and BulkReplayDLQ
LEMMA ReplayKeepsInv ==
    ASSUME RepoInv, NEW S, jobs' = Replayed(jobs, S), UNCHANGED <<chain, issued>>
    PROVE  RepoInv'
<1> DEFINE r(id) == [jobs[id] EXCEPT !.status = "PENDING", !.attempt = 0, !.avail = "due",
                                     !.lease = "none"]
<1>1. ASSUME NEW id \in DOMAIN jobs
      PROVE  /\ r(id) \in Job /\ r(id).status # "PROCESSING"
             /\ r(id).chain = jobs[id].chain /\ r(id).seq = jobs[id].seq
             /\ r(id).key = jobs[id].key
  <2>1. 0 \in Nat
    OBVIOUS
  <2> QED BY <2>1, JobOf DEF Job, Status, Lease, Avail
<1>2. jobs' = [id \in DOMAIN jobs |-> IF id \in S THEN r(id) ELSE jobs[id]]
  BY DEF Replayed
<1>3. \A id \in DOMAIN jobs : jobs[id] \in Job
  BY JobOf
<1>4. Rewrites(jobs', jobs) /\ NoClaim(jobs', jobs)
  <2> HIDE DEF r
  <2> QED BY <1>1, <1>2, <1>3 DEF Rewrites, NoClaim
<1> QED BY <1>4, RewriteStep

\* SkipJob and BulkSkipDLQ
LEMMA SkipKeepsInv ==
    ASSUME RepoInv, NEW S, jobs' = Skipped(jobs, S), UNCHANGED <<chain, issued>>
    PROVE  RepoInv'
<1> DEFINE done(id) == [jobs[id] EXCEPT !.status = "COMPLETED", !.lease = "none"]
           next(id) == [jobs[id] EXCEPT !.status = "PENDING"]
           B(id) == /\ jobs[id].status = "BLOCKED"
                    /\ \E p \in S : /\ jobs[p].seq + 1 \in DOMAIN chain[jobs[p].chain]
                                    /\ chain[jobs[p].chain][jobs[p].seq + 1] = id
<1>1. ASSUME NEW id \in DOMAIN jobs
      PROVE  /\ done(id) \in Job /\ done(id).status # "PROCESSING"
             /\ done(id).chain = jobs[id].chain /\ done(id).seq = jobs[id].seq
             /\ done(id).key = jobs[id].key
             /\ next(id) \in Job /\ next(id).status # "PROCESSING"
             /\ next(id).chain = jobs[id].chain /\ next(id).seq = jobs[id].seq
             /\ next(id).key = jobs[id].key
  BY JobOf DEF Job, Status, Lease
<1>2. jobs' = [id \in DOMAIN jobs |->
                 IF id \in S THEN done(id) ELSE IF B(id) THEN next(id) ELSE jobs[id]]
  BY DEF Skipped
<1>3. \A id \in DOMAIN jobs : jobs[id] \in Job
  BY JobOf
<1>4. Rewrites(jobs', jobs) /\ NoClaim(jobs', jobs)
  <2> HIDE DEF done, next, B
  <2> QED BY <1>1, <1>2, <1>3 DEF Rewrites, NoClaim
<1> QED BY <1>4, RewriteStep

\* BulkPurgeDLQ removes a job together with its index entry.
LEMMA PurgeKeepsInv == RepoInv /\ BulkPurgeDLQ => RepoInv'
<1> SUFFICES ASSUME RepoInv, BulkPurgeDLQ PROVE RepoInv'
  OBVIOUS
<1>1. PICK S \in DLQMatches :
          /\ jobs' = Without(jobs, S)
          /\ chain' = [c \in ChainId |-> Without(chain[c], IndexEntries(S, c))]
          /\ issued' = issued
  BY DEF BulkPurgeDLQ
<1>2. S \subseteq DOMAIN jobs
  BY DEF DLQMatches
<1>3. /\ DOMAIN jobs' = DOMAIN jobs \ S
      /\ \A id \in DOMAIN jobs \ S : jobs'[id] = jobs[id]
      /\ jobs' \in [DOMAIN jobs' -> Job]
  BY <1>1 DEF Without, RepoInv, MapsOK, MapsTyped
<1>4. /\ chain' = [c \in ChainId |-> chain'[c]]
      /\ \A c \in ChainId :
            /\ DOMAIN chain'[c] = DOMAIN chain[c] \ IndexEntries(S, c)
            /\ \A s \in DOMAIN chain'[c] : chain'[c][s] = chain[c][s]
            /\ chain'[c] \in [DOMAIN chain'[c] -> JobId]
  BY <1>1 DEF Without, RepoInv, MapsOK, MapsTyped
<1>5. MapsTyped(jobs', chain')
  <2>1. DOMAIN jobs' \subseteq JobId
    BY <1>3 DEF RepoInv, MapsOK, MapsTyped
  <2>2. \A c \in ChainId : DOMAIN chain'[c] \subseteq Int
    BY <1>4 DEF RepoInv, MapsOK, MapsTyped
  <2> QED BY <1>3, <1>4, <2>1, <2>2 DEF MapsTyped
<1>6. IndexBounded(chain')
  BY <1>4 DEF RepoInv, MapsOK, IndexBounded
<1>7. Indexed(jobs', chain')
  <2>1. ASSUME NEW c \in ChainId, NEW s \in DOMAIN chain'[c]
        PROVE  /\ chain'[c][s] \in DOMAIN jobs'
               /\ jobs'[chain'[c][s]].chain = c /\ jobs'[chain'[c][s]].seq = s
    <3>1. s \in DOMAIN chain[c] /\ chain'[c][s] = chain[c][s] /\ s \notin IndexEntries(S, c)
      BY <1>4
    <3>2. /\ chain[c][s] \in DOMAIN jobs
          /\ jobs[chain[c][s]].chain = c /\ jobs[chain[c][s]].seq = s
      BY <3>1 DEF RepoInv, MapsOK, Indexed
    <3>3. chain[c][s] \notin S
      BY <3>1, <3>2 DEF IndexEntries
    <3> QED BY <1>3, <3>1, <3>2, <3>3
  <2>2. ASSUME NEW id \in DOMAIN jobs'
        PROVE  /\ jobs'[id].seq \in DOMAIN chain'[jobs'[id].chain]
               /\ chain'[jobs'[id].chain][jobs'[id].seq] = id
    <3>1. id \in DOMAIN jobs /\ id \notin S /\ jobs'[id] = jobs[id] /\ jobs[id].chain \in ChainId
      BY <1>3, JobOf DEF Job
    <3>2. jobs[id].seq \in DOMAIN chain[jobs[id].chain] /\ chain[jobs[id].chain][jobs[id].seq] = id
      BY <3>1 DEF RepoInv, MapsOK, Indexed
    <3>3. jobs[id].seq \notin IndexEntries(S, jobs[id].chain)
      <4> SUFFICES ASSUME NEW i \in S, jobs[i].chain = jobs[id].chain, jobs[i].seq = jobs[id].seq
                   PROVE  FALSE
        BY DEF IndexEntries
      <4>1. chain[jobs[i].chain][jobs[i].seq] = i
        BY <1>2 DEF RepoInv, MapsOK, Indexed
      <4> QED BY <3>1, <3>2, <4>1
    <3> QED BY <1>4, <3>1, <3>2, <3>3
  <2> QED BY <2>1, <2>2 DEF Indexed
<1>8. KeysUnique(jobs') /\ Mutex(jobs')
  BY <1>3 DEF RepoInv, MapsOK, KeysUnique, Mutex
<1> QED BY <1>1, <1>3, <1>5, <1>6, <1>7, <1>8 DEF RepoInv, MapsOK

-----------------------------------------------------------------------------
(* The invariant                                                               *)

\* No call of a worker or of the recovery loop breaks the invariant.
LEMMA WorkerKeepsInv == RepoInv /\ WorkerStep => RepoInv'
<1> SUFFICES ASSUME RepoInv, WorkerStep PROVE RepoInv'
  OBVIOUS
<1>1. ASSUME NEW w \in Worker, Claim(w) PROVE RepoInv'
  BY <1>1, ClaimKeepsInv DEF Claim
<1>2. ASSUME NEW id, NEW w, NEW g,
             \/ Complete(id, w, g)
             \/ \E terminal \in BOOLEAN : Fail(id, w, g, terminal)
             \/ Retry(id, w, g)
             \/ Heartbeat(id, w, g)
             \/ ConfirmCancel(id, w, g)
      PROVE  RepoInv'
  BY <1>2, CompleteKeepsInv, FailKeepsInv, RetryKeepsInv, HeartbeatKeepsInv,
     ConfirmCancelKeepsInv
<1>3. ASSUME NEW c, NEW s, PromoteNext(c, s) PROVE RepoInv'
  <2>1. jobs \in [DOMAIN jobs -> Job]
    BY DEF RepoInv, MapsOK, MapsTyped
  <2>2. Rewrites(jobs', jobs) /\ NoClaim(jobs', jobs)
    BY <1>3, <2>1, PromotionRewrites DEF PromoteNext
  <2> QED BY <1>3, <2>2, RewriteStep DEF PromoteNext
<1>4. ASSUME RecoverStale PROVE RepoInv'
  BY <1>4, RecoverKeepsInv DEF RecoverStale
<1> QED BY <1>1, <1>2, <1>3, <1>4 DEF WorkerStep

\* No command of an operator breaks the invariant.
LEMMA OperatorKeepsInv == RepoInv /\ OperatorStep => RepoInv'
<1> SUFFICES ASSUME RepoInv, OperatorStep PROVE RepoInv'
  OBVIOUS
<1>1. ASSUME NEW id, RequestCancel(id) PROVE RepoInv'
  BY <1>1, RequestCancelKeepsInv
<1>2. ASSUME NEW id, ReplayJob(id) PROVE RepoInv'
  BY <1>2, ReplayKeepsInv DEF ReplayJob
<1>3. ASSUME NEW id, SkipJob(id) PROVE RepoInv'
  BY <1>3, SkipKeepsInv DEF SkipJob
<1>4. ASSUME NEW id, NEW a \in Avail, RescheduleJob(id, a) PROVE RepoInv'
  BY <1>4, RescheduleJobKeepsInv
<1>5. ASSUME BulkReplayDLQ PROVE RepoInv'
  BY <1>5, ReplayKeepsInv DEF BulkReplayDLQ
<1>6. ASSUME BulkSkipDLQ PROVE RepoInv'
  BY <1>6, SkipKeepsInv DEF BulkSkipDLQ
<1>7. ASSUME BulkPurgeDLQ PROVE RepoInv'
  BY <1>7, PurgeKeepsInv
<1> QED BY <1>1, <1>2, <1>3, <1>4, <1>5, <1>6, <1>7 DEF OperatorStep

\* An empty repository is in order.
LEMMA RepoInitInv == RepoInit => RepoInv
<1> SUFFICES ASSUME RepoInit PROVE RepoInv
  OBVIOUS
<1>1. DOMAIN EmptyMap = {} /\ EmptyMap \in [DOMAIN EmptyMap -> Job]
      /\ EmptyMap \in [DOMAIN EmptyMap -> JobId]
  BY DEF EmptyMap
<1>2. jobs = EmptyMap /\ issued = {} /\ \A c \in ChainId : chain[c] = EmptyMap
  BY DEF RepoInit
<1>3. MapsTyped(jobs, chain)
  <2>1. chain = [c \in ChainId |-> chain[c]]
    BY DEF RepoInit
  <2> QED BY <1>1, <1>2, <2>1 DEF MapsTyped
<1>4. IndexBounded(chain)
  <2>1. 0 \in Nat
    OBVIOUS
  <2> QED BY <1>1, <1>2, <2>1 DEF IndexBounded
<1>5. Indexed(jobs, chain) /\ KeysUnique(jobs) /\ Mutex(jobs)
  BY <1>1, <1>2 DEF Indexed, KeysUnique, Mutex
<1> QED BY <1>1, <1>2, <1>3, <1>4, <1>5 DEF RepoInv, MapsOK

\* The invariant of the repository: its maps are typed and agree with each other, keys
\* are unique and no chain has two jobs PROCESSING, whatever is called in whatever order.
THEOREM RepoInvariant == RepoSpec => []RepoInv
<1>1. RepoInit => RepoInv
  BY RepoInitInv
<1>2. RepoInv /\ [RepoNext]_repoVars => RepoInv'
  <2> SUFFICES ASSUME RepoInv, [RepoNext]_repoVars PROVE RepoInv'
    OBVIOUS
  <2>1. ASSUME NEW id \in JobId, BecomesDue(id) \/ LeaseExpires(id) PROVE RepoInv'
    BY <2>1, BecomesDueKeepsInv, LeaseExpiresKeepsInv
  <2>2. CASE UNCHANGED repoVars
    BY <2>2 DEF repoVars, RepoInv
  <2> QED BY <2>1, <2>2, ProducerKeepsInv, WorkerKeepsInv, OperatorKeepsInv
          DEF RepoNext, TimeStep
<1> QED BY <1>1, <1>2, PTL DEF RepoSpec

\* The repository's maps always have their types.
THEOREM RepoTypeCorrect == RepoSpec => []RepoTypeOK
<1>1. RepoInv => RepoTypeOK
  BY DEF RepoInv, MapsOK, MapsTyped, RepoTypeOK
<1> QED BY <1>1, RepoInvariant, PTL

\* A chain never has two jobs PROCESSING: the double-check of Claim is enough, even
\* where operators replay or purge jobs out of order and workers report late.
THEOREM ChainMutexHolds == RepoSpec => []ChainMutex
<1>1. RepoInv => ChainMutex
  BY DEF RepoInv, MapsOK, Mutex, ChainMutex
<1> QED BY <1>1, RepoInvariant, PTL

\* The job map and the chain index always describe the same jobs.
THEOREM IndexConsistentHolds == RepoSpec => []IndexConsistent
<1>1. RepoInv => IndexConsistent
  BY DEF RepoInv, MapsOK, Indexed, IndexConsistent
<1> QED BY <1>1, RepoInvariant, PTL

\* Two stored jobs never share an idempotency key.
THEOREM UniqueIdempotencyKeyHolds == RepoSpec => []UniqueIdempotencyKey
<1>1. RepoInv => UniqueIdempotencyKey
  BY DEF RepoInv, MapsOK, KeysUnique, UniqueIdempotencyKey
<1> QED BY <1>1, RepoInvariant, PTL

-----------------------------------------------------------------------------
(* Dense sequences                                                             *)

\* Below a positive sequence of the index m there is no hole.
NoHole(m) == \A s \in DOMAIN m : \A k \in 1 .. s : k \in DOMAIN m

NoHoles(ch) == \A c \in ChainId : NoHole(ch[c])

\* A number that the gap test lets pass, or that automatic numbering picks, makes no hole.
LEMMA ResolvedMakesNoHole ==
    ASSUME NEW js, NEW ch, MapsOK(js, ch), NEW c \in ChainId, NoHole(ch[c]), NEW q \in Int,
           ~SequenceRejected(ch[c], q), NEW id
    PROVE  NoHole(Put(ch[c], ResolvedSequence(ch[c], q), id))
<1> DEFINE m == ch[c]
           max == getMaxSequence(m)
           seq == ResolvedSequence(m, q)
           new == Put(m, seq, id)
<1>1. DOMAIN m \subseteq Int
  BY DEF MapsOK, MapsTyped
<1>2. max \in Nat /\ max \in DOMAIN m \cup {0} /\ \A s \in DOMAIN m : s <= max
  <2>1. PICK n \in Nat : \A s \in DOMAIN m : s <= n
    BY DEF MapsOK, IndexBounded
  <2> QED BY <1>1, <2>1, MaxSequence
<1>3. \A k \in 1 .. max : k \in DOMAIN m
  BY <1>2 DEF NoHole
<1>4. seq \in Int
  BY SequenceIsFree
<1>5. DOMAIN new = DOMAIN m \cup {seq}
  BY DEF Put
<1>6. \A k \in 1 .. seq - 1 : k \in DOMAIN m
  <2>1. CASE q = 0
    BY <1>2, <1>3, <2>1 DEF ResolvedSequence
  <2>2. CASE q # 0
    <3>1. seq = q /\ ~SequenceGap(m, q)
      BY <2>2 DEF ResolvedSequence, SequenceRejected
    <3>2. CASE q <= 1
      BY <3>1, <3>2
    <3>3. CASE q - 1 \in DOMAIN m
      BY <3>1, <3>3 DEF NoHole
    <3>4. CASE q <= max + 1
      BY <1>2, <1>3, <3>1, <3>4
    <3>5. q <= 1 \/ q - 1 \in DOMAIN m \/ q <= max + 1
      BY <1>2, <3>1 DEF SequenceGap
    <3> QED BY <3>2, <3>3, <3>4, <3>5
  <2> QED BY <2>1, <2>2
<1> HIDE DEF m, max, seq, new
<1>7. ASSUME NEW s \in DOMAIN new, NEW k \in 1 .. s PROVE k \in DOMAIN new
  <2>1. CASE s = seq
    <3>1. k = seq \/ k \in 1 .. seq - 1
      BY <1>4, <1>7, <2>1
    <3> QED BY <1>5, <1>6, <3>1
  <2>2. CASE s \in DOMAIN m
    BY <1>5, <1>7, <2>2 DEF NoHole, m
  <2> QED BY <1>5, <1>7, <2>1, <2>2
<1> QED BY <1>7 DEF NoHole, m, seq, new

\* enqueueSingleInMemory makes no hole.
LEMMA EnqueueMakesNoHole ==
    ASSUME NEW st, StoreOK(st), NoHoles(st.chain), NEW req \in Request, NEW id
    PROVE  NoHoles(enqueueSingleInMemory(st, req, id).chain)
<1> DEFINE r == enqueueSingleInMemory(st, req, id)
           m == st.chain[req.chain]
           seq == ResolvedSequence(m, req.sequence)
<1>1. r.chain \in {st.chain, [st.chain EXCEPT ![req.chain] = Put(m, seq, id)]}
  BY DEF enqueueSingleInMemory, Refused
<1>2. CASE r.chain = st.chain
  BY <1>2
<1>3. CASE r.chain # st.chain
  <2>1. r.chain = [st.chain EXCEPT ![req.chain] = Put(m, seq, id)]
    BY <1>1, <1>3
  <2>2. req.chain \in ChainId /\ req.sequence \in Int /\ ~SequenceRejected(m, req.sequence)
    BY <1>3 DEF enqueueSingleInMemory, Refused, Request
  <2>3. NoHole(Put(m, seq, id))
    BY <2>2, ResolvedMakesNoHole DEF StoreOK, NoHoles
  <2>4. st.chain = [c \in ChainId |-> st.chain[c]]
    BY DEF StoreOK, MapsOK, MapsTyped
  <2> HIDE DEF r, seq, m
  <2>5. NoHoles(r.chain)
    BY <2>1, <2>2, <2>3, <2>4 DEF NoHoles
  <2> QED BY <2>5 DEF r
<1> QED BY <1>2, <1>3

\* What of the index a step leaves alone that neither enqueues nor purges.
LEMMA OtherKeepsIndex ==
    ASSUME RepoInv, WorkerStep \/ TimeStep \/ (OperatorStep /\ ~BulkPurgeDLQ)
    PROVE  DOMAIN jobs' = DOMAIN jobs /\ UNCHANGED <<chain, issued>>
<1> USE DEF RepoInv, MapsOK, MapsTyped
<1>1. CASE TimeStep
  BY <1>1 DEF TimeStep, BecomesDue, LeaseExpires
<1>2. CASE WorkerStep
  <2>1. ASSUME NEW w \in Worker, Claim(w)
        PROVE  DOMAIN jobs' = DOMAIN jobs /\ UNCHANGED <<chain, issued>>
    BY <2>1 DEF Claim, ClaimJob
  <2>2. ASSUME NEW id \in JobId, NEW w \in Worker, NEW g,
               \/ Complete(id, w, g) \/ Retry(id, w, g) \/ Heartbeat(id, w, g)
               \/ ConfirmCancel(id, w, g) \/ \E terminal \in BOOLEAN : Fail(id, w, g, terminal)
        PROVE  DOMAIN jobs' = DOMAIN jobs /\ UNCHANGED <<chain, issued>>
    BY <2>2 DEF Complete, Retry, Heartbeat, ConfirmCancel, Fail, Promoted
  <2>3. ASSUME NEW c, NEW s, PromoteNext(c, s)
        PROVE  DOMAIN jobs' = DOMAIN jobs /\ UNCHANGED <<chain, issued>>
    BY <2>3 DEF PromoteNext, Promoted
  <2>4. ASSUME RecoverStale PROVE DOMAIN jobs' = DOMAIN jobs /\ UNCHANGED <<chain, issued>>
    BY <2>4 DEF RecoverStale, RecoverJobs
  <2> QED BY <1>2, <2>1, <2>2, <2>3, <2>4 DEF WorkerStep
<1>3. CASE OperatorStep /\ ~BulkPurgeDLQ
  <2>1. ASSUME NEW id \in JobId, \/ RequestCancel(id) \/ ReplayJob(id) \/ SkipJob(id)
                                 \/ \E a \in Avail : RescheduleJob(id, a)
        PROVE  DOMAIN jobs' = DOMAIN jobs /\ UNCHANGED <<chain, issued>>
    BY <2>1 DEF RequestCancel, ReplayJob, SkipJob, RescheduleJob, Replayed, Skipped
  <2>2. ASSUME BulkReplayDLQ \/ BulkSkipDLQ
        PROVE  DOMAIN jobs' = DOMAIN jobs /\ UNCHANGED <<chain, issued>>
    BY <2>2 DEF BulkReplayDLQ, BulkSkipDLQ, Replayed, Skipped
  <2> QED BY <1>3, <2>1, <2>2 DEF OperatorStep
<1> QED BY <1>1, <1>2, <1>3

\* Until a job is purged, the index has no holes.
NoHoleUnpurged == issued = DOMAIN jobs => NoHoles(chain)

\* A result of an enqueue that is stored.
LEMMA StoreMakesNoHole ==
    ASSUME RepoInv, NoHoleUnpurged, NEW st, Store(st), DOMAIN jobs \subseteq DOMAIN st.jobs,
           (DOMAIN st.jobs \ DOMAIN jobs) \cap issued = {},
           NoHoles(chain) => NoHoles(st.chain)
    PROVE  NoHoleUnpurged'
<1>1. ASSUME issued' = DOMAIN jobs' PROVE issued = DOMAIN jobs
  <2>1. issued \cup DOMAIN st.jobs = DOMAIN st.jobs
    BY <1>1 DEF Store
  <2> QED BY <2>1 DEF RepoInv
<1> QED BY <1>1 DEF Store, NoHoleUnpurged

\* Enqueue and EnqueueBatch make no hole.
LEMMA ProducerMakesNoHole ==
    ASSUME RepoInv, NoHoleUnpurged, ProducerStep
    PROVE  NoHoleUnpurged'
<1>1. StoreOK(Stored) /\ Stored.jobs = jobs /\ Stored.chain = chain /\ DOMAIN jobs \subseteq issued
  BY DEF StoreOK, Stored, RepoInv
<1>2. ASSUME NEW req \in Requests, Enqueue(req) PROVE NoHoleUnpurged'
  <2>1. PICK id \in JobId \ issued : Store(enqueueSingleInMemory(Stored, req, id))
    BY <1>2 DEF Enqueue
  <2> DEFINE st == enqueueSingleInMemory(Stored, req, id)
  <2>2. /\ DOMAIN jobs \subseteq DOMAIN st.jobs /\ DOMAIN st.jobs \subseteq DOMAIN jobs \cup {id}
        /\ NoHoles(chain) => NoHoles(st.chain)
    BY <1>1, <2>1, RequestAssumption, EnqueueKeepsMaps, EnqueueMakesNoHole
  <2> HIDE DEF st
  <2>3. Store(st)
    BY <2>1 DEF st
  <2> QED BY <2>1, <2>2, <2>3, StoreMakesNoHole
<1>3. ASSUME NEW req1 \in Requests, NEW req2 \in Requests, EnqueueBatch(req1, req2)
      PROVE  NoHoleUnpurged'
  <2>1. PICK id1 \in JobId \ issued, id2 \in JobId \ issued :
            id1 # id2 /\ Store(BatchResult(req1, req2, id1, id2))
    BY <1>3 DEF EnqueueBatch
  <2> DEFINE first == enqueueSingleInMemory(Stored, req1, id1)
             second == enqueueSingleInMemory(first, req2, id2)
  <2>2. req1 \in Request /\ req2 \in Request
    BY RequestAssumption
  <2>3. /\ StoreOK(first) /\ DOMAIN jobs \subseteq DOMAIN first.jobs
        /\ DOMAIN first.jobs \subseteq DOMAIN jobs \cup {id1}
        /\ NoHoles(chain) => NoHoles(first.chain)
    BY <1>1, <2>1, <2>2, EnqueueKeepsMaps, EnqueueMakesNoHole
  <2>4. ~first.err /\ Store(second)
    BY <2>1 DEF BatchResult, Store
  <2>5. id2 \notin DOMAIN first.jobs
    BY <1>1, <2>1, <2>3
  <2> HIDE DEF first
  <2>6. /\ DOMAIN first.jobs \subseteq DOMAIN second.jobs
        /\ DOMAIN second.jobs \subseteq DOMAIN first.jobs \cup {id2}
        /\ NoHoles(first.chain) => NoHoles(second.chain)
    BY <2>2, <2>3, <2>5, EnqueueKeepsMaps, EnqueueMakesNoHole
  <2> HIDE DEF second
  <2> QED BY <2>1, <2>3, <2>4, <2>6, StoreMakesNoHole
<1> QED BY <1>2, <1>3 DEF ProducerStep

\* Without holes the positive sequences are those up to the highest.
LEMMA NoHoleIsDense ==
    ASSUME RepoInv, NoHoleUnpurged
    PROVE  DenseSequences
<1> SUFFICES ASSUME issued = DOMAIN jobs, NEW c \in ChainId
             PROVE  LET pos == {s \in DOMAIN chain[c] : s > 0} IN pos = 1 .. Cardinality(pos)
  BY DEF DenseSequences
<1> DEFINE m == chain[c]
           pos == {s \in DOMAIN m : s > 0}
           max == getMaxSequence(m)
<1>1. DOMAIN m \subseteq Int /\ NoHole(m)
  BY DEF RepoInv, MapsOK, MapsTyped, NoHoleUnpurged, NoHoles
<1>2. max \in Nat /\ max \in DOMAIN m \cup {0} /\ \A s \in DOMAIN m : s <= max
  <2>1. PICK n \in Nat : \A s \in DOMAIN m : s <= n
    BY DEF RepoInv, MapsOK, IndexBounded
  <2> QED BY <1>1, <2>1, MaxSequence
<1> HIDE DEF max, m
<1>3. \A k \in 1 .. max : k \in DOMAIN m
  BY <1>1, <1>2 DEF NoHole
<1>4. pos = 1 .. max
  BY <1>1, <1>2, <1>3
<1>5. Cardinality(1 .. max) = max
  <2>1. Cardinality(1 .. max) = IF 1 > max THEN 0 ELSE max - 1 + 1
    BY <1>2, FS_Interval
  <2> QED BY <1>2, <2>1
<1> QED BY <1>4, <1>5 DEF m

\* Until an operator purges a job, the positive sequences of every chain are 1, 2, ..., n:
\* neither automatic numbering nor a number of the caller's choice leaves a hole for the
\* chain to stop at, in batches and with negative numbers too.
THEOREM DenseSequencesHold == RepoSpec => []DenseSequences
<1>1. RepoInit => NoHoleUnpurged
  BY DEF RepoInit, EmptyMap, NoHoleUnpurged, NoHoles, NoHole
<1>2. RepoInv /\ NoHoleUnpurged /\ [RepoNext]_repoVars => NoHoleUnpurged'
  <2> SUFFICES ASSUME RepoInv, NoHoleUnpurged, [RepoNext]_repoVars PROVE NoHoleUnpurged'
    OBVIOUS
  <2>1. CASE BulkPurgeDLQ
    <3>1. PICK S \in DLQMatches : S # {} /\ jobs' = Without(jobs, S) /\ UNCHANGED issued
      BY <2>1 DEF BulkPurgeDLQ
    <3>2. S \subseteq DOMAIN jobs /\ DOMAIN jobs' = DOMAIN jobs \ S
      BY <3>1 DEF DLQMatches, Without
    <3>3. issued' # DOMAIN jobs'
      BY <3>1, <3>2 DEF RepoInv
    <3> QED BY <3>3 DEF NoHoleUnpurged
  <2>2. CASE WorkerStep \/ TimeStep \/ (OperatorStep /\ ~BulkPurgeDLQ)
    BY <2>2, OtherKeepsIndex DEF NoHoleUnpurged
  <2>3. CASE ProducerStep
    BY <2>3, ProducerMakesNoHole
  <2>4. CASE UNCHANGED repoVars
    BY <2>4 DEF repoVars, NoHoleUnpurged
  <2> QED BY <2>1, <2>2, <2>3, <2>4 DEF RepoNext
<1>3. RepoInv /\ NoHoleUnpurged => DenseSequences
  BY NoHoleIsDense
<1> QED BY <1>1, <1>2, <1>3, RepoInvariant, PTL DEF RepoSpec
==============================================================================
