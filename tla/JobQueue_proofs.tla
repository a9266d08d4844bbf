---------------------------- MODULE JobQueue_proofs ----------------------------
(***************************************************************************)
(* Theorems about JobQueue, for any numbers of jobs and pods, any batch    *)
(* size and any number of faults.                                          *)
(***************************************************************************)
EXTENDS JobQueue, BatchOutcome_proofs, SequenceTheorems

-------------------------------------------------------------------------------
(***************************************************************************)
(* Typing.  TypeOK alone is not inductive: CountProcessing puts cur[p]     *)
(* into the batch, and the marking loop takes the heads of batch[p] and    *)
(* outcome[p].  Hands says what a thread has in hand at each label.        *)
(***************************************************************************)
Popped == {"fetch", "claim", "uncount", "count"}

Hands ==
  \A p \in Pods :
    /\ cur[p] # NoJob <=> at[p] \in Popped
    /\ at[p] \in Marking => Len(outcome[p]) = Len(batch[p])
    /\ at[p] \in {"resolve"} \cup Marking => batch[p] # <<>>

TypeInv == TypeOK /\ Hands

USE DEF Popped, Collecting, Marking, Repairing, Peeking, Running, Label, AtRedis,
        Phase, Submitting, Finished, Status

LEMMA Nulls ==
  /\ NoHash \in JobHash /\ NewHash \in JobHash
  /\ NoStats \in Stats
  /\ \A S : <<>> \in Seq(S)
BY DEF NoHash, NewHash, JobHash, NoStats, Stats

LEMMA HincrbyType ==
  ASSUME stats \in Stats, NEW n \in Int, Hincrby("pending", n) \/ Hincrby("processing", n)
              \/ Hincrby("completed", n) \/ Hincrby("failed", n)
  PROVE  stats' \in Stats
BY DEF Hincrby, Stats

\* The three ways a worker writes to a hash.
LEMMA HashTypes ==
  ASSUME job \in [Jobs -> JobHash], NEW j, NEW s \in Status,
         NEW r \in Jobs \cup {NoJob}, NEW ttl \in BOOLEAN
  PROVE  /\ [job EXCEPT ![j].status = s] \in [Jobs -> JobHash]
         /\ [job EXCEPT ![j].status = s, ![j].result = r] \in [Jobs -> JobHash]
         /\ [job EXCEPT ![j].ttl = ttl] \in [Jobs -> JobHash]
<1>1. [job EXCEPT ![j].status = s] \in [Jobs -> JobHash]
  BY DEF JobHash
<1>2. [job EXCEPT ![j].status = s, ![j].result = r] \in [Jobs -> JobHash]
  BY DEF JobHash
<1>3. [job EXCEPT ![j].ttl = ttl] \in [Jobs -> JobHash]
  BY DEF JobHash
<1> QED
  BY <1>1, <1>2, <1>3

LEMMA TypeInvInit == Init => TypeInv
<1> SUFFICES ASSUME Init PROVE TypeInv
  OBVIOUS
<1>1. TypeOK
  <2>1. faults \in 0..MaxFaults /\ losses \in Nat
    BY JobQueueAssumption DEF Init
  <2>5. repaired \in BOOLEAN
    BY DEF Init
  <2>2. /\ job \in [Jobs -> JobHash]
        /\ pending \in Seq(Jobs)
        /\ stats \in Stats
        /\ submit \in [Jobs -> {"new", "acked", "broken"} \cup Submitting]
    BY Nulls DEF Init
  <2>3. /\ phase \in [Pods -> Phase]
        /\ at \in [Pods -> Label]
        /\ cur \in [Pods -> Jobs \cup {NoJob}]
        /\ was \in [Pods -> BOOLEAN]
        /\ snap \in [Pods -> Stats]
    BY Nulls DEF Init
  <2>4. /\ batch \in [Pods -> Seq(Jobs)]
        /\ outcome \in [Pods -> Seq(Jobs \cup {NoJob})]
    BY Nulls DEF Init
  <2> QED
    BY <2>1, <2>2, <2>3, <2>4, <2>5 DEF TypeOK
<1>2. Hands
  BY DEF Init, Hands
<1> QED
  BY <1>1, <1>2 DEF TypeInv

\* What the handlers, Redis itself and the pods do.
LEMMA TypeInvSubmit ==
  ASSUME TypeInv, NEW j \in Jobs, SubmitNext(j) \/ ExpireJob(j)
  PROVE  TypeInv'
<1> USE JobQueueAssumption
        DEF TypeInv, TypeOK, Hands, SubmitStep, worker, history, redis
<1>1. CASE StoreJob(j)
  BY <1>1, Nulls DEF StoreJob
<1>2. CASE PushJob(j)
  BY <1>2 DEF PushJob
<1>3. CASE CountPending(j)
  BY <1>3, HincrbyType DEF CountPending
<1>4. CASE SubmitBreaks(j)
  BY <1>4 DEF SubmitBreaks
<1>5. CASE ExpireJob(j)
  BY <1>5, Nulls DEF ExpireJob
<1> QED
  BY <1>1, <1>2, <1>3, <1>4, <1>5 DEF SubmitNext

LEMMA TypeInvForget ==
  ASSUME TypeInv, NEW p \in Pods, NEW label \in {"off", "dead"}, Forget(p, label),
         UNCHANGED <<redis, submit, repaired>>,
         phase' \in [Pods -> Phase], faults' \in 0..MaxFaults, losses' \in Nat
  PROVE  TypeInv'
<1> USE JobQueueAssumption
        DEF TypeInv, TypeOK, Hands, Forget, redis
<1>1. TypeOK'
  BY Nulls
<1>2. Hands'
  OBVIOUS
<1> QED
  BY <1>1, <1>2

LEMMA TypeInvPod ==
  ASSUME TypeInv, NEW p \in Pods, PodNext(p)
  PROVE  TypeInv'
<1> USE JobQueueAssumption
        DEF TypeInv, TypeOK, Hands, Transition, worker, history, redis
<1>1. CASE Boot(p)
  BY <1>1 DEF Boot
<1>2. CASE Sigterm(p)
  BY <1>2 DEF Sigterm
<1>3. CASE Kill(p)
  BY <1>3, TypeInvForget DEF Kill, Die
<1>4. CASE Terminate(p)
  BY <1>4, TypeInvForget DEF Terminate
<1>5. CASE RedisError(p)
  BY <1>5, TypeInvForget DEF RedisError, Die
<1> QED
  BY <1>1, <1>2, <1>3, <1>4, <1>5 DEF PodNext

LEMMA TypeInvCollect ==
  ASSUME TypeInv, NEW p \in Pods, CollectNext(p)
  PROVE  TypeInv'
<1> USE JobQueueAssumption
        DEF TypeInv, TypeOK, Hands, Transition, worker, history, redis
<1>1. CASE CheckShutdown(p)
  BY <1>1 DEF CheckShutdown
<1>2. CASE PollEmpty(p)
  BY <1>2 DEF PollEmpty
<1>3. CASE PopJob(p)
  BY <1>3 DEF PopJob
<1>4. CASE Deadline(p)
  BY <1>4 DEF Deadline
<1>5. CASE FetchJob(p)
  BY <1>5 DEF FetchJob
<1>6. CASE ClaimJob(p)
  <2>1. job' \in [Jobs -> JobHash]
    <3>1. job \in [Jobs -> JobHash] /\ job' = [job EXCEPT ![cur[p]].status = "PROCESSING"]
      BY <1>6 DEF ClaimJob, Hset
    <3> QED
      BY <3>1 DEF JobHash
  <2> QED
    BY <1>6, <2>1 DEF ClaimJob
<1>7. CASE UncountPending(p)
  BY <1>7, HincrbyType DEF UncountPending
<1>8. CASE CountProcessing(p)
  <2> USE <1>8 DEF CountProcessing
  <2>1. stats' \in Stats
    BY HincrbyType
  <2>2. cur[p] \in Jobs /\ batch[p] \in Seq(Jobs)
    OBVIOUS
  <2>3. Append(batch[p], cur[p]) \in Seq(Jobs) /\ Append(batch[p], cur[p]) # <<>>
    BY <2>2, AppendProperties
  <2>4. TypeOK'
    BY <2>1, <2>3
  <2>5. Hands'
    BY <2>3
  <2> QED
    BY <2>4, <2>5
<1> QED
  BY <1>1, <1>2, <1>3, <1>4, <1>5, <1>6, <1>7, <1>8 DEF CollectNext

LEMMA TypeInvInfer ==
  ASSUME TypeInv, NEW p \in Pods, InferNext(p)
  PROVE  TypeInv'
<1> USE JobQueueAssumption
        DEF TypeInv, TypeOK, Hands, Transition, worker, history, redis
<1>1. CASE Infer(p)
  <2>1. PICK ok \in SUBSET Elements(batch[p]) :
          LET V == ValidIndices(batch[p], ok)
          IN /\ ~Misindexed(V)
             /\ outcome' = [outcome EXCEPT ![p] =
                  [i \in 1..Len(batch[p]) |->
                     IF Source(V, i) = 0 THEN NoJob ELSE batch[p][Source(V, i)]]]
    BY <1>1 DEF Infer
  <2> DEFINE b == batch[p]
             V == ValidIndices(b, ok)
             results == [i \in 1..Len(b) |-> IF Source(V, i) = 0 THEN NoJob ELSE b[Source(V, i)]]
  <2>2. /\ b \in Seq(Jobs) /\ Len(b) \in Nat
        /\ V \in SUBSET (1..Len(b)) /\ ~Misindexed(V)
    BY <2>1 DEF ValidIndices
  <2>3. \A i \in 1..Len(b) : Source(V, i) = IF i \in V THEN i ELSE 0
    <3> HIDE DEF V, b
    <3> QED
      BY <2>2, SourceIsOwnPosition
  <2>4. results \in Seq(Jobs \cup {NoJob}) /\ Len(results) = Len(b)
    BY <2>2, <2>3
  <2>5. outcome' = [outcome EXCEPT ![p] = results]
    BY <2>1
  <2> HIDE DEF results, V
  <2> QED
    BY <1>1, <2>4, <2>5 DEF Infer
<1>2. CASE InferenceRaises(p)
  BY <1>2 DEF InferenceRaises
<1>3. CASE InferMisindexed(p)
  BY <1>3, TypeInvForget DEF InferMisindexed, Die
<1> QED
  BY <1>1, <1>2, <1>3 DEF InferNext

LEMMA TypeInvMark ==
  ASSUME TypeInv, NEW p \in Pods, MarkNext(p)
  PROVE  TypeInv'
<1> USE JobQueueAssumption
        DEF TypeInv, TypeOK, Hands, Transition, worker, history, redis
<1>1. /\ batch[p] \in Seq(Jobs) /\ batch[p] # <<>>
      /\ outcome[p] \in Seq(Jobs \cup {NoJob}) /\ outcome[p] # <<>>
      /\ Len(outcome[p]) = Len(batch[p])
  <2>1. at[p] \in Marking
    BY DEF MarkNext, MarkRead, MarkWrite, MarkExpire, MarkRelease, MarkTally
  <2>2. /\ batch[p] \in Seq(Jobs) /\ batch[p] # <<>>
        /\ outcome[p] \in Seq(Jobs \cup {NoJob})
        /\ Len(outcome[p]) = Len(batch[p])
    BY <2>1
  <2>3. Len(batch[p]) # 0
    BY <2>2, EmptySeq
  <2> QED
    BY <2>2, <2>3
<1>2. /\ Head(batch[p]) \in Jobs /\ Tail(batch[p]) \in Seq(Jobs)
      /\ Head(outcome[p]) \in Jobs \cup {NoJob}
      /\ Tail(outcome[p]) \in Seq(Jobs \cup {NoJob})
      /\ Len(Tail(outcome[p])) = Len(Tail(batch[p]))
  BY <1>1, HeadTailProperties
<1>3. CASE MarkRead(p)
  <2>1. was' \in [Pods -> BOOLEAN]
    BY <1>3 DEF MarkRead
  <2> QED
    BY <1>3, <2>1 DEF MarkRead
<1>4. CASE MarkWrite(p)
  <2> DEFINE j == Head(batch[p])
             r == Head(outcome[p])
  <2>1. CASE r = NoJob
    <3>1. job' = [job EXCEPT ![j].status = "FAILED"]
      BY <1>4, <2>1 DEF MarkWrite, Hset
    <3> HIDE DEF j
    <3>2. job' \in [Jobs -> JobHash]
      BY <3>1, HashTypes
    <3> QED
      BY <1>4, <3>2 DEF MarkWrite
  <2>2. CASE r # NoJob
    <3>1. job' = [job EXCEPT ![j].status = "COMPLETED", ![j].result = r]
      BY <1>4, <2>2 DEF MarkWrite
    <3> HIDE DEF j, r
    <3>2. j \in Jobs /\ r \in Jobs \cup {NoJob}
      BY <1>2 DEF j, r
    <3>3. job' \in [Jobs -> JobHash]
      BY <3>1, <3>2, HashTypes
    <3> QED
      BY <1>4, <3>3 DEF MarkWrite
  <2> QED
    BY <2>1, <2>2
<1>5. CASE MarkExpire(p)
  <2> DEFINE j == Head(batch[p])
             ttl == job[j].status # "missing"
  <2>1. job' = [job EXCEPT ![j].ttl = ttl]
    BY <1>5 DEF MarkExpire
  <2>2. ttl \in BOOLEAN
    OBVIOUS
  <2> HIDE DEF j, ttl
  <2>3. job' \in [Jobs -> JobHash]
    BY <2>1, <2>2, HashTypes
  <2> QED
    BY <1>5, <2>3 DEF MarkExpire
<1>6. CASE MarkRelease(p)
  BY <1>6, HincrbyType DEF MarkRelease
<1>7. CASE MarkTally(p)
  <2>1. stats' \in Stats
    BY <1>7, HincrbyType DEF MarkTally
  <2>2. TypeOK'
    BY <1>7, <1>2, <2>1 DEF MarkTally
  <2>3. Hands'
    BY <1>7, <1>2 DEF MarkTally
  <2> QED
    BY <2>2, <2>3
<1> QED
  BY <1>3, <1>4, <1>5, <1>6, <1>7 DEF MarkNext

LEMMA CountedType == \A field : Counted(field) \in Nat
<1> SUFFICES ASSUME NEW field PROVE Counted(field) \in Nat
  OBVIOUS
<1>1. IsFiniteSet({j \in Jobs : job[j].status = field})
  BY JobQueueAssumption, FS_Subset
<1> QED
  BY <1>1, FS_CardinalityType DEF Counted

LEMMA TypeInvRepair ==
  ASSUME TypeInv, NEW p \in Pods, RepairNext(p)
  PROVE  TypeInv'
<1> USE JobQueueAssumption
        DEF TypeInv, TypeOK, Hands, Transition, worker, history, redis
<1>1. CASE PeekStats(p)
  BY <1>1, Nulls DEF PeekStats, Stats, NoStats
<1>2. CASE PeekLength(p)
  BY <1>2, Nulls DEF PeekLength
<1>3. CASE ScanJobs(p)
  <2> DEFINE found == [pending |-> 0, processing |-> Counted("processing"),
                       completed |-> Counted("completed"), failed |-> Counted("failed")]
  <2>1. found \in Stats
    <3>1. /\ Counted("processing") \in Int /\ Counted("completed") \in Int
          /\ Counted("failed") \in Int
      BY CountedType
    <3> QED
      BY <3>1 DEF Stats
  <2>2. snap' = [snap EXCEPT ![p] = found]
    BY <1>3 DEF ScanJobs
  <2> HIDE DEF found
  <2>3. snap' \in [Pods -> Stats]
    BY <2>1, <2>2
  <2> QED
    BY <1>3, <2>3 DEF ScanJobs
<1>4. CASE ScanLength(p)
  <2>1. Len(pending) \in Int
    OBVIOUS
  <2>2. snap' \in [Pods -> Stats]
    BY <1>4, <2>1 DEF ScanLength, Stats
  <2> QED
    BY <1>4, <2>2 DEF ScanLength
<1>5. CASE CompareConsistent(p)
  BY <1>5, Nulls DEF CompareConsistent, EndRepair
<1>6. CASE CompareDrifted(p)
  BY <1>6 DEF CompareDrifted
<1>7. CASE OverwriteStats(p)
  BY <1>7, Nulls DEF OverwriteStats, EndRepair
<1> QED
  BY <1>1, <1>2, <1>3, <1>4, <1>5, <1>6, <1>7 DEF RepairNext

LEMMA TypeInvStutter == TypeInv /\ UNCHANGED vars => TypeInv'
BY DEF TypeInv, TypeOK, Hands, vars

LEMMA TypeInvNext == TypeInv /\ [Next]_vars => TypeInv'
BY TypeInvSubmit, TypeInvPod, TypeInvCollect, TypeInvInfer, TypeInvMark,
   TypeInvRepair, TypeInvStutter
   DEF Next, WorkerNext

LEMMA TypeInvariant == Spec => []TypeInv
BY TypeInvInit, TypeInvNext, PTL DEF Spec

(***************************************************************************)
(* Every variable keeps its type: the thread never takes the head of an    *)
(* empty batch, never collects a job it has not popped, and always has one *)
(* outcome per job left to mark (the loop of model_service.py:216-225).    *)
(***************************************************************************)
THEOREM TypeCorrect == Spec => []TypeOK
<1>1. TypeInv => TypeOK
  BY DEF TypeInv
<1> QED
  BY <1>1, TypeInvariant, PTL

-------------------------------------------------------------------------------
(***************************************************************************)
(* Ownership.  What ExclusiveOwnership lacks to be inductive is where an   *)
(* id comes from: a job whose handler has not pushed it yet is nowhere,    *)
(* so the one push of submit_job cannot put it into the list twice.        *)
(***************************************************************************)
NotYetPushed ==
  \A j \in Jobs :
    submit[j] \in {"new", "stored"} =>
      j \notin Elements(pending) /\ \A p \in Pods : ~Holds(p, j)

OwnInv == ExclusiveOwnership /\ NotYetPushed

LEMMA AppendElements ==
  ASSUME NEW S, NEW s \in Seq(S), NEW e \in S
  PROVE  /\ Elements(Append(s, e)) = Elements(s) \cup {e}
         /\ Distinct(s) /\ e \notin Elements(s) => Distinct(Append(s, e))
<1> DEFINE t == Append(s, e)
<1>1. /\ Len(s) \in Nat /\ DOMAIN s = 1..Len(s)
      /\ DOMAIN t = 1..(Len(s) + 1)
      /\ \A i \in 1..Len(s) : t[i] = s[i]
      /\ t[Len(s) + 1] = e
  BY AppendProperties, LenProperties
<1> HIDE DEF t
<1>2. Elements(t) = Elements(s) \cup {e}
  BY <1>1 DEF Elements
<1>3. Distinct(s) /\ e \notin Elements(s) => Distinct(t)
  BY <1>1 DEF Distinct, Elements
<1> QED
  BY <1>2, <1>3 DEF t

LEMMA TailElements ==
  ASSUME NEW S, NEW s \in Seq(S), s # <<>>
  PROVE  /\ Elements(s) = Elements(Tail(s)) \cup {Head(s)}
         /\ Distinct(s) => Distinct(Tail(s)) /\ Head(s) \notin Elements(Tail(s))
<1> DEFINE t == Tail(s)
<1>1. /\ Len(s) \in Nat \ {0} /\ DOMAIN s = 1..Len(s)
      /\ DOMAIN t = 1..(Len(s) - 1)
      /\ \A i \in 1..(Len(s) - 1) : t[i] = s[i + 1]
      /\ s[1] = Head(s)
  BY HeadTailProperties, LenProperties, EmptySeq
<1> HIDE DEF t
<1>2. Elements(s) = Elements(t) \cup {Head(s)}
  <2>1. \A i \in DOMAIN s : i # 1 => i - 1 \in DOMAIN t /\ t[i - 1] = s[i]
    BY <1>1
  <2>2. \A i \in DOMAIN t : i + 1 \in DOMAIN s /\ t[i] = s[i + 1]
    BY <1>1
  <2>3. ASSUME NEW x \in Elements(s) PROVE x \in Elements(t) \cup {Head(s)}
    <3>1. PICK i \in DOMAIN s : x = s[i]
      BY <2>3 DEF Elements
    <3> QED
      BY <1>1, <2>1, <3>1 DEF Elements
  <2>4. ASSUME NEW x \in Elements(t) PROVE x \in Elements(s)
    BY <2>2, <2>4 DEF Elements
  <2>5. Head(s) \in Elements(s)
    BY <1>1 DEF Elements
  <2> QED
    BY <2>3, <2>4, <2>5
<1>3. ASSUME Distinct(s) PROVE Distinct(t)
  <2> SUFFICES ASSUME NEW i \in DOMAIN t, NEW k \in DOMAIN t, t[i] = t[k]
               PROVE  i = k
    BY DEF Distinct
  <2>1. i + 1 \in DOMAIN s /\ k + 1 \in DOMAIN s /\ s[i + 1] = s[k + 1]
    BY <1>1
  <2>2. i + 1 = k + 1
    BY <1>3, <2>1 DEF Distinct
  <2> QED
    BY <1>1, <2>2
<1>4. ASSUME Distinct(s) PROVE Head(s) \notin Elements(t)
  <2> SUFFICES ASSUME NEW i \in DOMAIN t, t[i] = Head(s) PROVE FALSE
    BY DEF Elements
  <2>1. 1 \in DOMAIN s /\ i + 1 \in DOMAIN s /\ s[1] = s[i + 1]
    BY <1>1
  <2>2. 1 = i + 1
    BY <1>4, <2>1 DEF Distinct
  <2> QED
    BY <1>1, <2>2
<1> QED
  BY <1>2, <1>3, <1>4 DEF t

LEMMA EmptyElements == Elements(<<>>) = {} /\ Distinct(<<>>)
BY DEF Elements, Distinct

LEMMA OwnInvInit == Init => OwnInv
<1> SUFFICES ASSUME Init PROVE OwnInv
  OBVIOUS
<1>1. /\ Elements(pending) = {} /\ Distinct(pending)
      /\ \A p \in Pods : Elements(batch[p]) = {} /\ Distinct(batch[p])
      /\ \A p \in Pods : cur[p] = NoJob
  BY EmptyElements DEF Init
<1> QED
  BY <1>1, JobQueueAssumption DEF OwnInv, ExclusiveOwnership, NotYetPushed, Holds

\* No job changes hands, and no handler goes back.
LEMMA OwnInvFrame ==
  ASSUME OwnInv, UNCHANGED <<pending, cur, batch>>,
         \A j \in Jobs : submit'[j] \in {"new", "stored"} => submit[j] \in {"new", "stored"}
  PROVE  OwnInv'
BY DEF OwnInv, ExclusiveOwnership, NotYetPushed, Holds

\* Hands only get emptier.
LEMMA OwnInvShrink ==
  ASSUME TypeInv, OwnInv, UNCHANGED <<pending, submit>>,
         \A q \in Pods : /\ cur'[q] \in {cur[q], NoJob}
                         /\ Distinct(batch'[q])
                         /\ Elements(batch'[q]) \subseteq Elements(batch[q])
  PROVE  OwnInv'
<1>1. /\ NoJob \notin Elements(pending)
      /\ \A q \in Pods : NoJob \notin Elements(batch[q])
  BY JobQueueAssumption DEF TypeInv, TypeOK, Elements
<1>2. \A q \in Pods : \A j : j # NoJob /\ Holds(q, j)' => Holds(q, j)
  BY DEF Holds
<1>3. Distinct(pending)' /\ Elements(pending)' = Elements(pending)
  BY DEF OwnInv, ExclusiveOwnership
<1>4. \A q \in Pods : cur'[q] \notin Elements(batch'[q])
  BY <1>1 DEF OwnInv, ExclusiveOwnership
<1>5. \A q \in Pods : \A j \in Elements(pending) : ~Holds(q, j)'
  BY <1>1, <1>2 DEF OwnInv, ExclusiveOwnership
<1>6. \A q \in Pods : \A r \in Pods \ {q} : \A j \in Jobs : ~(Holds(q, j)' /\ Holds(r, j)')
  BY <1>2, JobQueueAssumption DEF OwnInv, ExclusiveOwnership
<1>7. NotYetPushed'
  BY <1>2, <1>3, JobQueueAssumption DEF OwnInv, NotYetPushed
<1> QED
  BY <1>3, <1>4, <1>5, <1>6, <1>7 DEF OwnInv, ExclusiveOwnership

LEMMA OwnInvForget ==
  ASSUME TypeInv, OwnInv, NEW p \in Pods, NEW label, Forget(p, label),
         UNCHANGED <<redis, submit>>
  PROVE  OwnInv'
<1>1. /\ batch'[p] = <<>> /\ cur'[p] = NoJob
      /\ \A q \in Pods \ {p} : batch'[q] = batch[q] /\ cur'[q] = cur[q]
  BY DEF Forget, TypeInv, TypeOK
<1>2. /\ Elements(batch'[p]) = {} /\ Distinct(batch'[p])
      /\ \A q \in Pods \ {p} : Distinct(batch'[q])
  BY <1>1, EmptyElements DEF OwnInv, ExclusiveOwnership
<1>3. pending' = pending /\ submit' = submit
  BY DEF redis
<1>4. \A q \in Pods : /\ cur'[q] \in {cur[q], NoJob}
                       /\ Distinct(batch'[q])
                       /\ Elements(batch'[q]) \subseteq Elements(batch[q])
  BY <1>1, <1>2
<1> QED
  BY <1>3, <1>4, OwnInvShrink

LEMMA OwnInvSubmit ==
  ASSUME TypeInv, OwnInv, NEW j \in Jobs, SubmitNext(j) \/ ExpireJob(j)
  PROVE  OwnInv'
<1> USE DEF SubmitStep, worker, redis, TypeInv, TypeOK
<1>1. CASE StoreJob(j) \/ CountPending(j) \/ SubmitBreaks(j) \/ ExpireJob(j)
  <2>1. UNCHANGED <<pending, cur, batch>>
    BY <1>1 DEF StoreJob, CountPending, SubmitBreaks, ExpireJob
  <2>2. \A i \in Jobs : submit'[i] \in {"new", "stored"} => submit[i] \in {"new", "stored"}
    BY <1>1 DEF StoreJob, CountPending, SubmitBreaks, ExpireJob
  <2> QED
    BY <2>1, <2>2, OwnInvFrame
<1>2. CASE PushJob(j)
  <2>1. /\ j \notin Elements(pending)
        /\ \A p \in Pods : ~Holds(p, j)
    BY <1>2 DEF PushJob, OwnInv, NotYetPushed
  <2>2. Elements(pending') = Elements(pending) \cup {j} /\ Distinct(pending')
    BY <1>2, <2>1, AppendElements DEF PushJob, OwnInv, ExclusiveOwnership
  <2>3. /\ cur' = cur /\ batch' = batch
        /\ submit' = [submit EXCEPT ![j] = "queued"]
    BY <1>2 DEF PushJob
  <2>4. ExclusiveOwnership'
    BY <2>1, <2>2, <2>3 DEF OwnInv, ExclusiveOwnership, Holds
  <2>5. NotYetPushed'
    BY <2>2, <2>3 DEF OwnInv, NotYetPushed, Holds
  <2> QED
    BY <2>4, <2>5 DEF OwnInv
<1> QED
  BY <1>1, <1>2 DEF SubmitNext

\* A job moves from the list into a worker's hands ...
LEMMA OwnInvPop ==
  ASSUME TypeInv, OwnInv, NEW p \in Pods, PopJob(p)
  PROVE  OwnInv'
<1> DEFINE j == Head(pending)
<1>1. /\ Elements(pending) = Elements(pending') \cup {j}
      /\ Distinct(pending') /\ j \notin Elements(pending')
      /\ j \in Jobs
  BY TailElements, HeadTailProperties
     DEF PopJob, OwnInv, ExclusiveOwnership, TypeInv, TypeOK
<1>2. batch' = batch /\ submit' = submit
  BY DEF PopJob
<1>3. \A q \in Pods : cur'[q] = IF q = p THEN j ELSE cur[q]
  BY DEF PopJob, TypeInv, TypeOK
<1> HIDE DEF j
<1>4. \A q \in Pods : ~Holds(q, j)
  BY <1>1 DEF OwnInv, ExclusiveOwnership
<1>5. ExclusiveOwnership'
  BY <1>1, <1>2, <1>3, <1>4 DEF OwnInv, ExclusiveOwnership, Holds
<1>6. NotYetPushed'
  BY <1>1, <1>2, <1>3 DEF OwnInv, NotYetPushed, Holds
<1> QED
  BY <1>5, <1>6 DEF OwnInv

\* ... from there into its batch ...
LEMMA OwnInvCollect ==
  ASSUME TypeInv, OwnInv, NEW p \in Pods, CountProcessing(p)
  PROVE  OwnInv'
<1>1. cur[p] \in Jobs /\ batch[p] \in Seq(Jobs)
  BY DEF CountProcessing, Transition, TypeInv, TypeOK, Hands
<1>2. /\ batch'[p] = Append(batch[p], cur[p]) /\ cur'[p] = NoJob
      /\ \A q \in Pods \ {p} : batch'[q] = batch[q] /\ cur'[q] = cur[q]
  BY DEF CountProcessing, TypeInv, TypeOK
<1>3. pending' = pending /\ submit' = submit
  BY DEF CountProcessing
<1>4. /\ Elements(batch'[p]) = Elements(batch[p]) \cup {cur[p]}
      /\ Distinct(batch'[p])
      /\ \A q \in Pods \ {p} : /\ Distinct(batch'[q])
                               /\ cur'[q] \notin Elements(batch'[q])
  BY <1>1, <1>2, AppendElements DEF OwnInv, ExclusiveOwnership
<1>5. NoJob \notin Elements(batch'[p]) /\ NoJob \notin Elements(pending)
  <2>1. NoJob \notin Elements(batch[p]) /\ NoJob \notin Elements(pending)
    BY JobQueueAssumption DEF TypeInv, TypeOK, Elements
  <2> QED
    BY <1>1, <1>4, <2>1, JobQueueAssumption
<1>6. \A q \in Pods : \A j : j # NoJob => (Holds(q, j)' <=> Holds(q, j))
  BY <1>2, <1>4 DEF Holds
<1>7. Distinct(pending)' /\ Elements(pending)' = Elements(pending)
  BY <1>3 DEF OwnInv, ExclusiveOwnership
<1>8. \A q \in Pods : \A j \in Elements(pending) : ~Holds(q, j)'
  BY <1>5, <1>6 DEF OwnInv, ExclusiveOwnership
<1>9. \A q \in Pods : \A r \in Pods \ {q} : \A j \in Jobs : ~(Holds(q, j)' /\ Holds(r, j)')
  BY <1>6, JobQueueAssumption DEF OwnInv, ExclusiveOwnership
<1>10. NotYetPushed'
  BY <1>3, <1>6, <1>7, JobQueueAssumption DEF OwnInv, NotYetPushed
<1> QED
  BY <1>2, <1>4, <1>5, <1>7, <1>8, <1>9, <1>10 DEF OwnInv, ExclusiveOwnership

\* ... and out of it.
LEMMA OwnInvLetGo ==
  ASSUME TypeInv, OwnInv, NEW p \in Pods, MarkTally(p) \/ FetchJob(p)
  PROVE  OwnInv'
<1>1. batch[p] \in Seq(Jobs)
  BY DEF TypeInv, TypeOK
<1>2. pending' = pending /\ submit' = submit
  BY DEF MarkTally, FetchJob, redis
<1>3. \A q \in Pods : cur'[q] \in {cur[q], NoJob}
  BY DEF MarkTally, FetchJob, TypeInv, TypeOK
<1>4. \A q \in Pods : /\ Distinct(batch'[q])
                       /\ Elements(batch'[q]) \subseteq Elements(batch[q])
  <2>1. CASE MarkTally(p)
    <3>1. batch[p] # <<>>
      BY <2>1 DEF MarkTally, Transition, TypeInv, Hands
    <3>2. /\ batch'[p] = Tail(batch[p])
          /\ \A q \in Pods \ {p} : batch'[q] = batch[q]
      BY <2>1 DEF MarkTally, TypeInv, TypeOK
    <3> QED
      BY <1>1, <3>1, <3>2, TailElements DEF OwnInv, ExclusiveOwnership
  <2>2. CASE FetchJob(p)
    BY <2>2 DEF FetchJob, OwnInv, ExclusiveOwnership
  <2> QED
    BY <2>1, <2>2
<1> QED
  BY <1>2, <1>3, <1>4, OwnInvShrink

LEMMA OwnInvPod ==
  ASSUME TypeInv, OwnInv, NEW p \in Pods, PodNext(p)
  PROVE  OwnInv'
<1>1. CASE Boot(p) \/ Sigterm(p)
  BY <1>1, OwnInvFrame DEF Boot, Sigterm, redis, worker
<1>2. CASE Kill(p) \/ Terminate(p) \/ RedisError(p)
  BY <1>2, OwnInvForget DEF Kill, Terminate, RedisError, Die, redis
<1> QED
  BY <1>1, <1>2 DEF PodNext

LEMMA OwnInvWorker ==
  ASSUME TypeInv, OwnInv, NEW p \in Pods, WorkerNext(p)
  PROVE  OwnInv'
<1>1. CASE CollectNext(p)
  <2>1. CASE PopJob(p)
    BY <2>1, OwnInvPop
  <2>2. CASE CountProcessing(p)
    BY <2>2, OwnInvCollect
  <2>3. CASE FetchJob(p)
    BY <2>3, OwnInvLetGo
  <2>4. CASE \/ CheckShutdown(p) \/ PollEmpty(p) \/ Deadline(p)
             \/ ClaimJob(p) \/ UncountPending(p)
    BY <2>4, OwnInvFrame
       DEF CheckShutdown, PollEmpty, Deadline, ClaimJob, UncountPending, redis
  <2> QED
    BY <1>1, <2>1, <2>2, <2>3, <2>4 DEF CollectNext
<1>2. CASE InferNext(p)
  <2>1. CASE InferMisindexed(p)
    BY <2>1, OwnInvForget DEF InferMisindexed, Die, redis
  <2>2. CASE Infer(p) \/ InferenceRaises(p)
    BY <2>2, OwnInvFrame DEF Infer, InferenceRaises, redis
  <2> QED
    BY <1>2, <2>1, <2>2 DEF InferNext
<1>3. CASE MarkNext(p)
  <2>1. CASE MarkTally(p)
    BY <2>1, OwnInvLetGo
  <2>2. CASE MarkRead(p) \/ MarkWrite(p) \/ MarkExpire(p) \/ MarkRelease(p)
    BY <2>2, OwnInvFrame DEF MarkRead, MarkWrite, MarkExpire, MarkRelease, redis
  <2> QED
    BY <1>3, <2>1, <2>2 DEF MarkNext
<1>4. CASE RepairNext(p)
  BY <1>4, OwnInvFrame
     DEF RepairNext, PeekStats, PeekLength, ScanJobs, ScanLength,
         CompareConsistent, CompareDrifted, OverwriteStats, redis
<1> QED
  BY <1>1, <1>2, <1>3, <1>4 DEF WorkerNext

LEMMA OwnInvNext == TypeInv /\ OwnInv /\ [Next]_vars => OwnInv'
<1>1. OwnInv /\ UNCHANGED vars => OwnInv'
  BY OwnInvFrame DEF vars
<1> QED
  BY <1>1, OwnInvSubmit, OwnInvPod, OwnInvWorker DEF Next

LEMMA OwnInvariant == Spec => []OwnInv
BY OwnInvInit, OwnInvNext, TypeInvariant, PTL DEF Spec

(***************************************************************************)
(* No job is ever in two places, so LPOP by any number of pods, batching   *)
(* and marking run each job at most once (redis_queue.py:141,              *)
(* model_service.py:157-174, :216-225), whatever pods crash.               *)
(***************************************************************************)
THEOREM OwnershipCorrect == Spec => []ExclusiveOwnership
<1>1. OwnInv => ExclusiveOwnership
  BY DEF OwnInv
<1> QED
  BY <1>1, OwnInvariant, PTL

-------------------------------------------------------------------------------
(***************************************************************************)
(* What the job hashes hold.                                               *)
(***************************************************************************)

(***************************************************************************)
(* A hash before and after get_next_pending_job, and what a worker may     *)
(* rely on at each of its labels: the job it has popped or collected is in *)
(* nobody else's hands, so the hash is as the worker left it.  Only a job  *)
(* that was given its retention window can change behind its back.         *)
(***************************************************************************)
ClaimedHash == [NewHash EXCEPT !.status = "PROCESSING"]

Stored ==
  \A j \in Jobs :
    /\ submit[j] = "new" => job[j] = NoHash
    /\ submit[j] = "stored" => job[j] = NewHash

Retention == \A j \in Jobs : job[j].ttl => job[j].status \in Finished

HandsIntact(p) ==
  /\ at[p] \in {"fetch", "claim"} => job[cur[p]] = NewHash
  /\ at[p] \in {"uncount", "count"} => job[cur[p]] = ClaimedHash
  /\ \A j \in Elements(batch[p]) :
       job[j] = ClaimedHash
         \/ (at[p] \in {"expire", "release", "tally"} /\ j = Head(batch[p]))
  /\ at[p] = "expire" =>
       LET h == job[Head(batch[p])] IN h.status \in Finished /\ ~h.ttl

OutcomesOwn(p) ==
  at[p] \in Marking =>
    \A i \in 1..Len(batch[p]) : outcome[p][i] \in {NoJob, batch[p][i]}

RecInv ==
  /\ Stored
  /\ QueuedJobsIntact
  /\ RecordsWhole
  /\ Retention
  /\ ResultsBelong
  /\ \A p \in Pods : HandsIntact(p) /\ OutcomesOwn(p)

-------------------------------------------------------------------------------
LEMMA HashFields ==
  /\ NoHash.status = "missing" /\ NoHash.result = NoJob /\ ~NoHash.ttl
  /\ NewHash.status = "PENDING" /\ NewHash.result = NoJob /\ ~NewHash.ttl /\ NewHash.whole
  /\ ClaimedHash.status = "PROCESSING" /\ ClaimedHash.result = NoJob
  /\ ~ClaimedHash.ttl /\ ClaimedHash.whole
BY DEF NoHash, NewHash, ClaimedHash

LEMMA RecInvInit == Init => RecInv
<1> SUFFICES ASSUME Init PROVE RecInv
  OBVIOUS
<1>1. \A j \in Jobs : job[j] = NoHash /\ submit[j] = "new"
  BY DEF Init
<1>2. Elements(pending) = {} /\ \A p \in Pods : at[p] = "off" /\ Elements(batch[p]) = {}
  BY EmptyElements DEF Init
<1>3. Stored /\ QueuedJobsIntact
  BY <1>1, <1>2 DEF Stored, QueuedJobsIntact
<1>5. RecordsWhole /\ Retention /\ ResultsBelong
  BY <1>1, HashFields DEF RecordsWhole, Retention, ResultsBelong
<1>4. \A p \in Pods : HandsIntact(p) /\ OutcomesOwn(p)
  BY <1>2 DEF HandsIntact, OutcomesOwn
<1> QED
  BY <1>3, <1>4, <1>5 DEF RecInv

\* A worker that does not move keeps its facts while its jobs are left alone.
LEMMA HandsKept ==
  ASSUME TypeInv, RecInv, NEW q \in Pods,
         at'[q] = at[q], cur'[q] = cur[q], batch'[q] = batch[q], outcome'[q] = outcome[q],
         \A j \in Jobs : Holds(q, j) => job'[j] = job[j]
  PROVE  HandsIntact(q)' /\ OutcomesOwn(q)'
<1>1. at[q] \in Popped => cur[q] \in Jobs /\ job'[cur[q]] = job[cur[q]]
  BY DEF TypeInv, TypeOK, Hands, Holds
<1>2. batch[q] \in Seq(Jobs) /\ Elements(batch[q]) \subseteq Jobs
  BY DEF TypeInv, TypeOK, Elements
<1>3. \A j \in Elements(batch[q]) : job'[j] = job[j]
  BY <1>2 DEF Holds
<1>4. at[q] = "expire" => Head(batch[q]) \in Elements(batch[q])
  BY <1>2, TailElements DEF TypeInv, Hands
<1>5. Elements(batch'[q]) = Elements(batch[q])
  OBVIOUS
<1>6. HandsIntact(q)'
  BY <1>1, <1>3, <1>4, <1>5 DEF RecInv, HandsIntact
<1>7. OutcomesOwn(q)'
  BY DEF RecInv, OutcomesOwn
<1> QED
  BY <1>6, <1>7

\* The worker of p moves, perhaps with a job it takes off the list.
LEMMA RecInvMove ==
  ASSUME TypeInv, RecInv, NEW p \in Pods, UNCHANGED <<job, submit>>,
         Elements(pending') \subseteq Elements(pending),
         \A q \in Pods \ {p} : /\ at'[q] = at[q] /\ cur'[q] = cur[q]
                               /\ batch'[q] = batch[q] /\ outcome'[q] = outcome[q],
         HandsIntact(p)', OutcomesOwn(p)'
  PROVE  RecInv'
<1>1. \A q \in Pods : HandsIntact(q)' /\ OutcomesOwn(q)'
  BY HandsKept
<1>2. QueuedJobsIntact'
  BY DEF RecInv, QueuedJobsIntact
<1>3. Stored' /\ RecordsWhole' /\ Retention' /\ ResultsBelong'
  BY DEF RecInv, Stored, RecordsWhole, Retention, ResultsBelong
<1> QED
  BY <1>1, <1>2, <1>3 DEF RecInv

\* The worker of p writes to the hash of a job it has in hand.
LEMMA RecInvWrite ==
  ASSUME TypeInv, OwnInv, RecInv, NEW p \in Pods, NEW j \in Jobs, Holds(p, j),
         UNCHANGED <<pending, submit>>,
         \A i \in Jobs \ {j} : job'[i] = job[i],
         job'[j].status # "missing" => job'[j].whole,
         job'[j].ttl => job'[j].status \in Finished,
         job'[j].result = IF job'[j].status = "COMPLETED" THEN j ELSE NoJob,
         \A q \in Pods \ {p} : /\ at'[q] = at[q] /\ cur'[q] = cur[q]
                               /\ batch'[q] = batch[q] /\ outcome'[q] = outcome[q],
         HandsIntact(p)', OutcomesOwn(p)'
  PROVE  RecInv'
<1>1. \A q \in Pods \ {p} : HandsIntact(q)' /\ OutcomesOwn(q)'
  <2> SUFFICES ASSUME NEW q \in Pods \ {p} PROVE HandsIntact(q)' /\ OutcomesOwn(q)'
    OBVIOUS
  <2>1. ~Holds(q, j)
    BY DEF OwnInv, ExclusiveOwnership
  <2>2. \A i \in Jobs : Holds(q, i) => job'[i] = job[i]
    BY <2>1
  <2> QED
    BY <2>2, HandsKept
<1>2. j \notin Elements(pending) /\ Elements(pending) \subseteq Jobs /\ Elements(pending') = Elements(pending)
  BY DEF OwnInv, ExclusiveOwnership, TypeInv, TypeOK, Elements
<1>3. QueuedJobsIntact'
  BY <1>2 DEF RecInv, QueuedJobsIntact
<1>4. submit[j] \notin {"new", "stored"}
  BY DEF OwnInv, NotYetPushed
<1>5. Stored'
  BY <1>4 DEF RecInv, Stored
<1>6. RecordsWhole' /\ Retention' /\ ResultsBelong'
  BY DEF RecInv, RecordsWhole, Retention, ResultsBelong
<1> QED
  BY <1>1, <1>3, <1>5, <1>6 DEF RecInv

-------------------------------------------------------------------------------
LEMMA RecInvSubmit ==
  ASSUME TypeInv, OwnInv, RecInv, NEW j \in Jobs, SubmitNext(j)
  PROVE  RecInv'
<1>1. UNCHANGED <<at, cur, batch, outcome>>
  BY DEF SubmitNext, StoreJob, PushJob, CountPending, SubmitBreaks, SubmitStep, worker
<1>2. \A i \in Jobs \ {j} : submit'[i] = submit[i]
  BY DEF SubmitNext, StoreJob, PushJob, CountPending, SubmitBreaks, SubmitStep,
         TypeInv, TypeOK
<1>3. CASE StoreJob(j)
  <2>1. submit[j] = "new" /\ submit'[j] = "stored" /\ pending' = pending
    BY <1>3 DEF StoreJob, SubmitStep, TypeInv, TypeOK
  <2>2. job'[j] = NewHash /\ \A i \in Jobs \ {j} : job'[i] = job[i]
    BY <1>3 DEF StoreJob, TypeInv, TypeOK
  <2>3. j \notin Elements(pending) /\ \A p \in Pods : ~Holds(p, j)
    BY <2>1 DEF OwnInv, NotYetPushed
  <2>4. \A p \in Pods : HandsIntact(p)' /\ OutcomesOwn(p)'
    BY <1>1, <2>2, <2>3, HandsKept
  <2>5. QueuedJobsIntact'
    <3>1. Elements(pending') = Elements(pending) /\ Elements(pending) \subseteq Jobs
      BY <2>1 DEF TypeInv, TypeOK, Elements
    <3> QED
      BY <3>1, <2>2, <2>3 DEF RecInv, QueuedJobsIntact
  <2>6. Stored'
    BY <1>2, <2>1, <2>2 DEF RecInv, Stored
  <2>7. RecordsWhole' /\ Retention' /\ ResultsBelong'
    BY <2>2, HashFields DEF RecInv, RecordsWhole, Retention, ResultsBelong
  <2> QED
    BY <2>4, <2>5, <2>6, <2>7 DEF RecInv
<1>4. CASE PushJob(j) \/ CountPending(j) \/ SubmitBreaks(j)
  <2>1. job' = job
    BY <1>4 DEF PushJob, CountPending, SubmitBreaks, redis
  <2>2. submit'[j] \notin {"new", "stored"}
    BY <1>4 DEF PushJob, CountPending, SubmitBreaks, SubmitStep, TypeInv, TypeOK
  <2>3. \A i \in Elements(pending') : job[i] = NewHash
    <3>1. CASE PushJob(j)
      <4>1. Elements(pending') = Elements(pending) \cup {j} /\ job[j] = NewHash
        BY <3>1, AppendElements DEF PushJob, SubmitStep, RecInv, Stored, TypeInv, TypeOK
      <4> QED
        BY <4>1 DEF RecInv, QueuedJobsIntact
    <3>2. CASE CountPending(j) \/ SubmitBreaks(j)
      BY <3>2 DEF CountPending, SubmitBreaks, redis, RecInv, QueuedJobsIntact
    <3> QED
      BY <1>4, <3>1, <3>2
  <2>4. \A p \in Pods : HandsIntact(p)' /\ OutcomesOwn(p)'
    BY <1>1, <2>1, HandsKept
  <2>5. Stored' /\ QueuedJobsIntact'
    BY <1>2, <2>1, <2>2, <2>3 DEF RecInv, Stored, QueuedJobsIntact
  <2>6. RecordsWhole' /\ Retention' /\ ResultsBelong'
    BY <2>1 DEF RecInv, RecordsWhole, Retention, ResultsBelong
  <2> QED
    BY <2>4, <2>5, <2>6 DEF RecInv
<1> QED
  BY <1>3, <1>4 DEF SubmitNext

\* Redis only removes hashes that nobody relies on any more.
LEMMA RecInvExpire ==
  ASSUME TypeInv, OwnInv, RecInv, NEW j \in Jobs, ExpireJob(j)
  PROVE  RecInv'
<1>1. job[j].ttl /\ job[j].status \in Finished
  BY DEF ExpireJob, RecInv, Retention
<1>2. /\ job'[j] = NoHash /\ \A i \in Jobs \ {j} : job'[i] = job[i]
      /\ UNCHANGED <<pending, submit, at, cur, batch, outcome>>
  BY DEF ExpireJob, worker, TypeInv, TypeOK
<1>3. job[j] \notin {NoHash, NewHash, ClaimedHash}
  BY <1>1, HashFields
<1>4. j \notin Elements(pending) /\ submit[j] \notin {"new", "stored"}
  BY <1>3 DEF RecInv, QueuedJobsIntact, Stored
<1>5. ASSUME NEW p \in Pods PROVE HandsIntact(p)' /\ OutcomesOwn(p)'
  <2>1. HandsIntact(p) /\ OutcomesOwn(p)
    BY DEF RecInv
  <2>2. Elements(batch'[p]) = Elements(batch[p]) /\ Elements(batch[p]) \subseteq Jobs
    BY <1>2 DEF TypeInv, TypeOK, Elements
  <2>3. at[p] \in Popped => cur[p] \in Jobs /\ cur[p] # j
    BY <1>3, <2>1 DEF HandsIntact, TypeInv, TypeOK, Hands
  <2>4. at[p] = "expire" => Head(batch[p]) \in Jobs /\ Head(batch[p]) # j
    <3>1. at[p] = "expire" => Head(batch[p]) \in Jobs
      BY TailElements, <2>2 DEF TypeInv, TypeOK, Hands
    <3>2. at[p] = "expire" => ~job[Head(batch[p])].ttl
      BY <2>1 DEF HandsIntact
    <3> QED
      BY <1>1, <3>1, <3>2
  <2>5. HandsIntact(p)'
    BY <1>2, <1>3, <2>1, <2>2, <2>3, <2>4 DEF HandsIntact
  <2>6. OutcomesOwn(p)'
    BY <1>2, <2>1 DEF OutcomesOwn
  <2> QED
    BY <2>5, <2>6
<1>6. QueuedJobsIntact'
  <2>1. Elements(pending') = Elements(pending) /\ Elements(pending) \subseteq Jobs
    BY <1>2 DEF TypeInv, TypeOK, Elements
  <2> QED
    BY <1>2, <1>4, <2>1 DEF RecInv, QueuedJobsIntact
<1>7. Stored'
  BY <1>2, <1>4 DEF RecInv, Stored
<1>8. RecordsWhole' /\ Retention' /\ ResultsBelong'
  BY <1>2, HashFields DEF RecInv, RecordsWhole, Retention, ResultsBelong
<1> QED
  BY <1>5, <1>6, <1>7, <1>8 DEF RecInv

-------------------------------------------------------------------------------
LEMMA RecInvStill ==
  ASSUME TypeInv, RecInv, UNCHANGED <<job, submit, pending, at, cur, batch, outcome>>
  PROVE  RecInv'
<1>1. \A q \in Pods : HandsIntact(q)' /\ OutcomesOwn(q)'
  BY HandsKept
<1>2. Stored' /\ QueuedJobsIntact' /\ RecordsWhole' /\ Retention' /\ ResultsBelong'
  BY DEF RecInv, Stored, QueuedJobsIntact, RecordsWhole, Retention, ResultsBelong
<1> QED
  BY <1>1, <1>2 DEF RecInv

\* Steps between labels at which the worker relies on no more than its batch.
LEMMA RecInvQuiet ==
  ASSUME TypeInv, RecInv, NEW p \in Pods,
         UNCHANGED <<job, submit, pending, cur, batch, outcome>>,
         \A q \in Pods \ {p} : at'[q] = at[q],
         at[p] \notin {"expire", "release", "tally"},
         at'[p] \notin Popped \cup {"expire"},
         at'[p] \in Marking => at[p] \in Marking
  PROVE  RecInv'
<1>1. HandsIntact(p) /\ OutcomesOwn(p)
  BY DEF RecInv
<1>2. Elements(batch'[p]) = Elements(batch[p])
  OBVIOUS
<1>3. HandsIntact(p)' /\ OutcomesOwn(p)'
  BY <1>1, <1>2 DEF HandsIntact, OutcomesOwn
<1> QED
  BY <1>3, RecInvMove

LEMMA RecInvForget ==
  ASSUME TypeInv, RecInv, NEW p \in Pods, NEW label \in {"off", "dead"},
         Forget(p, label), UNCHANGED <<redis, submit>>
  PROVE  RecInv'
<1>1. /\ at'[p] = label /\ batch'[p] = <<>>
      /\ \A q \in Pods \ {p} : /\ at'[q] = at[q] /\ cur'[q] = cur[q]
                               /\ batch'[q] = batch[q] /\ outcome'[q] = outcome[q]
  BY DEF Forget, TypeInv, TypeOK
<1>2. Elements(batch'[p]) = {}
  BY <1>1, EmptyElements
<1>3. HandsIntact(p)' /\ OutcomesOwn(p)'
  BY <1>1, <1>2 DEF HandsIntact, OutcomesOwn
<1>4. UNCHANGED <<job, submit>> /\ Elements(pending') \subseteq Elements(pending)
  BY DEF redis
<1> QED
  BY <1>1, <1>3, <1>4, RecInvMove

LEMMA RecInvPod ==
  ASSUME TypeInv, RecInv, NEW p \in Pods, PodNext(p)
  PROVE  RecInv'
<1> USE DEF redis, worker
<1>1. CASE Boot(p)
  <2>1. /\ UNCHANGED <<job, submit, pending, cur, batch, outcome>>
        /\ \A q \in Pods \ {p} : at'[q] = at[q]
        /\ at[p] = "off" /\ at'[p] = "scan"
    BY <1>1 DEF Boot, Transition, TypeInv, TypeOK
  <2> QED
    BY <2>1, RecInvQuiet
<1>2. CASE Sigterm(p)
  BY <1>2, RecInvStill DEF Sigterm
<1>3. CASE Kill(p) \/ Terminate(p) \/ RedisError(p)
  BY <1>3, RecInvForget DEF Kill, Terminate, RedisError, Die
<1> QED
  BY <1>1, <1>2, <1>3 DEF PodNext

LEMMA RecInvRepair ==
  ASSUME TypeInv, RecInv, NEW p \in Pods, RepairNext(p)
  PROVE  RecInv'
<1>1. /\ UNCHANGED <<job, submit, pending, cur, batch, outcome>>
      /\ \A q \in Pods \ {p} : at'[q] = at[q]
      /\ at[p] \in Peeking \cup Repairing /\ at'[p] \in Peeking \cup Repairing \cup {"loop"}
  BY DEF RepairNext, PeekStats, PeekLength, ScanJobs, ScanLength, CompareConsistent,
         CompareDrifted, OverwriteStats, Transition, redis, TypeInv, TypeOK
<1> QED
  BY <1>1, RecInvQuiet

LEMMA RecInvPop ==
  ASSUME TypeInv, OwnInv, RecInv, NEW p \in Pods, PopJob(p)
  PROVE  RecInv'
<1>1. /\ UNCHANGED <<job, submit, batch, outcome>>
      /\ \A q \in Pods \ {p} : at'[q] = at[q] /\ cur'[q] = cur[q]
      /\ at[p] = "poll" /\ at'[p] = "fetch" /\ cur'[p] = Head(pending)
      /\ pending # <<>> /\ pending' = Tail(pending)
  BY DEF PopJob, Transition, TypeInv, TypeOK
<1>2. Elements(pending) = Elements(pending') \cup {Head(pending)}
  BY <1>1, TailElements DEF TypeInv, TypeOK
<1>3. job[Head(pending)] = NewHash
  BY <1>2 DEF RecInv, QueuedJobsIntact
<1>4. HandsIntact(p)
  BY DEF RecInv
<1>5. Elements(batch'[p]) = Elements(batch[p])
  BY <1>1
<1>6. HandsIntact(p)' /\ OutcomesOwn(p)'
  BY <1>1, <1>3, <1>4, <1>5 DEF HandsIntact, OutcomesOwn
<1> QED
  BY <1>1, <1>2, <1>6, RecInvMove

\* The id is never orphaned: the hash of a popped job is still there.
LEMMA RecInvFetch ==
  ASSUME TypeInv, RecInv, NEW p \in Pods, FetchJob(p)
  PROVE  /\ at'[p] = "claim" /\ cur' = cur
         /\ RecInv'
<1>1. HandsIntact(p) /\ at[p] = "fetch"
  BY DEF RecInv, FetchJob, Transition
<1>2. job[cur[p]].status # "missing"
  BY <1>1, HashFields DEF HandsIntact
<1>3. /\ UNCHANGED <<job, submit, pending, batch, outcome>>
      /\ at'[p] = "claim" /\ \A q \in Pods \ {p} : at'[q] = at[q]
  BY <1>2 DEF FetchJob, Transition, redis, TypeInv, TypeOK
<1>4. cur' = cur
  BY <1>2 DEF FetchJob, TypeInv, TypeOK
<1>5. Elements(batch'[p]) = Elements(batch[p])
  BY <1>3
<1>6. HandsIntact(p)' /\ OutcomesOwn(p)'
  BY <1>1, <1>3, <1>4, <1>5 DEF HandsIntact, OutcomesOwn
<1>7. RecInv'
  BY <1>3, <1>4, <1>6, RecInvMove
<1> QED
  BY <1>3, <1>4, <1>7

LEMMA RecInvClaim ==
  ASSUME TypeInv, OwnInv, RecInv, NEW p \in Pods, ClaimJob(p)
  PROVE  /\ job[cur[p]] = NewHash /\ cur[p] \in Jobs
         /\ job' = [job EXCEPT ![cur[p]] = ClaimedHash]
         /\ RecInv'
<1> DEFINE j == cur[p]
<1>1. HandsIntact(p) /\ at[p] = "claim" /\ j \in Jobs
  BY DEF RecInv, ClaimJob, Transition, TypeInv, TypeOK, Hands
<1>2. job[j] = NewHash
  BY <1>1 DEF HandsIntact
<1>3. job' = [job EXCEPT ![j] = ClaimedHash]
  BY <1>1, <1>2 DEF ClaimJob, Hset, ClaimedHash, TypeInv, TypeOK
<1>4. /\ UNCHANGED <<submit, pending, cur, batch, outcome>>
      /\ at'[p] = "uncount" /\ \A q \in Pods \ {p} : at'[q] = at[q]
  BY DEF ClaimJob, Transition, TypeInv, TypeOK
<1> HIDE DEF j
<1>5. job'[j] = ClaimedHash /\ \A i \in Jobs \ {j} : job'[i] = job[i]
  BY <1>1, <1>3 DEF TypeInv, TypeOK
<1>6. j \notin Elements(batch[p]) /\ Holds(p, j) /\ Elements(batch[p]) \subseteq Jobs
  BY DEF OwnInv, ExclusiveOwnership, Holds, j, TypeInv, TypeOK, Elements
<1>7. Elements(batch'[p]) = Elements(batch[p])
  BY <1>4
<1>8. HandsIntact(p)'
  BY <1>1, <1>4, <1>5, <1>6, <1>7 DEF HandsIntact, j
<1>9. OutcomesOwn(p)'
  BY <1>4 DEF OutcomesOwn
<1>10. RecInv'
  BY <1>1, <1>4, <1>5, <1>6, <1>8, <1>9, HashFields, RecInvWrite
<1> QED
  BY <1>1, <1>2, <1>3, <1>10 DEF j

LEMMA RecInvCollect ==
  ASSUME TypeInv, OwnInv, RecInv, NEW p \in Pods, CollectNext(p)
  PROVE  RecInv'
<1>1. CASE CheckShutdown(p) \/ PollEmpty(p) \/ Deadline(p)
  <2>1. /\ UNCHANGED <<job, submit, pending, cur, batch, outcome>>
        /\ \A q \in Pods \ {p} : at'[q] = at[q]
        /\ at[p] \in {"loop", "poll"} /\ at'[p] \in {"loop", "poll", "exited", "resolve"}
    BY <1>1 DEF CheckShutdown, PollEmpty, Deadline, Transition, redis, TypeInv, TypeOK
  <2> QED
    BY <2>1, RecInvQuiet
<1>2. CASE PopJob(p)
  BY <1>2, RecInvPop
<1>3. CASE FetchJob(p)
  BY <1>3, RecInvFetch
<1>4. CASE ClaimJob(p)
  BY <1>4, RecInvClaim
<1>5. CASE UncountPending(p)
  <2>1. /\ UNCHANGED <<job, submit, pending, cur, batch, outcome>>
        /\ at[p] = "uncount" /\ at'[p] = "count" /\ \A q \in Pods \ {p} : at'[q] = at[q]
    BY <1>5 DEF UncountPending, Transition, TypeInv, TypeOK
  <2>2. HandsIntact(p) /\ Elements(batch'[p]) = Elements(batch[p])
    BY <2>1 DEF RecInv
  <2>3. HandsIntact(p)' /\ OutcomesOwn(p)'
    BY <2>1, <2>2 DEF HandsIntact, OutcomesOwn
  <2> QED
    BY <2>1, <2>3, RecInvMove
<1>6. CASE CountProcessing(p)
  <2>1. /\ UNCHANGED <<job, submit, pending, outcome>>
        /\ at[p] = "count" /\ at'[p] \in {"poll", "resolve"}
        /\ batch'[p] = Append(batch[p], cur[p])
        /\ \A q \in Pods \ {p} : at'[q] = at[q] /\ cur'[q] = cur[q] /\ batch'[q] = batch[q]
    BY <1>6 DEF CountProcessing, Transition, TypeInv, TypeOK
  <2>2. HandsIntact(p) /\ cur[p] \in Jobs /\ batch[p] \in Seq(Jobs)
    BY <2>1 DEF RecInv, TypeInv, TypeOK, Hands
  <2>3. Elements(batch'[p]) = Elements(batch[p]) \cup {cur[p]}
    BY <2>1, <2>2, AppendElements
  <2>4. HandsIntact(p)' /\ OutcomesOwn(p)'
    BY <2>1, <2>2, <2>3 DEF HandsIntact, OutcomesOwn
  <2> QED
    BY <2>1, <2>4, RecInvMove
<1> QED
  BY <1>1, <1>2, <1>3, <1>4, <1>5, <1>6 DEF CollectNext

-------------------------------------------------------------------------------
\* Whatever a worker has in hand, the outcome at a position of its batch is of
\* that position's job.
LEMMA InferOutcomes ==
  ASSUME TypeInv, NEW p \in Pods, Infer(p) \/ InferenceRaises(p)
  PROVE  \A i \in 1..Len(batch[p]) : outcome'[p][i] \in {NoJob, batch[p][i]}
<1>1. CASE InferenceRaises(p)
  BY <1>1 DEF InferenceRaises, TypeInv, TypeOK
<1>2. CASE Infer(p)
  <2>1. PICK ok \in SUBSET Elements(batch[p]) :
          LET V == ValidIndices(batch[p], ok)
          IN /\ ~Misindexed(V)
             /\ outcome' = [outcome EXCEPT ![p] =
                  [i \in 1..Len(batch[p]) |->
                     IF Source(V, i) = 0 THEN NoJob ELSE batch[p][Source(V, i)]]]
    BY <1>2 DEF Infer
  <2> DEFINE b == batch[p]
             V == ValidIndices(b, ok)
  <2>2. Len(b) \in Nat /\ V \in SUBSET (1..Len(b)) /\ ~Misindexed(V)
    BY <2>1 DEF ValidIndices, TypeInv, TypeOK
  <2>3. \A i \in 1..Len(b) : Source(V, i) = IF i \in V THEN i ELSE 0
    <3> HIDE DEF V, b
    <3> QED
      BY <2>2, SourceIsOwnPosition
  <2>4. \A i \in 1..Len(b) :
          outcome'[p][i] = IF Source(V, i) = 0 THEN NoJob ELSE b[Source(V, i)]
    BY <2>1 DEF TypeInv, TypeOK
  <2> HIDE DEF V
  <2> QED
    BY <2>3, <2>4
<1> QED
  BY <1>1, <1>2

LEMMA TallyOutcomes ==
  ASSUME TypeInv, NEW p \in Pods, OutcomesOwn(p), MarkTally(p)
  PROVE  OutcomesOwn(p)'
<1>1. /\ batch[p] \in Seq(Jobs) /\ outcome[p] \in Seq(Jobs \cup {NoJob})
      /\ batch[p] # <<>> /\ Len(outcome[p]) = Len(batch[p]) /\ at[p] = "tally"
  BY DEF MarkTally, Transition, TypeInv, TypeOK, Hands
<1>2. batch'[p] = Tail(batch[p]) /\ outcome'[p] = Tail(outcome[p])
  BY DEF MarkTally, TypeInv, TypeOK
<1>3. outcome[p] # <<>> /\ Len(batch[p]) \in Nat \ {0}
  BY <1>1, EmptySeq
<1>4. Len(batch'[p]) = Len(batch[p]) - 1
  BY <1>1, <1>2, HeadTailProperties
<1>5. \A i \in 1..Len(batch'[p]) :
        batch'[p][i] = batch[p][i + 1] /\ outcome'[p][i] = outcome[p][i + 1]
  BY <1>1, <1>2, <1>3, <1>4, HeadTailProperties
<1>6. \A i \in 1..Len(batch'[p]) : outcome[p][i + 1] \in {NoJob, batch[p][i + 1]}
  BY <1>1, <1>3, <1>4 DEF OutcomesOwn
<1> QED
  BY <1>5, <1>6 DEF OutcomesOwn

LEMMA RecInvInfer ==
  ASSUME TypeInv, RecInv, NEW p \in Pods, InferNext(p)
  PROVE  RecInv'
<1>1. CASE Infer(p) \/ InferenceRaises(p)
  <2>1. /\ UNCHANGED <<job, submit, pending, cur, batch>>
        /\ at[p] = "resolve" /\ at'[p] = "mark"
        /\ \A q \in Pods \ {p} : at'[q] = at[q] /\ outcome'[q] = outcome[q]
    BY <1>1 DEF Infer, InferenceRaises, Transition, redis, TypeInv, TypeOK
  <2>2. HandsIntact(p)'
    <3>1. HandsIntact(p) /\ Elements(batch'[p]) = Elements(batch[p])
      BY <2>1 DEF RecInv
    <3> QED
      BY <2>1, <3>1 DEF HandsIntact
  <2>3. \A i \in 1..Len(batch[p]) : outcome'[p][i] \in {NoJob, batch[p][i]}
    BY <1>1, InferOutcomes
  <2>4. OutcomesOwn(p)'
    BY <2>1, <2>3 DEF OutcomesOwn
  <2> QED
    BY <2>1, <2>2, <2>4, RecInvMove
<1>2. CASE InferMisindexed(p)
  BY <1>2, RecInvForget DEF InferMisindexed, Die
<1> QED
  BY <1>1, <1>2 DEF InferNext

\* What a worker knows of the job it is marking.
LEMMA MarkedJob ==
  ASSUME TypeInv, OwnInv, RecInv, NEW p \in Pods, at[p] \in Marking
  PROVE  /\ Head(batch[p]) \in Jobs /\ Holds(p, Head(batch[p]))
         /\ Elements(batch[p]) \subseteq Jobs
         /\ Head(outcome[p]) \in {NoJob, Head(batch[p])}
         /\ Head(batch[p]) \notin Elements(Tail(batch[p]))
         /\ Elements(batch[p]) = Elements(Tail(batch[p])) \cup {Head(batch[p])}
         /\ HandsIntact(p) /\ OutcomesOwn(p)
<1>1. /\ batch[p] \in Seq(Jobs) /\ batch[p] # <<>>
      /\ Len(outcome[p]) = Len(batch[p]) /\ outcome[p] \in Seq(Jobs \cup {NoJob})
  BY DEF TypeInv, TypeOK, Hands
<1>2. Distinct(batch[p]) /\ HandsIntact(p) /\ OutcomesOwn(p)
  BY DEF OwnInv, ExclusiveOwnership, RecInv
<1>3. /\ Head(batch[p]) \notin Elements(Tail(batch[p]))
      /\ Elements(batch[p]) = Elements(Tail(batch[p])) \cup {Head(batch[p])}
  BY <1>1, <1>2, TailElements
<1>4. Head(batch[p]) \in Jobs /\ Elements(batch[p]) \subseteq Jobs
  BY <1>1, <1>3 DEF Elements
<1>5. Len(batch[p]) \in Nat \ {0}
  BY <1>1, EmptySeq
<1>6. Head(outcome[p]) = outcome[p][1] /\ Head(batch[p]) = batch[p][1]
  BY <1>1, <1>5
<1>7. Head(outcome[p]) \in {NoJob, Head(batch[p])}
  BY <1>2, <1>5, <1>6 DEF OutcomesOwn
<1> QED
  BY <1>2, <1>3, <1>4, <1>7 DEF Holds

LEMMA RecInvMarkWrite ==
  ASSUME TypeInv, OwnInv, RecInv, NEW p \in Pods, MarkWrite(p)
  PROVE  /\ job[Head(batch[p])] = ClaimedHash
         /\ RecInv'
<1> DEFINE j == Head(batch[p])
           r == Head(outcome[p])
<1>1. /\ j \in Jobs /\ Holds(p, j) /\ r \in {NoJob, j}
      /\ j \in Elements(batch[p]) /\ Elements(batch[p]) \subseteq Jobs
      /\ HandsIntact(p) /\ OutcomesOwn(p) /\ at[p] = "write"
  BY MarkedJob DEF MarkWrite, Transition
<1>2. job[j] = ClaimedHash
  BY <1>1 DEF HandsIntact
<1>3. /\ UNCHANGED <<submit, pending, cur, batch, outcome>>
      /\ at'[p] = "expire" /\ \A q \in Pods \ {p} : at'[q] = at[q]
  BY DEF MarkWrite, Transition, TypeInv, TypeOK
<1>4. /\ \A i \in Jobs \ {j} : job'[i] = job[i]
      /\ job'[j].whole /\ ~job'[j].ttl
      /\ job'[j].status = IF r = NoJob THEN "FAILED" ELSE "COMPLETED"
      /\ job'[j].result = r
  <2>0. job \in [Jobs -> JobHash] /\ job[j].whole /\ ~job[j].ttl /\ job[j].result = NoJob
    BY <1>2, HashFields DEF TypeInv, TypeOK
  <2>1. CASE r = NoJob
    <3>1. job' = [job EXCEPT ![j].status = "FAILED"]
      BY <2>1 DEF MarkWrite, Hset
    <3> QED
      BY <1>1, <2>0, <2>1, <3>1 DEF JobHash
  <2>2. CASE r # NoJob
    <3>1. job' = [job EXCEPT ![j].status = "COMPLETED", ![j].result = r]
      BY <2>2 DEF MarkWrite
    <3> QED
      BY <1>1, <2>0, <2>2, <3>1 DEF JobHash
  <2> QED
    BY <2>1, <2>2
<1> HIDE DEF j, r
<1>5. Head(batch'[p]) = j /\ Elements(batch'[p]) = Elements(batch[p])
  BY <1>3 DEF j
<1>6. HandsIntact(p)'
  BY <1>1, <1>3, <1>4, <1>5 DEF HandsIntact, j
<1>7. OutcomesOwn(p)'
  BY <1>1, <1>3 DEF OutcomesOwn
<1>8. job'[j].result = IF job'[j].status = "COMPLETED" THEN j ELSE NoJob
  BY <1>1, <1>4, JobQueueAssumption
<1>9. RecInv'
  BY <1>1, <1>3, <1>4, <1>6, <1>7, <1>8, RecInvWrite
<1> QED
  BY <1>2, <1>9 DEF j

\* A mark gives a retention window to a hash that is there, never to a
\* missing key.
LEMMA RecInvMarkExpire ==
  ASSUME TypeInv, OwnInv, RecInv, NEW p \in Pods, MarkExpire(p)
  PROVE  /\ job' = [job EXCEPT ![Head(batch[p])].ttl = TRUE]
         /\ Head(batch[p]) \in Jobs
         /\ RecInv'
<1> DEFINE j == Head(batch[p])
<1>1. /\ j \in Jobs /\ Holds(p, j) /\ j \in Elements(batch[p])
      /\ HandsIntact(p) /\ OutcomesOwn(p) /\ at[p] = "expire"
  BY MarkedJob DEF MarkExpire, Transition
<1>2. job[j].status \in Finished
  BY <1>1 DEF HandsIntact
<1>3. job' = [job EXCEPT ![j].ttl = TRUE]
  BY <1>2 DEF MarkExpire
<1>4. /\ UNCHANGED <<submit, pending, cur, batch, outcome>>
      /\ at'[p] \in {"release", "tally"} /\ \A q \in Pods \ {p} : at'[q] = at[q]
  BY DEF MarkExpire, Transition, TypeInv, TypeOK
<1>5. /\ \A i \in Jobs \ {j} : job'[i] = job[i]
      /\ job'[j].status = job[j].status /\ job'[j].whole = job[j].whole
      /\ job'[j].result = job[j].result
  BY <1>1, <1>3 DEF TypeInv, TypeOK, JobHash
<1>6. job[j].whole /\ job[j].result = IF job[j].status = "COMPLETED" THEN j ELSE NoJob
  BY <1>1, <1>2 DEF RecInv, RecordsWhole, ResultsBelong
<1> HIDE DEF j
<1>7. /\ Head(batch'[p]) = j /\ Elements(batch'[p]) = Elements(batch[p])
      /\ Elements(batch[p]) \subseteq Jobs
  BY <1>1, <1>4, MarkedJob DEF j
<1>8. HandsIntact(p)'
  BY <1>1, <1>4, <1>5, <1>7 DEF HandsIntact, j
<1>9. OutcomesOwn(p)'
  BY <1>1, <1>4 DEF OutcomesOwn
<1>10. RecInv'
  BY <1>1, <1>2, <1>4, <1>5, <1>6, <1>8, <1>9, RecInvWrite
<1> QED
  BY <1>1, <1>3, <1>10 DEF j

LEMMA RecInvMark ==
  ASSUME TypeInv, OwnInv, RecInv, NEW p \in Pods, MarkNext(p)
  PROVE  RecInv'
<1>1. CASE MarkRead(p)
  <2>1. /\ UNCHANGED <<job, submit, pending, cur, batch, outcome>>
        /\ at[p] = "mark" /\ at'[p] = "write" /\ \A q \in Pods \ {p} : at'[q] = at[q]
    BY <1>1 DEF MarkRead, Transition, redis, TypeInv, TypeOK
  <2> QED
    BY <2>1, RecInvQuiet
<1>2. CASE MarkWrite(p)
  BY <1>2, RecInvMarkWrite
<1>3. CASE MarkExpire(p)
  BY <1>3, RecInvMarkExpire
<1>4. CASE MarkRelease(p)
  <2>1. /\ UNCHANGED <<job, submit, pending, cur, batch, outcome>>
        /\ at[p] = "release" /\ at'[p] = "tally" /\ \A q \in Pods \ {p} : at'[q] = at[q]
    BY <1>4 DEF MarkRelease, Transition, TypeInv, TypeOK
  <2>2. HandsIntact(p) /\ OutcomesOwn(p) /\ Elements(batch'[p]) = Elements(batch[p])
    BY <2>1 DEF RecInv
  <2>3. HandsIntact(p)' /\ OutcomesOwn(p)'
    BY <2>1, <2>2 DEF HandsIntact, OutcomesOwn
  <2> QED
    BY <2>1, <2>3, RecInvMove
<1>5. CASE MarkTally(p)
  <2>1. /\ UNCHANGED <<job, submit, pending, cur>>
        /\ at[p] = "tally" /\ at'[p] \in {"peek", "mark"}
        /\ batch'[p] = Tail(batch[p]) /\ outcome'[p] = Tail(outcome[p])
        /\ \A q \in Pods \ {p} : /\ at'[q] = at[q] /\ batch'[q] = batch[q]
                                 /\ outcome'[q] = outcome[q]
    BY <1>5 DEF MarkTally, Transition, TypeInv, TypeOK
  <2>2. /\ HandsIntact(p) /\ OutcomesOwn(p)
        /\ Elements(batch[p]) = Elements(batch'[p]) \cup {Head(batch[p])}
        /\ Head(batch[p]) \notin Elements(batch'[p])
    BY <2>1, MarkedJob
  <2>3. HandsIntact(p)'
    BY <2>1, <2>2 DEF HandsIntact
  <2>4. OutcomesOwn(p)'
    BY <1>5, <2>2, TallyOutcomes
  <2>5. Elements(pending') \subseteq Elements(pending)
    BY <2>1
  <2> QED
    BY <2>1, <2>3, <2>4, <2>5, RecInvMove
<1> QED
  BY <1>1, <1>2, <1>3, <1>4, <1>5 DEF MarkNext

LEMMA RecInvNext == TypeInv /\ OwnInv /\ RecInv /\ [Next]_vars => RecInv'
<1> SUFFICES ASSUME TypeInv, OwnInv, RecInv, [Next]_vars PROVE RecInv'
  OBVIOUS
<1>1. ASSUME NEW j \in Jobs, SubmitNext(j) \/ ExpireJob(j) PROVE RecInv'
  BY <1>1, RecInvSubmit, RecInvExpire
<1>2. ASSUME NEW p \in Pods, PodNext(p) \/ WorkerNext(p) PROVE RecInv'
  BY <1>2, RecInvPod, RecInvCollect, RecInvInfer, RecInvMark, RecInvRepair DEF WorkerNext
<1>3. CASE UNCHANGED vars
  BY <1>3, RecInvStill DEF vars
<1> QED
  BY <1>1, <1>2, <1>3 DEF Next

LEMMA RecInvariant == Spec => []RecInv
BY RecInvInit, RecInvNext, TypeInvariant, OwnInvariant, PTL DEF Spec

(***************************************************************************)
(* The id a worker pops always names a complete, PENDING hash that cannot  *)
(* expire: submit_job stores before it pushes (redis_queue.py:89-90), and  *)
(* the window of a hash is set only after a worker has finished it, so the *)
(* branch for an orphaned id (:150) is dead code of this protocol.         *)
(***************************************************************************)
THEOREM QueueIntact == Spec => []QueuedJobsIntact
<1>1. RecInv => QueuedJobsIntact
  BY DEF RecInv
<1> QED
  BY <1>1, RecInvariant, PTL

(***************************************************************************)
(* No mark re-creates an expired hash as a fragment: when mark_job_        *)
(* completed or mark_job_failed writes (redis_queue.py:176, :200), the     *)
(* hash is there, PROCESSING and without a retention window.               *)
(***************************************************************************)
THEOREM RecordsComplete == Spec => []RecordsWhole
<1>1. RecInv => RecordsWhole
  BY DEF RecInv
<1> QED
  BY <1>1, RecInvariant, PTL

(***************************************************************************)
(* A stored result comes from the job's own payload, for every batch size  *)
(* and every set of payloads that fail to resolve: whenever                *)
(* _process_job_batch (model_service.py:184-226) does not raise, the       *)
(* compressed list of inputs and the batch positions agree.                *)
(***************************************************************************)
THEOREM ResultsCorrect == Spec => []ResultsBelong
<1>1. RecInv => ResultsBelong
  BY DEF RecInv
<1> QED
  BY <1>1, RecInvariant, PTL
===============================================================================
