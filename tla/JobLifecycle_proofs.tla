------------------------- MODULE JobLifecycle_proofs -------------------------
(***************************************************************************)
(* JobQueue implements JobLifecycle, finished hashes get their retention   *)
(* window, what dying workers strand is bounded, and statistics are exact. *)
(***************************************************************************)
EXTENDS JobQueue_proofs

USE DEF Popped, Collecting, Marking, Repairing, Peeking, Running, Label, AtRedis,
        Phase, Submitting, Finished, Status

-------------------------------------------------------------------------------
(***************************************************************************)
(* What a step does to the hashes, whoever takes it.                       *)
(***************************************************************************)
SameView(i) == job'[i] = job[i] /\ (submit'[i] = "new" <=> submit[i] = "new")

Writing ==
  \/ \E j \in Jobs : StoreJob(j) \/ ExpireJob(j)
  \/ \E p \in Pods : ClaimJob(p) \/ MarkWrite(p) \/ MarkExpire(p)

LEMMA OnlyWritesWrite ==
  TypeInv /\ [Next]_vars => Writing \/ (job' = job /\ \A i \in Jobs : SameView(i))
<1> SUFFICES ASSUME TypeInv, [Next]_vars, ~Writing
             PROVE  job' = job /\ \A i \in Jobs : SameView(i)
  OBVIOUS
<1>1. CASE UNCHANGED vars
  BY <1>1 DEF vars, SameView
<1>2. ASSUME NEW j \in Jobs, SubmitNext(j) \/ ExpireJob(j)
      PROVE  job' = job /\ \A i \in Jobs : SameView(i)
  <2>1. PushJob(j) \/ CountPending(j) \/ SubmitBreaks(j)
    BY <1>2 DEF SubmitNext, Writing
  <2>2. job' = job /\ submit[j] # "new" /\ submit'[j] # "new"
    BY <2>1 DEF PushJob, CountPending, SubmitBreaks, SubmitStep, redis, TypeInv, TypeOK
  <2>3. \A i \in Jobs \ {j} : submit'[i] = submit[i]
    BY <2>1 DEF PushJob, CountPending, SubmitBreaks, SubmitStep, TypeInv, TypeOK
  <2> QED
    BY <2>2, <2>3 DEF SameView
<1>3. ASSUME NEW p \in Pods, PodNext(p) \/ WorkerNext(p)
      PROVE  job' = job /\ submit' = submit
  <2>1. CASE PodNext(p)
    BY <2>1 DEF PodNext, Boot, Sigterm, Kill, Terminate, RedisError, redis
  <2>2. CASE CollectNext(p)
    BY <1>3, <2>2 DEF CollectNext, CheckShutdown, PollEmpty, PopJob, Deadline, FetchJob,
       UncountPending, CountProcessing, Writing, redis
  <2>3. CASE InferNext(p)
    BY <2>3 DEF InferNext, Infer, InferenceRaises, InferMisindexed, redis
  <2>4. CASE MarkNext(p)
    BY <1>3, <2>4 DEF MarkNext, MarkRead, MarkRelease, MarkTally, Writing, redis
  <2>5. CASE RepairNext(p)
    BY <2>5 DEF RepairNext, PeekStats, PeekLength, ScanJobs, ScanLength,
       CompareConsistent, CompareDrifted, OverwriteStats, redis
  <2> QED
    BY <1>3, <2>1, <2>2, <2>3, <2>4, <2>5 DEF WorkerNext
<1> QED
  BY <1>1, <1>2, <1>3 DEF Next, SameView

\* Each write, as the change it makes to one hash.
LEMMA WriteEffects ==
  ASSUME TypeInv, OwnInv, RecInv
  PROVE  /\ \A j \in Jobs :
              /\ StoreJob(j) => /\ job[j] = NoHash /\ job'[j] = NewHash
                                /\ submit[j] = "new" /\ submit'[j] = "stored"
                                /\ \A i \in Jobs \ {j} : SameView(i)
              /\ ExpireJob(j) => /\ job[j].status \in Finished /\ job'[j] = NoHash
                                 /\ submit'[j] # "new"
                                 /\ \A i \in Jobs \ {j} : SameView(i)
         /\ \A p \in Pods :
              /\ ClaimJob(p) => \E j \in Jobs :
                   /\ job[j] = NewHash /\ job'[j] = ClaimedHash
                   /\ \A i \in Jobs \ {j} : SameView(i)
              /\ MarkWrite(p) => \E j \in Jobs :
                   /\ j = Head(batch[p]) /\ job[j] = ClaimedHash
                   /\ \/ job'[j].status = "COMPLETED" /\ job'[j].result # NoJob
                      \/ job'[j].status = "FAILED" /\ job'[j].result = NoJob
                   /\ \A i \in Jobs \ {j} : SameView(i)
              /\ MarkExpire(p) => \E j \in Jobs :
                   /\ j = Head(batch[p]) /\ job'[j].ttl
                   /\ job'[j].status = job[j].status /\ job'[j].result = job[j].result
                   /\ job[j].status \in Finished
                   /\ \A i \in Jobs \ {j} : SameView(i)
<1>1. ASSUME NEW j \in Jobs, StoreJob(j)
      PROVE  /\ job[j] = NoHash /\ job'[j] = NewHash
             /\ submit[j] = "new" /\ submit'[j] = "stored"
             /\ \A i \in Jobs \ {j} : SameView(i)
  <2>1. submit[j] = "new" /\ job[j] = NoHash
    BY <1>1 DEF StoreJob, SubmitStep, RecInv, Stored
  <2>2. job'[j] = NewHash /\ \A i \in Jobs \ {j} : job'[i] = job[i]
    BY <1>1 DEF StoreJob, TypeInv, TypeOK
  <2>3. submit'[j] = "stored" /\ \A i \in Jobs \ {j} : submit'[i] = submit[i]
    BY <1>1 DEF StoreJob, SubmitStep, TypeInv, TypeOK
  <2> QED
    BY <2>1, <2>2, <2>3 DEF SameView
<1>2. ASSUME NEW j \in Jobs, ExpireJob(j)
      PROVE  /\ job[j].status \in Finished /\ job'[j] = NoHash
             /\ submit'[j] # "new"
             /\ \A i \in Jobs \ {j} : SameView(i)
  <2>1. job[j].ttl /\ job[j].status \in Finished
    BY <1>2 DEF ExpireJob, RecInv, Retention
  <2>2. submit[j] # "new" /\ submit' = submit
    BY <1>2, <2>1, HashFields DEF ExpireJob, RecInv, Stored
  <2>3. job'[j] = NoHash /\ \A i \in Jobs \ {j} : job'[i] = job[i]
    BY <1>2 DEF ExpireJob, TypeInv, TypeOK
  <2> QED
    BY <2>1, <2>2, <2>3 DEF SameView
<1>3. ASSUME NEW p \in Pods, ClaimJob(p)
      PROVE  \E j \in Jobs : /\ job[j] = NewHash /\ job'[j] = ClaimedHash
                             /\ \A i \in Jobs \ {j} : SameView(i)
  <2> DEFINE j == cur[p]
  <2>1. j \in Jobs /\ job[j] = NewHash /\ job' = [job EXCEPT ![j] = ClaimedHash]
    BY <1>3, RecInvClaim
  <2>2. submit' = submit
    BY <1>3 DEF ClaimJob
  <2> HIDE DEF j
  <2>3. job'[j] = ClaimedHash /\ \A i \in Jobs \ {j} : SameView(i)
    BY <2>1, <2>2 DEF SameView, TypeInv, TypeOK
  <2> QED
    BY <2>1, <2>3
<1>4. ASSUME NEW p \in Pods, MarkWrite(p)
      PROVE  \E j \in Jobs :
               /\ j = Head(batch[p]) /\ job[j] = ClaimedHash
               /\ \/ job'[j].status = "COMPLETED" /\ job'[j].result # NoJob
                  \/ job'[j].status = "FAILED" /\ job'[j].result = NoJob
               /\ \A i \in Jobs \ {j} : SameView(i)
  <2> DEFINE j == Head(batch[p])
             r == Head(outcome[p])
  <2>1. j \in Jobs /\ job[j] = ClaimedHash
    BY <1>4, RecInvMarkWrite, MarkedJob DEF MarkWrite, Transition
  <2>2. job \in [Jobs -> JobHash] /\ job[j].result = NoJob
    BY <2>1, HashFields DEF TypeInv, TypeOK
  <2>3. /\ \A i \in Jobs \ {j} : job'[i] = job[i]
        /\ \/ job'[j].status = "COMPLETED" /\ job'[j].result # NoJob
           \/ job'[j].status = "FAILED" /\ job'[j].result = NoJob
    <3>1. CASE r = NoJob
      <4>1. job' = [job EXCEPT ![j].status = "FAILED"]
        BY <1>4, <3>1 DEF MarkWrite, Hset
      <4> HIDE DEF j
      <4> QED
        BY <2>1, <2>2, <4>1 DEF JobHash
    <3>2. CASE r # NoJob
      <4>1. job' = [job EXCEPT ![j].status = "COMPLETED", ![j].result = r]
        BY <1>4, <3>2 DEF MarkWrite
      <4> HIDE DEF j, r
      <4> QED
        BY <2>1, <2>2, <3>2, <4>1 DEF JobHash
    <3> QED
      BY <3>1, <3>2
  <2>4. submit' = submit
    BY <1>4 DEF MarkWrite
  <2> QED
    BY <2>1, <2>3, <2>4 DEF SameView
<1>5. ASSUME NEW p \in Pods, MarkExpire(p)
      PROVE  \E j \in Jobs :
               /\ j = Head(batch[p]) /\ job'[j].ttl
               /\ job'[j].status = job[j].status /\ job'[j].result = job[j].result
               /\ job[j].status \in Finished
               /\ \A i \in Jobs \ {j} : SameView(i)
  <2> DEFINE j == Head(batch[p])
  <2>1. j \in Jobs /\ job' = [job EXCEPT ![j].ttl = TRUE]
    BY <1>5, RecInvMarkExpire
  <2>2. job[j].status \in Finished
    BY <1>5 DEF MarkExpire, Transition, RecInv, HandsIntact
  <2>3. submit' = submit
    BY <1>5 DEF MarkExpire
  <2> HIDE DEF j
  <2>4. /\ job'[j].ttl
        /\ job'[j].status = job[j].status /\ job'[j].result = job[j].result
        /\ \A i \in Jobs \ {j} : SameView(i)
    BY <2>1, <2>3 DEF SameView, TypeInv, TypeOK, JobHash
  <2> QED
    BY <2>1, <2>2, <2>4 DEF j
<1> QED
  BY <1>1, <1>2, <1>3, <1>4, <1>5

-------------------------------------------------------------------------------
(***************************************************************************)
(* The refinement, one hash at a time.                                     *)
(***************************************************************************)
LEMMA SameLife ==
  ASSUME NEW i \in Jobs, SameView(i)
  PROVE  /\ LifeOf(i)' = LifeOf(i)
         /\ job'[i].result # NoJob <=> job[i].result # NoJob
BY DEF SameView, LifeOf

LEMMA LifeMoves ==
  ASSUME NEW j \in Jobs, \A i \in Jobs \ {j} : SameView(i), NEW from, NEW to,
         LifeOf(j) = from, LifeOf(j)' = to
  PROVE  Lifecycle!Move(j, from, to)
<1> DEFINE life == [i \in Jobs |-> LifeOf(i)]
<1>1. life' = [life EXCEPT ![j] = to]
  BY SameLife
<1>2. life[j] = from
  OBVIOUS
<1> QED
  BY <1>1, <1>2 DEF Lifecycle!Move

LEMMA LifecycleStarts == Init => Lifecycle!LifecycleInit
BY HashFields DEF Init, LifeOf, Lifecycle!LifecycleInit

LEMMA LifecycleStep ==
  TypeInv /\ OwnInv /\ RecInv /\ [Next]_vars
    => [Lifecycle!LifecycleNext]_(Lifecycle!lifecycle)
<1> SUFFICES ASSUME TypeInv, OwnInv, RecInv, [Next]_vars
             PROVE  Lifecycle!LifecycleNext \/ UNCHANGED Lifecycle!lifecycle
  OBVIOUS
<1> DEFINE answer == {j \in Jobs : job[j].result # NoJob}
<1>1. CASE job' = job /\ \A i \in Jobs : SameView(i)
  <2>1. [i \in Jobs |-> LifeOf(i)]' = [i \in Jobs |-> LifeOf(i)]
    BY <1>1, SameLife
  <2>2. answer' = answer
    BY <1>1
  <2> QED
    BY <2>1, <2>2 DEF Lifecycle!lifecycle
<1>2. ASSUME NEW j \in Jobs, StoreJob(j) PROVE Lifecycle!Accept(j)
  <2>1. /\ job[j] = NoHash /\ job'[j] = NewHash /\ submit[j] = "new"
        /\ \A i \in Jobs \ {j} : SameView(i)
    BY <1>2, WriteEffects
  <2>2. Lifecycle!Move(j, "new", "PENDING")
    BY <2>1, HashFields, LifeMoves DEF LifeOf
  <2>3. answer' = answer
    BY <2>1, HashFields, SameLife
  <2> QED
    BY <2>2, <2>3 DEF Lifecycle!Accept
<1>3. ASSUME NEW j \in Jobs, ExpireJob(j) PROVE Lifecycle!Vanish(j)
  <2>1. /\ job[j].status \in Finished /\ job'[j] = NoHash /\ submit'[j] # "new"
        /\ \A i \in Jobs \ {j} : SameView(i)
    BY <1>3, WriteEffects
  <2>2. LifeOf(j) = job[j].status /\ LifeOf(j)' = "gone"
    BY <2>1, HashFields DEF LifeOf
  <2>3. \E end \in {"COMPLETED", "FAILED"} : Lifecycle!Move(j, end, "gone")
    <3>1. CASE job[j].status = "COMPLETED"
      BY <2>1, <2>2, <3>1, LifeMoves
    <3>2. CASE job[j].status = "FAILED"
      BY <2>1, <2>2, <3>2, LifeMoves
    <3> QED
      BY <2>1, <3>1, <3>2
  <2>4. answer' = answer \ {j}
    BY <2>1, HashFields, SameLife
  <2> QED
    BY <2>3, <2>4 DEF Lifecycle!Vanish
<1>4. ASSUME NEW p \in Pods, ClaimJob(p) PROVE \E j \in Jobs : Lifecycle!Start(j)
  <2>1. PICK j \in Jobs : /\ job[j] = NewHash /\ job'[j] = ClaimedHash
                          /\ \A i \in Jobs \ {j} : SameView(i)
    BY <1>4, WriteEffects
  <2>2. Lifecycle!Move(j, "PENDING", "PROCESSING")
    BY <2>1, HashFields, LifeMoves DEF LifeOf
  <2>3. answer' = answer
    BY <2>1, HashFields, SameLife
  <2> QED
    BY <2>2, <2>3 DEF Lifecycle!Start
<1>5. ASSUME NEW p \in Pods, MarkWrite(p)
      PROVE  \E j \in Jobs : Lifecycle!Complete(j) \/ Lifecycle!Fail(j)
  <2>1. PICK j \in Jobs :
          /\ job[j] = ClaimedHash
          /\ \/ job'[j].status = "COMPLETED" /\ job'[j].result # NoJob
             \/ job'[j].status = "FAILED" /\ job'[j].result = NoJob
          /\ \A i \in Jobs \ {j} : SameView(i)
    BY <1>5, WriteEffects
  <2>2. LifeOf(j) = "PROCESSING" /\ LifeOf(j)' = job'[j].status /\ job[j].result = NoJob
    BY <2>1, HashFields DEF LifeOf
  <2>3. CASE job'[j].status = "COMPLETED" /\ job'[j].result # NoJob
    <3>1. Lifecycle!Move(j, "PROCESSING", "COMPLETED")
      BY <2>1, <2>2, <2>3, LifeMoves
    <3>2. answer' = answer \cup {j}
      BY <2>1, <2>3, SameLife
    <3> QED
      BY <3>1, <3>2 DEF Lifecycle!Complete
  <2>4. CASE job'[j].status = "FAILED" /\ job'[j].result = NoJob
    <3>1. Lifecycle!Move(j, "PROCESSING", "FAILED")
      BY <2>1, <2>2, <2>4, LifeMoves
    <3>2. answer' = answer
      BY <2>1, <2>2, <2>4, SameLife
    <3> QED
      BY <3>1, <3>2 DEF Lifecycle!Fail
  <2> QED
    BY <2>1, <2>3, <2>4
<1>6. ASSUME NEW p \in Pods, MarkExpire(p) PROVE UNCHANGED Lifecycle!lifecycle
  <2>1. PICK j \in Jobs :
          /\ job'[j].status = job[j].status /\ job'[j].result = job[j].result
          /\ job[j].status \in Finished
          /\ \A i \in Jobs \ {j} : SameView(i)
    BY <1>6, WriteEffects
  <2>2. LifeOf(j)' = LifeOf(j)
    BY <2>1 DEF LifeOf
  <2>3. [i \in Jobs |-> LifeOf(i)]' = [i \in Jobs |-> LifeOf(i)]
    BY <2>1, <2>2, SameLife
  <2>4. answer' = answer
    BY <2>1, SameLife
  <2> QED
    BY <2>3, <2>4 DEF Lifecycle!lifecycle
<1> QED
  BY <1>1, <1>2, <1>3, <1>4, <1>5, <1>6, OnlyWritesWrite DEF Writing, Lifecycle!LifecycleNext

(***************************************************************************)
(* Every client sees the life JobLifecycle describes: accepted, started    *)
(* and finished at most once each, with a result exactly when COMPLETED,   *)
(* forgotten only when finished - whatever pods race, crash and restart    *)
(* (redis_queue.py:72-215).                                                *)
(***************************************************************************)
THEOREM LifecycleImplemented == Spec => ImplementsLifecycle
BY LifecycleStarts, LifecycleStep, TypeInvariant, OwnInvariant, RecInvariant, PTL
   DEF Spec, ImplementsLifecycle, Lifecycle!LifecycleSpec

-------------------------------------------------------------------------------
LEMMA LossesGrow == TypeInv /\ [Next]_vars => losses' >= losses
<1> SUFFICES ASSUME TypeInv, [Next]_vars PROVE losses' >= losses
  OBVIOUS
<1> USE DEF TypeInv, TypeOK, history
<1>1. CASE UNCHANGED vars
  BY <1>1 DEF vars
<1>2. ASSUME NEW j \in Jobs, SubmitNext(j) \/ ExpireJob(j) PROVE losses' >= losses
  BY <1>2 DEF SubmitNext, StoreJob, PushJob, CountPending, SubmitBreaks, SubmitStep,
     ExpireJob
<1>3. ASSUME NEW q \in Pods, PodNext(q) PROVE losses' >= losses
  BY <1>3 DEF PodNext, Boot, Sigterm, Kill, Terminate, RedisError, Die
<1>4. ASSUME NEW q \in Pods, WorkerNext(q) PROVE losses' >= losses
  <2>1. CASE CollectNext(q)
    BY <2>1 DEF CollectNext, CheckShutdown, PollEmpty, PopJob, Deadline, FetchJob,
       ClaimJob, UncountPending, CountProcessing
  <2>2. CASE InferNext(q)
    BY <2>2 DEF InferNext, Infer, InferenceRaises, InferMisindexed, Die
  <2>3. CASE MarkNext(q)
    BY <2>3 DEF MarkNext, MarkRead, MarkWrite, MarkExpire, MarkRelease, MarkTally
  <2>4. CASE RepairNext(q)
    BY <2>4 DEF RepairNext, PeekStats, PeekLength, ScanJobs, ScanLength,
       CompareConsistent, CompareDrifted, OverwriteStats
  <2> QED
    BY <1>4, <2>1, <2>2, <2>3, <2>4 DEF WorkerNext
<1> QED
  BY <1>1, <1>2, <1>3, <1>4 DEF Next

(***************************************************************************)
(* A worker that has written a status goes on to EXPIRE, or it is cut      *)
(* short with the job in hand, which losses counts.                        *)
(***************************************************************************)
LEMMA LeavesExpire ==
  ASSUME TypeInv, [Next]_vars, NEW p \in Pods, at[p] = "expire"
  PROVE  \/ at'[p] = "expire" /\ batch'[p] = batch[p]
         \/ MarkExpire(p)
         \/ losses' > losses
<1> USE DEF TypeInv, TypeOK, Transition, history, worker
<1>1. CASE UNCHANGED vars
  BY <1>1 DEF vars
<1>2. ASSUME NEW j \in Jobs, SubmitNext(j) \/ ExpireJob(j)
      PROVE  UNCHANGED <<at, batch>>
  BY <1>2 DEF SubmitNext, StoreJob, PushJob, CountPending, SubmitBreaks, SubmitStep,
     ExpireJob
<1>3. batch[p] # <<>>
  BY DEF Hands
<1>4. ASSUME NEW q \in Pods, PodNext(q)
      PROVE  (at'[p] = "expire" /\ batch'[p] = batch[p]) \/ losses' > losses
  <2>1. CASE Boot(q) \/ Sigterm(q) \/ Terminate(q)
    BY <2>1 DEF Boot, Sigterm, Terminate, Forget
  <2>2. CASE Kill(q) \/ RedisError(q)
    <3>1. Die(q, "off") \/ Die(q, "dead")
      BY <2>2 DEF Kill, RedisError
    <3>2. CASE q = p
      BY <1>3, <3>1, <3>2 DEF Die, Busy
    <3>3. CASE q # p
      BY <3>1, <3>3 DEF Die, Forget
    <3> QED
      BY <3>2, <3>3
  <2> QED
    BY <1>4, <2>1, <2>2 DEF PodNext
<1>5. ASSUME NEW q \in Pods, WorkerNext(q)
      PROVE  (at'[p] = "expire" /\ batch'[p] = batch[p]) \/ MarkExpire(p)
  <2>1. CASE CollectNext(q)
    BY <2>1 DEF CollectNext, CheckShutdown, PollEmpty, PopJob, Deadline, FetchJob,
       ClaimJob, UncountPending, CountProcessing
  <2>2. CASE InferNext(q)
    BY <2>2 DEF InferNext, Infer, InferenceRaises, InferMisindexed, Die, Forget
  <2>3. CASE MarkNext(q)
    <3>1. CASE q = p
      BY <2>3, <3>1 DEF MarkNext, MarkRead, MarkWrite, MarkRelease, MarkTally
    <3>2. CASE q # p
      BY <2>3, <3>2 DEF MarkNext, MarkRead, MarkWrite, MarkExpire, MarkRelease, MarkTally
    <3> QED
      BY <3>1, <3>2
  <2>4. CASE RepairNext(q)
    BY <2>4 DEF RepairNext, PeekStats, PeekLength, ScanJobs, ScanLength,
       CompareConsistent, CompareDrifted, OverwriteStats
  <2> QED
    BY <1>5, <2>1, <2>2, <2>3, <2>4 DEF WorkerNext
<1> QED
  BY <1>1, <1>2, <1>4, <1>5 DEF Next

LEMMA ExpireKept ==
  TypeInv /\ OwnInv /\ RecInv /\ FinishedJobsExpire /\ [Next]_vars => FinishedJobsExpire'
<1> SUFFICES ASSUME TypeInv, OwnInv, RecInv, FinishedJobsExpire, [Next]_vars,
                    losses' = 0, NEW j \in Jobs, job'[j].status \in Finished
             PROVE  job'[j].ttl \/ j \in InMark({"expire"})'
  BY DEF FinishedJobsExpire
<1>1. losses = 0 /\ ~(losses' > losses)
  BY LossesGrow DEF TypeInv, TypeOK
<1>2. ASSUME NEW p \in Pods, MarkExpire(p), Head(batch[p]) = j
      PROVE  job'[j].ttl
  BY <1>2, WriteEffects
<1>3. CASE job'[j] = job[j]
  <2>1. CASE job[j].ttl
    BY <1>3, <2>1
  <2>2. CASE ~job[j].ttl
    <3>1. PICK p \in Pods : at[p] = "expire" /\ Head(batch[p]) = j
      BY <1>1, <1>3, <2>2 DEF FinishedJobsExpire, InMark
    <3>2. (at'[p] = "expire" /\ batch'[p] = batch[p]) \/ MarkExpire(p)
      BY <1>1, <3>1, LeavesExpire
    <3>3. CASE at'[p] = "expire" /\ batch'[p] = batch[p]
      BY <3>1, <3>3 DEF InMark
    <3> QED
      BY <1>2, <3>1, <3>2, <3>3
  <2> QED
    BY <2>1, <2>2
<1>4. CASE job'[j] # job[j]
  <2>1. Writing
    BY <1>4, OnlyWritesWrite
  <2>2. ASSUME NEW i \in Jobs, StoreJob(i) \/ ExpireJob(i) PROVE FALSE
    <3>1. job'[i].status \notin Finished /\ \A k \in Jobs \ {i} : job'[k] = job[k]
      BY <2>2, WriteEffects, HashFields DEF SameView
    <3> QED
      BY <1>4, <3>1
  <2>3. ASSUME NEW p \in Pods, ClaimJob(p) PROVE FALSE
    <3>1. PICK i \in Jobs : /\ job'[i] = ClaimedHash
                            /\ \A k \in Jobs \ {i} : job'[k] = job[k]
      BY <2>3, WriteEffects DEF SameView
    <3> QED
      BY <1>4, <3>1, HashFields
  <2>4. ASSUME NEW p \in Pods, MarkWrite(p) PROVE j \in InMark({"expire"})'
    <3>1. PICK i \in Jobs : /\ i = Head(batch[p])
                            /\ \A k \in Jobs \ {i} : job'[k] = job[k]
      BY <2>4, WriteEffects DEF SameView
    <3>2. j = Head(batch[p])
      BY <1>4, <3>1
    <3>3. at'[p] = "expire" /\ batch' = batch
      BY <2>4 DEF MarkWrite, Transition, TypeInv, TypeOK
    <3> QED
      BY <3>2, <3>3 DEF InMark
  <2>5. ASSUME NEW p \in Pods, MarkExpire(p) PROVE job'[j].ttl
    <3>1. PICK i \in Jobs : /\ job'[i].ttl
                            /\ \A k \in Jobs \ {i} : job'[k] = job[k]
      BY <2>5, WriteEffects DEF SameView
    <3> QED
      BY <1>4, <3>1
  <2> QED
    BY <2>1, <2>2, <2>3, <2>4, <2>5 DEF Writing
<1> QED
  BY <1>3, <1>4

(***************************************************************************)
(* While no worker has died with jobs in hand, every COMPLETED or FAILED   *)
(* hash has its retention window (the EXPIRE of redis_queue.py:186, :209)  *)
(* or its worker is at that very command.                                  *)
(***************************************************************************)
THEOREM RetentionGiven == Spec => []FinishedJobsExpire
<1>1. Init => FinishedJobsExpire
  BY HashFields DEF Init, FinishedJobsExpire
<1> QED
  BY <1>1, ExpireKept, TypeInvariant, OwnInvariant, RecInvariant, PTL DEF Spec

-------------------------------------------------------------------------------
(***************************************************************************)
(* Losses.  A worker never has more than BatchSize jobs in hand, the one   *)
(* it is collecting included, and lets a job go only when its hash says    *)
(* that it is finished, or is gone.                                        *)
(***************************************************************************)
Idle == {"off", "dead", "exited", "loop"} \cup Peeking \cup Repairing

Fits(p) ==
  /\ Len(batch[p]) <= BatchSize
  /\ at[p] \in {"poll"} \cup Popped => Len(batch[p]) < BatchSize
  /\ at[p] \in Idle => batch[p] = <<>>

Settled(p) ==
  at[p] \in {"expire", "release", "tally"} =>
    job[Head(batch[p])].status \in Finished \cup {"missing"}

LossInv == LossBounded /\ \A p \in Pods : Fits(p) /\ Settled(p)

LEMMA FitsNext ==
  ASSUME TypeInv, [Next]_vars, \A p \in Pods : Fits(p), NEW p \in Pods
  PROVE  Fits(p)'
<1>0. /\ batch \in [Pods -> Seq(Jobs)] /\ at \in [Pods -> Label] /\ Len(batch[p]) \in Nat
      /\ BatchSize \in Nat \ {0} /\ Len(<<>>) = 0
  BY JobQueueAssumption DEF TypeInv, TypeOK
<1>1. Fits(p)
  OBVIOUS
<1>2. CASE UNCHANGED vars \/ \E j \in Jobs : SubmitNext(j) \/ ExpireJob(j)
  <2>1. UNCHANGED <<at, batch>>
    BY <1>2 DEF vars, SubmitNext, StoreJob, PushJob, CountPending, SubmitBreaks,
                SubmitStep, ExpireJob, worker
  <2> QED
    BY <1>1, <2>1 DEF Fits
<1>3. ASSUME NEW q \in Pods, PodNext(q) \/ WorkerNext(q) PROVE Fits(p)'
  <2>1. CASE Kill(q) \/ Terminate(q) \/ RedisError(q) \/ InferMisindexed(q)
    <3>1. PICK label \in {"off", "dead"} : Forget(q, label)
      BY <2>1 DEF Kill, Terminate, RedisError, InferMisindexed, Die
    <3>2. /\ at'[q] = label /\ batch'[q] = <<>>
          /\ q # p => at'[p] = at[p] /\ batch'[p] = batch[p]
      BY <1>0, <3>1 DEF Forget
    <3> QED
      BY <1>0, <1>1, <3>2 DEF Fits
  <2>2. CASE CountProcessing(q)
    <3>1. /\ at[q] = "count" /\ batch'[q] = Append(batch[q], cur[q]) /\ cur[q] \in Jobs
          /\ at'[q] = IF Len(batch[q]) + 1 < BatchSize THEN "poll" ELSE "resolve"
          /\ q # p => at'[p] = at[p] /\ batch'[p] = batch[p]
      BY <1>0, <2>2 DEF CountProcessing, Transition, TypeInv, TypeOK, Hands
    <3>2. Len(batch'[q]) = Len(batch[q]) + 1
      BY <1>0, <3>1
    <3> QED
      BY <1>0, <1>1, <3>1, <3>2 DEF Fits, Idle
  <2>3. CASE MarkTally(q)
    <3>1. /\ at[q] = "tally" /\ batch'[q] = Tail(batch[q]) /\ batch[q] # <<>>
          /\ at'[q] = IF Tail(batch[q]) = <<>> THEN "peek" ELSE "mark"
          /\ q # p => at'[p] = at[p] /\ batch'[p] = batch[p]
      BY <1>0, <2>3 DEF MarkTally, Transition, TypeInv, TypeOK, Hands
    <3>2. Len(batch[q]) \in Nat \ {0} /\ Len(batch'[q]) = Len(batch[q]) - 1
      BY <1>0, <3>1, EmptySeq, HeadTailProperties
    <3>3. at'[q] = "mark" \/ (at'[q] = "peek" /\ batch'[q] = <<>>)
      BY <3>1
    <3>4. Len(batch'[q]) <= BatchSize
      BY <1>0, <3>2 DEF Fits
    <3>5. Fits(q)'
      BY <3>3, <3>4 DEF Fits, Idle
    <3> QED
      BY <1>1, <3>1, <3>5 DEF Fits
  <2>4. CASE Boot(q) \/ Sigterm(q) \/ RepairNext(q) \/ Infer(q) \/ InferenceRaises(q)
               \/ MarkRead(q) \/ MarkWrite(q) \/ MarkExpire(q) \/ MarkRelease(q)
    <3>1. /\ batch' = batch
          /\ at' = at \/ (at[q] \in Idle /\ at'[q] \in Idle)
               \/ at'[q] \in Marking
          /\ q # p => at'[p] = at[p]
      <4>1. CASE Boot(q) \/ Sigterm(q) \/ RepairNext(q)
        BY <1>0, <4>1 DEF Boot, Sigterm, RepairNext, PeekStats, PeekLength, ScanJobs,
           ScanLength, CompareConsistent, CompareDrifted, OverwriteStats, Transition,
           worker, Idle
      <4>2. CASE Infer(q) \/ InferenceRaises(q)
        BY <1>0, <4>2 DEF Infer, InferenceRaises, Transition
      <4>3. CASE MarkRead(q) \/ MarkWrite(q) \/ MarkExpire(q) \/ MarkRelease(q)
        BY <1>0, <4>3 DEF MarkRead, MarkWrite, MarkExpire, MarkRelease, Transition
      <4> QED
        BY <2>4, <4>1, <4>2, <4>3
    <3> QED
      BY <1>0, <1>1, <3>1 DEF Fits, Idle
  <2>5. CASE CheckShutdown(q) \/ PollEmpty(q) \/ PopJob(q) \/ Deadline(q)
               \/ FetchJob(q) \/ ClaimJob(q) \/ UncountPending(q)
    <3>1. batch' = batch /\ (q # p => at'[p] = at[p])
      BY <1>0, <2>5 DEF CheckShutdown, PollEmpty, PopJob, Deadline, FetchJob, ClaimJob,
                        UncountPending, Transition
    <3>2. \/ at[q] = "loop" /\ at'[q] \in {"exited", "poll"}
          \/ at[q] \in {"poll"} \cup Popped /\ at'[q] \in {"poll", "resolve"} \cup Popped
          \/ batch[q] = <<>> /\ at'[q] = "loop"
      BY <1>0, <2>5 DEF CheckShutdown, PollEmpty, PopJob, Deadline, FetchJob, ClaimJob,
                        UncountPending, Transition
    <3> QED
      BY <1>0, <1>1, <3>1, <3>2 DEF Fits, Idle
  <2> QED
    BY <1>3, <2>1, <2>2, <2>3, <2>4, <2>5
       DEF PodNext, WorkerNext, CollectNext, InferNext, MarkNext
<1> QED
  BY <1>2, <1>3 DEF Next

\* No step takes a job out of COMPLETED, FAILED or expired.
LEMMA SettledStays ==
  ASSUME TypeInv, OwnInv, RecInv, [Next]_vars, NEW j \in Jobs,
         job[j].status \in Finished \cup {"missing"}, submit[j] # "new"
  PROVE  job'[j].status \in Finished \cup {"missing"}
<1>1. CASE job'[j] = job[j]
  BY <1>1
<1>2. CASE job'[j] # job[j]
  <2>1. Writing
    BY <1>2, OnlyWritesWrite
  <2>2. ASSUME NEW i \in Jobs, StoreJob(i) \/ ExpireJob(i)
        PROVE  job'[j].status \in Finished \cup {"missing"}
    BY <1>2, <2>2, WriteEffects, HashFields DEF SameView
  <2>3. ASSUME NEW p \in Pods, ClaimJob(p) PROVE FALSE
    <3>1. PICK i \in Jobs : job[i] = NewHash /\ \A k \in Jobs \ {i} : job'[k] = job[k]
      BY <2>3, WriteEffects DEF SameView
    <3> QED
      BY <1>2, <3>1, HashFields
  <2>4. ASSUME NEW p \in Pods, MarkWrite(p) PROVE FALSE
    <3>1. PICK i \in Jobs : job[i] = ClaimedHash /\ \A k \in Jobs \ {i} : job'[k] = job[k]
      BY <2>4, WriteEffects DEF SameView
    <3> QED
      BY <1>2, <3>1, HashFields
  <2>5. ASSUME NEW p \in Pods, MarkExpire(p)
        PROVE  job'[j].status \in Finished \cup {"missing"}
    <3>1. PICK i \in Jobs : /\ job'[i].status = job[i].status
                            /\ \A k \in Jobs \ {i} : job'[k] = job[k]
      BY <2>5, WriteEffects DEF SameView
    <3> QED
      BY <1>2, <3>1
  <2> QED
    BY <2>1, <2>2, <2>3, <2>4, <2>5 DEF Writing
<1> QED
  BY <1>1, <1>2

\* Where a worker that is past its HSET was a step before.
LEMMA PastWrite ==
  ASSUME TypeInv, [Next]_vars, NEW p \in Pods, at'[p] \in {"expire", "release", "tally"}
  PROVE  /\ batch'[p] = batch[p]
         /\ MarkWrite(p) \/ at[p] \in {"expire", "release", "tally"}
<1> USE DEF TypeInv, TypeOK, Transition, worker
<1>1. CASE UNCHANGED vars \/ \E j \in Jobs : SubmitNext(j) \/ ExpireJob(j)
  BY <1>1 DEF vars, SubmitNext, StoreJob, PushJob, CountPending, SubmitBreaks,
              SubmitStep, ExpireJob
<1>2. ASSUME NEW q \in Pods, PodNext(q)
      PROVE  batch'[p] = batch[p] /\ at[p] \in {"expire", "release", "tally"}
  BY <1>2 DEF PodNext, Boot, Sigterm, Kill, Terminate, RedisError, Die, Forget
<1>3. ASSUME NEW q \in Pods, WorkerNext(q)
      PROVE  /\ batch'[p] = batch[p]
             /\ MarkWrite(p) \/ at[p] \in {"expire", "release", "tally"}
  <2>1. CASE CollectNext(q)
    BY <2>1 DEF CollectNext, CheckShutdown, PollEmpty, PopJob, Deadline, FetchJob,
       ClaimJob, UncountPending, CountProcessing
  <2>2. CASE InferNext(q)
    BY <2>2 DEF InferNext, Infer, InferenceRaises, InferMisindexed, Die, Forget
  <2>3. CASE MarkNext(q)
    <3>1. CASE MarkWrite(q)
      BY <3>1 DEF MarkWrite
    <3>2. CASE MarkRead(q) \/ MarkExpire(q) \/ MarkRelease(q) \/ MarkTally(q)
      BY <3>2 DEF MarkRead, MarkExpire, MarkRelease, MarkTally
    <3> QED
      BY <2>3, <3>1, <3>2 DEF MarkNext
  <2>4. CASE RepairNext(q)
    BY <2>4 DEF RepairNext, PeekStats, PeekLength, ScanJobs, ScanLength,
       CompareConsistent, CompareDrifted, OverwriteStats
  <2> QED
    BY <1>3, <2>1, <2>2, <2>3, <2>4 DEF WorkerNext
<1> QED
  BY <1>1, <1>2, <1>3 DEF Next

LEMMA SettledNext ==
  ASSUME TypeInv, OwnInv, RecInv, [Next]_vars, NEW p \in Pods, Settled(p)
  PROVE  Settled(p)'
<1> SUFFICES ASSUME at'[p] \in {"expire", "release", "tally"}
             PROVE  job'[Head(batch'[p])].status \in Finished \cup {"missing"}
  BY DEF Settled
<1>1. batch'[p] = batch[p] /\ (MarkWrite(p) \/ at[p] \in {"expire", "release", "tally"})
  BY PastWrite
<1>2. CASE MarkWrite(p)
  BY <1>1, <1>2, WriteEffects
<1>3. CASE at[p] \in {"expire", "release", "tally"}
  <2>1. Head(batch[p]) \in Jobs /\ submit[Head(batch[p])] # "new"
    BY <1>3, MarkedJob DEF OwnInv, NotYetPushed
  <2> QED
    BY <1>1, <1>3, <2>1, SettledStays DEF Settled
<1> QED
  BY <1>1, <1>2, <1>3

-------------------------------------------------------------------------------
\* A job that a step strands was unfinished, and in the queue or in hand, before.
LEMMA StrandedKept ==
  ASSUME TypeInv, OwnInv, RecInv, [Next]_vars, NEW j \in Jobs, j \in Stranded',
         submit[j] \in {"queued", "acked"},
         j \in Elements(pending) => j \in Elements(pending)' \/ \E p \in Pods : Holds(p, j)',
         \A p \in Pods : Holds(p, j) => \E q \in Pods : Holds(q, j)'
  PROVE  j \in Stranded
<1>1. job'[j].status \in {"PENDING", "PROCESSING"}
  BY DEF Stranded
<1>2. job[j].status \in Status
  BY DEF TypeInv, TypeOK, JobHash
<1>3. job[j].status \notin Finished \cup {"missing"}
  BY <1>1, SettledStays
<1>4. job[j].status \in {"PENDING", "PROCESSING"}
  BY <1>2, <1>3
<1>5. j \notin Elements(pending) /\ \A p \in Pods : ~Holds(p, j)
  BY DEF Stranded
<1> QED
  BY <1>4, <1>5 DEF Stranded

\* No handler, and no expiry, strands a job.
LEMMA HandlersKeep ==
  ASSUME TypeInv, OwnInv, RecInv, [Next]_vars,
         UNCHANGED vars \/ \E i \in Jobs : SubmitNext(i) \/ ExpireJob(i)
  PROVE  Stranded' \subseteq Stranded /\ losses' = losses
<1>1. UNCHANGED <<at, cur, batch, losses>>
  BY DEF vars, SubmitNext, StoreJob, PushJob, CountPending, SubmitBreaks, SubmitStep,
         ExpireJob, worker, history
<1>2. ASSUME NEW j \in Jobs, j \in Stranded' PROVE j \in Stranded
  <2>1. \A p \in Pods : Holds(p, j)' <=> Holds(p, j)
    BY <1>1 DEF Holds, Elements
  <2>2. submit'[j] \in {"queued", "acked"} /\ j \notin Elements(pending)'
    BY <1>2 DEF Stranded
  <2>3. CASE UNCHANGED <<submit, pending>>
    BY <1>2, <2>1, <2>2, <2>3, StrandedKept
  <2>4. ASSUME NEW i \in Jobs, SubmitNext(i) PROVE j \in Stranded
    <3>1. CASE PushJob(i)
      <4>1. /\ pending' = Append(pending, i) /\ pending \in Seq(Jobs)
            /\ \A k \in Jobs \ {i} : submit'[k] = submit[k]
        BY <3>1 DEF PushJob, SubmitStep, TypeInv, TypeOK
      <4>2. Elements(pending)' = Elements(pending) \cup {i}
        BY <4>1, AppendElements DEF Elements
      <4>3. submit[j] \in {"queued", "acked"}
        BY <2>2, <4>1, <4>2
      <4> QED
        BY <1>2, <2>1, <4>2, <4>3, StrandedKept
    <3>2. CASE StoreJob(i) \/ CountPending(i) \/ SubmitBreaks(i)
      <4>1. pending' = pending /\ submit[j] \in {"queued", "acked"}
        BY <2>2, <3>2 DEF StoreJob, CountPending, SubmitBreaks, SubmitStep, redis,
                          TypeInv, TypeOK
      <4> QED
        BY <1>2, <2>1, <2>2, <4>1, StrandedKept DEF Elements
    <3> QED
      BY <2>4, <3>1, <3>2 DEF SubmitNext
  <2>5. (\E i \in Jobs : ExpireJob(i)) \/ UNCHANGED vars => UNCHANGED <<submit, pending>>
    BY DEF ExpireJob, vars
  <2> QED
    BY <2>3, <2>4, <2>5
<1>3. Stranded' \subseteq Jobs
  BY DEF Stranded
<1> QED
  BY <1>1, <1>2, <1>3

\* A worker strands jobs only by dying with them in hand.
LEMMA WorkersKeep ==
  ASSUME TypeInv, OwnInv, RecInv, [Next]_vars, \A q \in Pods : Fits(q) /\ Settled(q),
         NEW p \in Pods, PodNext(p) \/ WorkerNext(p)
  PROVE  \/ Stranded' \subseteq Stranded /\ losses' = losses
         \/ Stranded' \subseteq Stranded \cup {j \in Jobs : Holds(p, j)} /\ losses' = losses + 1
<1>0. /\ submit' = submit
      /\ \A q \in Pods \ {p} : cur'[q] = cur[q] /\ batch'[q] = batch[q]
  <2> USE DEF TypeInv, TypeOK
  <2>1. CASE PodNext(p) \/ InferNext(p)
    BY <2>1 DEF PodNext, Boot, Sigterm, Kill, Terminate, RedisError, Die, Forget, worker,
                InferNext, Infer, InferenceRaises, InferMisindexed
  <2>2. CASE CollectNext(p)
    BY <2>2 DEF CollectNext, CheckShutdown, PollEmpty, PopJob, Deadline, FetchJob,
                ClaimJob, UncountPending, CountProcessing
  <2>3. CASE MarkNext(p)
    BY <2>3 DEF MarkNext, MarkRead, MarkWrite, MarkExpire, MarkRelease, MarkTally
  <2>4. CASE RepairNext(p)
    BY <2>4 DEF RepairNext, PeekStats, PeekLength, ScanJobs, ScanLength,
                CompareConsistent, CompareDrifted, OverwriteStats
  <2> QED
    BY <2>1, <2>2, <2>3, <2>4 DEF WorkerNext
<1>1. Stranded \subseteq Jobs /\ Stranded' \subseteq Jobs
  BY DEF Stranded
<1>2. \A q \in Pods \ {p} : \A j \in Jobs : Holds(q, j)' <=> Holds(q, j)
  BY <1>0 DEF Holds, Elements
<1>3. \A j \in Stranded' : submit[j] \in {"queued", "acked"}
  BY <1>0 DEF Stranded
<1>4. ASSUME \A j \in Jobs : Holds(p, j) => Holds(p, j)', pending' = pending
      PROVE  Stranded' \subseteq Stranded
  <2>1. \A j \in Jobs, q \in Pods : Holds(q, j) => Holds(q, j)'
    BY <1>2, <1>4
  <2>2. Elements(pending)' = Elements(pending)
    BY <1>4 DEF Elements
  <2> QED
    BY <1>1, <1>3, <2>1, <2>2, StrandedKept
<1>5. CASE Kill(p) \/ RedisError(p) \/ InferMisindexed(p)
  <2>1. /\ pending' = pending
        /\ losses' = losses + (IF Busy(p) THEN 1 ELSE 0) /\ losses \in Nat
    BY <1>5 DEF Kill, RedisError, InferMisindexed, Die, redis, TypeInv, TypeOK
  <2>2. CASE Busy(p)
    <3>1. ASSUME NEW j \in Jobs, j \in Stranded', ~Holds(p, j) PROVE j \in Stranded
      BY <1>2, <1>3, <2>1, <3>1, StrandedKept DEF Elements
    <3> QED
      BY <1>1, <2>1, <2>2, <3>1
  <2>3. CASE ~Busy(p)
    <3>1. \A j \in Jobs : ~Holds(p, j)
      BY <2>3, EmptyElements, JobQueueAssumption DEF Busy, Holds
    <3> QED
      BY <1>4, <2>1, <2>3, <3>1
  <2> QED
    BY <2>2, <2>3
<1>6. CASE Terminate(p)
  <2>1. pending' = pending /\ losses' = losses /\ at[p] \in {"exited", "dead"}
    BY <1>6 DEF Terminate, redis, history
  <2>2. \A j \in Jobs : ~Holds(p, j)
    BY <2>1, EmptyElements, JobQueueAssumption DEF Fits, Idle, Holds, TypeInv, Hands
  <2> QED
    BY <1>4, <2>1, <2>2
<1>7. CASE Boot(p) \/ Sigterm(p) \/ RepairNext(p) \/ Infer(p) \/ InferenceRaises(p)
             \/ MarkRead(p) \/ MarkWrite(p) \/ MarkExpire(p) \/ MarkRelease(p)
             \/ CheckShutdown(p) \/ PollEmpty(p) \/ Deadline(p) \/ FetchJob(p)
             \/ ClaimJob(p) \/ UncountPending(p)
  <2>1. UNCHANGED <<pending, batch, losses>>
    <3>1. CASE Boot(p) \/ Sigterm(p) \/ RepairNext(p) \/ Infer(p) \/ InferenceRaises(p)
      BY <3>1 DEF Boot, Sigterm, RepairNext, PeekStats, PeekLength, ScanJobs, ScanLength,
         CompareConsistent, CompareDrifted, OverwriteStats, Infer, InferenceRaises,
         worker, redis, history
    <3>2. CASE MarkRead(p) \/ MarkWrite(p) \/ MarkExpire(p) \/ MarkRelease(p)
      BY <3>2 DEF MarkRead, MarkWrite, MarkExpire, MarkRelease, redis, history
    <3>3. CASE CheckShutdown(p) \/ PollEmpty(p) \/ Deadline(p) \/ FetchJob(p)
                 \/ ClaimJob(p) \/ UncountPending(p)
      BY <3>3 DEF CheckShutdown, PollEmpty, Deadline, FetchJob, ClaimJob, UncountPending,
         redis, history
    <3> QED
      BY <1>7, <3>1, <3>2, <3>3
  <2>2. cur' = cur
    <3>1. CASE FetchJob(p)
      BY <3>1, RecInvFetch
    <3>2. CASE ~FetchJob(p)
      BY <1>7, <3>2 DEF Boot, Sigterm, RepairNext, PeekStats, PeekLength, ScanJobs,
         ScanLength, CompareConsistent, CompareDrifted, OverwriteStats, Infer,
         InferenceRaises, MarkRead, MarkWrite, MarkExpire, MarkRelease, CheckShutdown,
         PollEmpty, Deadline, ClaimJob, UncountPending, worker
    <3> QED
      BY <3>1, <3>2
  <2> QED
    BY <1>4, <2>1, <2>2 DEF Holds, Elements
<1>8. CASE PopJob(p)
  <2>1. /\ pending \in Seq(Jobs) /\ pending # <<>> /\ pending' = Tail(pending)
        /\ cur[p] = NoJob /\ cur'[p] = Head(pending) /\ batch' = batch /\ losses' = losses
    BY <1>8 DEF PopJob, Transition, history, TypeInv, TypeOK, Hands
  <2>2. Elements(pending) = Elements(pending)' \cup {Head(pending)}
    BY <2>1, TailElements DEF Elements
  <2>3. \A j \in Jobs : Holds(p, j)' <=> Holds(p, j) \/ j = Head(pending)
    BY <2>1, JobQueueAssumption DEF Holds, Elements
  <2>4. \A j \in Jobs, q \in Pods : Holds(q, j) => Holds(q, j)'
    BY <1>2, <2>3
  <2>5. \A j \in Jobs : j \in Elements(pending) => j \in Elements(pending)' \/ Holds(p, j)'
    BY <2>2, <2>3
  <2>6. \A j \in Stranded' : j \in Stranded
    BY <1>1, <1>3, <2>4, <2>5, StrandedKept
  <2> QED
    BY <2>1, <2>6
<1>9. CASE CountProcessing(p)
  <2>1. /\ pending' = pending /\ losses' = losses /\ batch[p] \in Seq(Jobs) /\ cur[p] \in Jobs
        /\ batch'[p] = Append(batch[p], cur[p])
    BY <1>9 DEF CountProcessing, Transition, history, TypeInv, TypeOK, Hands
  <2>2. Elements(batch[p])' = Elements(batch[p]) \cup {cur[p]}
    BY <2>1, AppendElements DEF Elements
  <2> QED
    BY <1>4, <2>1, <2>2 DEF Holds
<1>10. CASE MarkTally(p)
  <2>1. /\ pending' = pending /\ losses' = losses /\ at[p] = "tally" /\ cur' = cur
        /\ batch'[p] = Tail(batch[p]) /\ job' = job
    BY <1>10 DEF MarkTally, Transition, history, TypeInv, TypeOK
  <2>2. /\ Elements(batch[p]) = Elements(batch[p])' \cup {Head(batch[p])}
        /\ job[Head(batch[p])].status \in Finished \cup {"missing"}
    BY <2>1, MarkedJob DEF Settled, Elements
  <2>3. \A j \in Jobs \ {Head(batch[p])} : Holds(p, j) => Holds(p, j)'
    BY <2>1, <2>2 DEF Holds
  <2>4. Head(batch[p]) \notin Stranded'
    BY <2>1, <2>2 DEF Stranded
  <2>5. \A j \in Jobs \ {Head(batch[p])}, q \in Pods : Holds(q, j) => Holds(q, j)'
    BY <1>2, <2>3
  <2>6. Elements(pending)' = Elements(pending)
    BY <2>1 DEF Elements
  <2>7. \A j \in Stranded' : j \in Stranded
    BY <1>1, <1>3, <2>4, <2>5, <2>6, StrandedKept
  <2> QED
    BY <2>1, <2>7
<1> QED
  BY <1>5, <1>6, <1>7, <1>8, <1>9, <1>10
     DEF PodNext, WorkerNext, CollectNext, InferNext, MarkNext

\* What one worker has in hand.
LEMMA HandSize ==
  ASSUME TypeInv, NEW p \in Pods, Fits(p)
  PROVE  LET hand == {j \in Jobs : Holds(p, j)}
         IN IsFiniteSet(hand) /\ Cardinality(hand) <= BatchSize
<1> DEFINE hand == {j \in Jobs : Holds(p, j)}
           n == Len(batch[p])
           collected == Elements(batch[p])
<1>1. /\ batch[p] \in Seq(Jobs) /\ n \in Nat /\ BatchSize \in Nat
      /\ collected = {batch[p][i] : i \in 1..n} /\ IsFiniteSet(Jobs)
  BY JobQueueAssumption DEF TypeInv, TypeOK, Elements
<1>2. IsFiniteSet(collected) /\ Cardinality(collected) <= n
  <2> DEFINE f == [i \in 1..n |-> batch[p][i]]
  <2>1. f \in Surjection(1..n, collected)
    BY <1>1 DEF Surjection
  <2>2. IsFiniteSet(1..n) /\ Cardinality(1..n) = n
    BY <1>1, UpTo
  <2> HIDE DEF f, n, collected
  <2> QED
    BY <2>1, <2>2, FS_Surjection
<1>3. collected \subseteq Jobs
  BY <1>1
<1>4. CASE cur[p] \notin Jobs
  <2>1. hand = collected
    BY <1>3, <1>4 DEF Holds
  <2>2. n <= BatchSize /\ Cardinality(collected) \in Nat
    BY <1>2, FS_CardinalityType DEF Fits
  <2> HIDE DEF hand, collected, n
  <2>3. Cardinality(hand) <= BatchSize
    BY <1>1, <1>2, <2>1, <2>2
  <2> QED
    BY <1>2, <2>1, <2>3 DEF hand
<1>5. CASE cur[p] \in Jobs
  <2>1. hand = collected \cup {cur[p]}
    BY <1>3, <1>5 DEF Holds
  <2>2. n < BatchSize
    BY <1>5, JobQueueAssumption DEF Fits, TypeInv, Hands
  <2> HIDE DEF hand, collected, n
  <2>3. IsFiniteSet({cur[p]}) /\ Cardinality({cur[p]}) = 1
    BY FS_Singleton
  <2>4. /\ Cardinality(collected) \in Nat /\ Cardinality(collected \cap {cur[p]}) \in Nat
        /\ IsFiniteSet(hand)
        /\ Cardinality(hand) = Cardinality(collected) + 1 - Cardinality(collected \cap {cur[p]})
    BY <1>2, <2>1, <2>3, FS_CardinalityType, FS_Union, FS_Intersection
  <2>5. Cardinality(hand) <= BatchSize
    BY <1>1, <1>2, <2>2, <2>4
  <2> QED
    BY <2>4, <2>5 DEF hand
<1> QED
  BY <1>4, <1>5

LEMMA LossInvInit == Init => LossInv
<1> SUFFICES ASSUME Init PROVE LossInv
  OBVIOUS
<1>1. Stranded = {} /\ losses = 0
  BY DEF Init, Stranded
<1>2. \A p \in Pods : Fits(p) /\ Settled(p)
  BY JobQueueAssumption DEF Init, Fits, Settled
<1>3. Cardinality(Stranded) = 0 /\ BatchSize * losses = 0
  BY <1>1, FS_EmptySet, JobQueueAssumption
<1> QED
  BY <1>2, <1>3 DEF LossInv, LossBounded

LEMMA LossInvNext == TypeInv /\ OwnInv /\ RecInv /\ LossInv /\ [Next]_vars => LossInv'
<1> SUFFICES ASSUME TypeInv, OwnInv, RecInv, LossInv, [Next]_vars PROVE LossInv'
  OBVIOUS
<1>1. \A p \in Pods : Fits(p)' /\ Settled(p)'
  BY FitsNext, SettledNext DEF LossInv
<1>2. /\ losses \in Nat /\ BatchSize \in Nat
      /\ IsFiniteSet(Stranded) /\ Cardinality(Stranded) \in Nat
      /\ Cardinality(Stranded) <= BatchSize * losses
  <2>1. Stranded \in SUBSET Jobs /\ IsFiniteSet(Jobs)
    BY JobQueueAssumption DEF Stranded
  <2> QED
    BY <2>1, FS_Subset, FS_CardinalityType, JobQueueAssumption
       DEF TypeInv, TypeOK, LossInv, LossBounded
<1>3. CASE Stranded' \subseteq Stranded /\ losses' = losses
  <2>1. Cardinality(Stranded)' <= Cardinality(Stranded) /\ Cardinality(Stranded)' \in Nat
    BY <1>2, <1>3, FS_Subset, FS_CardinalityType
  <2>2. BatchSize * losses \in Nat /\ BatchSize * losses' = BatchSize * losses
    BY <1>2, <1>3
  <2>3. Cardinality(Stranded)' <= BatchSize * losses'
    BY <1>2, <2>1, <2>2
  <2> QED
    BY <1>1, <2>3 DEF LossInv, LossBounded
<1>4. ASSUME NEW p \in Pods, losses' = losses + 1,
             Stranded' \subseteq Stranded \cup {j \in Jobs : Holds(p, j)}
      PROVE  LossInv'
  <2> DEFINE hand == {j \in Jobs : Holds(p, j)}
  <2>1. IsFiniteSet(hand) /\ Cardinality(hand) <= BatchSize
    BY HandSize DEF LossInv
  <2>2. Stranded' \in SUBSET (Stranded \cup hand)
    BY <1>4
  <2> HIDE DEF hand
  <2>3. /\ IsFiniteSet(Stranded \cup hand) /\ Cardinality(Stranded \cap hand) \in Nat
        /\ Cardinality(Stranded \cup hand)
             = Cardinality(Stranded) + Cardinality(hand) - Cardinality(Stranded \cap hand)
    BY <1>2, <2>1, FS_Union, FS_Intersection, FS_CardinalityType
  <2>4. /\ Cardinality(Stranded)' <= Cardinality(Stranded \cup hand)
        /\ Cardinality(Stranded)' \in Nat /\ Cardinality(hand) \in Nat
    BY <2>1, <2>2, <2>3, FS_Subset, FS_CardinalityType
  <2>5. BatchSize * losses \in Nat /\ BatchSize * losses' = BatchSize * losses + BatchSize
    BY <1>2, <1>4
  <2>6. Cardinality(Stranded)' <= BatchSize * losses'
    BY <1>2, <2>1, <2>3, <2>4, <2>5
  <2> QED
    BY <1>1, <2>6 DEF LossInv, LossBounded
<1>5. CASE UNCHANGED vars \/ \E i \in Jobs : SubmitNext(i) \/ ExpireJob(i)
  BY <1>3, <1>5, HandlersKeep
<1>6. ASSUME NEW p \in Pods, PodNext(p) \/ WorkerNext(p) PROVE LossInv'
  BY <1>3, <1>4, <1>6, WorkersKeep DEF LossInv
<1> QED
  BY <1>5, <1>6 DEF Next

(***************************************************************************)
(* However many pods are killed, stopped or lose a Redis command, each     *)
(* dead worker costs at most the INFERENCE_BATCH_SIZE jobs it had popped   *)
(* (model_service.py:128-167); no other job ever gets lost.                *)
(***************************************************************************)
THEOREM LossesBounded == Spec => []LossBounded
<1>1. LossInv => LossBounded
  BY DEF LossInv
<1> QED
  BY <1>1, LossInvInit, LossInvNext, TypeInvariant, OwnInvariant, RecInvariant, PTL DEF Spec

-------------------------------------------------------------------------------
(***************************************************************************)
(* Statistics.  Each counter is the number of jobs in one of five sets,    *)
(* and each command of a worker or handler moves one job into or out of a  *)
(* set, or moves it on without a set noticing.  Besides, was_processing is *)
(* true from the HGETALL of a mark on: the job being marked is PROCESSING. *)
(***************************************************************************)
Acked == {j \in Jobs : submit[j] = "acked"}
BeforeUncount == InFlight({"uncount"})
BeforeCount == InFlight({"uncount", "count"})
Uncounted == Taken \ BeforeUncount
InWork == (Taken \ Ended) \ BeforeCount
Releasing == InMark({"expire", "release"})
Marked == InMark({"expire", "release", "tally"})
Tallied == Ended \ Marked

Undisturbed == ~repaired /\ faults = 0 /\ \A j \in Jobs : submit[j] # "broken"

Balanced ==
  /\ stats.pending = Cardinality(Acked) - Cardinality(Uncounted)
  /\ stats.processing = Cardinality(InWork) + Cardinality(Releasing)
  /\ stats.completed + stats.failed = Cardinality(Tallied)

Remembered == \A p \in Pods : at[p] \in {"write", "expire", "release"} => was[p]

TallyInv == (Undisturbed => Balanced) /\ Remembered

\* Labels at which a job is between two commands that the statistics see.
Spots == {"uncount", "count", "expire", "release", "tally"}

\* The commands that change a counter or what it counts.
Counting(p) ==
  \/ ClaimJob(p) \/ UncountPending(p) \/ CountProcessing(p)
  \/ MarkWrite(p) \/ MarkExpire(p) \/ MarkRelease(p) \/ MarkTally(p)

SamePlace(p) ==
  \/ at[p] \notin Spots /\ at'[p] \notin Spots
  \/ at'[p] = at[p] /\ cur'[p] = cur[p] /\ batch'[p] = batch[p]

LEMMA PlacesKept ==
  ASSUME \A p \in Pods : SamePlace(p)
  PROVE  /\ BeforeUncount' = BeforeUncount /\ BeforeCount' = BeforeCount
         /\ Releasing' = Releasing /\ Marked' = Marked
<1>1. \A L \in SUBSET Spots, p \in Pods :
        /\ at'[p] \in L <=> at[p] \in L
        /\ at[p] \in L => cur'[p] = cur[p] /\ batch'[p] = batch[p]
  BY DEF SamePlace
<1>2. /\ {"uncount"} \in SUBSET Spots /\ {"uncount", "count"} \in SUBSET Spots
      /\ {"expire", "release"} \in SUBSET Spots /\ {"expire", "release", "tally"} \in SUBSET Spots
  BY DEF Spots
<1>3. ASSUME NEW L \in SUBSET Spots PROVE InFlight(L)' = InFlight(L) /\ InMark(L)' = InMark(L)
  BY <1>1 DEF InFlight, InMark
<1> QED
  BY <1>2, <1>3 DEF BeforeUncount, BeforeCount, Releasing, Marked

\* While one worker moves with job j in its hands, where j is and the others are.
LEMMA OnePod ==
  ASSUME TypeInv, OwnInv, NEW p \in Pods, NEW j \in Jobs, Holds(p, j),
         \A q \in Pods \ {p} : at'[q] = at[q] /\ cur'[q] = cur[q] /\ batch'[q] = batch[q],
         NEW L
  PROVE  /\ j \in InFlight(L) <=> at[p] \in L /\ cur[p] = j
         /\ j \in InFlight(L)' <=> at'[p] \in L /\ cur'[p] = j
         /\ L \subseteq Marking =>
              /\ j \in InMark(L) <=> at[p] \in L /\ Head(batch[p]) = j
              /\ j \in InMark(L)' <=> at'[p] \in L /\ Head(batch'[p]) = j
         /\ (at[p] \in L => cur[p] = j) /\ (at'[p] \in L => cur'[p] = j) =>
              \A i \in Jobs \ {j} : i \in InFlight(L)' <=> i \in InFlight(L)
         /\ (at[p] \in L => Head(batch[p]) = j) /\ (at'[p] \in L => Head(batch'[p]) = j) =>
              \A i \in Jobs \ {j} : i \in InMark(L)' <=> i \in InMark(L)
<1>1. ASSUME NEW q \in Pods \ {p} PROVE cur[q] # j /\ (at[q] \in Marking => Head(batch[q]) # j)
  <2>1. ~Holds(q, j)
    BY DEF OwnInv, ExclusiveOwnership
  <2>2. at[q] \in Marking => Head(batch[q]) \in Elements(batch[q])
    <3>1. at[q] \in Marking => batch[q] \in Seq(Jobs) /\ batch[q] # <<>>
      BY DEF TypeInv, TypeOK, Hands
    <3> QED
      BY <3>1, EmptySeq DEF Elements
  <2> QED
    BY <2>1, <2>2 DEF Holds
<1>2. /\ j \in InFlight(L) <=> at[p] \in L /\ cur[p] = j
      /\ j \in InFlight(L)' <=> at'[p] \in L /\ cur'[p] = j
  BY <1>1 DEF InFlight
<1>3. L \subseteq Marking =>
        /\ j \in InMark(L) <=> at[p] \in L /\ Head(batch[p]) = j
        /\ j \in InMark(L)' <=> at'[p] \in L /\ Head(batch'[p]) = j
  BY <1>1 DEF InMark
<1>4. (at[p] \in L => cur[p] = j) /\ (at'[p] \in L => cur'[p] = j) =>
        \A i \in Jobs \ {j} : i \in InFlight(L)' <=> i \in InFlight(L)
  BY DEF InFlight
<1>5. (at[p] \in L => Head(batch[p]) = j) /\ (at'[p] \in L => Head(batch'[p]) = j) =>
        \A i \in Jobs \ {j} : i \in InMark(L)' <=> i \in InMark(L)
  BY DEF InMark
<1> QED
  BY <1>2, <1>3, <1>4, <1>5

\* Which steps change what is claimed and what is finished.
LEMMA TakenKept ==
  ASSUME TypeInv, OwnInv, RecInv, [Next]_vars,
         \A p \in Pods : ~ClaimJob(p) /\ ~MarkWrite(p)
  PROVE  Taken' = Taken /\ Ended' = Ended
<1> SUFFICES ASSUME NEW j \in Jobs
             PROVE  (j \in Taken' <=> j \in Taken) /\ (j \in Ended' <=> j \in Ended)
  BY DEF Taken, Ended, Submitted
<1>1. CASE SameView(j)
  BY <1>1 DEF SameView, Taken, Ended, Submitted
<1>2. CASE ~SameView(j)
  <2>1. Writing
    BY <1>2, OnlyWritesWrite
  <2>2. CASE StoreJob(j)
    BY <2>2, WriteEffects, HashFields DEF Taken, Ended, Submitted
  <2>3. CASE ExpireJob(j)
    <3>1. job[j].status \in Finished /\ job'[j] = NoHash /\ submit[j] # "new" /\ submit' = submit
      BY <2>3, WriteEffects DEF ExpireJob
    <3> QED
      BY <3>1, HashFields DEF Taken, Ended, Submitted
  <2>4. ASSUME NEW p \in Pods, MarkExpire(p)
        PROVE  (j \in Taken' <=> j \in Taken) /\ (j \in Ended' <=> j \in Ended)
    <3>1. job'[j].status = job[j].status
      BY <2>4, WriteEffects DEF SameView
    <3>2. submit' = submit
      BY <2>4 DEF MarkExpire
    <3> QED
      BY <3>1, <3>2 DEF Taken, Ended, Submitted
  <2>5. ASSUME NEW i \in Jobs, i # j, StoreJob(i) \/ ExpireJob(i) PROVE FALSE
    BY <1>2, <2>5, WriteEffects
  <2> QED
    BY <2>1, <2>2, <2>3, <2>4, <2>5 DEF Writing
<1> QED
  BY <1>1, <1>2

LEMMA Claims ==
  ASSUME TypeInv, OwnInv, RecInv, NEW p \in Pods, ClaimJob(p)
  PROVE  /\ cur[p] \in Jobs /\ cur[p] \notin Taken
         /\ Taken' = Taken \cup {cur[p]} /\ Ended' = Ended
<1> DEFINE j == cur[p]
<1>1. j \in Jobs /\ job[j] = NewHash /\ job' = [job EXCEPT ![j] = ClaimedHash]
  BY RecInvClaim
<1>2. submit[j] # "new" /\ submit' = submit
  BY <1>1 DEF ClaimJob, OwnInv, NotYetPushed, Holds
<1>3. job'[j] = ClaimedHash /\ \A i \in Jobs \ {j} : job'[i] = job[i]
  BY <1>1 DEF TypeInv, TypeOK
<1> HIDE DEF j
<1>4. \A i \in Jobs : /\ i \in Taken' <=> i \in Taken \/ i = j
                      /\ i \in Ended' <=> i \in Ended
  BY <1>1, <1>2, <1>3, HashFields DEF Taken, Ended, Submitted
<1>5. j \notin Taken /\ Taken \subseteq Jobs /\ Taken' \subseteq Jobs
      /\ Ended \subseteq Jobs /\ Ended' \subseteq Jobs
  BY <1>1, HashFields DEF Taken, Ended, Submitted
<1> QED
  BY <1>1, <1>4, <1>5 DEF j

LEMMA Finishes ==
  ASSUME TypeInv, OwnInv, RecInv, NEW p \in Pods, MarkWrite(p)
  PROVE  LET j == Head(batch[p])
         IN /\ j \in Taken \ Ended
            /\ Taken' = Taken /\ Ended' = Ended \cup {j}
<1> DEFINE j == Head(batch[p])
<1>1. at[p] = "write" /\ submit' = submit
  BY DEF MarkWrite, Transition
<1>2. j \in Jobs /\ Holds(p, j)
  BY <1>1, MarkedJob
<1>3. submit[j] # "new"
  BY <1>2 DEF OwnInv, NotYetPushed
<1>4. /\ job[j] = ClaimedHash /\ job'[j].status \in Finished
      /\ \A i \in Jobs \ {j} : job'[i] = job[i]
  BY WriteEffects DEF SameView
<1> HIDE DEF j
<1>5. \A i \in Jobs : /\ i \in Taken' <=> i \in Taken
                      /\ i \in Ended' <=> i \in Ended \/ i = j
  BY <1>1, <1>2, <1>3, <1>4, HashFields DEF Taken, Ended, Submitted
<1>6. j \in Taken \ Ended /\ Taken \subseteq Jobs /\ Taken' \subseteq Jobs
      /\ Ended \subseteq Jobs /\ Ended' \subseteq Jobs
  BY <1>2, <1>3, <1>4, HashFields DEF Taken, Ended, Submitted
<1> QED
  BY <1>2, <1>5, <1>6 DEF j

\* All that is not counted: the statistics, and where jobs are, stay.
LEMMA Uncounting ==
  ASSUME TypeInv, [Next]_vars, Undisturbed', \A p \in Pods : ~Counting(p)
  PROVE  /\ \A p \in Pods : SamePlace(p)
         /\ \/ stats' = stats /\ Acked' = Acked
            \/ \E j \in Jobs : CountPending(j)
<1> USE DEF TypeInv, TypeOK, Transition, worker, SamePlace
<1>1. CASE UNCHANGED vars
  BY <1>1 DEF vars, Acked
<1>2. ASSUME NEW j \in Jobs, SubmitNext(j) \/ ExpireJob(j)
      PROVE  /\ \A p \in Pods : SamePlace(p)
             /\ \/ stats' = stats /\ Acked' = Acked
                \/ \E i \in Jobs : CountPending(i)
  <2>1. UNCHANGED worker
    BY <1>2 DEF SubmitNext, StoreJob, PushJob, CountPending, SubmitBreaks, SubmitStep, ExpireJob
  <2>2. CASE StoreJob(j) \/ PushJob(j) \/ ExpireJob(j)
    BY <2>2 DEF StoreJob, PushJob, SubmitStep, ExpireJob, Acked
  <2>3. ~SubmitBreaks(j)
    BY DEF SubmitBreaks, Undisturbed
  <2> QED
    BY <1>2, <2>1, <2>2, <2>3 DEF SubmitNext
<1>3. ASSUME NEW p \in Pods, PodNext(p)
      PROVE  (\A q \in Pods : SamePlace(q)) /\ stats' = stats /\ submit' = submit
  <2>1. ~Sigterm(p) /\ ~Kill(p) /\ ~RedisError(p)
    BY DEF Sigterm, Kill, RedisError, Undisturbed
  <2>2. Boot(p) \/ Terminate(p)
    BY <1>3, <2>1 DEF PodNext
  <2> QED
    BY <2>2 DEF Boot, Terminate, Forget, redis, Spots
<1>4. ASSUME NEW p \in Pods, WorkerNext(p)
      PROVE  (\A q \in Pods : SamePlace(q)) /\ stats' = stats /\ submit' = submit
  <2>1. CASE CollectNext(p)
    BY <1>4, <2>1 DEF CollectNext, CheckShutdown, PollEmpty, PopJob, Deadline, FetchJob,
       Counting, redis, Spots
  <2>2. CASE InferNext(p)
    BY <2>2 DEF InferNext, Infer, InferenceRaises, InferMisindexed, Die, Forget, redis, Spots
  <2>3. CASE MarkNext(p)
    BY <2>3 DEF MarkNext, MarkRead, Counting, redis, Spots
  <2>4. CASE RepairNext(p)
    BY <2>4 DEF RepairNext, PeekStats, PeekLength, ScanJobs, ScanLength,
       CompareConsistent, CompareDrifted, OverwriteStats, Undisturbed, redis, Spots
  <2> QED
    BY <1>4, <2>1, <2>2, <2>3, <2>4 DEF WorkerNext
<1>5. submit' = submit => Acked' = Acked
  BY DEF Acked
<1> QED
  BY <1>1, <1>2, <1>3, <1>4, <1>5 DEF Next

\* Adding a job to a set of jobs, and taking it out.
LEMMA CountJobs ==
  \A S \in SUBSET Jobs : \A j :
    /\ Cardinality(S) \in Nat
    /\ j \notin S => Cardinality(S \cup {j}) = Cardinality(S) + 1
    /\ j \in S => Cardinality(S \ {j}) = Cardinality(S) - 1
<1> TAKE S \in SUBSET Jobs
<1> TAKE j
<1>1. IsFiniteSet(S)
  BY FS_Subset, JobQueueAssumption
<1> QED
  BY <1>1, FS_CardinalityType, FS_AddElement, FS_RemoveElement

\* The sets the counters count, when one of the steps of Counting is taken.
LEMMA OneWorkerMoves ==
  ASSUME TypeInv, NEW p \in Pods, Counting(p)
  PROVE  /\ \A q \in Pods \ {p} : at'[q] = at[q] /\ cur'[q] = cur[q] /\ batch'[q] = batch[q]
         /\ submit' = submit /\ Acked' = Acked
         /\ repaired' = repaired /\ faults' = faults
BY DEF Counting, ClaimJob, UncountPending, CountProcessing, MarkWrite, MarkExpire, MarkRelease,
       MarkTally, Transition, TypeInv, TypeOK, history, Acked

LEMMA CollectingJob ==
  ASSUME TypeInv, RecInv, OwnInv, NEW p \in Pods, at[p] \in Popped
  PROVE  /\ cur[p] \in Jobs /\ Holds(p, cur[p])
         /\ at[p] \in {"uncount", "count"} => cur[p] \in Taken \ Ended
<1>1. cur[p] \in Jobs /\ Holds(p, cur[p])
  BY DEF TypeInv, TypeOK, Hands, Holds
<1>2. submit[cur[p]] # "new"
  BY <1>1 DEF OwnInv, NotYetPushed
<1>3. at[p] \in {"uncount", "count"} => job[cur[p]] = ClaimedHash
  BY DEF RecInv, HandsIntact
<1> QED
  BY <1>1, <1>2, <1>3, HashFields DEF Taken, Ended, Submitted

LEMMA ClaimCounts ==
  ASSUME TypeInv, OwnInv, RecInv, NEW p \in Pods, ClaimJob(p)
  PROVE  /\ Uncounted' = Uncounted /\ InWork' = InWork
         /\ Releasing' = Releasing /\ Tallied' = Tallied
<1> DEFINE j == cur[p]
<1>1. at[p] = "claim" /\ at'[p] = "uncount" /\ cur'[p] = j
  BY DEF ClaimJob, Transition, TypeInv, TypeOK
<1>2. j \in Jobs /\ Holds(p, j)
  BY <1>1, CollectingJob
<1>3. \A q \in Pods \ {p} : at'[q] = at[q] /\ cur'[q] = cur[q] /\ batch'[q] = batch[q]
  BY OneWorkerMoves DEF Counting
<1>4. j \notin Taken /\ Taken' = Taken \cup {j} /\ Ended' = Ended
  BY Claims
<1> HIDE DEF j
<1>5. BeforeUncount' = BeforeUncount \cup {j}
  <2>1. j \in BeforeUncount' /\ \A i \in Jobs \ {j} : i \in BeforeUncount' <=> i \in BeforeUncount
    BY <1>1, <1>2, <1>3, OnePod DEF BeforeUncount, j
  <2> QED
    BY <1>2, <2>1 DEF BeforeUncount, InFlight
<1>6. BeforeCount' = BeforeCount \cup {j}
  <2>1. j \in BeforeCount' /\ \A i \in Jobs \ {j} : i \in BeforeCount' <=> i \in BeforeCount
    BY <1>1, <1>2, <1>3, OnePod DEF BeforeCount, j
  <2> QED
    BY <1>2, <2>1 DEF BeforeCount, InFlight
<1>7. Releasing' = Releasing /\ Marked' = Marked
  BY <1>1, <1>3 DEF Releasing, Marked, InMark
<1> QED
  BY <1>4, <1>5, <1>6, <1>7 DEF Uncounted, InWork, Tallied

LEMMA UncountCounts ==
  ASSUME TypeInv, OwnInv, RecInv, NEW p \in Pods, UncountPending(p), Taken' = Taken, Ended' = Ended
  PROVE  /\ cur[p] \notin Uncounted /\ Uncounted' = Uncounted \cup {cur[p]}
         /\ InWork' = InWork /\ Releasing' = Releasing /\ Tallied' = Tallied
<1> DEFINE j == cur[p]
<1>1. at[p] = "uncount" /\ at'[p] = "count" /\ cur'[p] = j
  BY DEF UncountPending, Transition, TypeInv, TypeOK
<1>2. j \in Jobs /\ Holds(p, j) /\ j \in Taken
  BY <1>1, CollectingJob
<1>3. \A q \in Pods \ {p} : at'[q] = at[q] /\ cur'[q] = cur[q] /\ batch'[q] = batch[q]
  BY OneWorkerMoves DEF Counting
<1> HIDE DEF j
<1>4. j \in BeforeUncount /\ BeforeUncount' = BeforeUncount \ {j}
  <2>1. /\ j \in BeforeUncount /\ j \notin BeforeUncount'
        /\ \A i \in Jobs \ {j} : i \in BeforeUncount' <=> i \in BeforeUncount
    BY <1>1, <1>2, <1>3, OnePod DEF BeforeUncount, j
  <2> QED
    BY <2>1 DEF BeforeUncount, InFlight
<1>5. BeforeCount' = BeforeCount
  <2>1. /\ j \in BeforeCount /\ j \in BeforeCount'
        /\ \A i \in Jobs \ {j} : i \in BeforeCount' <=> i \in BeforeCount
    BY <1>1, <1>2, <1>3, OnePod DEF BeforeCount, j
  <2> QED
    BY <2>1 DEF BeforeCount, InFlight
<1>6. Releasing' = Releasing /\ Marked' = Marked
  BY <1>1, <1>3 DEF Releasing, Marked, InMark
<1> QED
  BY <1>2, <1>4, <1>5, <1>6 DEF Uncounted, InWork, Tallied, j

LEMMA ProcessingCounts ==
  ASSUME TypeInv, OwnInv, RecInv, NEW p \in Pods, CountProcessing(p), Taken' = Taken, Ended' = Ended
  PROVE  /\ cur[p] \notin InWork /\ InWork' = InWork \cup {cur[p]}
         /\ Uncounted' = Uncounted /\ Releasing' = Releasing /\ Tallied' = Tallied
<1> DEFINE j == cur[p]
<1>1. at[p] = "count" /\ at'[p] \in {"poll", "resolve"}
  BY DEF CountProcessing, Transition, TypeInv, TypeOK
<1>2. j \in Jobs /\ Holds(p, j) /\ j \in Taken \ Ended
  BY <1>1, CollectingJob
<1>3. \A q \in Pods \ {p} : at'[q] = at[q] /\ cur'[q] = cur[q] /\ batch'[q] = batch[q]
  BY OneWorkerMoves DEF Counting
<1> HIDE DEF j
<1>4. j \in BeforeCount /\ BeforeCount' = BeforeCount \ {j}
  <2>1. /\ j \in BeforeCount /\ j \notin BeforeCount'
        /\ \A i \in Jobs \ {j} : i \in BeforeCount' <=> i \in BeforeCount
    BY <1>1, <1>2, <1>3, OnePod DEF BeforeCount, j
  <2> QED
    BY <2>1 DEF BeforeCount, InFlight
<1>5. BeforeUncount' = BeforeUncount /\ Releasing' = Releasing /\ Marked' = Marked
  BY <1>1, <1>3 DEF BeforeUncount, InFlight, Releasing, Marked, InMark
<1> QED
  BY <1>2, <1>4, <1>5 DEF Uncounted, InWork, Tallied, j

LEMMA WriteCounts ==
  ASSUME TypeInv, OwnInv, RecInv, NEW p \in Pods, MarkWrite(p)
  PROVE  LET j == Head(batch[p])
         IN /\ j \in InWork /\ InWork' = InWork \ {j}
            /\ j \notin Releasing /\ Releasing' = Releasing \cup {j}
            /\ Uncounted' = Uncounted /\ Tallied' = Tallied
<1> DEFINE j == Head(batch[p])
<1>1. at[p] = "write" /\ at'[p] = "expire" /\ batch' = batch /\ cur' = cur
  BY DEF MarkWrite, Transition, TypeInv, TypeOK
<1>2. j \in Jobs /\ Holds(p, j)
  BY <1>1, MarkedJob
<1>3. \A q \in Pods \ {p} : at'[q] = at[q] /\ cur'[q] = cur[q] /\ batch'[q] = batch[q]
  BY OneWorkerMoves DEF Counting
<1>4. j \in Taken \ Ended /\ Taken' = Taken /\ Ended' = Ended \cup {j}
  BY Finishes
<1>5. j \notin BeforeCount /\ BeforeCount' = BeforeCount /\ BeforeUncount' = BeforeUncount
  <2>1. j \notin BeforeCount
    BY <1>1, <1>2, <1>3, OnePod DEF BeforeCount
  <2> QED
    BY <1>1, <1>3, <2>1 DEF BeforeCount, BeforeUncount, InFlight
<1>6. Head(batch'[p]) = j
  BY <1>1
<1> HIDE DEF j
<1>7. j \notin Releasing /\ Releasing' = Releasing \cup {j}
  <2>1. /\ j \notin Releasing /\ j \in Releasing'
        /\ \A i \in Jobs \ {j} : i \in Releasing' <=> i \in Releasing
    BY <1>1, <1>2, <1>3, <1>6, OnePod DEF Releasing, j
  <2> QED
    BY <1>2, <2>1 DEF Releasing, InMark
<1>8. Marked' = Marked \cup {j}
  <2>1. /\ j \in Marked'
        /\ \A i \in Jobs \ {j} : i \in Marked' <=> i \in Marked
    BY <1>1, <1>2, <1>3, <1>6, OnePod DEF Marked, j
  <2> QED
    BY <1>2, <2>1 DEF Marked, InMark
<1> QED
  BY <1>4, <1>5, <1>7, <1>8 DEF Uncounted, InWork, Tallied, j

LEMMA ExpireCounts ==
  ASSUME TypeInv, OwnInv, RecInv, NEW p \in Pods, MarkExpire(p), was[p],
         Taken' = Taken, Ended' = Ended
  PROVE  /\ Uncounted' = Uncounted /\ InWork' = InWork
         /\ Releasing' = Releasing /\ Tallied' = Tallied
<1>1. at[p] = "expire" /\ at'[p] = "release" /\ batch' = batch /\ cur' = cur
  BY DEF MarkExpire, Transition, TypeInv, TypeOK
<1>2. \A q \in Pods \ {p} : at'[q] = at[q] /\ cur'[q] = cur[q] /\ batch'[q] = batch[q]
  BY OneWorkerMoves DEF Counting
<1>3. BeforeCount' = BeforeCount /\ BeforeUncount' = BeforeUncount
  BY <1>1, <1>2 DEF BeforeCount, BeforeUncount, InFlight
<1>4. Releasing' = Releasing /\ Marked' = Marked
  BY <1>1, <1>2 DEF Releasing, Marked, InMark
<1> QED
  BY <1>3, <1>4 DEF Uncounted, InWork, Tallied

LEMMA ReleaseCounts ==
  ASSUME TypeInv, OwnInv, RecInv, NEW p \in Pods, MarkRelease(p), Taken' = Taken, Ended' = Ended
  PROVE  LET j == Head(batch[p])
         IN /\ j \in Releasing /\ Releasing' = Releasing \ {j}
            /\ Uncounted' = Uncounted /\ InWork' = InWork /\ Tallied' = Tallied
<1> DEFINE j == Head(batch[p])
<1>1. at[p] = "release" /\ at'[p] = "tally" /\ batch' = batch /\ cur' = cur
  BY DEF MarkRelease, Transition, TypeInv, TypeOK
<1>2. j \in Jobs /\ Holds(p, j)
  BY <1>1, MarkedJob
<1>3. \A q \in Pods \ {p} : at'[q] = at[q] /\ cur'[q] = cur[q] /\ batch'[q] = batch[q]
  BY OneWorkerMoves DEF Counting
<1>4. BeforeCount' = BeforeCount /\ BeforeUncount' = BeforeUncount /\ Marked' = Marked
  BY <1>1, <1>3 DEF BeforeCount, BeforeUncount, InFlight, Marked, InMark
<1> HIDE DEF j
<1>5. j \in Releasing /\ Releasing' = Releasing \ {j}
  <2>1. /\ j \in Releasing /\ j \notin Releasing'
        /\ \A i \in Jobs \ {j} : i \in Releasing' <=> i \in Releasing
    BY <1>1, <1>2, <1>3, OnePod DEF Releasing, j
  <2> QED
    BY <2>1 DEF Releasing, InMark
<1> QED
  BY <1>4, <1>5 DEF Uncounted, InWork, Tallied, j

LEMMA TallyCounts ==
  ASSUME TypeInv, OwnInv, RecInv, NEW p \in Pods, Settled(p), MarkTally(p),
         Taken' = Taken, Ended' = Ended
  PROVE  LET j == Head(batch[p])
         IN /\ j \notin Tallied /\ Tallied' = Tallied \cup {j}
            /\ Uncounted' = Uncounted /\ InWork' = InWork /\ Releasing' = Releasing
<1> DEFINE j == Head(batch[p])
<1>1. at[p] = "tally" /\ at'[p] \in {"peek", "mark"} /\ cur' = cur
  BY DEF MarkTally, Transition, TypeInv, TypeOK
<1>2. j \in Jobs /\ Holds(p, j)
  BY <1>1, MarkedJob
<1>3. j \in Ended
  <2>1. submit[j] # "new" /\ job[j].status \in Finished \cup {"missing"}
    BY <1>1, <1>2 DEF OwnInv, NotYetPushed, Settled
  <2> QED
    BY <1>2, <2>1 DEF Ended, Taken, Submitted
<1>4. \A q \in Pods \ {p} : at'[q] = at[q] /\ cur'[q] = cur[q] /\ batch'[q] = batch[q]
  BY OneWorkerMoves DEF Counting
<1>5. BeforeCount' = BeforeCount /\ BeforeUncount' = BeforeUncount /\ Releasing' = Releasing
  BY <1>1, <1>4 DEF BeforeCount, BeforeUncount, InFlight, Releasing, InMark
<1> HIDE DEF j
<1>6. j \in Marked /\ Marked' = Marked \ {j}
  <2>1. /\ j \in Marked /\ j \notin Marked'
        /\ \A i \in Jobs \ {j} : i \in Marked' <=> i \in Marked
    BY <1>1, <1>2, <1>4, OnePod DEF Marked, j
  <2> QED
    BY <2>1 DEF Marked, InMark
<1> QED
  BY <1>3, <1>5, <1>6 DEF Uncounted, InWork, Tallied, j

LEMMA RememberedStep ==
  ASSUME TypeInv, OwnInv, RecInv, Remembered, [Next]_vars
  PROVE  Remembered'
<1> SUFFICES ASSUME NEW p \in Pods, at'[p] \in {"write", "expire", "release"} PROVE was'[p]
  BY DEF Remembered
<1> USE DEF TypeInv, TypeOK, Transition, worker, Remembered
<1>1. CASE UNCHANGED vars \/ \E j \in Jobs : SubmitNext(j) \/ ExpireJob(j)
  BY <1>1 DEF vars, SubmitNext, StoreJob, PushJob, CountPending, SubmitBreaks,
              SubmitStep, ExpireJob
<1>2. ASSUME NEW q \in Pods, PodNext(q) PROVE was'[p]
  BY <1>2 DEF PodNext, Boot, Sigterm, Kill, Terminate, RedisError, Die, Forget
<1>3. ASSUME NEW q \in Pods, WorkerNext(q) PROVE was'[p]
  <2>1. CASE CollectNext(q)
    BY <2>1 DEF CollectNext, CheckShutdown, PollEmpty, PopJob, Deadline, FetchJob,
       ClaimJob, UncountPending, CountProcessing
  <2>2. CASE InferNext(q)
    BY <2>2 DEF InferNext, Infer, InferenceRaises, InferMisindexed, Die, Forget
  <2>3. CASE MarkRead(q)
    <3>1. at[q] = "mark"
      BY <2>3 DEF MarkRead
    <3>2. job[Head(batch[q])] = ClaimedHash
      <4>1. Head(batch[q]) \in Elements(batch[q]) /\ HandsIntact(q)
        BY <3>1, MarkedJob
      <4> QED
        BY <3>1, <4>1 DEF HandsIntact
    <3>3. job[Head(batch[q])].status = "PROCESSING"
      BY <3>2, HashFields
    <3> QED
      BY <2>3, <3>3 DEF MarkRead
  <2>4. CASE MarkWrite(q) \/ MarkExpire(q) \/ MarkRelease(q) \/ MarkTally(q)
    BY <2>4 DEF MarkWrite, MarkExpire, MarkRelease, MarkTally
  <2>5. CASE RepairNext(q)
    BY <2>5 DEF RepairNext, PeekStats, PeekLength, ScanJobs, ScanLength,
       CompareConsistent, CompareDrifted, OverwriteStats
  <2> QED
    BY <1>3, <2>1, <2>2, <2>3, <2>4, <2>5 DEF WorkerNext, MarkNext
<1> QED
  BY <1>1, <1>2, <1>3 DEF Next

\* A disturbance leaves its trace.
LEMMA DisturbedStays == TypeInv /\ [Next]_vars /\ Undisturbed' => Undisturbed
<1> SUFFICES ASSUME TypeInv, [Next]_vars, Undisturbed' PROVE Undisturbed
  OBVIOUS
<1> USE DEF TypeInv, TypeOK, history, Undisturbed
<1>1. CASE UNCHANGED vars
  BY <1>1 DEF vars
<1>2. CASE \E j \in Jobs : SubmitNext(j) \/ ExpireJob(j)
  BY <1>2 DEF SubmitNext, StoreJob, PushJob, CountPending, SubmitBreaks, SubmitStep, ExpireJob
<1>3. ASSUME NEW p \in Pods, PodNext(p) PROVE Undisturbed
  BY <1>3 DEF PodNext, Boot, Sigterm, Kill, Terminate, RedisError, redis
<1>4. ASSUME NEW p \in Pods, WorkerNext(p) PROVE Undisturbed
  <2>1. UNCHANGED <<submit, faults>> /\ (repaired' = repaired \/ repaired' = TRUE)
    <3>1. CASE CollectNext(p)
      BY <3>1 DEF CollectNext, CheckShutdown, PollEmpty, PopJob, Deadline, FetchJob,
         ClaimJob, UncountPending, CountProcessing
    <3>2. CASE InferNext(p)
      BY <3>2 DEF InferNext, Infer, InferenceRaises, InferMisindexed
    <3>3. CASE MarkNext(p)
      BY <3>3 DEF MarkNext, MarkRead, MarkWrite, MarkExpire, MarkRelease, MarkTally
    <3>4. CASE RepairNext(p)
      BY <3>4 DEF RepairNext, PeekStats, PeekLength, ScanJobs, ScanLength,
         CompareConsistent, CompareDrifted, OverwriteStats
    <3> QED
      BY <1>4, <3>1, <3>2, <3>3, <3>4 DEF WorkerNext
  <2> QED
    BY <2>1
<1> QED
  BY <1>1, <1>2, <1>3, <1>4 DEF Next

\* The sets are sets of jobs, and so are countable, also after a step.
LEMMA CountedSets ==
  /\ {Acked, Uncounted, InWork, Releasing, Tallied} \subseteq SUBSET Jobs
  /\ {Acked', Uncounted', InWork', Releasing', Tallied'} \subseteq SUBSET Jobs
BY DEF Acked, Uncounted, InWork, Releasing, Tallied, Taken, Ended, Submitted, InMark

LEMMA BalancedStep ==
  ASSUME TypeInv, OwnInv, RecInv, \A p \in Pods : Settled(p), Remembered, Balanced,
         [Next]_vars, Undisturbed'
  PROVE  Balanced'
<1> DEFINE a == Cardinality(Acked)
           u == Cardinality(Uncounted)
           w == Cardinality(InWork)
           r == Cardinality(Releasing)
           t == Cardinality(Tallied)
<1>1. {a, u, w, r, t} \subseteq Nat
  BY CountJobs, CountedSets
<1>2. stats.pending = a - u /\ stats.processing = w + r /\ stats.completed + stats.failed = t
  BY DEF Balanced
<1> HIDE DEF a, u, w, r, t
<1>3. SUFFICES /\ stats'.pending = a' - u' /\ stats'.processing = w' + r'
               /\ stats'.completed + stats'.failed = t'
  BY DEF Balanced, a, u, w, r, t
<1>4. /\ stats.pending \in Int /\ stats.processing \in Int
      /\ stats.completed \in Int /\ stats.failed \in Int
  BY DEF TypeInv, TypeOK, Stats
<1>5. \A field \in {"pending", "processing", "completed", "failed"}, n \in Int :
        Hincrby(field, n) =>
          /\ stats'[field] = stats[field] + n
          /\ \A f \in {"pending", "processing", "completed", "failed"} \ {field} :
               stats'[f] = stats[f]
  BY DEF Hincrby, TypeInv, TypeOK, Stats
<1>6. ASSUME \A p \in Pods : ~Counting(p)
      PROVE  /\ stats'.pending = a' - u' /\ stats'.processing = w' + r'
             /\ stats'.completed + stats'.failed = t'
  <2>1. /\ \A p \in Pods : SamePlace(p)
        /\ (stats' = stats /\ Acked' = Acked) \/ \E j \in Jobs : CountPending(j)
    BY <1>6, Uncounting
  <2>2. Taken' = Taken /\ Ended' = Ended
    BY <1>6, TakenKept DEF Counting
  <2>3. u' = u /\ w' = w /\ r' = r /\ t' = t
    BY <2>1, <2>2, PlacesKept DEF Uncounted, InWork, Tallied, u, w, r, t
  <2>4. CASE stats' = stats /\ Acked' = Acked
    BY <1>2, <2>3, <2>4 DEF a
  <2>5. ASSUME NEW j \in Jobs, CountPending(j)
        PROVE  a' = a + 1 /\ stats'.pending = stats.pending + 1
               /\ stats'.processing = stats.processing
               /\ stats'.completed = stats.completed /\ stats'.failed = stats.failed
    <3>1. /\ submit[j] = "queued" /\ submit'[j] = "acked"
          /\ \A i \in Jobs \ {j} : submit'[i] = submit[i]
      BY <2>5 DEF CountPending, SubmitStep, TypeInv, TypeOK
    <3>2. j \notin Acked /\ Acked' = Acked \cup {j}
      BY <3>1 DEF Acked
    <3>3. Hincrby("pending", 1)
      BY <2>5 DEF CountPending
    <3> QED
      BY <1>5, <3>2, <3>3, CountJobs, CountedSets DEF a
  <2> QED
    BY <1>1, <1>2, <1>4, <2>1, <2>3, <2>4, <2>5
<1>7. ASSUME NEW p \in Pods, Counting(p)
      PROVE  /\ stats'.pending = a' - u' /\ stats'.processing = w' + r'
             /\ stats'.completed + stats'.failed = t'
  <2>0. a' = a
    BY <1>7, OneWorkerMoves DEF a
  <2>1. CASE ClaimJob(p)
    <3>1. u' = u /\ w' = w /\ r' = r /\ t' = t
      BY <2>1, ClaimCounts DEF u, w, r, t
    <3> QED
      BY <1>2, <2>0, <2>1, <3>1 DEF ClaimJob
  <2>2. CASE MarkWrite(p)
    <3>1. w' = w - 1 /\ r' = r + 1 /\ u' = u /\ t' = t
      BY <2>2, WriteCounts, CountJobs, CountedSets DEF u, w, r, t
    <3> QED
      BY <1>1, <1>2, <2>0, <2>2, <3>1 DEF MarkWrite
  <2>3. ASSUME UncountPending(p) \/ CountProcessing(p) \/ MarkExpire(p)
                 \/ MarkRelease(p) \/ MarkTally(p)
        PROVE  Taken' = Taken /\ Ended' = Ended
    <3>1. job' = job \/ \E j \in Jobs : job' = [job EXCEPT ![j].ttl = job[j].status # "missing"]
      <4>1. CASE MarkExpire(p)
        <5>1. at[p] = "expire"
          BY <4>1 DEF MarkExpire, Transition
        <5> QED
          BY <4>1, <5>1, MarkedJob DEF MarkExpire
      <4> QED
        BY <2>3, <4>1 DEF UncountPending, CountProcessing, MarkRelease, MarkTally
    <3>2. \A j \in Jobs : job'[j].status = job[j].status
      <4>1. ASSUME NEW j \in Jobs, NEW ttl, NEW i \in Jobs,
                   job' = [job EXCEPT ![j].ttl = ttl]
            PROVE  job'[i].status = job[i].status
        <5>1. job[j] \in JobHash /\ job'[i] = IF i = j THEN [job[j] EXCEPT !.ttl = ttl] ELSE job[i]
          BY <4>1 DEF TypeInv, TypeOK
        <5> QED
          BY <5>1 DEF JobHash
      <4> QED
        BY <3>1, <4>1
    <3>3. submit' = submit
      BY <1>7, OneWorkerMoves
    <3> QED
      BY <3>2, <3>3 DEF Taken, Ended, Submitted
  <2>4. CASE UncountPending(p)
    <3>1. u' = u + 1 /\ w' = w /\ r' = r /\ t' = t
      BY <2>3, <2>4, UncountCounts, CountJobs, CountedSets DEF u, w, r, t
    <3>2. Hincrby("pending", -1)
      BY <2>4 DEF UncountPending
    <3> QED
      BY <1>1, <1>2, <1>4, <1>5, <2>0, <3>1, <3>2
  <2>5. CASE CountProcessing(p)
    <3>1. w' = w + 1 /\ u' = u /\ r' = r /\ t' = t
      BY <2>3, <2>5, ProcessingCounts, CountJobs, CountedSets DEF u, w, r, t
    <3>2. Hincrby("processing", 1)
      BY <2>5 DEF CountProcessing
    <3> QED
      BY <1>1, <1>2, <1>4, <1>5, <2>0, <3>1, <3>2
  <2>6. CASE MarkExpire(p)
    <3>1. was[p]
      BY <2>6 DEF MarkExpire, Transition, Remembered
    <3>2. u' = u /\ w' = w /\ r' = r /\ t' = t
      BY <2>3, <2>6, <3>1, ExpireCounts DEF u, w, r, t
    <3> QED
      BY <1>2, <2>0, <2>6, <3>2 DEF MarkExpire
  <2>7. CASE MarkRelease(p)
    <3>1. r' = r - 1 /\ u' = u /\ w' = w /\ t' = t
      BY <2>3, <2>7, ReleaseCounts, CountJobs, CountedSets DEF u, w, r, t
    <3>2. Hincrby("processing", -1)
      BY <2>7 DEF MarkRelease
    <3> QED
      BY <1>1, <1>2, <1>4, <1>5, <2>0, <3>1, <3>2
  <2>8. CASE MarkTally(p)
    <3>1. t' = t + 1 /\ u' = u /\ w' = w /\ r' = r
      BY <2>3, <2>8, TallyCounts, CountJobs, CountedSets DEF u, w, r, t
    <3>2. Hincrby("failed", 1) \/ Hincrby("completed", 1)
      BY <2>8 DEF MarkTally
    <3> QED
      BY <1>1, <1>2, <1>4, <1>5, <2>0, <3>1, <3>2
  <2> QED
    BY <1>7, <2>1, <2>2, <2>4, <2>5, <2>6, <2>7, <2>8 DEF Counting
<1> QED
  BY <1>6, <1>7

LEMMA TallyInit == Init => TallyInv
<1> SUFFICES ASSUME Init PROVE TallyInv
  OBVIOUS
<1>1. Acked = {} /\ Taken = {}
  BY DEF Init, Acked, Taken, Submitted
<1>2. Uncounted = {} /\ InWork = {} /\ Tallied = {} /\ Releasing = {}
  BY <1>1 DEF Init, Uncounted, InWork, Tallied, Ended, Releasing, InMark
<1>3. stats.pending = 0 /\ stats.processing = 0 /\ stats.completed = 0 /\ stats.failed = 0
  BY DEF Init, NoStats
<1>4. Balanced
  BY <1>1, <1>2, <1>3, FS_EmptySet DEF Balanced
<1>5. Remembered
  BY DEF Init, Remembered
<1> QED
  BY <1>4, <1>5 DEF TallyInv

LEMMA TallyNext ==
  TypeInv /\ OwnInv /\ RecInv /\ LossInv /\ TallyInv /\ [Next]_vars => TallyInv'
BY BalancedStep, RememberedStep, DisturbedStays DEF TallyInv, LossInv

(***************************************************************************)
(* Until a reconciliation overwrites them, and while nothing breaks, the   *)
(* statistics are exactly the jobs at each stage: get_next_pending_job and *)
(* the marks (redis_queue.py) neither miss nor repeat an HINCRBY, however  *)
(* the commands of any number of pods and handlers interleave.             *)
(***************************************************************************)
THEOREM StatisticsExact == Spec => []TallyExact
<1>1. TallyInv => TallyExact
  BY DEF TallyInv, TallyExact, Undisturbed, Balanced, Acked, Uncounted, InWork, Releasing,
         Tallied, BeforeUncount, BeforeCount, Marked
<1> QED
  BY <1>1, TallyInit, TallyNext, LossInvInit, LossInvNext,
     TypeInvariant, OwnInvariant, RecInvariant, PTL DEF Spec
===============================================================================
