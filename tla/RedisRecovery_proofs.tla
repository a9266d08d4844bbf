-------------------------- MODULE RedisRecovery_proofs -------------------------
(***************************************************************************)
(* Theorems about RedisRecovery: what is left of the promises of JobQueue  *)
(* when Redis comes back with older data, for any numbers of jobs, pods,   *)
(* faults and restarts.                                                    *)
(***************************************************************************)
EXTENDS RedisRecovery, JobLifecycle_proofs

USE DEF Popped, Collecting, Marking, Repairing, Peeking, Running, Label, AtRedis,
        Phase, Submitting, Finished, Status

-------------------------------------------------------------------------------
(***************************************************************************)
(* Types.  What a thread has in hand is in its own memory, so that Hands   *)
(* survives a restart of Redis.                                            *)
(***************************************************************************)
RecoveryTypeInv == RecoveryTypeOK /\ Hands

Restored == job' = disk.job /\ pending' = disk.pending /\ stats' = disk.stats

LEMMA RestartSteps ==
  ASSUME RestartRedis
  PROVE  /\ Restored /\ disk' = disk /\ restarts' = restarts + 1 /\ restarts < MaxRestarts
         /\ straddled' = straddled \cup {j \in Jobs : InHand(j)}
         /\ UNCHANGED <<submit, phase, at, cur, batch, outcome, was, snap,
                        faults, losses, repaired>>
BY DEF RestartRedis, Restored, worker, history

LEMMA RecoveryTypeInit == RecoveryInit => RecoveryTypeInv
<1> SUFFICES ASSUME RecoveryInit PROVE RecoveryTypeInv
  OBVIOUS
<1>1. TypeOK /\ Hands
  BY TypeInvInit DEF RecoveryInit, TypeInv
<1>2. disk \in [job : [Jobs -> JobHash], pending : Seq(Jobs), stats : Stats]
  BY <1>1 DEF RecoveryInit, TypeOK
<1>3. restarts \in 0..MaxRestarts /\ straddled \in SUBSET Jobs
  BY RedisRecoveryAssumption DEF RecoveryInit
<1> QED
  BY <1>1, <1>2, <1>3 DEF RecoveryTypeInv, RecoveryTypeOK

LEMMA RecoveryTypeNext ==
  ASSUME RecoveryTypeInv, [RecoveryNext]_recoveryVars
  PROVE  RecoveryTypeInv'
<1>1. TypeInv
  BY DEF RecoveryTypeInv, RecoveryTypeOK, TypeInv
<1>2. CASE [Next]_vars /\ UNCHANGED <<disk, restarts, straddled>>
  <2>1. TypeInv'
    BY <1>1, <1>2, TypeInvNext
  <2> QED
    BY <1>2, <2>1 DEF RecoveryTypeInv, RecoveryTypeOK, TypeInv
<1>3. CASE SaveSnapshot
  <2>1. TypeInv' /\ UNCHANGED <<restarts, straddled>>
    BY <1>1, <1>3, TypeInvStutter DEF SaveSnapshot
  <2>2. disk' \in [job : [Jobs -> JobHash], pending : Seq(Jobs), stats : Stats]
    BY <1>1, <1>3 DEF SaveSnapshot, TypeInv, TypeOK
  <2> QED
    BY <2>1, <2>2 DEF RecoveryTypeInv, RecoveryTypeOK, TypeInv
<1>4. CASE RestartRedis
  <2>1. TypeOK'
    BY <1>4, RestartSteps DEF Restored, RecoveryTypeInv, RecoveryTypeOK, TypeOK
  <2>2. Hands'
    BY <1>4, RestartSteps DEF RecoveryTypeInv, Hands
  <2>3. restarts' \in 0..MaxRestarts /\ straddled' \in SUBSET Jobs /\ disk' = disk
    BY <1>4, RestartSteps, RedisRecoveryAssumption DEF RecoveryTypeInv, RecoveryTypeOK
  <2> QED
    BY <2>1, <2>2, <2>3 DEF RecoveryTypeInv, RecoveryTypeOK
<1> QED
  BY <1>2, <1>3, <1>4 DEF RecoveryNext, recoveryVars

LEMMA RecoveryTypeInvariant == RecoverySpec => []RecoveryTypeInv
BY RecoveryTypeInit, RecoveryTypeNext, PTL DEF RecoverySpec

(***************************************************************************)
(* Every variable and the RDB file keep their types, although a worker may *)
(* find ids, hashes and counters of another moment (01-redis.yaml.j2).     *)
(***************************************************************************)
THEOREM RecoveryTypesCorrect == RecoverySpec => []RecoveryTypeOK
<1>1. RecoveryTypeInv => RecoveryTypeOK
  BY DEF RecoveryTypeInv
<1> QED
  BY <1>1, RecoveryTypeInvariant, PTL

-------------------------------------------------------------------------------
(***************************************************************************)
(* Results.  A worker's outcomes are its own memory; a hash in Redis or on *)
(* disk holds no result, or one that some worker wrote for that job.       *)
(***************************************************************************)
OwnResults(hashes) == \A j \in Jobs : hashes[j].result \in {NoJob, j}

ResultsInv ==
  /\ \A p \in Pods : OutcomesOwn(p)
  /\ OwnResults(job) /\ OwnResults(disk.job)

\* A step that leaves p's batch alone, and does not begin to mark it.
LEMMA OutcomesKept ==
  ASSUME NEW p \in Pods, OutcomesOwn(p), batch'[p] = batch[p], outcome'[p] = outcome[p],
         at'[p] \in Marking => at[p] \in Marking
  PROVE  OutcomesOwn(p)'
BY DEF OutcomesOwn

LEMMA OutcomesNext ==
  ASSUME TypeInv, [Next]_vars, \A p \in Pods : OutcomesOwn(p)
  PROVE  \A p \in Pods : OutcomesOwn(p)'
<1> USE DEF TypeInv, TypeOK, Transition
<1>1. CASE UNCHANGED vars \/ \E j \in Jobs : SubmitNext(j) \/ ExpireJob(j)
  <2>1. UNCHANGED <<at, batch, outcome>>
    BY <1>1 DEF vars, SubmitNext, StoreJob, PushJob, CountPending, SubmitBreaks,
                SubmitStep, ExpireJob, worker
  <2> QED
    BY <2>1, OutcomesKept
<1>2. ASSUME NEW p \in Pods, PodNext(p) \/ WorkerNext(p)
      PROVE  \A q \in Pods : OutcomesOwn(q)'
  <2>1. \A q \in Pods \ {p} : at'[q] = at[q] /\ batch'[q] = batch[q] /\ outcome'[q] = outcome[q]
    <3>1. CASE PodNext(p)
      BY <3>1 DEF PodNext, Boot, Sigterm, Kill, Terminate, RedisError, Die, Forget, worker
    <3>2. CASE CollectNext(p)
      BY <3>2 DEF CollectNext, CheckShutdown, PollEmpty, PopJob, Deadline, FetchJob, ClaimJob,
                  UncountPending, CountProcessing
    <3>3. CASE InferNext(p)
      BY <3>3 DEF InferNext, Infer, InferenceRaises, InferMisindexed, Die, Forget
    <3>4. CASE MarkNext(p)
      BY <3>4 DEF MarkNext, MarkRead, MarkWrite, MarkExpire, MarkRelease, MarkTally
    <3>5. CASE RepairNext(p)
      BY <3>5 DEF RepairNext, PeekStats, PeekLength, ScanJobs, ScanLength, CompareConsistent,
                  CompareDrifted, OverwriteStats
    <3> QED
      BY <1>2, <3>1, <3>2, <3>3, <3>4, <3>5 DEF WorkerNext
  <2>2. \A q \in Pods \ {p} : OutcomesOwn(q)'
    BY <2>1, OutcomesKept
  <2>3. CASE Boot(p) \/ Sigterm(p) \/ RepairNext(p)
    <3>1. UNCHANGED <<batch, outcome>> /\ (at'[p] \notin Marking \/ at' = at)
      BY <2>3 DEF Boot, Sigterm, worker, RepairNext, PeekStats, PeekLength, ScanJobs,
                  ScanLength, CompareConsistent, CompareDrifted, OverwriteStats
    <3> QED
      BY <3>1, <2>2, OutcomesKept
  <2>4. CASE Kill(p) \/ Terminate(p) \/ RedisError(p) \/ InferMisindexed(p)
    <3>1. at'[p] \in {"off", "dead"}
      BY <2>4 DEF Kill, Terminate, RedisError, InferMisindexed, Die, Forget
    <3> QED
      BY <3>1, <2>2 DEF OutcomesOwn
  <2>5. CASE CollectNext(p)
    <3>1. at'[p] \notin Marking
      BY <2>5 DEF CollectNext, CheckShutdown, PollEmpty, PopJob, Deadline, FetchJob, ClaimJob,
                  UncountPending, CountProcessing
    <3> QED
      BY <3>1, <2>2 DEF OutcomesOwn
  <2>6. CASE Infer(p) \/ InferenceRaises(p)
    <3>1. batch' = batch
      BY <2>6 DEF Infer, InferenceRaises
    <3> QED
      BY <3>1, <2>2, <2>6, InferOutcomes DEF OutcomesOwn
  <2>7. CASE MarkRead(p) \/ MarkWrite(p) \/ MarkExpire(p) \/ MarkRelease(p)
    <3>1. UNCHANGED <<batch, outcome>> /\ at[p] \in Marking
      BY <2>7 DEF MarkRead, MarkWrite, MarkExpire, MarkRelease
    <3> QED
      BY <3>1, <2>2, OutcomesKept
  <2>8. CASE MarkTally(p)
    BY <2>2, <2>8, TallyOutcomes
  <2> QED
    BY <1>2, <2>3, <2>4, <2>5, <2>6, <2>7, <2>8 DEF PodNext, WorkerNext, InferNext, MarkNext
<1> QED
  BY <1>1, <1>2 DEF Next

LEMMA HashesNext ==
  ASSUME TypeInv, [Next]_vars, \A p \in Pods : OutcomesOwn(p), OwnResults(job)
  PROVE  OwnResults(job)'
<1>0. job \in [Jobs -> JobHash]
  BY DEF TypeInv, TypeOK
<1>1. CASE job' = job
  BY <1>1 DEF OwnResults
<1>2. ASSUME NEW j \in Jobs, StoreJob(j) \/ ExpireJob(j) PROVE OwnResults(job)'
  <2>1. \A i \in Jobs : job'[i] = job[i] \/ job'[i].result = NoJob
    BY <1>0, <1>2, HashFields DEF StoreJob, ExpireJob
  <2> QED
    BY <2>1 DEF OwnResults
<1>3. ASSUME NEW p \in Pods, ClaimJob(p) \/ MarkExpire(p) PROVE OwnResults(job)'
  <2> DEFINE j == IF at[p] = "claim" THEN cur[p] ELSE Head(batch[p])
  <2>1. /\ ClaimJob(p) => job' = [job EXCEPT ![j].status = "PROCESSING"]
        /\ MarkExpire(p) => job' = [job EXCEPT ![j].ttl = job[j].status # "missing"]
    BY DEF ClaimJob, Hset, MarkExpire, Transition
  <2> HIDE DEF j
  <2>2. \A i \in Jobs : job'[i].result = job[i].result
    BY <1>0, <1>3, <2>1 DEF JobHash
  <2> QED
    BY <2>2 DEF OwnResults
<1>4. ASSUME NEW p \in Pods, MarkWrite(p) PROVE OwnResults(job)'
  <2> DEFINE j == Head(batch[p])
             r == Head(outcome[p])
  <2>1. r \in {NoJob, j}
    <3>1. /\ batch[p] \in Seq(Jobs) /\ batch[p] # <<>> /\ at[p] = "write"
          /\ Len(outcome[p]) = Len(batch[p]) /\ outcome[p] \in Seq(Jobs \cup {NoJob})
      BY <1>4 DEF MarkWrite, Transition, TypeInv, TypeOK, Hands
    <3>2. Len(batch[p]) \in Nat \ {0} /\ r = outcome[p][1] /\ j = batch[p][1]
      BY <3>1, EmptySeq
    <3>3. 1 \in 1..Len(batch[p])
      BY <3>2
    <3> QED
      BY <3>1, <3>2, <3>3 DEF OutcomesOwn
  <2>2. /\ r = NoJob => job' = [job EXCEPT ![j].status = "FAILED"]
        /\ r # NoJob => job' = [job EXCEPT ![j].status = "COMPLETED", ![j].result = r]
    BY <1>4 DEF MarkWrite, Hset
  <2> HIDE DEF j, r
  <2>3. CASE r = NoJob
    <3>1. \A i \in Jobs : job'[i].result = job[i].result
      BY <1>0, <2>2, <2>3 DEF JobHash
    <3> QED
      BY <3>1 DEF OwnResults
  <2>4. CASE r = j
    <3>1. \A i \in Jobs : job'[i].result = job[i].result \/ (i = j /\ job'[i].result = j)
      BY <1>0, <2>2, <2>3, <2>4 DEF JobHash
    <3> QED
      BY <3>1 DEF OwnResults
  <2> QED
    BY <2>1, <2>3, <2>4
<1>5. (\E j \in Jobs : StoreJob(j) \/ ExpireJob(j))
        \/ (\E p \in Pods : ClaimJob(p) \/ MarkExpire(p) \/ MarkWrite(p)) \/ job' = job
  BY OnlyWritesWrite DEF Writing
<1> QED
  BY <1>1, <1>2, <1>3, <1>4, <1>5

LEMMA ResultsInit == RecoveryInit => ResultsInv
<1> SUFFICES ASSUME RecoveryInit PROVE ResultsInv
  OBVIOUS
<1>1. disk.job = job /\ \A j \in Jobs : job[j].result = NoJob
  BY HashFields DEF RecoveryInit, Init
<1>2. \A p \in Pods : OutcomesOwn(p)
  BY DEF RecoveryInit, Init, OutcomesOwn
<1> QED
  BY <1>1, <1>2 DEF ResultsInv, OwnResults

LEMMA ResultsNext ==
  ASSUME RecoveryTypeInv, ResultsInv, [RecoveryNext]_recoveryVars
  PROVE  ResultsInv'
<1>1. TypeInv
  BY DEF RecoveryTypeInv, RecoveryTypeOK, TypeInv
<1>2. CASE [Next]_vars /\ disk' = disk
  <2>1. (\A p \in Pods : OutcomesOwn(p)') /\ OwnResults(job)'
    BY <1>1, <1>2, OutcomesNext, HashesNext DEF ResultsInv
  <2> QED
    BY <1>2, <2>1 DEF ResultsInv, OwnResults
<1>3. CASE SaveSnapshot
  <2>1. disk'.job = job /\ UNCHANGED <<job, at, batch, outcome>>
    BY <1>3 DEF SaveSnapshot, vars
  <2> QED
    BY <2>1 DEF ResultsInv, OwnResults, OutcomesOwn
<1>4. CASE RestartRedis
  <2>1. job' = disk.job /\ disk' = disk /\ UNCHANGED <<at, batch, outcome>>
    BY <1>4, RestartSteps DEF Restored
  <2> QED
    BY <2>1 DEF ResultsInv, OwnResults, OutcomesOwn
<1> QED
  BY <1>2, <1>3, <1>4 DEF RecoveryNext, recoveryVars

(***************************************************************************)
(* Whatever is rolled back and run again, a stored result was computed     *)
(* from the job's own payload (model_service.py:190-225), also by workers  *)
(* that hold one job twice or a job that is gone.                          *)
(***************************************************************************)
THEOREM ResultsSurviveRestarts == RecoverySpec => []ResultsStillBelong
<1>1. ResultsInv => ResultsStillBelong
  BY DEF ResultsInv, OwnResults, ResultsStillBelong
<1> QED
  BY <1>1, ResultsInit, ResultsNext, RecoveryTypeInvariant, PTL DEF RecoverySpec

-------------------------------------------------------------------------------
(***************************************************************************)
(* Damage.  For a job nobody had in hand at a restart: it is in one place, *)
(* its hash is as that place relies on, and the RDB file, of whatever      *)
(* moment, has it as it was then.  A job not submitted yet is not on disk. *)
(***************************************************************************)
Once(s, j) == \A i, k \in DOMAIN s : s[i] = j /\ s[k] = j => i = k

HandOf(p, j) ==
  /\ Once(batch[p], j)
  /\ cur[p] = j =>
       /\ j \notin Elements(batch[p])
       /\ at[p] \in {"fetch", "claim"} => job[j] = NewHash
       /\ at[p] \in {"uncount", "count"} => job[j] = ClaimedHash
  /\ j \in Elements(batch[p]) =>
       /\ job[j] = ClaimedHash
            \/ (at[p] \in {"expire", "release", "tally"} /\ j = Head(batch[p]))
       /\ at[p] = "expire" /\ j = Head(batch[p]) => job[j].status \in Finished /\ ~job[j].ttl

InOnePlace(j) ==
  /\ Once(pending, j)
  /\ j \in Elements(pending) => job[j] = NewHash /\ \A p \in Pods : ~Holds(p, j)
  /\ \A p, q \in Pods : Holds(p, j) /\ Holds(q, j) => p = q
  /\ submit[j] \in {"new", "stored"} =>
       j \notin Elements(pending) /\ \A p \in Pods : ~Holds(p, j)

HashSound(hash) ==
  /\ hash.status # "missing" => hash.whole
  /\ hash.ttl => hash.status \in Finished

Submission(j) ==
  /\ submit[j] = "new" => job[j] = NoHash
  /\ submit[j] = "stored" => job[j] = NewHash

Sound(j) == InOnePlace(j) /\ HashSound(job[j]) /\ Submission(j) /\ \A p \in Pods : HandOf(p, j)

OnDisk(j) ==
  /\ Once(disk.pending, j)
  /\ j \in Elements(disk.pending) => disk.job[j] = NewHash
  /\ HashSound(disk.job[j])
  /\ submit[j] = "new" => disk.job[j] = NoHash /\ j \notin Elements(disk.pending)

DamageInv == \A j \in Jobs \ straddled : Sound(j) /\ OnDisk(j)

-------------------------------------------------------------------------------
LEMMA OnceAppend ==
  ASSUME NEW S, NEW s \in Seq(S), NEW e \in S, NEW j, Once(s, j),
         e # j \/ j \notin Elements(s)
  PROVE  Once(Append(s, e), j)
<1> DEFINE t == Append(s, e)
<1>1. /\ Len(s) \in Nat /\ DOMAIN s = 1..Len(s)
      /\ DOMAIN t = 1..(Len(s) + 1)
      /\ \A i \in 1..Len(s) : t[i] = s[i]
      /\ t[Len(s) + 1] = e
  BY AppendProperties, LenProperties
<1> HIDE DEF t
<1>2. Once(t, j)
  BY <1>1 DEF Once, Elements
<1> QED
  BY <1>2 DEF t

LEMMA OnceTail ==
  ASSUME NEW S, NEW s \in Seq(S), s # <<>>, NEW j, Once(s, j)
  PROVE  Once(Tail(s), j) /\ (Head(s) = j => j \notin Elements(Tail(s)))
<1> DEFINE t == Tail(s)
<1>1. /\ Len(s) \in Nat \ {0} /\ DOMAIN s = 1..Len(s)
      /\ DOMAIN t = 1..(Len(s) - 1)
      /\ \A i \in 1..(Len(s) - 1) : t[i] = s[i + 1]
      /\ s[1] = Head(s)
  BY HeadTailProperties, LenProperties, EmptySeq
<1> HIDE DEF t
<1>2. \A i \in DOMAIN t : i + 1 \in DOMAIN s /\ t[i] = s[i + 1] /\ i + 1 # 1 /\ i \in Nat
  BY <1>1
<1>3. Once(t, j)
  <2> SUFFICES ASSUME NEW i \in DOMAIN t, NEW k \in DOMAIN t, t[i] = j, t[k] = j
               PROVE  i = k
    BY DEF Once
  <2>1. i + 1 = k + 1
    BY <1>2 DEF Once
  <2> QED
    BY <1>2, <2>1
<1>4. Head(s) = j => j \notin Elements(t)
  <2> SUFFICES ASSUME Head(s) = j, NEW i \in DOMAIN t, t[i] = j PROVE FALSE
    BY DEF Elements
  <2>1. 1 \in DOMAIN s /\ s[1] = j
    BY <1>1
  <2> QED
    BY <1>2, <2>1 DEF Once
<1> QED
  BY <1>3, <1>4 DEF t

LEMMA NotHeld ==
  ASSUME NEW p \in Pods, NEW j, ~Holds(p, j)
  PROVE  HandOf(p, j)
BY DEF Holds, HandOf, Once, Elements

LEMMA HandKept ==
  ASSUME NEW p \in Pods, NEW j \in Jobs, HandOf(p, j), job'[j] = job[j],
         at'[p] = at[p], cur'[p] = cur[p], batch'[p] = batch[p]
  PROVE  HandOf(p, j)'
<1>1. Elements(batch[p])' = Elements(batch[p])
  BY DEF Elements
<1> QED
  BY <1>1 DEF HandOf, Once

\* The hash is left alone, and the job gets into nobody's hands.
LEMMA SoundKept ==
  ASSUME NEW j \in Jobs, Sound(j), job'[j] = job[j],
         submit'[j] \in {"new", "stored"} => submit'[j] = submit[j],
         Once(pending, j)', j \in Elements(pending') => j \in Elements(pending),
         \A p \in Pods : HandOf(p, j)' /\ (Holds(p, j)' => Holds(p, j))
  PROVE  Sound(j)'
BY DEF Sound, InOnePlace, Submission

\* A worker that has the job in hand writes to its hash, or lets it go.
LEMMA SoundWrite ==
  ASSUME NEW j \in Jobs, Sound(j), NEW p \in Pods, Holds(p, j),
         UNCHANGED <<pending, submit>>, HashSound(job[j])', HandOf(p, j)',
         \A q \in Pods \ {p} : cur'[q] = cur[q] /\ batch'[q] = batch[q]
  PROVE  Sound(j)'
<1>1. /\ j \notin Elements(pending) /\ submit[j] \notin {"new", "stored"}
      /\ \A q \in Pods \ {p} : ~Holds(q, j)
  BY DEF Sound, InOnePlace
<1>2. \A q \in Pods \ {p} : ~Holds(q, j)'
  BY <1>1 DEF Holds, Elements
<1>3. \A q \in Pods \ {p} : HandOf(q, j)'
  BY <1>2 DEF Holds, HandOf, Once, Elements
<1>4. Elements(pending)' = Elements(pending) /\ Once(pending, j)'
  BY DEF Sound, InOnePlace, Once, Elements
<1> QED
  BY <1>1, <1>2, <1>3, <1>4 DEF Sound, InOnePlace, Submission

\* The worker of p moves, perhaps with a job it takes off the list.
LEMMA SoundMove ==
  ASSUME NEW j \in Jobs, Sound(j), NEW p \in Pods, job'[j] = job[j], submit' = submit,
         \A q \in Pods \ {p} : at'[q] = at[q] /\ cur'[q] = cur[q] /\ batch'[q] = batch[q],
         HandOf(p, j)', Holds(p, j)' => Holds(p, j) \/ j \in Elements(pending),
         Once(pending, j)',
         j \in Elements(pending)' => j \in Elements(pending) /\ ~Holds(p, j)'
  PROVE  Sound(j)'
<1>1. \A q \in Pods \ {p} : HandOf(q, j)' /\ (Holds(q, j)' <=> Holds(q, j))
  BY HandKept DEF Sound, Holds, Elements
<1>2. \A q \in Pods : Holds(q, j)' => Holds(q, j) \/ (q = p /\ j \in Elements(pending))
  BY <1>1
<1>3. InOnePlace(j)
  BY DEF Sound
<1>4. \A q, r \in Pods : Holds(q, j)' /\ Holds(r, j)' => q = r
  BY <1>2, <1>3 DEF InOnePlace
<1>5. j \in Elements(pending)' => job'[j] = NewHash /\ \A q \in Pods : ~Holds(q, j)'
  BY <1>2, <1>3 DEF InOnePlace
<1>6. submit'[j] \in {"new", "stored"} =>
        j \notin Elements(pending)' /\ \A q \in Pods : ~Holds(q, j)'
  BY <1>2, <1>3 DEF InOnePlace
<1>7. InOnePlace(j)'
  BY <1>4, <1>5, <1>6 DEF InOnePlace
<1>8. (\A q \in Pods : HandOf(q, j)') /\ HashSound(job[j])' /\ Submission(j)'
  BY <1>1 DEF Sound, Submission
<1> QED
  BY <1>7, <1>8 DEF Sound

\* Steps between labels at which the worker relies on no more than its batch.
LEMMA SoundQuiet ==
  ASSUME NEW j \in Jobs, Sound(j), NEW p \in Pods,
         UNCHANGED <<job, pending, submit, cur, batch>>,
         \A q \in Pods \ {p} : at'[q] = at[q],
         cur[p] = j => at'[p] \notin {"fetch", "claim"} /\ (at'[p] = "count" => at[p] = "uncount"),
         at'[p] # "uncount",
         at[p] \in {"expire", "release", "tally"} => at'[p] \in {"release", "tally"},
         at'[p] # "expire"
  PROVE  Sound(j)'
<1>1. HandOf(p, j) /\ Elements(batch[p])' = Elements(batch[p])
  BY DEF Sound, Elements
<1>2. HandOf(p, j)' /\ (Holds(p, j)' <=> Holds(p, j))
  BY <1>1 DEF HandOf, Once, Holds
<1>3. Once(pending, j)' /\ (j \in Elements(pending)' <=> j \in Elements(pending))
  BY DEF Sound, InOnePlace, Once, Elements
<1>4. j \in Elements(pending) => ~Holds(p, j)
  BY DEF Sound, InOnePlace
<1> QED
  BY <1>2, <1>3, <1>4, SoundMove

LEMMA SoundStill ==
  ASSUME NEW j \in Jobs, Sound(j), UNCHANGED <<job, pending, submit, at, cur, batch>>
  PROVE  Sound(j)'
<1>1. \A p \in Pods : HandOf(p, j)' /\ (Holds(p, j)' => Holds(p, j))
  BY HandKept DEF Sound, Holds, Elements
<1>2. Once(pending, j)' /\ (j \in Elements(pending') => j \in Elements(pending))
  BY DEF Sound, InOnePlace, Once
<1> QED
  BY <1>1, <1>2, SoundKept

LEMMA SoundForget ==
  ASSUME TypeInv, NEW j \in Jobs, Sound(j), NEW p \in Pods, NEW label \in {"off", "dead"},
         Forget(p, label), UNCHANGED <<redis, submit>>
  PROVE  Sound(j)'
<1>1. /\ cur'[p] = NoJob /\ batch'[p] = <<>>
      /\ \A q \in Pods \ {p} : at'[q] = at[q] /\ cur'[q] = cur[q] /\ batch'[q] = batch[q]
      /\ job' = job /\ pending' = pending
  BY DEF Forget, TypeInv, TypeOK, redis
<1>2. ~Holds(p, j)'
  BY <1>1, EmptyElements, JobQueueAssumption DEF Holds, Elements
<1>3. HandOf(p, j)'
  BY <1>2 DEF Holds, HandOf, Once, Elements
<1>4. Once(pending, j)' /\ (j \in Elements(pending)' <=> j \in Elements(pending))
  BY <1>1 DEF Sound, InOnePlace, Once, Elements
<1> QED
  BY <1>1, <1>2, <1>3, <1>4, SoundMove

-------------------------------------------------------------------------------
LEMMA SoundSubmit ==
  ASSUME TypeInv, NEW j \in Jobs, Sound(j), NEW i \in Jobs, SubmitNext(i)
  PROVE  Sound(j)' /\ (submit'[j] = "new" => submit[j] = "new")
<1>0. /\ UNCHANGED <<at, cur, batch>> /\ \A k \in Jobs \ {i} : submit'[k] = submit[k]
      /\ submit'[i] # "new"
  BY DEF SubmitNext, StoreJob, PushJob, CountPending, SubmitBreaks, SubmitStep, worker,
         TypeInv, TypeOK
<1>1. \A p \in Pods : Holds(p, j)' <=> Holds(p, j)
  BY <1>0 DEF Holds, Elements
<1>2. CASE StoreJob(i)
  <2>1. /\ submit[i] = "new" /\ submit'[i] = "stored" /\ pending' = pending
        /\ job'[i] = NewHash /\ \A k \in Jobs \ {i} : job'[k] = job[k]
    BY <1>2 DEF StoreJob, SubmitStep, TypeInv, TypeOK
  <2>2. Once(pending, j)' /\ (j \in Elements(pending)' <=> j \in Elements(pending))
    BY <2>1 DEF Sound, InOnePlace, Once, Elements
  <2>3. CASE i = j
    <3>1. j \notin Elements(pending) /\ \A p \in Pods : ~Holds(p, j)'
      BY <1>1, <2>1, <2>3 DEF Sound, InOnePlace
    <3>2. \A p \in Pods : HandOf(p, j)'
      BY <3>1 DEF Holds, HandOf, Once, Elements
    <3>3. InOnePlace(j)' /\ HashSound(job[j])' /\ Submission(j)'
      BY <2>1, <2>2, <2>3, <3>1, HashFields DEF InOnePlace, HashSound, Submission
    <3> QED
      BY <1>0, <2>3, <3>2, <3>3 DEF Sound
  <2>4. CASE i # j
    <3>1. \A p \in Pods : HandOf(p, j)'
      BY <1>0, <2>1, <2>4, HandKept DEF Sound
    <3> QED
      BY <1>0, <1>1, <2>1, <2>2, <2>4, <3>1, SoundKept DEF Elements
  <2> QED
    BY <2>3, <2>4
<1>3. CASE PushJob(i)
  <2>1. /\ submit[i] = "stored" /\ submit'[i] = "queued" /\ job' = job
        /\ pending' = Append(pending, i) /\ pending \in Seq(Jobs)
    BY <1>3 DEF PushJob, SubmitStep, TypeInv, TypeOK
  <2>2. Elements(pending)' = Elements(pending) \cup {i}
    BY <2>1, AppendElements DEF Elements
  <2>3. Once(pending, j)
    BY DEF Sound, InOnePlace
  <2>4. i = j => j \notin Elements(pending) /\ (\A p \in Pods : ~Holds(p, j)) /\ job[j] = NewHash
    BY <2>1 DEF Sound, InOnePlace, Submission
  <2>5. Once(pending, j)'
    <3>1. Once(Append(pending, i), j)
      BY <2>1, <2>3, <2>4, OnceAppend
    <3> QED
      BY <2>1, <3>1 DEF Once
  <2>6. \A p \in Pods : HandOf(p, j)'
    BY <1>0, <2>1, HandKept DEF Sound
  <2>7. InOnePlace(j)'
    <3>1. j \in Elements(pending)' => job'[j] = NewHash /\ \A p \in Pods : ~Holds(p, j)'
      BY <1>1, <2>1, <2>2, <2>4 DEF Sound, InOnePlace
    <3>2. submit'[j] \in {"new", "stored"} =>
            j \notin Elements(pending)' /\ \A p \in Pods : ~Holds(p, j)'
      BY <1>0, <1>1, <2>1, <2>2 DEF Sound, InOnePlace
    <3>3. \A p, q \in Pods : Holds(p, j)' /\ Holds(q, j)' => p = q
      BY <1>1 DEF Sound, InOnePlace
    <3> QED
      BY <2>5, <3>1, <3>2, <3>3 DEF InOnePlace
  <2>8. HashSound(job[j])' /\ Submission(j)' /\ (submit'[j] = "new" => submit[j] = "new")
    BY <1>0, <2>1 DEF Sound, Submission
  <2> QED
    BY <2>6, <2>7, <2>8 DEF Sound
<1>4. CASE CountPending(i) \/ SubmitBreaks(i)
  <2>1. /\ UNCHANGED <<job, pending>>
        /\ submit'[i] \in {"acked", "broken"}
    BY <1>4 DEF CountPending, SubmitBreaks, SubmitStep, redis, TypeInv, TypeOK
  <2>2. Once(pending, j)' /\ (j \in Elements(pending') <=> j \in Elements(pending))
    BY <2>1 DEF Sound, InOnePlace, Once
  <2>3. \A p \in Pods : HandOf(p, j)'
    BY <1>0, <2>1, HandKept DEF Sound
  <2> QED
    BY <1>0, <1>1, <2>1, <2>2, <2>3, SoundKept
<1> QED
  BY <1>2, <1>3, <1>4 DEF SubmitNext

\* Redis only removes hashes that nobody relies on any more.
LEMMA SoundExpire ==
  ASSUME TypeInv, NEW j \in Jobs, Sound(j), NEW i \in Jobs, ExpireJob(i)
  PROVE  Sound(j)' /\ submit' = submit
<1>1. /\ job'[i] = NoHash /\ \A k \in Jobs \ {i} : job'[k] = job[k]
      /\ job[i].ttl /\ UNCHANGED <<pending, submit, at, cur, batch>>
  BY DEF ExpireJob, worker, TypeInv, TypeOK
<1>2. Once(pending, j)' /\ (j \in Elements(pending)' <=> j \in Elements(pending))
      /\ \A p \in Pods : (Holds(p, j)' <=> Holds(p, j))
  BY <1>1 DEF Sound, InOnePlace, Once, Elements, Holds
<1>3. CASE i # j
  <2>1. \A p \in Pods : HandOf(p, j)'
    BY <1>1, <1>3, HandKept DEF Sound
  <2> QED
    BY <1>1, <1>2, <1>3, <2>1, SoundKept DEF Elements
<1>4. CASE i = j
  <2>1. job[j] \notin {NoHash, NewHash, ClaimedHash} /\ job[j].ttl
    BY <1>1, <1>4, HashFields
  <2>2. j \notin Elements(pending) /\ submit[j] \notin {"new", "stored"}
    BY <2>1 DEF Sound, InOnePlace, Submission
  <2>3. \A p \in Pods : HandOf(p, j)'
    <3> SUFFICES ASSUME NEW p \in Pods PROVE HandOf(p, j)'
      OBVIOUS
    <3>1. HandOf(p, j) /\ Elements(batch[p])' = Elements(batch[p])
      BY <1>1 DEF Sound, Elements
    <3> QED
      BY <1>1, <2>1, <3>1 DEF HandOf, Once
  <2>4. InOnePlace(j)'
    BY <1>1, <1>2, <2>2 DEF Sound, InOnePlace
  <2>5. HashSound(job[j])' /\ Submission(j)'
    BY <1>1, <1>4, <2>2, HashFields DEF HashSound, Submission
  <2> QED
    BY <1>1, <2>3, <2>4, <2>5 DEF Sound
<1> QED
  BY <1>1, <1>3, <1>4

-------------------------------------------------------------------------------
LEMMA SoundPod ==
  ASSUME TypeInv, NEW j \in Jobs, Sound(j), NEW p \in Pods, PodNext(p) \/ RepairNext(p)
  PROVE  Sound(j)'
<1>1. CASE Boot(p) \/ RepairNext(p)
  <2>1. /\ UNCHANGED <<job, submit, pending, cur, batch>>
        /\ \A q \in Pods \ {p} : at'[q] = at[q]
        /\ at[p] \in {"off"} \cup Peeking \cup Repairing
        /\ at'[p] \in Peeking \cup Repairing \cup {"loop"}
    BY <1>1 DEF Boot, RepairNext, PeekStats, PeekLength, ScanJobs, ScanLength,
                CompareConsistent, CompareDrifted, OverwriteStats, Transition, redis,
                TypeInv, TypeOK
  <2> QED
    BY <2>1, SoundQuiet
<1>2. CASE Sigterm(p)
  BY <1>2, SoundStill DEF Sigterm, redis, worker
<1>3. CASE Kill(p) \/ Terminate(p) \/ RedisError(p)
  BY <1>3, SoundForget DEF Kill, Terminate, RedisError, Die, redis
<1> QED
  BY <1>1, <1>2, <1>3 DEF PodNext

LEMMA SoundPop ==
  ASSUME TypeInv, NEW j \in Jobs, Sound(j), NEW p \in Pods, PopJob(p)
  PROVE  Sound(j)'
<1>1. /\ UNCHANGED <<job, submit, batch>>
      /\ \A q \in Pods \ {p} : at'[q] = at[q] /\ cur'[q] = cur[q]
      /\ at[p] = "poll" /\ at'[p] = "fetch" /\ cur[p] = NoJob /\ cur'[p] = Head(pending)
      /\ pending \in Seq(Jobs) /\ pending # <<>> /\ pending' = Tail(pending)
  BY DEF PopJob, Transition, TypeInv, TypeOK, Hands
<1>2. Elements(pending) = Elements(pending)' \cup {Head(pending)}
  BY <1>1, TailElements DEF Elements
<1>3. /\ HandOf(p, j) /\ Once(pending, j)
      /\ j \in Elements(pending) => job[j] = NewHash /\ ~Holds(p, j)
  BY DEF Sound, InOnePlace
<1>4. Once(pending, j)' /\ (Head(pending) = j => j \notin Elements(pending)')
  <2>1. Once(Tail(pending), j) /\ (Head(pending) = j => j \notin Elements(Tail(pending)))
    BY <1>1, <1>3, OnceTail
  <2> QED
    BY <1>1, <2>1 DEF Once, Elements
<1>5. Elements(batch[p])' = Elements(batch[p])
  BY <1>1 DEF Elements
<1>6. HandOf(p, j)'
  BY <1>1, <1>2, <1>3, <1>5 DEF HandOf, Holds, Once
<1>7. /\ Holds(p, j)' => Holds(p, j) \/ j = Head(pending)
      /\ Holds(p, j) => j # Head(pending) /\ j \notin Elements(pending)
  BY <1>1, <1>2, <1>3, <1>5 DEF Holds
<1>8. j \in Elements(pending)' => j \in Elements(pending) /\ ~Holds(p, j)'
  BY <1>2, <1>4, <1>7
<1>9. Holds(p, j)' => Holds(p, j) \/ j \in Elements(pending)
  BY <1>2, <1>7
<1> QED
  BY <1>1, <1>4, <1>6, <1>8, <1>9, SoundMove

\* An orphaned id was in hand at a restart: this job's hash is there.
LEMMA SoundFetch ==
  ASSUME TypeInv, NEW j \in Jobs, Sound(j), NEW p \in Pods, FetchJob(p)
  PROVE  Sound(j)'
<1>1. /\ UNCHANGED <<job, submit, pending, batch>>
      /\ \A q \in Pods \ {p} : at'[q] = at[q] /\ cur'[q] = cur[q]
      /\ at[p] = "fetch"
  BY DEF FetchJob, Transition, redis, TypeInv, TypeOK
<1>2. Elements(batch[p])' = Elements(batch[p]) /\ HandOf(p, j)
  BY <1>1 DEF Elements, Sound
<1>3. CASE job[cur[p]].status # "missing"
  <2>1. at'[p] = "claim" /\ cur'[p] = cur[p]
    BY <1>3 DEF FetchJob, Transition, TypeInv, TypeOK
  <2> QED
    BY <1>1, <1>2, <2>1 DEF HandOf, Once, Holds, Sound, InOnePlace, Elements, HashSound, Submission
<1>4. CASE job[cur[p]].status = "missing"
  <2>1. at'[p] \in {"loop", "poll"} /\ cur'[p] = NoJob
    BY <1>4 DEF FetchJob, Transition, TypeInv, TypeOK
  <2>2. cur[p] # j
    BY <1>1, <1>2, <1>4, HashFields DEF HandOf
  <2>3. HandOf(p, j)' /\ (Holds(p, j)' => Holds(p, j))
    BY <1>1, <1>2, <2>1, JobQueueAssumption DEF HandOf, Once, Holds
  <2>4. Once(pending, j)' /\ (j \in Elements(pending)' <=> j \in Elements(pending))
    BY <1>1 DEF Sound, InOnePlace, Once, Elements
  <2>5. j \in Elements(pending) => ~Holds(p, j)
    BY DEF Sound, InOnePlace
  <2> QED
    BY <1>1, <2>3, <2>4, <2>5, SoundMove
<1> QED
  BY <1>3, <1>4

LEMMA SoundClaim ==
  ASSUME TypeInv, NEW j \in Jobs, Sound(j), NEW p \in Pods, ClaimJob(p)
  PROVE  Sound(j)'
<1> DEFINE i == cur[p]
<1>1. /\ at[p] = "claim" /\ at'[p] = "uncount" /\ i \in Jobs
      /\ UNCHANGED <<submit, pending, cur, batch>>
      /\ \A q \in Pods \ {p} : at'[q] = at[q]
  BY DEF ClaimJob, Transition, TypeInv, TypeOK, Hands
<1>2. job' = [job EXCEPT ![i].status = "PROCESSING"]
  BY DEF ClaimJob, Hset
<1>3. HandOf(p, j) /\ Elements(batch[p])' = Elements(batch[p])
  BY <1>1 DEF Sound, Elements
<1>4. CASE i = j
  <2>1. job[j] = NewHash /\ j \notin Elements(batch[p]) /\ Holds(p, j)
    BY <1>1, <1>3, <1>4 DEF HandOf, Holds
  <2>2. job'[j] = ClaimedHash
    BY <1>2, <1>4, <2>1 DEF ClaimedHash, TypeInv, TypeOK
  <2>3. HandOf(p, j)'
    BY <1>1, <1>3, <1>4, <2>1, <2>2 DEF HandOf, Once
  <2>4. HashSound(job[j])'
    BY <2>2, HashFields DEF HashSound
  <2> QED
    BY <1>1, <2>1, <2>3, <2>4, SoundWrite
<1>5. CASE i # j
  <2>1. job'[j] = job[j]
    BY <1>2, <1>5 DEF TypeInv, TypeOK
  <2>2. HandOf(p, j)' /\ (Holds(p, j)' <=> Holds(p, j))
    BY <1>1, <1>3, <1>5, <2>1 DEF HandOf, Once, Holds
  <2>3. Once(pending, j)' /\ (j \in Elements(pending)' <=> j \in Elements(pending))
    BY <1>1 DEF Sound, InOnePlace, Once, Elements
  <2>4. j \in Elements(pending) => ~Holds(p, j)
    BY DEF Sound, InOnePlace
  <2> QED
    BY <1>1, <2>1, <2>2, <2>3, <2>4, SoundMove
<1> QED
  BY <1>4, <1>5

LEMMA SoundCount ==
  ASSUME TypeInv, NEW j \in Jobs, Sound(j), NEW p \in Pods, CountProcessing(p)
  PROVE  Sound(j)'
<1>1. /\ UNCHANGED <<job, submit, pending>>
      /\ at[p] = "count" /\ at'[p] \in {"poll", "resolve"}
      /\ batch'[p] = Append(batch[p], cur[p]) /\ cur'[p] = NoJob
      /\ \A q \in Pods \ {p} : at'[q] = at[q] /\ cur'[q] = cur[q] /\ batch'[q] = batch[q]
      /\ cur[p] \in Jobs /\ batch[p] \in Seq(Jobs)
  BY DEF CountProcessing, Transition, TypeInv, TypeOK, Hands
<1>2. HandOf(p, j)
  BY DEF Sound
<1>3. Elements(batch[p])' = Elements(batch[p]) \cup {cur[p]}
  BY <1>1, AppendElements DEF Elements
<1>4. Once(batch[p], j)'
  <2>1. Once(Append(batch[p], cur[p]), j)
    BY <1>1, <1>2, OnceAppend DEF HandOf
  <2> QED
    BY <1>1, <2>1 DEF Once
<1>5. HandOf(p, j)'
  BY <1>1, <1>2, <1>3, <1>4, JobQueueAssumption DEF HandOf
<1>6. Holds(p, j)' => Holds(p, j)
  BY <1>1, <1>3, JobQueueAssumption DEF Holds
<1>7. Once(pending, j)' /\ (j \in Elements(pending)' <=> j \in Elements(pending))
  BY <1>1 DEF Sound, InOnePlace, Once, Elements
<1>8. j \in Elements(pending) => ~Holds(p, j)
  BY DEF Sound, InOnePlace
<1> QED
  BY <1>1, <1>5, <1>6, <1>7, <1>8, SoundMove

LEMMA SoundCollect ==
  ASSUME TypeInv, NEW j \in Jobs, Sound(j), NEW p \in Pods, CollectNext(p)
  PROVE  Sound(j)'
<1>1. CASE CheckShutdown(p) \/ PollEmpty(p) \/ Deadline(p) \/ UncountPending(p)
  <2>1. /\ UNCHANGED <<job, submit, pending, cur, batch>>
        /\ \A q \in Pods \ {p} : at'[q] = at[q]
        /\ \/ at[p] \in {"loop", "poll"} /\ at'[p] \in {"loop", "poll", "exited", "resolve"}
           \/ at[p] = "uncount" /\ at'[p] = "count"
    BY <1>1 DEF CheckShutdown, PollEmpty, Deadline, UncountPending, Transition, redis,
                TypeInv, TypeOK
  <2> QED
    BY <2>1, SoundQuiet
<1> QED
  BY <1>1, SoundPop, SoundFetch, SoundClaim, SoundCount DEF CollectNext

-------------------------------------------------------------------------------
LEMMA MarkedHead ==
  ASSUME TypeInv, NEW p \in Pods, at[p] \in Marking
  PROVE  /\ batch[p] \in Seq(Jobs) /\ batch[p] # <<>> /\ Head(batch[p]) \in Jobs
         /\ Elements(batch[p]) = Elements(Tail(batch[p])) \cup {Head(batch[p])}
         /\ cur[p] = NoJob
<1>1. batch[p] \in Seq(Jobs) /\ batch[p] # <<>> /\ cur[p] = NoJob
  BY DEF TypeInv, TypeOK, Hands
<1>2. Elements(batch[p]) = Elements(Tail(batch[p])) \cup {Head(batch[p])}
  BY <1>1, TailElements
<1>3. Elements(batch[p]) \subseteq Jobs
  BY <1>1 DEF Elements
<1> QED
  BY <1>1, <1>2, <1>3

LEMMA SoundMarkWrite ==
  ASSUME TypeInv, NEW j \in Jobs, Sound(j), NEW p \in Pods, MarkWrite(p)
  PROVE  Sound(j)'
<1> DEFINE i == Head(batch[p])
           r == Head(outcome[p])
<1>1. /\ at[p] = "write" /\ at'[p] = "expire"
      /\ UNCHANGED <<submit, pending, cur, batch>>
      /\ \A q \in Pods \ {p} : at'[q] = at[q]
  BY DEF MarkWrite, Transition, TypeInv, TypeOK
<1>2. i \in Jobs /\ i \in Elements(batch[p]) /\ cur[p] = NoJob
  BY <1>1, MarkedHead
<1>3. /\ r = NoJob => job' = [job EXCEPT ![i].status = "FAILED"]
      /\ r # NoJob => job' = [job EXCEPT ![i].status = "COMPLETED", ![i].result = r]
  BY DEF MarkWrite, Hset
<1>4. HandOf(p, j) /\ Elements(batch[p])' = Elements(batch[p]) /\ Head(batch[p])' = i
  BY <1>1 DEF Sound, Elements
<1>5. job \in [Jobs -> JobHash]
  BY DEF TypeInv, TypeOK
<1> HIDE DEF i, r
<1>6. CASE i = j
  <2>1. job[j] = ClaimedHash /\ Holds(p, j)
    BY <1>1, <1>2, <1>4, <1>6 DEF HandOf, Holds
  <2>2. job'[j].status \in Finished /\ ~job'[j].ttl /\ job'[j].whole
    <3>1. job[j].whole /\ ~job[j].ttl
      BY <2>1, HashFields
    <3>2. CASE r = NoJob
      BY <1>3, <1>5, <1>6, <3>1, <3>2 DEF JobHash
    <3>3. CASE r # NoJob
      BY <1>3, <1>5, <1>6, <3>1, <3>3 DEF JobHash
    <3> QED
      BY <3>2, <3>3
  <2>3. HandOf(p, j)'
    BY <1>1, <1>2, <1>4, <1>6, <2>2, JobQueueAssumption DEF HandOf, Once
  <2>4. HashSound(job[j])'
    BY <2>2 DEF HashSound
  <2> QED
    BY <1>1, <2>1, <2>3, <2>4, SoundWrite
<1>7. CASE i # j
  <2>1. job'[j] = job[j]
    <3>1. CASE r = NoJob
      BY <1>3, <1>5, <1>7, <3>1
    <3>2. CASE r # NoJob
      BY <1>3, <1>5, <1>7, <3>2
    <3> QED
      BY <3>1, <3>2
  <2>2. HandOf(p, j)' /\ (Holds(p, j)' <=> Holds(p, j))
    BY <1>1, <1>4, <1>7, <2>1 DEF HandOf, Once, Holds, i
  <2>3. Once(pending, j)' /\ (j \in Elements(pending)' <=> j \in Elements(pending))
    BY <1>1 DEF Sound, InOnePlace, Once, Elements
  <2>4. j \in Elements(pending) => ~Holds(p, j)
    BY DEF Sound, InOnePlace
  <2> QED
    BY <1>1, <2>1, <2>2, <2>3, <2>4, SoundMove
<1> QED
  BY <1>6, <1>7

LEMMA SoundMarkExpire ==
  ASSUME TypeInv, NEW j \in Jobs, Sound(j), NEW p \in Pods, MarkExpire(p)
  PROVE  Sound(j)'
<1> DEFINE i == Head(batch[p])
<1>1. /\ at[p] = "expire" /\ at'[p] \in {"release", "tally"}
      /\ UNCHANGED <<submit, pending, cur, batch>>
      /\ \A q \in Pods \ {p} : at'[q] = at[q]
  BY DEF MarkExpire, Transition, TypeInv, TypeOK
<1>2. i \in Jobs /\ i \in Elements(batch[p]) /\ cur[p] = NoJob
  BY <1>1, MarkedHead
<1>3. job' = [job EXCEPT ![i].ttl = job[i].status # "missing"]
  BY DEF MarkExpire
<1>4. HandOf(p, j) /\ Elements(batch[p])' = Elements(batch[p]) /\ Head(batch[p])' = i
  BY <1>1 DEF Sound, Elements
<1>5. job \in [Jobs -> JobHash]
  BY DEF TypeInv, TypeOK
<1> HIDE DEF i
<1>6. CASE i = j
  <2>1. job[j].status \in Finished /\ Holds(p, j)
    BY <1>1, <1>2, <1>4, <1>6 DEF HandOf, Holds, i
  <2>2. job'[j].status = job[j].status /\ job'[j].whole = job[j].whole
    BY <1>3, <1>5, <1>6 DEF JobHash
  <2>3. HandOf(p, j)'
    BY <1>1, <1>2, <1>4, <1>6, JobQueueAssumption DEF HandOf, Once
  <2>4. HashSound(job[j])'
    BY <2>1, <2>2 DEF HashSound, Sound
  <2> QED
    BY <1>1, <2>1, <2>3, <2>4, SoundWrite
<1>7. CASE i # j
  <2>1. job'[j] = job[j]
    BY <1>3, <1>5, <1>7
  <2>2. HandOf(p, j)' /\ (Holds(p, j)' <=> Holds(p, j))
    BY <1>1, <1>4, <1>7, <2>1 DEF HandOf, Once, Holds, i
  <2>3. Once(pending, j)' /\ (j \in Elements(pending)' <=> j \in Elements(pending))
    BY <1>1 DEF Sound, InOnePlace, Once, Elements
  <2>4. j \in Elements(pending) => ~Holds(p, j)
    BY DEF Sound, InOnePlace
  <2> QED
    BY <1>1, <2>1, <2>2, <2>3, <2>4, SoundMove
<1> QED
  BY <1>6, <1>7

LEMMA SoundMarkTally ==
  ASSUME TypeInv, NEW j \in Jobs, Sound(j), NEW p \in Pods, MarkTally(p)
  PROVE  Sound(j)'
<1>1. /\ UNCHANGED <<job, submit, pending, cur>>
      /\ at[p] = "tally" /\ at'[p] \in {"peek", "mark"}
      /\ batch'[p] = Tail(batch[p])
      /\ \A q \in Pods \ {p} : at'[q] = at[q] /\ batch'[q] = batch[q]
  BY DEF MarkTally, Transition, TypeInv, TypeOK
<1>2. /\ batch[p] \in Seq(Jobs) /\ batch[p] # <<>> /\ cur[p] = NoJob
      /\ Elements(batch[p]) = Elements(batch[p])' \cup {Head(batch[p])}
  BY <1>1, MarkedHead DEF Elements
<1>3. HandOf(p, j) /\ Once(batch[p], j)
  BY DEF Sound, HandOf
<1>4. Once(batch[p], j)' /\ (Head(batch[p]) = j => j \notin Elements(batch[p])')
  <2>1. /\ Once(Tail(batch[p]), j)
        /\ Head(batch[p]) = j => j \notin Elements(Tail(batch[p]))
    BY <1>2, <1>3, OnceTail
  <2> QED
    BY <1>1, <2>1 DEF Once, Elements
<1>5. HandOf(p, j)'
  BY <1>1, <1>2, <1>3, <1>4, JobQueueAssumption DEF HandOf
<1>6. Holds(p, j)' => Holds(p, j)
  BY <1>1, <1>2 DEF Holds
<1>7. Once(pending, j)' /\ (j \in Elements(pending)' <=> j \in Elements(pending))
  BY <1>1 DEF Sound, InOnePlace, Once, Elements
<1>8. j \in Elements(pending) => ~Holds(p, j)
  BY DEF Sound, InOnePlace
<1> QED
  BY <1>1, <1>5, <1>6, <1>7, <1>8, SoundMove

LEMMA SoundWork ==
  ASSUME TypeInv, NEW j \in Jobs, Sound(j), NEW p \in Pods, InferNext(p) \/ MarkNext(p)
  PROVE  Sound(j)'
<1>1. CASE Infer(p) \/ InferenceRaises(p) \/ MarkRead(p) \/ MarkRelease(p)
  <2>1. /\ UNCHANGED <<job, submit, pending, cur, batch>>
        /\ \A q \in Pods \ {p} : at'[q] = at[q]
        /\ \/ at[p] \in {"resolve", "mark"} /\ at'[p] \in {"mark", "write"}
           \/ at[p] = "release" /\ at'[p] = "tally"
    BY <1>1 DEF Infer, InferenceRaises, MarkRead, MarkRelease, Transition, redis,
                TypeInv, TypeOK
  <2> QED
    BY <2>1, SoundQuiet
<1>2. CASE InferMisindexed(p)
  BY <1>2, SoundForget DEF InferMisindexed, Die, redis
<1> QED
  BY <1>1, <1>2, SoundMarkWrite, SoundMarkExpire, SoundMarkTally DEF InferNext, MarkNext

LEMMA SoundNext ==
  ASSUME TypeInv, NEW j \in Jobs, Sound(j), [Next]_vars
  PROVE  Sound(j)' /\ (submit'[j] = "new" => submit[j] = "new")
<1>1. ASSUME NEW i \in Jobs, SubmitNext(i) \/ ExpireJob(i)
      PROVE  Sound(j)' /\ (submit'[j] = "new" => submit[j] = "new")
  BY <1>1, SoundSubmit, SoundExpire
<1>2. ASSUME NEW p \in Pods, PodNext(p) \/ WorkerNext(p)
      PROVE  Sound(j)' /\ submit' = submit
  <2>1. submit' = submit
    <3>1. CASE PodNext(p) \/ InferNext(p)
      BY <3>1 DEF PodNext, Boot, Sigterm, Kill, Terminate, RedisError,
                  InferNext, Infer, InferenceRaises, InferMisindexed
    <3>2. CASE CollectNext(p)
      BY <3>2 DEF CollectNext, CheckShutdown, PollEmpty, PopJob, Deadline, FetchJob,
                  ClaimJob, UncountPending, CountProcessing
    <3>3. CASE MarkNext(p)
      BY <3>3 DEF MarkNext, MarkRead, MarkWrite, MarkExpire, MarkRelease, MarkTally
    <3>4. CASE RepairNext(p)
      BY <3>4 DEF RepairNext, PeekStats, PeekLength, ScanJobs, ScanLength,
                  CompareConsistent, CompareDrifted, OverwriteStats
    <3> QED
      BY <1>2, <3>1, <3>2, <3>3, <3>4 DEF WorkerNext
  <2> QED
    BY <1>2, <2>1, SoundPod, SoundCollect, SoundWork DEF WorkerNext
<1>3. CASE UNCHANGED vars
  BY <1>3, SoundStill DEF vars
<1> QED
  BY <1>1, <1>2, <1>3 DEF Next

-------------------------------------------------------------------------------
LEMMA DamageInit == RecoveryInit => DamageInv
<1> SUFFICES ASSUME RecoveryInit, NEW j \in Jobs PROVE Sound(j) /\ OnDisk(j)
  BY DEF DamageInv
<1>1. /\ job[j] = NoHash /\ submit[j] = "new" /\ Elements(pending) = {}
      /\ disk.job = job /\ disk.pending = pending /\ Once(pending, j)
  BY EmptyElements DEF RecoveryInit, Init, Once
<1>2. \A p \in Pods : ~Holds(p, j)
  BY EmptyElements, JobQueueAssumption DEF RecoveryInit, Init, Holds
<1>3. \A p \in Pods : HandOf(p, j)
  BY <1>2, NotHeld
<1> QED
  BY <1>1, <1>2, <1>3, HashFields DEF Sound, InOnePlace, HashSound, Submission, OnDisk

LEMMA DamageNext ==
  ASSUME RecoveryTypeInv, DamageInv, [RecoveryNext]_recoveryVars
  PROVE  DamageInv'
<1>0. TypeInv
  BY DEF RecoveryTypeInv, RecoveryTypeOK, TypeInv
<1> SUFFICES ASSUME NEW j \in Jobs, j \notin straddled' PROVE Sound(j)' /\ OnDisk(j)'
  BY DEF DamageInv
<1>1. CASE [Next]_vars /\ UNCHANGED <<disk, restarts, straddled>>
  <2>1. Sound(j) /\ OnDisk(j)
    BY <1>1 DEF DamageInv
  <2>2. Sound(j)' /\ (submit'[j] = "new" => submit[j] = "new")
    BY <1>0, <1>1, <2>1, SoundNext
  <2> QED
    BY <1>1, <2>1, <2>2 DEF OnDisk, Once, Elements
<1>2. CASE SaveSnapshot
  <2>1. /\ disk' = [job |-> job, pending |-> pending, stats |-> stats]
        /\ UNCHANGED <<job, pending, submit, at, cur, batch, straddled>>
    BY <1>2 DEF SaveSnapshot, vars
  <2>2. Sound(j)
    BY <2>1 DEF DamageInv
  <2>3. Sound(j)'
    BY <2>1, <2>2, SoundStill
  <2>4. disk'.job = job /\ disk'.pending = pending /\ submit' = submit
    BY <2>1
  <2>5. OnDisk(j)'
    BY <2>2, <2>4 DEF OnDisk, Sound, InOnePlace, Submission, Once, Elements
  <2> QED
    BY <2>3, <2>5
<1>3. CASE RestartRedis
  <2>1. /\ job' = disk.job /\ pending' = disk.pending /\ disk' = disk
        /\ UNCHANGED <<submit, at, cur, batch>>
        /\ j \notin straddled /\ ~InHand(j)
    BY <1>3, RestartSteps DEF Restored
  <2>2. OnDisk(j) /\ submit[j] \notin {"stored", "queued"} /\ \A p \in Pods : ~Holds(p, j)
    BY <2>1 DEF DamageInv, InHand
  <2>3. \A p \in Pods : ~Holds(p, j)'
    BY <2>1, <2>2 DEF Holds, Elements
  <2>4. \A p \in Pods : HandOf(p, j)'
    BY <2>3 DEF Holds, HandOf, Once, Elements
  <2>5. InOnePlace(j)' /\ HashSound(job[j])' /\ Submission(j)'
    BY <2>1, <2>2, <2>3 DEF OnDisk, InOnePlace, Submission, Once, Elements
  <2>6. OnDisk(j)'
    BY <2>1, <2>2 DEF OnDisk, Once, Elements
  <2> QED
    BY <2>4, <2>5, <2>6 DEF Sound
<1> QED
  BY <1>1, <1>2, <1>3 DEF RecoveryNext, recoveryVars

LEMMA OnceCounts ==
  ASSUME NEW s, NEW j, Once(s, j)
  PROVE  Cardinality({i \in DOMAIN s : s[i] = j}) <= 1
<1> DEFINE positions == {i \in DOMAIN s : s[i] = j}
<1>1. positions = {} \/ \E i \in DOMAIN s : positions = {i}
  BY DEF Once
<1> HIDE DEF positions
<1>2. Cardinality(positions) \in {0, 1}
  BY <1>1, FS_EmptySet, FS_Singleton
<1>3. Cardinality(positions) <= 1
  BY <1>2
<1> QED
  BY <1>3 DEF positions

(***************************************************************************)
(* A restart of Redis, at any moment and from any snapshot, damages only   *)
(* jobs that a handler or a worker had in hand at that moment              *)
(* (01-redis.yaml.j2: no append-only file); every other job is queued,     *)
(* held and complete as without restarts, although it may run again.       *)
(***************************************************************************)
THEOREM DamageIsConfined == RecoverySpec => []DamageConfined
<1>1. DamageInv => DamageConfined
  <2> SUFFICES ASSUME DamageInv, NEW j \in Jobs \ straddled
               PROVE  /\ Cardinality({i \in DOMAIN pending : pending[i] = j}) <= 1
                      /\ j \in Elements(pending) =>
                           job[j] = NewHash /\ \A p \in Pods : ~Holds(p, j)
                      /\ \A p, q \in Pods : Holds(p, j) /\ Holds(q, j) => p = q
                      /\ \A p \in Pods :
                           /\ Cardinality({i \in DOMAIN batch[p] : batch[p][i] = j}) <= 1
                           /\ cur[p] = j => j \notin Elements(batch[p])
                      /\ job[j].status # "missing" => job[j].whole
    BY DEF DamageConfined
  <2>1. InOnePlace(j) /\ HashSound(job[j]) /\ \A p \in Pods : HandOf(p, j)
    BY DEF DamageInv, Sound
  <2>2. Cardinality({i \in DOMAIN pending : pending[i] = j}) <= 1
    BY <2>1, OnceCounts DEF InOnePlace
  <2>3. ASSUME NEW p \in Pods
        PROVE  /\ Cardinality({i \in DOMAIN batch[p] : batch[p][i] = j}) <= 1
               /\ cur[p] = j => j \notin Elements(batch[p])
    BY <2>1, OnceCounts DEF HandOf
  <2> QED
    BY <2>1, <2>2, <2>3 DEF InOnePlace, HashSound
<1> QED
  BY <1>1, DamageInit, DamageNext, RecoveryTypeInvariant, PTL DEF RecoverySpec
===============================================================================
