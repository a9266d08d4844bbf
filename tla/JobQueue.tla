------------------------------- MODULE JobQueue -------------------------------
(***************************************************************************)
(* The asynchronous inference queue: Redis (job hashes, the pending list,  *)
(* the statistics hash), the submit handlers of the API, and one           *)
(* background worker thread per BentoML pod.  src/src/core/redis_queue.py  *)
(* and src/src/core/model_service.py.                                      *)
(*                                                                         *)
(* Redis executes one command at a time, so one action is one command (or  *)
(* one purely local step); everything between two commands interleaves     *)
(* with the other pods and with the API handlers.                          *)
(***************************************************************************)
EXTENDS Integers, Sequences, FiniteSets, BatchOutcome

CONSTANTS
  Jobs,         \* job ids (uuid4, never reused)
  NoJob,        \* no job
  Pods,         \* BentoML pods, one worker thread each
  BatchSize,    \* INFERENCE_BATCH_SIZE
  Unreliable,   \* jobs whose payload may fail to resolve (bad image, dead URL)
  RedisMayFail, \* whether a Redis command of a worker may raise
  MaxFaults     \* bound on SIGTERMs, killed pods and raised Redis commands

ASSUME JobQueueAssumption ==
  /\ IsFiniteSet(Jobs)
  /\ NoJob \notin Jobs
  /\ BatchSize \in Nat \ {0}
  /\ Unreliable \subseteq Jobs
  /\ RedisMayFail \in BOOLEAN
  /\ MaxFaults \in Nat

VARIABLES
  job,       \* job:<id> hashes
  pending,   \* the list queue:pending
  stats,     \* the hash queue:stats
  submit,    \* progress of the handler that submits a job
  phase,     \* life of a pod
  at,        \* program counter of a pod's worker thread (or of its boot)
  cur,       \* the id popped by get_next_pending_job in progress
  batch,     \* jobs collected and not yet marked
  outcome,   \* per batch position: the job whose payload gave the result
  was,       \* was_processing of the mark in progress
  snap,      \* statistics read by the reconciliation in progress
  faults,    \* faults injected so far
  losses,    \* history: workers that died with jobs in hand
  repaired   \* history: reconcile_stats has overwritten the statistics

redis == <<job, pending, stats>>
worker == <<at, cur, batch, outcome, was, snap>>
history == <<faults, losses, repaired>>
vars == <<job, pending, stats, submit, phase, at, cur, batch, outcome, was,
          snap, faults, losses, repaired>>

-------------------------------------------------------------------------------
Finished == {"COMPLETED", "FAILED"}
Status == {"missing", "PENDING", "PROCESSING"} \cup Finished

(***************************************************************************)
(* A job hash.  whole: it holds the fields submit_job wrote (job_id,       *)
(* payload, ...); a HSET on a missing key creates a hash without them.     *)
(* ttl: EXPIRE was called on it.  result: the job whose payload produced   *)
(* the stored result.                                                      *)
(***************************************************************************)
JobHash == [status : Status, whole : BOOLEAN, ttl : BOOLEAN,
            result : Jobs \cup {NoJob}]

NoHash == [status |-> "missing", whole |-> FALSE, ttl |-> FALSE, result |-> NoJob]
NewHash == [status |-> "PENDING", whole |-> TRUE, ttl |-> FALSE, result |-> NoJob]

(***************************************************************************)
(* The counters of queue:stats.  total_jobs is left out: submit_job        *)
(* increments it, reconcile_stats overwrites it with the number of keys,   *)
(* and nothing but the /queue_stats answer ever reads it.                  *)
(***************************************************************************)
Stats == [pending : Int, processing : Int, completed : Int, failed : Int]
NoStats == [pending |-> 0, processing |-> 0, completed |-> 0, failed |-> 0]

Submitting == {"stored", "queued"}
Phase == {"down", "starting", "serving", "stopping"}

Collecting == {"loop", "poll", "fetch", "claim", "uncount", "count"}
Marking == {"mark", "write", "expire", "release", "tally"}
Repairing == {"scan", "scanLen", "compare", "overwrite"}
Peeking == {"peek", "peekLen"}
Running == Collecting \cup {"resolve"} \cup Marking \cup Peeking \cup Repairing
Label == Running \cup {"off", "dead", "exited"}

\* Labels at which the next thing the thread does is a Redis command.
AtRedis == Running \ {"loop", "resolve"}

Elements(s) == {s[i] : i \in DOMAIN s}
Transition(p, from, to) == at[p] = from /\ at' = [at EXCEPT ![p] = to]
Busy(p) == batch[p] # <<>> \/ cur[p] # NoJob
Holds(p, j) == j = cur[p] \/ j \in Elements(batch[p])

\* HSET creates the key when it is missing: the other fields stay absent.
Hset(j, status) == job' = [job EXCEPT ![j].status = status]
Hincrby(field, n) == stats' = [stats EXCEPT ![field] = @ + n]

TypeOK ==
  /\ job \in [Jobs -> JobHash]
  /\ pending \in Seq(Jobs)
  /\ stats \in Stats
  /\ submit \in [Jobs -> {"new", "acked", "broken"} \cup Submitting]
  /\ phase \in [Pods -> Phase]
  /\ at \in [Pods -> Label]
  /\ cur \in [Pods -> Jobs \cup {NoJob}]
  /\ batch \in [Pods -> Seq(Jobs)]
  /\ outcome \in [Pods -> Seq(Jobs \cup {NoJob})]
  /\ was \in [Pods -> BOOLEAN]
  /\ snap \in [Pods -> Stats]
  /\ faults \in 0..MaxFaults
  /\ losses \in Nat
  /\ repaired \in BOOLEAN

Init ==
  /\ job = [j \in Jobs |-> NoHash]
  /\ pending = <<>>
  /\ stats = NoStats
  /\ submit = [j \in Jobs |-> "new"]
  /\ phase = [p \in Pods |-> "down"]
  /\ at = [p \in Pods |-> "off"]
  /\ cur = [p \in Pods |-> NoJob]
  /\ batch = [p \in Pods |-> <<>>]
  /\ outcome = [p \in Pods |-> <<>>]
  /\ was = [p \in Pods |-> FALSE]
  /\ snap = [p \in Pods |-> NoStats]
  /\ faults = 0
  /\ losses = 0
  /\ repaired = FALSE

-------------------------------------------------------------------------------
(***************************************************************************)
(* submit_job: HSET, RPUSH, HINCRBY pending, then the client gets its id.  *)
(* Any serving pod may run the handler (which one is not tracked); the API *)
(* stays up when the worker thread of its pod has died.                    *)
(***************************************************************************)
Serving == \E p \in Pods : phase[p] \in {"serving", "stopping"}

SubmitStep(j, from, to) ==
  /\ Serving
  /\ submit[j] = from
  /\ submit' = [submit EXCEPT ![j] = to]
  /\ UNCHANGED <<phase, worker, history>>

\* Variant: the retention window is set at submission already.
StoreJobWithTtl(j) ==
  /\ SubmitStep(j, "new", "stored")
  /\ job' = [job EXCEPT ![j] = [NewHash EXCEPT !.ttl = TRUE]]
  /\ UNCHANGED <<pending, stats>>

StoreJob(j) ==
  /\ SubmitStep(j, "new", "stored")
  /\ job' = [job EXCEPT ![j] = NewHash]
  /\ UNCHANGED <<pending, stats>>

\* Variant: the id is pushed before the hash is stored.
PushJobFirst(j) ==
  /\ SubmitStep(j, "new", "queued")
  /\ pending' = Append(pending, j)
  /\ UNCHANGED <<job, stats>>

PushJob(j) ==
  /\ SubmitStep(j, "stored", "queued")
  /\ pending' = Append(pending, j)
  /\ UNCHANGED <<job, stats>>

CountPending(j) ==
  /\ SubmitStep(j, "queued", "acked")
  /\ Hincrby("pending", 1)
  /\ UNCHANGED <<job, pending>>

(***************************************************************************)
(* The handler dies between two commands: its pod goes away or a command   *)
(* raises.  The client gets an error instead of a job id.                  *)
(***************************************************************************)
SubmitBreaks(j) ==
  /\ submit[j] \in Submitting
  /\ submit' = [submit EXCEPT ![j] = "broken"]
  /\ UNCHANGED <<redis, phase, worker, history>>

(***************************************************************************)
(* Redis removes a hash whose retention window (JOB_TTL) is over.          *)
(***************************************************************************)
ExpireJob(j) ==
  /\ job[j].ttl
  /\ job' = [job EXCEPT ![j] = NoHash]
  /\ UNCHANGED <<pending, stats, submit, phase, worker, history>>

-------------------------------------------------------------------------------
(***************************************************************************)
(* A pod starts: RedisJobQueue.__init__ reconciles the statistics, then    *)
(* the service installs the SIGTERM handler and starts the worker.         *)
(***************************************************************************)
Boot(p) ==
  /\ phase[p] = "down"
  /\ phase' = [phase EXCEPT ![p] = "starting"]
  /\ Transition(p, "off", "scan")
  /\ UNCHANGED <<redis, submit, cur, batch, outcome, was, snap, history>>

\* _handle_shutdown only sets _shutting_down.
Sigterm(p) ==
  /\ phase[p] = "serving"
  /\ faults < MaxFaults
  /\ faults' = faults + 1
  /\ phase' = [phase EXCEPT ![p] = "stopping"]
  /\ UNCHANGED <<redis, submit, worker, losses, repaired>>

\* Everything the thread had in memory is gone; Redis keeps what it has.
Forget(p, label) ==
  /\ at' = [at EXCEPT ![p] = label]
  /\ cur' = [cur EXCEPT ![p] = NoJob]
  /\ batch' = [batch EXCEPT ![p] = <<>>]
  /\ outcome' = [outcome EXCEPT ![p] = <<>>]
  /\ was' = [was EXCEPT ![p] = FALSE]
  /\ snap' = [snap EXCEPT ![p] = NoStats]

\* The thread is cut short, perhaps with jobs in hand.
Die(p, label) ==
  /\ Forget(p, label)
  /\ losses' = losses + (IF Busy(p) THEN 1 ELSE 0)

\* SIGKILL, eviction, OOM, or the end of the termination grace period.
Kill(p) ==
  /\ phase[p] # "down"
  /\ faults < MaxFaults
  /\ faults' = faults + 1
  /\ phase' = [phase EXCEPT ![p] = "down"]
  /\ Die(p, "off")
  /\ UNCHANGED <<redis, submit, repaired>>

\* The worker thread has ended, and the process ends after it.
Terminate(p) ==
  /\ phase[p] = "stopping"
  /\ at[p] \in {"exited", "dead"}
  /\ phase' = [phase EXCEPT ![p] = "down"]
  /\ Forget(p, "off")
  /\ UNCHANGED <<redis, submit, history>>

(***************************************************************************)
(* A Redis command of the worker thread raises.  Nothing in                *)
(* background_worker catches it: the thread ends, the process and its API  *)
(* stay up.  (During start-up the constructor raises instead: Kill.)       *)
(***************************************************************************)
RedisError(p) ==
  /\ RedisMayFail
  /\ phase[p] \in {"serving", "stopping"}
  /\ at[p] \in AtRedis
  /\ faults < MaxFaults
  /\ faults' = faults + 1
  /\ Die(p, "dead")
  /\ UNCHANGED <<redis, submit, phase, repaired>>

-------------------------------------------------------------------------------
(***************************************************************************)
(* _collect_job_batch.  The flag is looked at only while no job is in      *)
(* hand (background_worker and _wait_for_next_job); the collecting loop    *)
(* ignores it.  With the flag set the empty batch ends background_worker:  *)
(* idle_cycles is then 1, so the branch of timeout_stale_jobs, which needs *)
(* 60 empty batches, is never taken and is not modelled here.              *)
(***************************************************************************)
\* Variant: the worker loop does not look at the flag.
CheckShutdownIgnored(p) ==
  /\ Transition(p, "loop", "poll")
  /\ UNCHANGED <<redis, submit, phase, cur, batch, outcome, was, snap, history>>

CheckShutdown(p) ==
  /\ Transition(p, "loop", IF phase[p] = "stopping" THEN "exited" ELSE "poll")
  /\ UNCHANGED <<redis, submit, phase, cur, batch, outcome, was, snap, history>>

\* Variant: an empty list ends the worker.
PollEmptyExits(p) ==
  /\ pending = <<>>
  /\ batch[p] = <<>>
  /\ Transition(p, "poll", "exited")
  /\ UNCHANGED <<redis, submit, phase, cur, batch, outcome, was, snap, history>>

\* LPOP of get_next_pending_job finds nothing and no job is in hand: sleep.
PollEmpty(p) ==
  /\ pending = <<>>
  /\ batch[p] = <<>>
  /\ Transition(p, "poll", "loop")
  /\ UNCHANGED <<redis, submit, phase, cur, batch, outcome, was, snap, history>>

\* Variant: the head of the list is read, not removed.
PeekJob(p) ==
  /\ pending # <<>>
  /\ cur' = [cur EXCEPT ![p] = Head(pending)]
  /\ Transition(p, "poll", "fetch")
  /\ UNCHANGED <<redis, submit, phase, batch, outcome, was, snap, history>>

PopJob(p) ==
  /\ pending # <<>>
  /\ cur' = [cur EXCEPT ![p] = Head(pending)]
  /\ pending' = Tail(pending)
  /\ Transition(p, "poll", "fetch")
  /\ UNCHANGED <<job, stats, submit, phase, batch, outcome, was, snap, history>>

\* Variant: a collecting worker that sees the flag leaves with its batch.
DeadlineAbandons(p) ==
  /\ batch[p] # <<>>
  /\ Transition(p, "poll", IF phase[p] = "stopping" THEN "exited" ELSE "resolve")
  /\ UNCHANGED <<redis, submit, phase, cur, batch, outcome, was, snap, history>>

\* INFERENCE_BATCH_MAX_WAIT_MS is over: go with the jobs collected so far.
Deadline(p) ==
  /\ batch[p] # <<>>
  /\ Transition(p, "poll", "resolve")
  /\ UNCHANGED <<redis, submit, phase, cur, batch, outcome, was, snap, history>>

\* HGETALL.  For an orphaned id get_next_pending_job answers None, as for an
\* empty list.
FetchJob(p) ==
  LET orphaned == job[cur[p]].status = "missing"
      givenUp == IF batch[p] = <<>> THEN "loop" ELSE "poll"
  IN /\ Transition(p, "fetch", IF orphaned THEN givenUp ELSE "claim")
     /\ cur' = [cur EXCEPT ![p] = IF orphaned THEN NoJob ELSE @]
     /\ UNCHANGED <<redis, submit, phase, batch, outcome, was, snap, history>>

\* Variant: the status is written in lower case, as reconcile_stats spells it.
ClaimJobLowerCase(p) ==
  /\ Transition(p, "claim", "uncount")
  /\ Hset(cur[p], "processing")
  /\ UNCHANGED <<pending, stats, submit, phase, cur, batch, outcome, was, snap,
                 history>>

ClaimJob(p) ==
  /\ Transition(p, "claim", "uncount")
  /\ Hset(cur[p], "PROCESSING")
  /\ UNCHANGED <<pending, stats, submit, phase, cur, batch, outcome, was, snap,
                 history>>

UncountPending(p) ==
  /\ Transition(p, "uncount", "count")
  /\ Hincrby("pending", -1)
  /\ UNCHANGED <<job, pending, submit, phase, cur, batch, outcome, was, snap,
                 history>>

\* Variant: the size of the batch is checked before the job joins it.
CountProcessingLate(p) ==
  /\ Transition(p, "count", IF Len(batch[p]) < BatchSize THEN "poll" ELSE "resolve")
  /\ Hincrby("processing", 1)
  /\ batch' = [batch EXCEPT ![p] = Append(@, cur[p])]
  /\ cur' = [cur EXCEPT ![p] = NoJob]
  /\ UNCHANGED <<job, pending, submit, phase, outcome, was, snap, history>>

\* The last command of get_next_pending_job; its job joins the batch.
CountProcessing(p) ==
  /\ Transition(p, "count",
                IF Len(batch[p]) + 1 < BatchSize THEN "poll" ELSE "resolve")
  /\ Hincrby("processing", 1)
  /\ batch' = [batch EXCEPT ![p] = Append(@, cur[p])]
  /\ cur' = [cur EXCEPT ![p] = NoJob]
  /\ UNCHANGED <<job, pending, submit, phase, outcome, was, snap, history>>

-------------------------------------------------------------------------------
(***************************************************************************)
(* _process_job_batch up to the marking loop: no Redis command, and the    *)
(* outside world decides which payloads resolve and whether the model      *)
(* raises.                                                                 *)
(***************************************************************************)
ValidIndices(b, ok) == {i \in DOMAIN b : b[i] \in ok}
Resolvable(p, ok) == Elements(batch[p]) \ Unreliable \subseteq ok

Infer(p) ==
  /\ at[p] = "resolve"
  /\ \E ok \in SUBSET Elements(batch[p]) :
       LET V == ValidIndices(batch[p], ok)
           origin(i) == Source(V, i)
       IN /\ Resolvable(p, ok)
          /\ ~Misindexed(V)
          /\ outcome' = [outcome EXCEPT ![p] =
                           [i \in 1..Len(batch[p]) |->
                              IF origin(i) = 0 THEN NoJob ELSE batch[p][origin(i)]]]
  /\ at' = [at EXCEPT ![p] = "mark"]
  /\ UNCHANGED <<redis, submit, phase, cur, batch, was, snap, history>>

\* The model raises: every job of the batch is to be marked failed.
InferenceRaises(p) ==
  /\ Transition(p, "resolve", "mark")
  /\ \E ok \in SUBSET Elements(batch[p]) :
       LET V == ValidIndices(batch[p], ok)
       IN Resolvable(p, ok) /\ V # {} /\ ~Misindexed(V)
  /\ outcome' = [outcome EXCEPT ![p] = [i \in 1..Len(batch[p]) |-> NoJob]]
  /\ UNCHANGED <<redis, submit, phase, cur, batch, was, snap, history>>

\* IndexError outside every try: the worker thread ends, its jobs in hand.
InferMisindexed(p) ==
  /\ at[p] = "resolve"
  /\ \E ok \in SUBSET Elements(batch[p]) :
       Resolvable(p, ok) /\ Misindexed(ValidIndices(batch[p], ok))
  /\ Die(p, "dead")
  /\ UNCHANGED <<redis, submit, phase, faults, repaired>>

-------------------------------------------------------------------------------
(***************************************************************************)
(* mark_job_completed and mark_job_failed: HGETALL, HSET, EXPIRE, and the  *)
(* two HINCRBYs, the first only when the hash said PROCESSING.             *)
(***************************************************************************)
MarkRead(p) ==
  /\ Transition(p, "mark", "write")
  /\ was' = [was EXCEPT ![p] = job[Head(batch[p])].status = "PROCESSING"]
  /\ UNCHANGED <<redis, submit, phase, cur, batch, outcome, snap, history>>

\* Variant: mark_job_failed without its EXPIRE.
MarkWriteNoTtl(p) ==
  LET j == Head(batch[p])
      r == Head(outcome[p])
  IN /\ Transition(p, "write", IF r = NoJob THEN "release" ELSE "expire")
     /\ IF r = NoJob
          THEN Hset(j, "FAILED")
          ELSE job' = [job EXCEPT ![j].status = "COMPLETED", ![j].result = r]
     /\ UNCHANGED <<pending, stats, submit, phase, cur, batch, outcome, was,
                    snap, history>>

MarkWrite(p) ==
  LET j == Head(batch[p])
      r == Head(outcome[p])
  IN /\ Transition(p, "write", "expire")
     /\ IF r = NoJob
          THEN Hset(j, "FAILED")
          ELSE job' = [job EXCEPT ![j].status = "COMPLETED", ![j].result = r]
     /\ UNCHANGED <<pending, stats, submit, phase, cur, batch, outcome, was,
                    snap, history>>

\* Variant: the processing counter is never given back.
MarkExpireForgets(p) ==
  LET j == Head(batch[p])
  IN /\ Transition(p, "expire", "tally")
     /\ job' = [job EXCEPT ![j].ttl = job[j].status # "missing"]
     /\ UNCHANGED <<pending, stats, submit, phase, cur, batch, outcome, was,
                    snap, history>>

MarkExpire(p) ==
  LET j == Head(batch[p])
  IN /\ Transition(p, "expire", IF was[p] THEN "release" ELSE "tally")
     /\ job' = [job EXCEPT ![j].ttl = job[j].status # "missing"]
     /\ UNCHANGED <<pending, stats, submit, phase, cur, batch, outcome, was,
                    snap, history>>

MarkRelease(p) ==
  /\ Transition(p, "release", "tally")
  /\ Hincrby("processing", -1)
  /\ UNCHANGED <<job, pending, submit, phase, cur, batch, outcome, was, snap,
                 history>>

MarkTally(p) ==
  /\ Transition(p, "tally", IF Tail(batch[p]) = <<>> THEN "peek" ELSE "mark")
  /\ Hincrby(IF Head(outcome[p]) = NoJob THEN "failed" ELSE "completed", 1)
  /\ batch' = [batch EXCEPT ![p] = Tail(@)]
  /\ outcome' = [outcome EXCEPT ![p] = Tail(@)]
  /\ was' = [was EXCEPT ![p] = FALSE]
  /\ UNCHANGED <<job, pending, submit, phase, cur, snap, history>>

-------------------------------------------------------------------------------
(***************************************************************************)
(* maybe_reconcile_stats: HGETALL, then LLEN, then decide.                 *)
(***************************************************************************)
PeekStats(p) ==
  /\ Transition(p, "peek", "peekLen")
  /\ snap' = [snap EXCEPT ![p] = [NoStats EXCEPT !.pending = stats.pending,
                                                 !.processing = stats.processing]]
  /\ UNCHANGED <<redis, submit, phase, cur, batch, outcome, was, history>>

PeekLength(p) ==
  /\ Transition(p, "peekLen",
                IF snap[p].processing < 0 \/ snap[p].pending # Len(pending)
                THEN "scan" ELSE "loop")
  /\ snap' = [snap EXCEPT ![p] = NoStats]
  /\ UNCHANGED <<redis, submit, phase, cur, batch, outcome, was, history>>

(***************************************************************************)
(* reconcile_stats.  The SCAN loop counts a hash under its status only if  *)
(* the status is a key of counts; those keys are lower case and the stored *)
(* statuses upper case.  The loop is one step: with no status ever counted *)
(* the only thing a finer interleaving could change is total_jobs.         *)
(***************************************************************************)
Counted(field) == Cardinality({j \in Jobs : job[j].status = field})

ScanJobs(p) ==
  /\ Transition(p, "scan", "scanLen")
  /\ snap' = [snap EXCEPT ![p] =
                [pending |-> 0, processing |-> Counted("processing"),
                 completed |-> Counted("completed"), failed |-> Counted("failed")]]
  /\ UNCHANGED <<redis, submit, phase, cur, batch, outcome, was, history>>

ScanLength(p) ==
  /\ Transition(p, "scanLen", "compare")
  /\ snap' = [snap EXCEPT ![p].pending = Len(pending)]
  /\ UNCHANGED <<redis, submit, phase, cur, batch, outcome, was, history>>

\* A pod that was starting now installs its signal handler and its worker.
EndRepair(p) ==
  phase' = [phase EXCEPT ![p] = IF @ = "starting" THEN "serving" ELSE @]

CompareConsistent(p) ==
  /\ snap[p] = stats
  /\ Transition(p, "compare", "loop")
  /\ EndRepair(p)
  /\ snap' = [snap EXCEPT ![p] = NoStats]
  /\ UNCHANGED <<redis, submit, cur, batch, outcome, was, history>>

CompareDrifted(p) ==
  /\ snap[p] # stats
  /\ Transition(p, "compare", "overwrite")
  /\ UNCHANGED <<redis, submit, phase, cur, batch, outcome, was, snap, history>>

OverwriteStats(p) ==
  /\ Transition(p, "overwrite", "loop")
  /\ stats' = snap[p]
  /\ snap' = [snap EXCEPT ![p] = NoStats]
  /\ EndRepair(p)
  /\ repaired' = TRUE
  /\ UNCHANGED <<job, pending, submit, cur, batch, outcome, was, faults, losses>>

-------------------------------------------------------------------------------
SubmitNext(j) ==
  \/ StoreJob(j) \/ PushJob(j) \/ CountPending(j)
  \/ SubmitBreaks(j)

CollectNext(p) ==
  \/ CheckShutdown(p) \/ PollEmpty(p) \/ PopJob(p) \/ Deadline(p)
  \/ FetchJob(p) \/ ClaimJob(p)
  \/ UncountPending(p) \/ CountProcessing(p)

InferNext(p) == Infer(p) \/ InferenceRaises(p) \/ InferMisindexed(p)

MarkNext(p) ==
  \/ MarkRead(p) \/ MarkWrite(p) \/ MarkExpire(p) \/ MarkRelease(p)
  \/ MarkTally(p)

RepairNext(p) ==
  \/ PeekStats(p) \/ PeekLength(p) \/ ScanJobs(p) \/ ScanLength(p)
  \/ CompareConsistent(p) \/ CompareDrifted(p) \/ OverwriteStats(p)

WorkerNext(p) ==
  CollectNext(p) \/ InferNext(p) \/ MarkNext(p) \/ RepairNext(p)

PodNext(p) ==
  Boot(p) \/ Sigterm(p) \/ Kill(p) \/ Terminate(p) \/ RedisError(p)

Next ==
  \/ \E j \in Jobs : SubmitNext(j) \/ ExpireJob(j)
  \/ \E p \in Pods : PodNext(p) \/ WorkerNext(p)

Spec == Init /\ [][Next]_vars

(***************************************************************************)
(* The operating system schedules the worker threads, a stopping pod ends  *)
(* with its termination grace period, and the Deployment controller        *)
(* restarts pods that are down.  Nothing obliges a client to submit, a pod *)
(* to be stopped, or a key to expire by any given time.                    *)
(***************************************************************************)
Fairness ==
  \A p \in Pods :
    WF_vars(WorkerNext(p)) /\ WF_vars(Boot(p)) /\ WF_vars(Terminate(p))
FairSpec == Spec /\ Fairness

-------------------------------------------------------------------------------
(***************************************************************************)
(* No job is in two places: it occurs at most once in the pending list, a  *)
(* queued job is in no worker's hands, no two workers hold the same job    *)
(* and no worker holds it twice.  This is what LPOP by several pods, the   *)
(* batch and the marking loop must preserve together for inference to run  *)
(* at most once per job.                                                   *)
(***************************************************************************)
Distinct(s) == \A i, k \in DOMAIN s : s[i] = s[k] => i = k

ExclusiveOwnership ==
  /\ Distinct(pending)
  /\ \A p \in Pods :
       /\ Distinct(batch[p])
       /\ cur[p] \notin Elements(batch[p])
       /\ \A j \in Elements(pending) : ~Holds(p, j)
       /\ \A q \in Pods \ {p} : \A j \in Jobs : ~(Holds(p, j) /\ Holds(q, j))

(***************************************************************************)
(* An id in queue:pending names a complete, still PENDING hash that cannot *)
(* expire: submit_job stores before it pushes, and nothing but its worker  *)
(* touches a queued job.  So "orphaned ID" (redis_queue.py:150) is never   *)
(* reached by this protocol alone.                                         *)
(***************************************************************************)
QueuedJobsIntact == \A j \in Elements(pending) : job[j] = NewHash

(***************************************************************************)
(* A hash that exists is complete: no mark resurrects an expired job as a  *)
(* fragment, on which get_job_status would raise KeyError("job_id").       *)
(***************************************************************************)
RecordsWhole == \A j \in Jobs : job[j].status # "missing" => job[j].whole

(***************************************************************************)
(* A stored result was computed from the job's own payload, whatever the   *)
(* batch and its failed payloads were; exactly the COMPLETED jobs have one.*)
(***************************************************************************)
ResultsBelong ==
  \A j \in Jobs :
    job[j].result = IF job[j].status = "COMPLETED" THEN j ELSE NoJob

(***************************************************************************)
(* A worker that dies strands at most the BatchSize jobs it had in hand:   *)
(* every other job that reached the queue is queued, in hand, finished or  *)
(* expired.  Stranded jobs stay PENDING or PROCESSING for ever.            *)
(***************************************************************************)
Stranded ==
  {j \in Jobs : /\ job[j].status \in {"PENDING", "PROCESSING"}
                /\ submit[j] \in {"queued", "acked"}
                /\ j \notin Elements(pending)
                /\ \A p \in Pods : ~Holds(p, j)}

LossBounded == Cardinality(Stranded) <= BatchSize * losses

(***************************************************************************)
(* Until a reconciliation overwrites them, and while nothing breaks, the   *)
(* statistics are exactly the jobs at each stage, corrected by the         *)
(* increments still to come of the commands in flight.                     *)
(***************************************************************************)
InFlight(labels) == {j \in Jobs : \E p \in Pods : at[p] \in labels /\ cur[p] = j}
InMark(labels) ==
  {j \in Jobs : \E p \in Pods : at[p] \in labels /\ Head(batch[p]) = j}
Submitted == {j \in Jobs : submit[j] # "new"}
Taken == {j \in Submitted : job[j].status # "PENDING"}
Ended == {j \in Taken : job[j].status # "PROCESSING"}

TallyExact ==
  (~repaired /\ faults = 0 /\ \A j \in Jobs : submit[j] # "broken") =>
    /\ stats.pending = Cardinality({j \in Jobs : submit[j] = "acked"})
                       - Cardinality(Taken \ InFlight({"uncount"}))
    /\ stats.processing = Cardinality((Taken \ Ended) \ InFlight({"uncount", "count"}))
                          + Cardinality(InMark({"expire", "release"}))
    /\ stats.completed + stats.failed =
         Cardinality(Ended \ InMark({"expire", "release", "tally"}))

(***************************************************************************)
(* While no worker has died, a finished job is given its retention window  *)
(* (JOB_TTL), or its worker is just about to give it: no finished hash     *)
(* stays in Redis for ever.                                                *)
(***************************************************************************)
FinishedJobsExpire ==
  losses = 0 =>
    \A j \in Jobs : job[j].status \in Finished => job[j].ttl \/ j \in InMark({"expire"})

(***************************************************************************)
(* Refinement: through the job hashes a client sees JobLifecycle.  No step *)
(* of any pod, crash included, moves a job backwards, finishes it twice,   *)
(* or leaves a result on a job that is not COMPLETED.                      *)
(***************************************************************************)
LifeOf(j) ==
  IF job[j].status # "missing" THEN job[j].status
  ELSE IF submit[j] = "new" THEN "new" ELSE "gone"

Lifecycle == INSTANCE JobLifecycle WITH
  life <- [j \in Jobs |-> LifeOf(j)],
  answer <- {j \in Jobs : job[j].result # NoJob}

ImplementsLifecycle == Lifecycle!LifecycleSpec

-------------------------------------------------------------------------------
(***************************************************************************)
(* Liveness, under FairSpec.                                               *)
(***************************************************************************)
Queued(j) == j \in Elements(pending)
Answered(j) == job[j].status \in Finished \cup {"missing"}

(***************************************************************************)
(* A queued job does not wait for ever: whatever pods are stopped, killed  *)
(* and restarted, some worker takes it.                                    *)
(***************************************************************************)
QueueServed == \A j \in Jobs : Queued(j) ~> ~Queued(j)

(***************************************************************************)
(* A queued job is finished, unless a worker dies with jobs in hand: a     *)
(* SIGTERM in the middle of a batch does not abandon it.                   *)
(***************************************************************************)
QueuedJobsFinish == \A j \in Jobs : Queued(j) ~> (Answered(j) \/ losses > 0)

(***************************************************************************)
(* "SIGTERM received; finishing current job, then shutting down"           *)
(* (model_service.py:104): a pod told to stop ends its worker, with no job *)
(* in hand.                                                                *)
(***************************************************************************)
ShutdownDrains ==
  \A p \in Pods :
    phase[p] = "stopping" ~> (at[p] \in {"exited", "off"} /\ ~Busy(p))

-------------------------------------------------------------------------------
(***************************************************************************)
(* What the repository says of the program and the code does not do.       *)
(***************************************************************************)
\* reconcile_stats, "Recompute stats from persisted keys to repair counter
\* drift" (redis_queue.py:276): what it writes counts the finished hashes.
\* (With one pod nothing else finishes a job meanwhile, and a hash that
\* expires only makes the right number smaller.)
RepairCountsFinished ==
  [][\A p \in Pods : OverwriteStats(p) =>
       stats'.completed + stats'.failed
         >= Cardinality({j \in Jobs : job[j].status \in Finished})]_vars

\* timeout_stale_jobs, "Fail PROCESSING jobs older than max_age_seconds"
\* (redis_queue.py:241), for a "likely pod crash during inference" (:265): a
\* PROCESSING job that no worker has in hand does not stay so.
StaleJobsFail ==
  \A j \in Jobs :
    (job[j].status = "PROCESSING" /\ \A p \in Pods : ~Holds(p, j))
      ~> job[j].status # "PROCESSING"

\* "Each pod runs a micro-batching worker" (docs/autoscaling.md:3): while Redis
\* answers, a serving pod has a live worker thread.
ServingPodsWork == \A p \in Pods : phase[p] = "serving" => at[p] # "dead"
===============================================================================
