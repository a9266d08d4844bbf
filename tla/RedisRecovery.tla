----------------------------- MODULE RedisRecovery ----------------------------
(***************************************************************************)
(* JobQueue with a Redis primary that restarts.  In 01-redis.yaml.j2 the   *)
(* comment line inside the continued `exec redis-server` command ends it   *)
(* after --requirepass, so the primary runs without --appendonly: what     *)
(* survives is its last RDB snapshot (periodic, or written at a clean      *)
(* shutdown).  The clients of Redis reconnect with their next command; the *)
(* ones whose command raises instead are the RedisError and SubmitBreaks   *)
(* of JobQueue.                                                            *)
(***************************************************************************)
EXTENDS JobQueue

CONSTANT MaxRestarts  \* bound on restarts of the Redis primary

ASSUME RedisRecoveryAssumption == MaxRestarts \in Nat

VARIABLES
  disk,      \* the RDB file: job hashes, pending list and statistics together
  restarts,
  straddled  \* history: jobs some handler or worker had in hand at a restart

recoveryVars == <<vars, disk, restarts, straddled>>

RecoveryTypeOK ==
  /\ TypeOK
  /\ disk \in [job : [Jobs -> JobHash], pending : Seq(Jobs), stats : Stats]
  /\ restarts \in 0..MaxRestarts
  /\ straddled \in SUBSET Jobs

RecoveryInit ==
  /\ Init
  /\ disk = [job |-> job, pending |-> pending, stats |-> stats]
  /\ restarts = 0
  /\ straddled = {}

\* A background save is a fork of the single-threaded server: one instant.
SaveSnapshot ==
  /\ restarts < MaxRestarts
  /\ disk' = [job |-> job, pending |-> pending, stats |-> stats]
  /\ UNCHANGED <<vars, restarts, straddled>>

InHand(j) == submit[j] \in Submitting \/ \E p \in Pods : Holds(p, j)

\* Variant: the restored list is merged with the one in memory.
RestartMerges ==
  /\ restarts < MaxRestarts
  /\ restarts' = restarts + 1
  /\ job' = disk.job
  /\ pending' = pending \o disk.pending
  /\ stats' = disk.stats
  /\ straddled' = straddled \cup {j \in Jobs : InHand(j)}
  /\ UNCHANGED <<disk, submit, phase, worker, history>>

RestartRedis ==
  /\ restarts < MaxRestarts
  /\ restarts' = restarts + 1
  /\ job' = disk.job
  /\ pending' = disk.pending
  /\ stats' = disk.stats
  /\ straddled' = straddled \cup {j \in Jobs : InHand(j)}
  /\ UNCHANGED <<disk, submit, phase, worker, history>>

RecoveryNext ==
  \/ Next /\ UNCHANGED <<disk, restarts, straddled>>
  \/ SaveSnapshot
  \/ RestartRedis

RecoverySpec == RecoveryInit /\ [][RecoveryNext]_recoveryVars

-------------------------------------------------------------------------------
(***************************************************************************)
(* A restart of Redis damages only the jobs that were in a handler's or a  *)
(* worker's hands: every other job is, afterwards as before, queued at     *)
(* most once and intact while queued, held at most once and not while      *)
(* queued, and complete as long as its hash exists.  (A job that finished  *)
(* after the snapshot may be queued again and run a second time.)  Jobs in *)
(* hand can become fragments, orphaned ids or be run by two workers.       *)
(***************************************************************************)
DamageConfined ==
  \A j \in Jobs \ straddled :
    /\ Cardinality({i \in DOMAIN pending : pending[i] = j}) <= 1
    /\ j \in Elements(pending) => job[j] = NewHash /\ \A p \in Pods : ~Holds(p, j)
    /\ \A p, q \in Pods : Holds(p, j) /\ Holds(q, j) => p = q
    /\ \A p \in Pods :
         /\ Cardinality({i \in DOMAIN batch[p] : batch[p][i] = j}) <= 1
         /\ cur[p] = j => j \notin Elements(batch[p])
    /\ job[j].status # "missing" => job[j].whole

(***************************************************************************)
(* Whatever is rolled back and run again, a result stays the result of the *)
(* job's own payload: running a job twice cannot mix up two jobs.          *)
(***************************************************************************)
ResultsStillBelong == \A j \in Jobs : job[j].result \in {NoJob, j}
===============================================================================
