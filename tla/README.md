# Verification of the SEM image classifier API

TLA+ specifications, TLC model-checking runs and TLAPS proofs for the
asynchronous inference service in `src/`: the service itself, the gateway in
front of it, and the generator and scripts that build and deploy it. The
specifications are written from the code; the comment of every definition
names what it stands for, and `PROJECT.json` maps every definition to the
lines it models.

## 1. The system

```
 client --> KrakenD gateway --> BentoML pods (1..3) <--> Redis primary
            JWT check,          API handlers             job:<id> hashes
            usage plugin        one worker thread each   queue:pending list
               |                                         queue:stats counters
               v
            PostgreSQL api_usage --> usage reports

 service.yaml, overlay --> generator --> generated/<env> --> app.sh, infra.sh
 (written by hand)         render,       manifests,          --> the pods above,
                           verify_prod   settings, lock          Authentik
```

| Component | State it keeps | Operations | What makes it correct |
|---|---|---|---|
| Redis job queue, `src/core/redis_queue.py` | job hashes, pending list, counters, all in Redis | `submit_job`, `get_next_pending_job`, `mark_job_completed`, `mark_job_failed`, `maybe_reconcile_stats`, `reconcile_stats`, `timeout_stale_jobs`, `clear_queue` | a job is owned by one place, its hash is complete, its status only moves forward, counters agree with the jobs |
| Worker, `src/core/model_service.py` | batch in hand, shutdown flag, program counter | collect, resolve payloads, infer, mark, reconcile, stop on SIGTERM | results belong to their own jobs, jobs in hand are finished on shutdown, the queue is served |
| Read API and `InferenceClient`, `model_service.py`, `ml_platform/devtools/api_client.py` | nothing / last answer | `status`, `results`, `queue_stats`, `health`; `submit`, `poll_until_done`, `get_results`, `run_inference` | answers follow the job's life |
| Redis deployment, `templates/k8s/app/01-redis.yaml.j2` | RDB file | start, restart | a rollback damages as little as possible |
| Image input, `image_service.py`, `job_payload.py` | none | validate, encode, download with a size limit, decode | a payload resolves to an image or raises |
| Usage plugin, `gateway/plugin/main.go` | DB handle | intercept, record asynchronously | one row per authenticated request |
| Generator, `ml_platform/generator/` | service definitions, bundles, lock files | scaffold, onboard, render, validate, verify_prod, pack | a bundle agrees with itself and with its lock; what is packed can ship; files written by hand are kept |
| Deployment, `k8s/app.sh`, `infra.sh`, `configure_authentik.py`, `Makefile` | images, release artifact, ConfigMap, Secret, pod template, pods, OAuth2 provider | build, deploy, bootstrap, fresh, reset, restart, configure | the running stack survives a failed build; pods run the image and settings a command reports |
| Developer tools, `ml_platform/devtools/` | none | find namespace, ports, client and secret; `get_token` | the token they get is one the gateway accepts |
| Usage reports, `ml_platform/usage_report/`, `scripts/reports/` | none | window, buckets, tables, charts | the numbers are those of the traffic |
| Benchmarks, load tests | none | ramps, percentiles | boundaries |

The components meet in Redis: handlers and workers of all pods run
interleaved, one Redis command at a time, without transactions. What is hard
there, and what the first modules are about: several pods popping one list;
multi-command operations interrupted by a crash, a SIGTERM or an exception that
nothing catches; hashes that expire while someone still writes to them;
counters maintained apart from what they count; a Redis that comes back with
older data; answers assembled from two reads.

Around the queue, a request crosses parts that know little of each other. The
gateway reads a name before the token is verified, gives up on a backend that
goes on, and leaves the usage row to a goroutine; the worker downloads what a
stranger's server sends and finds out late that a picture cannot be read.

Before all that, a maintainer's command writes a dozen files and changes a
cluster step by step, while the files it reads may be edited and it may be cut
short. The client and its secret exist in four places (file, Secret, Authentik,
gateway), a setting in three (`service.yaml`, ConfigMap, environment of a pod),
and each copy is renewed by another command.

`PROJECT.json` lists the hazards with the line where each bites and the
properties about it.

## 2. Modules

| Module | Models |
|---|---|
| `JobQueue` | Redis, the submit handlers, and one worker thread per pod: every Redis command is one action, so all interleavings of pods and handlers are explored |
| `BatchOutcome` | the index bookkeeping of `_process_job_batch` as pure operators |
| `JobLifecycle` | abstract specification: the life of a job as a client may see it. `JobQueue` implements it |
| `RedisRecovery` | `JobQueue` plus snapshots and restarts of the Redis primary |
| `ResultsApi` | the read handlers and the client, over `JobLifecycle` |
| `ImageJobs` | from the image or URL of a request to the result of its job: codec, download, batch |
| `UsagePlugin` | the gateway: KrakenD as the plugin sees it, and the rows the plugin writes |
| `UsageReport` | the query over the rows, and what the text and HTML pages show of its answer, as pure operators |
| `ClassifierRequests` | composition of the three: requests from the gateway to the report |
| `ServiceConfig` | `derive.py` as pure operators: from the YAML files to the context everything is rendered from |
| `ServiceBundles` | the generator's commands on one service, file by file |
| `DevTools` | where scripts find their settings, as pure operators |
| `ServiceDeploy` | `ServiceBundles` with the commands of `app.sh` and `infra.sh`, the cluster and the start of a pod |
| `MCJobQueue`, `MCRedisRecovery`, `MCResultsApi` | symmetry sets for TLC |
| `MCClassifierRequests`, `MCServiceDeploy` | requests, reports, overlays and platform settings for TLC |
| `BatchOutcome_proofs` | proofs: every position gets its own result, used by the two batch loops |
| `JobQueue_proofs` | proofs: types, ownership, what the job hashes hold |
| `JobLifecycle_proofs` | proofs: refinement of `JobLifecycle`, retention of finished jobs, what dying workers strand, the statistics |
| `RedisRecovery_proofs` | proofs: types, results and damage with restarts of Redis |
| `ResultsApi_proofs` | proofs: answers and the job's life |
| `UsageReport_proofs` | proofs: sums, groups, orders and what a report shows, for any rows |
| `ClassifierRequests_proofs` | proofs: types, results, truncated pictures and the download limit, the life of each job, usage rows, what reports count and show |
| `ServiceDeploy_proofs` | proofs: types, bundles, locks, packing, and what deploy, bootstrap, build and configure promise |

### JobQueue and the code

A worker's program counter `at[p]` names the next thing its thread does:

| `at` | Code |
|---|---|
| `loop`, `poll` | the shutdown checks; `LPOP` in `get_next_pending_job`, or the end of the collecting window |
| `fetch`, `claim`, `uncount`, `count` | the rest of `get_next_pending_job`: `HGETALL`, `HSET PROCESSING`, two `HINCRBY` |
| `resolve` | `_process_job_batch` up to its marking loop |
| `mark`, `write`, `expire`, `release`, `tally` | `mark_job_completed` / `mark_job_failed`: `HGETALL`, `HSET`, `EXPIRE`, `HINCRBY processing -1` if the hash said PROCESSING, `HINCRBY completed/failed 1` |
| `peek`, `peekLen` | `maybe_reconcile_stats` |
| `scan`, `scanLen`, `compare`, `overwrite` | `reconcile_stats`, also at start-up |
| `off`, `dead`, `exited` | no thread; thread ended by an exception; loop left |

A hash is abstracted to its status, whether it holds the fields `submit_job`
wrote (`whole`), whether `EXPIRE` was called on it (`ttl`) and whose payload
its result was computed from (`result`). A payload is only a job that may or
may not resolve (`Unreliable`). Time is abstracted away: the end of the
collecting window (`Deadline`), of a retention window (`ExpireJob`) and of the
polling deadline (`GiveUp`) may come at any point. `reconcile_stats` scans in
one step; since no stored status matches its lower-case keys a finer
interleaving could change only `total_jobs`, which is not modelled: nothing
but the `/queue_stats` answer reads it.

Names ending in a variant (`PeekJob`, `PushJobFirst`, ...), introduced by
"Variant:", are not part of the specification. Each is a plausible mistake in
the definition after it, used to confirm that a property notices it.

`RedisRecovery` adds `disk`, the last RDB snapshot. The primary runs without
`--appendonly` because the comment at `01-redis.yaml.j2:73` ends the continued
command. Workers and handlers go on with what they have in memory.

`ResultsApi` splits the results handler into its two reads (`ReadResult`,
`ReadStatus`) with the job moving in between, and runs `run_inference` next to
callers that ask for results directly.

### Requests through the whole system

`ClassifierRequests` names a job after the request that submitted it. `ask[r]`
is what the request brings (token, path, image, URL), `stage[r]` how far the
gateway is with it:

| `stage` | Code |
|---|---|
| `new` | KrakenD has not decided: `Refuse` (no such path, token, rate limit) or `Proxy` |
| `proxied` | the backend has it; `Backend` answers, or `Timeout` answers 504 and the backend goes on |
| `recording` | the answer is with the caller, the goroutine of `recordUsage` is not through |
| `done` | through, with a row or without |

The handler (`Handle`) is one action, since nothing else can see its single
change of the queue half done; `JobQueue` has the Redis commands apart. The
worker of `ImageJobs` resolves a batch payload by payload. A URL is `FetchUrl`
(headers), then any number of `ReceiveChunk`, then `EndBody`, with failures at
each; `RunBatch`, `PictureRaises` and `ModelRaises` are the ends of the batch,
`WorkerDies` the `IndexError` of section 6. A picture is whole or truncated:
`Image.open` reads a header only, so that a truncated one is noticed on upload
(saving as PNG reads it all) and, if downloaded, in the middle of the batch.

`struck` and `spoiled` are history variables: requests whose row an outage may
have taken, and batches failed by an unreadable picture.

The report is computed from the rows in every state. A GROUP BY is `Groups`
over the key of each row, an ORDER BY one of `BySize`, `ByName` and `ByHour`;
times are seconds from a Monday midnight UTC. Names have no order in the model:
`Sorted` is some sequence that puts the counts, codes or times in order, and
which group comes first among equals is left open. What a report counts is held against
traffic in `ReportCountsTraffic`, what its pages show of the counts in
`ReportMatchesTraffic`.

A batch finishes several jobs in one step here, so that the composition cannot
implement one instance of `JobLifecycle`, of which a step moves one job. It
implements one for each job, `Life(j)` (`JobsFollowLifecycle`).

### Bundles and the cluster

A command is the list `todo` of the steps it has left. A step is one file
written, one check, or one change of the cluster; a step that fails empties
the list, as `set -e`, an exception or `make` does, and leaves what is there.
`Interrupt` empties it at any point, and in `rmtree` may leave some files.
`EditByHand` may fall between any two steps. So `make deploy` is

    render, clear, k8s, ..., service.lock, validate, resolve,
    app secrets, config, gateway, workload, rollout

`ctx` is the context a render has built and goes on writing from. The content
of a file is the part of the context that reaches it (`Content`); the lock is
what is hashed, not a hash of it. `service`, `overlay`, `secrets` and `code`
are the files written by hand.

In the cluster, `template` is the pod template (image and restart stamp),
`pods` the kinds of ready pods, each with the template, ConfigMap and image it
started with. `StartPod` may happen at any time, since a rollout, the
autoscaler and a lost node all start pods; it takes the ConfigMap of that
moment, and starts only if the checks of `core/model_env.py` pass
(`CanStart`). `StopPod` removes a kind of pod, but no old one before a new one
is ready. History: `touched`, `raced` (inputs edited during a render),
`deployed` and `configured` (what the last command reported, while it lasts).

## 3. Runs

| Run | Bounds | Shows |
|---|---|---|
| `queue_safety` | 2 jobs, 2 pods, batches of 2, 1 fault, payloads may not resolve | exclusive ownership, intact queue entries, whole hashes, exact counters while nothing breaks, retention of finished jobs, refinement of `JobLifecycle` |
| `queue_batches` | 3 jobs, none reliable, 1 pod, batches of 2, 1 fault | results belong to their jobs; a dead worker strands at most one batch |
| `queue_liveness` | 2 jobs, 1 pod, batches of 2, 2 stops or kills | the queue is served, jobs are finished, SIGTERM drains |
| `redis_recovery` | 2 jobs, 1 pod, batches of 2, 1 restart | only jobs in hand at the restart are damaged; results never mix |
| `results_api` | 2 jobs, 2 callers | answers follow the job's life; `run_inference` fails after a COMPLETED poll only on expiry |
| `requests` | 2 requests out of 7 kinds, 1 job of an older release, batches of 2, a size limit of 1 chunk, 1 outage, one tick of 100 000 s, offset -1 h | the download limit, results of own pictures, who can spoil a batch, each job's life as in `JobLifecycle`, usage rows against answers and jobs, reports against traffic |
| `service_deploy` | 2 commands, 1 edit, 1 interrupt, at most 2 files gone in a broken `rmtree` | coherent and complete bundles, honest locks, files kept, and what deploy, bootstrap, build and configure promise |
| `stats_repair`, `stale_jobs`, `worker_lost`, `results_race`, `config_only_deploy` | smallest instance each; `config_only_deploy` as `service_deploy` | the five disagreements of section 6 |

Why the bounds are enough to be interesting: two jobs and two pods give every
race for the list, a batch with a failed first and a good second payload, and a
job pushed while another is being marked. Three jobs with batches of two add a
job left in the list while a batch is in hand and a partial second batch. One
fault covers a crash at each of the worker's steps; two in the liveness run
give a stop during the recovery from a kill. `MaxFaults` bounds SIGTERMs, kills
and raised Redis commands, `MaxRestarts` the restarts of Redis; ids are never
reused, so nothing else is unbounded.

The requests of `requests` are an upload that is whole or truncated, a URL that
is valid or not, a request for a status, and two callers KrakenD refuses (a
forged token, and none at a path that does not exist). Two of them and the old
job give every mixed batch of two, and every pair of answers in a report. The
forged token claims a second user, and the limit of the list of users is one
(`TopLimit`), so that there are reports whose query cuts a list, and reports
where it does not. Five queries are asked in every state: reports of everything,
of a day and of six hours, a summary, and a json whose window ends at second 1.
With
a limit of one chunk a body can end short of it, meet it or pass it, whatever
length was announced. The tick is longer than a day, so that rows fall into
different buckets, weekdays and windows, and the offset puts the first second
on a Sunday, where the week wraps. `MaxFaults` bounds the outages of database
and gateway together.

`service_deploy` begins with a service that is deployed and configured: the
shortest way there from nothing is three commands and two edits (`onboard`,
revision and secret filled in, `deploy --rebuild`, `configure`), and every
property is about what happens afterwards. Two commands are any command after any
other, such as a render that is cut short before a pack. The edit is one of
nine: revision, client, namespace, source, batch size, overlay, code, secret,
or the removal of the service; one client in `secrets.local.yaml` from the start
stands for an earlier edit. `CachedSnapshots` is a private model cache with one
revision, the case in which an empty revision may start a pod.

Both runs are about safety only. A command, an edit or a request that is over
leaves nothing to do, so that the runs do not check deadlock.

Symmetry is used in safety runs only, over pods and over jobs of the same kind.
Deadlock is not checked where the system may really stop: when every worker
thread has died, or when all callers are done.

### Fairness

`FairSpec` gives weak fairness to the worker threads (scheduled by the
operating system; their loops never block for ever), to `Boot` (the Deployment
restarts a pod that is down) and to `Terminate` (a stopping pod is ended with
its grace period). A pod that starts reconciles and then serves by its worker's
fairness. Nothing obliges clients to submit, keys to expire or pods to be
stopped. Handlers get no fairness. In `queue_liveness` Redis answers and
payloads resolve; section 6 says what happens otherwise.

## 4. Proofs

Every theorem holds for all values of the constants the named assumptions of
its module allow; nothing else is assumed, and no bound of section 3 is used.

### The queue

For any finite set of jobs, any set of pods, any batch size and any number of
faults, from `JobQueueAssumption`:

- `TypeCorrect`: `Spec => []TypeOK`. `TypeOK` is not inductive: a worker takes
  heads of `batch[p]` and `outcome[p]` and appends `cur[p]`. The strengthening
  `TypeInv` adds `Hands`: a popped job is in `cur[p]` exactly between the pop
  and the end of `get_next_pending_job`, a batch being resolved or marked is
  not empty, and there is one outcome per job left to mark. The step of `Infer`
  needs the lemma `SourceIsOwnPosition`: unless the indexing of
  `model_service.py:199` raises, the valid positions are a prefix of the batch,
  so every position gets the result of its own payload.
- `OwnershipCorrect`: `Spec => []ExclusiveOwnership`. The strengthening
  `OwnInv` adds `NotYetPushed`: a job whose handler has not pushed its id yet
  is neither queued nor held, so a push never makes a second copy. The proof
  follows a job through the list, `cur[p]`, the batch and out of it.
- `QueueIntact`, `RecordsComplete`, `ResultsCorrect`: `QueuedJobsIntact`,
  `RecordsWhole` and `ResultsBelong`. They are inductive only together, as
  `RecInv`: `Stored` (a job not yet pushed has no hash or a new one),
  `Retention` (only finished hashes have a retention window), `HandsIntact`
  (what a worker may rely on about the jobs in its hands at each label) and
  `OutcomesOwn` (the outcome at a batch position is that position's job, or
  none). Ownership is what makes `HandsIntact` stable: a job a worker holds is
  written by nobody else (`RecInvWrite`), and Redis removes only hashes with a
  retention window. `RecInvFetch` shows that the orphaned branch of
  `get_next_pending_job` is not taken while Redis keeps its data;
  `redis_recovery` is the run in which it is.
- `LifecycleImplemented`: `Spec => ImplementsLifecycle`. Only five actions write
  a hash (`OnlyWritesWrite`); `WriteEffects` says what each does to the one hash
  it writes, and `LifecycleStep` maps each to a step of `JobLifecycle` or to a
  stutter.
- `RetentionGiven`: `Spec => []FinishedJobsExpire`. A worker leaves the label
  `expire` by its `EXPIRE`, or is cut short and counted in `losses`
  (`LeavesExpire`).

- `LossesBounded`: `Spec => []LossBounded`. `LossInv` adds `Fits` (a worker has
  at most `BatchSize` jobs in hand, the one being collected included, and none
  at the labels where it may end) and `Settled` (past its `HSET`, the job being
  marked is finished or gone). A step leaves the stranded jobs as they are, or
  is the death of one worker and adds no more than its hand (`WorkersKeep`,
  `HandSize`).
- `StatisticsExact`: `Spec => []TallyExact`. Each counter is the cardinality of
  a set of jobs: those acknowledged, no longer counted as pending, in work, about
  to be released, counted as ended. Each command moves one job into or out of
  one set, or past all of them, and changes one counter by one; a step lemma per
  command says which. This rests on ownership (the job in one worker's hand at a
  label is not in another's) and on `Remembered`: `was_processing`, which a
  worker takes from its `HGETALL` and uses three commands later, is true. It is
  so because the worker owns the job, and not because anything checks again.

### Restarts of Redis and clients

- `RecoveryTypesCorrect`, `ResultsSurviveRestarts`: `RecoverySpec =>
  []RecoveryTypeOK` and `[]ResultsStillBelong`. `Hands` and `OutcomesOwn` speak
  of a worker's own memory and survive a restart; `ResultsInv` adds that no hash
  in Redis or on disk has a foreign result.
- `DamageIsConfined`: `RecoverySpec => []DamageConfined`. `RecInv` does not
  survive a restart as a whole, so `DamageInv` states it job by job, for the
  jobs nobody had in hand at a restart: `Sound` (where the job is, what its
  hash is there, what its handler has done) and `OnDisk` (the snapshot, of
  whatever moment, has it in one place too, and not at all if it is not
  submitted yet). A restart takes `Sound` from `OnDisk`, a snapshot `OnDisk`
  from `Sound`, and `SoundNext` shows that no other step of a worker or a
  handler, also one that holds damaged jobs at the same time, spoils it.
- `ApiTypesCorrect`, `RaisesOnlyOnExpiry`, `AnswersFollowJob`: `ApiSpec =>
  []ApiTypeOK`, `[]RaisesOnlyWhenGone` and `[]AnswersInOrder`, for any sets of
  jobs and clients. `ApiInv` adds `ResultsKept` (a COMPLETED job has its result)
  and, for each caller, that it asks in turn (`AsksInTurn`) and was told nothing
  newer than the job (`ToldInOrder`).

### Requests

For any finite set of requests, any jobs of an older release, any batch size,
size limit and sizes of pieces, any number of outages and any clock, from
`ImageAssumption`, `RequestsAssumption`, `UsageAssumption` and, for the rest of
the list after the third, `GatewayAssumption` (what `derive.py` renders: the path
of inference requests is tracked and is the one protected path so labelled; a
verified token names somebody) and `PayloadAssumption` (`None` is neither a
payload nor a result):

- `ResultsOwned`: `RequestsSpec => []ResultOfOwnPicture`.
- `UploadsSpoilNothing`: `RequestsSpec => []OnlyDownloadsSpoilBatches`.
- `DownloadsLimited`: `RequestsSpec => []DownloadBounded`.

  The invariant of these three is `RequestsInv`: what is stored for a job is a URL
  or its own picture, whole (`Stored`), since the codec reads all of an upload;
  the worker resolves positions in order, and unless one failed before it the
  k-th picture is the k-th job's (`Hand`, `OwnPictures`); a picture that is not
  whole came by a URL of the batch (`Blamed`); and a request is handled once
  (`HandledOnce`), so that no payload is replaced under a worker.
- `RequestsTypes`: `RequestsSpec => []RequestsTypeOK`. Types need `Line` (an id
  is queued once, and exactly while its job is PENDING) and `InHand` (what the
  worker holds is PROCESSING, and a download belongs to the step that reads it).
- `JobsLiveOnce`: `RequestsSpec => JobsFollowLifecycle`. A step moves any number
  of jobs; `JobMoves` says how it may move one, from `Line` and `InHand`, and each
  such move is a step of that job's `JobLifecycle` or a stutter.
- `UsageIsAccounted`: `RequestsSpec => []UsageAccounted`. `UsageInv` says for
  each stage of a request who may be at the backend and why (`AtBackend`: after
  the answer only if that was the 504 of a timeout), which answers a stored job
  is compatible with (`Stores`), and which rows there are (`Rows`: none before
  the request is through, then one, of its answer, unless an outage struck it).
- `ReportsCountTraffic`: `RequestsSpec => []ReportCountsTraffic`, from `UsageInv`
  and `RowsInv` (rows are finitely many, of requests, none of the future): the
  window of a report without limits leaves nothing out, and rows and the requests
  they are owed for are in bijection, the erroneous ones among themselves.

- `ReportsMatchTraffic`: `RequestsSpec => []ReportMatchesTraffic`, for any set of
  queries, from `RowsInv`, from `Codes` (a row has the status of an answer) and
  from two more assumptions: `ReportAssumption` (the limit of a list is a natural
  number, the offset an integer) and `QueriesAssumption` (a relative `--since` is
  digits and one of the five units, as `RELATIVE_RE` demands).

The work of the last one is in `UsageReport_proofs`, which knows nothing of the
requests. Its theorems are about any finite set of rows with times, names and
status codes (`Window`), and any query:

- `ReportAddsUp`: the page and the text of a report add up. A list's sum is a
  fold, so that this is an induction over a finite set, and the induction rule
  of the library is of no use to the provers. `MinimalSubset` takes its place:
  of the subsets with a property, given as a set, one has no smaller one with
  it, since strict inclusion is well-founded. By it, the fold of a sequence is
  the sum over its set (`SumOfSizes`), the groups of a key add up to the
  rows (`GroupsAddUp`), and every finite set can be put in order (`Sortable`),
  without which `Sorted` would be a name for nothing (`SortedIs`). Every group
  has a row, so a list cut short shows less than the total, and only such a one
  does (`FirstGroups`). A timeline or heatmap has all groups, because every
  weekday and hour has its cell (`Calendar`, `AllCells`), which is where the
  offset and the ISO weekday matter. `Rendered`, `ListShows` and `CutListShows`
  carry that through what is drawn.
- `PartsFitTheirTrack` (no bar, share or column is longer than its track; a part
  with requests has a bar) and `BucketsHaveRoom` (for every window that `--since`
  names, a report in minutes or hours has room for two points of each bucket).
  Both come down to what a floor division does (`Division`, `Scaled`).

The proof corrected the model twice. The property had asked every list to add up
to the total, which held on the small instance and fails for any traffic with
more names than a list has rows; it now says when a list falls short. And lists
were ordered with `SortSeq`, whose definition says nothing when two counts are
equal; `Sorted` does.

### Bundles and the cluster

For any platform settings, overlays and cached snapshots, and any number of
commands, edits and interrupts, from `BundleAssumption`. The invariant is
`DeployInv`, whose parts are needed for one another:

| Part | Says |
|---|---|
| `Onboarding`, `Rendering`, `Ordered` | which steps may follow which on the list of the running command; what a render has left to write and what is there make up all files, the lock last |
| `Directory` | nothing of a service is there, or about to be written, without its directory |
| `Context` | the context of a command comes from one `service.yaml`, and, unless an input was edited since, from the present one |
| `Contents` | the files of a bundle, but for the lock, come from one context; while it is rendered that is the command's, with a lock and no edit meanwhile the one of the inputs in the lock |
| `Packing` | `verify` sees a whole bundle that was just rendered, `pack` the bundle `verify` saw |
| `Ready` | what has been done when a step of a deployment is next: settings accepted before a build, a release that starts before a reset, Secret, ConfigMap and gateway before a workload |
| `Rollout` | no pod is newer than the template; from the stamp of a rebuild on, pods of the template have the image just built and the settings just applied |
| `Credentials` | after `configure`, provider and running gateway have what was applied |
| `Typing` | what the files hold |

A command is a list of up to some twenty steps, so that the proof does not go
through commands but through steps: `Advance` (a step takes the next one off the
list or ends the command), with `Ordered` telling what came before it and what
may follow. Only the ten beginnings of a command are looked at as whole lists.
From `DeployInv`:

- `DeployTypes`: `DeploySpec => []DeployTypeOK`.
- `LockMeansComplete`, `FilesByHandStay`: `DeploySpec => LockComesLast` and
  `HandWrittenFilesKept`. The one step that writes `service.yaml` is behind
  `mkdir`, which refuses a directory that exists.
- `FilesAgree`, `LockVouches`: `DeploySpec => []BundleCoherent` and
  `[]LockIdentifiesInputs`, from `Contents`.
- `PackedShips`: `DeploySpec => []PackedBundleShips`, from `Packing`.
- `ImagesStart`, `ResetIsSafe`: `DeploySpec => BuiltImageStarts` and
  `BootstrapKeepsAWayBack`, from `Ready` and from what `resolve` accepts.
- `RebuiltIsServed`: `DeploySpec => []RebuildTakesEffect`, from `Rollout`: the
  proof needs that no pod of the new stamp started before the ConfigMap was
  applied, which is the order of `app.sh` and nothing else.
- `TokensAccepted`: `DeploySpec => []ToolsGetTokens`, from `Credentials`.

### Only model-checked

The liveness properties: fairness and `ENABLED` are out of the prover's reach.
Every safety and action property of a passing run has a theorem. No recursive
operator is used in any module.

## 5. Not modelled

- Queue: `timeout_stale_jobs` (its call is unreachable, section 6),
  `clear_queue` (no caller), `total_jobs`, Redis replicas (never read) and
  eviction (the option is not reached by the primary), tensor code. A request
  of the HTTP layer that fails is an interrupted handler (`SubmitBreaks`) or a
  caller that gives up.
- Gateway: the rate limit as a number (`Refuse` may answer 503 at any time),
  retries of the database pool, the name of the service in a row.
- Reports: the call of `kubectl` and its errors, `--input`, file names (two
  reports in one second share one), escaping and layout.
- Generator: a single file is written in one step; `config.yaml` and the
  templates do not change during a run; the text of templates is reduced to
  the values that reach it; a service is removed only while no command runs.
- Deployment: the data layer's manifests, access (port forwards), status, logs,
  the `*-all` targets, the installation of Authentik, the local variant of
  `gateway-settings.json`, thresholds of the autoscaler. kubectl, podman and
  Kubernetes are what the scripts rely on, marked external in `PROJECT.json`.
- Benchmarks, load tests, tests and generated bundles, with their reasons in
  `PROJECT.json`.

## 6. Disagreements between the code and what the repository says of it

- `stats_repair`: `reconcile_stats` "Recompute[s] stats from persisted keys",
  but counts with lower-case keys what is stored in upper case: it resets
  `processing`, `completed` and `failed` to 0.
- `stale_jobs`: a job in the hands of a killed pod stays PROCESSING for ever.
  `timeout_stale_jobs` would fail it, but its call needs 60 empty batches and
  an empty batch is returned only when the worker is stopping.
- `worker_lost`: a payload that fails before one that resolves, in one batch,
  ends the worker thread with `IndexError` while the pod goes on serving.
- `results_race`: a job that completes between the two reads of the results
  handler is answered as COMPLETED, without its result.
- `config_only_deploy`: `make render` and `make deploy` are documented
  (`docs/inference-workers.md:24`) as the way a changed setting reaches the
  workers. The ConfigMap is no part of the pod template, and only `--rebuild`
  restarts the Deployment: the command reports success, the pods keep the old
  setting, and pods the autoscaler adds later have the new one.
  `RebuildTakesEffect` shows that `--rebuild` does what it should.

Seen while modelling, each of them in the model as the code has it, without a
run of its own:

- `app.sh:443` refuses an empty revision, but the generator writes an empty one
  as `''` and `read_yaml_value` strips double quotes only: the guard never
  fires, and the build fails later (`Builds`).
- `onboard` writes `secrets.local.yaml` as a plain mapping; `deploy` applies
  the same file with kubectl, which wants a manifest, and stops
  (`ApplySecrets`).
- The overlay's `gateway` section replaces the limits of the platform instead
  of refining them: a key it does not give is 100 (`ProdGatewaySettings`).
- `05-ingress` is rendered for prod even if the overlay disables it; only
  `apply-order.txt` leaves it out (`K8sManifests`).
- `verify_prod` does not miss a `gateway-settings.json` that is not there; in
  `prod-pack` the render before it makes up for that (`PackedBundleShips`).
- `app.sh build` restarts a Deployment that may be pinned to the digest of the
  last deploy, so its pods need not run what was built (`Restart`).
- `fresh` resets before it builds; `bootstrap` does not (`Fresh`).
- `configure` fails without a bootstrap password after it has changed the
  provider, and KrakenD is not restarted (`Configure`).
- `db/schema.sql:2` speaks of authenticated requests; rows with 401 under names
  nobody verified are written too (`Answer`).
- `--since now` means everything (`TimeExpr`).
- The summary prints the first 12 buckets of activity, while the 24 hours it is
  about touch 25: the latest ones are missing, and nothing says so
  (`RenderSummary`).
- `docs/usage-reports.md:13` shows a report of 30 days with `bucket-hour` in its
  name; `choose_bucket` takes days for such a window (`ChooseBucket`).

## 7. Plan

Done: the queue, its recovery and its clients; requests from the gateway to the
report; bundles and their deployment; a theorem for every safety and action
property. Left: concurrency ramps and percentiles of the benchmarks, as
operators checked against reference definitions.
