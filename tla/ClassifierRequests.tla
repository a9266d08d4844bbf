-------------------------- MODULE ClassifierRequests --------------------------
(***************************************************************************)
(* Requests through the whole system: the gateway with its usage plugin,   *)
(* the inference handler, the worker that resolves and classifies the      *)
(* pictures, and the reports made from the rows.  A job is named by the    *)
(* request that submitted it.                                              *)
(***************************************************************************)
EXTENDS ImageJobs, UsagePlugin, UsageReport

CONSTANTS
  Asks,    \* what a request may bring: token, path, image and image_url
  Queries  \* reports asked for: mode, since and until

InferencePath == "/api/v1/inference"

ASSUME RequestsAssumption == Requests = Jobs \ Earlier

\* The path is one the plugin tracks (derive.py), and of those KrakenD forwards the
\* one that ends in /inference; a token that verifies has a name or a subject.
ASSUME GatewayAssumption ==
  /\ InferencePath \in Tracked
  /\ \A path \in Protected : Endpoint[path] = "inference" => path = InferencePath
  /\ \A a \in Asks : a.token \in Tokens

\* None is no payload, and no result.
ASSUME PayloadAssumption ==
  /\ Raised # None
  /\ \A a \in Asks : a.url # None => EncodeUrlPayload(a.url) # None
  /\ \A j \in Jobs : /\ EncodeImagePayload(Picture(j, TRUE)) # None
                     /\ ClassifyLogits(Logits[j]) # None

\* RELATIVE_RE in sql.py: digits and one of five letters.
ASSUME QueriesAssumption ==
  \A q \in Queries : q.since.form = "ago" =>
    /\ q.since = Ago(q.since.amount, q.since.unit)
    /\ q.since.amount \in Nat /\ q.since.unit \in DOMAIN UnitSeconds

VARIABLE atBackend  \* requests the inference service has and did not handle yet

requestVars == <<imageVars, usageVars, atBackend>>

RequestsInit ==
  /\ UsageInit
  /\ ask \in [Requests -> Asks]
  /\ job = [j \in Jobs |->
              [status |-> IF j \in Earlier THEN "PENDING" ELSE "NONE", result |-> None,
               payload |-> IF j \in Earlier THEN [kind |-> "text", data |-> Picture(j, TRUE)]
                           ELSE None]]
  /\ queue = SetToSeq(Earlier)
  /\ worker = Idle /\ download = NoDownload /\ spoiled = {}
  /\ atBackend = {}

\* The picture of an upload is that of its job.
Image(r) == IF ask[r].image = None THEN None ELSE Picture(r, ask[r].image = "whole")

\* The handler; BentoML answers 500 if it raises.  What KrakenD no longer waits
\* for is done all the same.
Handle(r) ==
  LET payload == IF ask[r].path = InferencePath THEN InferencePayload(Image(r), ask[r].url)
                 ELSE None
  IN /\ r \in atBackend
     /\ atBackend' = atBackend \ {r}
     /\ IF payload \in {None, Raised} THEN UNCHANGED <<job, queue>> ELSE Enqueue(r, payload)
     /\ IF stage[r] = "proxied" THEN Backend(r, IF payload = Raised THEN 500 ELSE 200)
        ELSE UNCHANGED usageVars
     /\ UNCHANGED <<worker, download, spoiled>>

\* Requests in the hands of the gateway move on.
GatewayStep ==
  /\ GatewayNext
  /\ atBackend' = atBackend \cup {r \in Requests : stage[r] = "new" /\ stage'[r] = "proxied"}
  /\ UNCHANGED imageVars

WorkerStep == WorkerNext /\ UNCHANGED <<usageVars, atBackend>>

RequestsNext ==
  \/ \E r \in Requests : Handle(r)
  \/ GatewayStep \/ WorkerStep

RequestsSpec == RequestsInit /\ [][RequestsNext]_requestVars

-------------------------------------------------------------------------------
(***************************************************************************)
(* Types, and that an id is queued once, as a job that waits.              *)
(***************************************************************************)
RequestsTypeOK ==
  /\ queue \in Seq(Jobs) /\ \A i, k \in DOMAIN queue : queue[i] = queue[k] => i = k
  /\ \A j \in Jobs :
       /\ job[j].status \in {"NONE", "PENDING", "PROCESSING", "COMPLETED", "FAILED"}
       /\ job[j].status = "PENDING" <=> \E i \in DOMAIN queue : queue[i] = j
  /\ worker.step \in {"idle", "resolve", "download", "dead"}
  /\ download # NoDownload => worker.step = "download"
  /\ \A r \in Requests : stage[r] \in {"new", "proxied", "recording", "done"}
  /\ atBackend \subseteq Requests

(***************************************************************************)
(* image_service.py MAX_IMAGE_SIZE: whatever length a server announces, or *)
(* does not announce, the worker keeps no more than the limit of its body. *)
(***************************************************************************)
DownloadBounded == download.kept <= MAX_IMAGE_SIZE

(***************************************************************************)
(* A completed job has the result of its own picture, all of it: whether   *)
(* it was uploaded, downloaded or stored by an older release, and whatever *)
(* the other payloads of its batch were.                                   *)
(***************************************************************************)
ResultOfOwnPicture ==
  \A j \in Jobs : job[j].status = "COMPLETED" => job[j].result = ClassifyLogits(Logits[j])

(***************************************************************************)
(* A batch all of whose jobs are failed for a picture that cannot be read  *)
(* has a job that came as a URL: an upload that was accepted never takes   *)
(* the jobs of other callers with it.                                      *)
(***************************************************************************)
OnlyDownloadsSpoilBatches ==
  \A batch \in spoiled : \E j \in batch : job[j].payload.kind = "url"

(***************************************************************************)
(* Each job lives as JobLifecycle says, whatever handler, worker, gateway  *)
(* and the other jobs of a batch do: it is accepted once, picked up once   *)
(* and finished once, with a result exactly when it is COMPLETED.  Jobs of *)
(* an older release are accepted already.                                  *)
(***************************************************************************)
Life(j) == INSTANCE JobLifecycle WITH
  Jobs <- {j},
  life <- [i \in {j} |-> IF job[i].status = "NONE" THEN "new" ELSE job[i].status],
  answer <- {i \in {j} : job[i].result # None}

JobsFollowLifecycle ==
  /\ \A r \in Requests : Life(r)!LifecycleInit
  /\ [][\A j \in Jobs : Life(j)!LifecycleNext \/ UNCHANGED Life(j)!lifecycle]_job

(***************************************************************************)
(* Usage and work agree.  A tracked request of a named caller has its row  *)
(* once it is through, unless a fault struck it; a row says 200 for an     *)
(* inference request only if a job was stored for it; and a job nobody has *)
(* an accepted request on record for was timed out by the gateway, is not  *)
(* through yet, or was struck.                                             *)
(***************************************************************************)
UsageAccounted ==
  LET rows(r) == {row \in api_usage : row.id = r}
  IN \A r \in Requests :
       /\ stage[r] = "done" /\ r \notin struck
          /\ MatchPath(ask[r].path) /\ ask[r].token.claims # ""
          => Cardinality(rows(r)) = 1
       /\ \A row \in rows(r) : row.status_code = 200 =>
            /\ ask[r].token.verified
            /\ row.endpoint_type = "inference" => job[r].status # "NONE"
       /\ job[r].status # "NONE" /\ stage[r] = "done" /\ r \notin struck
          => \E row \in rows(r) : row.status_code \in {200, 504}

\* Requests a report should know of.
Counted == {r \in Requests : /\ stage[r] = "done" /\ r \notin struck
                             /\ MatchPath(ask[r].path) /\ ask[r].token.claims # ""}

(***************************************************************************)
(* A report says what callers saw.  Without --since and --until it counts, *)
(* at any moment, every tracked request of a named caller that is through, *)
(* those struck by a fault apart, once; and as errors those answered with  *)
(* 400 or more.                                                            *)
(***************************************************************************)
ReportCountsTraffic ==
  LET report == Report(api_usage, "report", Nothing, Nothing, clock)
  IN /\ report.total = Cardinality(Counted)
     /\ report.error_count = Cardinality({r \in Counted : answer[r] >= 400})

(***************************************************************************)
(* What a report shows adds up, for every query and at every moment.       *)
(* Timeline and heatmap have every request of the window, none is lost in  *)
(* a bucket, a weekday or an hour that is not drawn; a list of which only  *)
(* the first rows are shown has less than the total exactly when it was    *)
(* cut, users counted apart; and an error shows.  A row of a text that has *)
(* requests has a bar, none is longer than its track, and in a report with *)
(* minutes or hours the columns of the whole window have room beside each  *)
(* other.                                                                  *)
(***************************************************************************)
ReportMatchesTraffic ==
  \A q \in Queries :
    LET report == Report(api_usage, q.mode, q.since, q.until, clock)
    IN /\ PageAddsUp(report) /\ TextAddsUp(report)
       /\ q.mode = "report" /\ q.since.form = "ago" /\ report.bucket # "day" =>
            2 * ((Seconds(q.since) \div BucketSeconds[report.bucket]) + 1) <= ChartWidth
===============================================================================
