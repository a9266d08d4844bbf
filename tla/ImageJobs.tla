------------------------------- MODULE ImageJobs -------------------------------
(***************************************************************************)
(* From a request to a classified picture: what POST /inference puts into  *)
(* the queue (image_service.py, job_payload.py), how a worker gets the     *)
(* picture back, downloading it when the payload is a URL, and what a      *)
(* batch of pictures makes of its jobs (image_classification_service.py).  *)
(* The queue itself is that of JobQueue, reduced to the order of its jobs. *)
(* A picture is whole, or a file that opens and cannot be read to its end: *)
(* PIL reads the pixels of a picture only when they are needed.            *)
(***************************************************************************)
EXTENDS BatchOutcome, Sequences

CONSTANTS
  Jobs,           \* a job per request, and those of an older release
  Earlier,        \* the latter: their payload is base64 text, not JSON
  Logits,         \* what the model gives for the picture of a job
  MAX_IMAGE_SIZE, \* 50 MB, in units of a chunk
  ChunkSizes,     \* sizes of the pieces a body arrives in
  BatchSize,      \* INFERENCE_BATCH_SIZE
  None

ASSUME ImageAssumption ==
  /\ Earlier \subseteq Jobs /\ IsFiniteSet(Earlier)
  /\ MAX_IMAGE_SIZE \in Nat /\ BatchSize \in Nat \ {0}
  /\ ChunkSizes \subseteq Nat \ {0}

VARIABLES
  queue,     \* ids of the jobs that wait
  job,       \* what is stored for each id
  worker,    \* of the one worker: step, batch, pictures resolved, failed positions
  download,  \* of the payload being resolved: announced length and bytes kept
  spoiled    \* history: batches a picture of which could not be read

imageVars == <<queue, job, worker, download, spoiled>>

Raised == [kind |-> "raised"]
Picture(j, whole) == [of |-> j, whole |-> whole]

-------------------------------------------------------------------------------
\* job_payload.py, and the request handler.

ValidImageUrl(url) == url.scheme \in {"http", "https"} /\ url.netloc # ""

EncodeUrlPayload(url) == IF ValidImageUrl(url) THEN [kind |-> "url", url |-> url] ELSE Raised

EncodeImagePayload(data) == [kind |-> "image_b64", data |-> data]

\* Text that is not JSON is what releases before the URL payload stored.
DecodePayloadKind(payload) ==
  IF payload.kind = "text" THEN [kind |-> "legacy_image_b64", data |-> payload.data]
  ELSE IF payload.kind \in {"url", "image_b64"} THEN payload ELSE Raised

\* Variant: the bytes of the upload are stored as they came.
SerializeAsIs(image) == EncodeImagePayload(image)

\* Saving as PNG reads every pixel of the upload.
SerializeInferenceInput(image) ==
  IF image.whole THEN EncodeImagePayload(image) ELSE Raised

\* inference: a URL is not fetched now, an upload is encoded at once; with both
\* or none _resolve_image_input raises.
InferencePayload(image, url) ==
  CASE url # None /\ image = None -> EncodeUrlPayload(url)
    [] url = None /\ image # None -> SerializeInferenceInput(image)
    [] OTHER -> Raised

\* Variant: the push is sent again, although the first one had arrived.
EnqueueTwice(j, payload) ==
  /\ job' = [job EXCEPT ![j] = [status |-> "PENDING", payload |-> payload, result |-> None]]
  /\ queue' = queue \o <<j, j>>

\* submit_job.
Enqueue(j, payload) ==
  /\ job' = [job EXCEPT ![j] = [status |-> "PENDING", payload |-> payload, result |-> None]]
  /\ queue' = Append(queue, j)

-------------------------------------------------------------------------------
\* image_classification_service.py.  The softmax keeps the order of the logits.

ClassifyLogits(logits) ==
  LET best == CHOOSE i \in DOMAIN logits :
                /\ \A k \in DOMAIN logits : logits[k] <= logits[i]
                /\ \A k \in DOMAIN logits : logits[k] = logits[i] => i <= k
  IN [label |-> best, confidence |-> logits[best], all_scores |-> logits]

\* Variant: a picture that is already RGB is taken as it is.
ReadableAlways(image) == TRUE

\* _to_rgb and the processor read every pixel: they raise on a truncated file.
Readable(image) == image.whole

RunModelInferenceBatch(images) ==
  [k \in DOMAIN images |->
     IF images[k].whole THEN ClassifyLogits(Logits[images[k].of]) ELSE Raised]

-------------------------------------------------------------------------------
\* The worker: _collect_job_batch and _process_job_batch.

Idle == [step |-> "idle", batch |-> <<>>, resolved |-> <<>>, failed |-> {}]
NoDownload == [length |-> None, kept |-> 0]

Position == Len(worker.resolved) + Cardinality(worker.failed) + 1
Payload == DecodePayloadKind(job[worker.batch[Position]].payload)

CollectBatch ==
  /\ worker.step = "idle"
  /\ \E n \in 1..BatchSize :
       /\ n <= Len(queue)
       /\ worker' = [Idle EXCEPT !.step = "resolve", !.batch = SubSeq(queue, 1, n)]
       /\ queue' = SubSeq(queue, n + 1, Len(queue))
       /\ job' = [j \in Jobs |-> IF \E i \in 1..n : queue[i] = j
                                 THEN [job[j] EXCEPT !.status = "PROCESSING"] ELSE job[j]]
  /\ UNCHANGED <<download, spoiled>>

ResolvedTo(image) ==
  /\ worker' = [worker EXCEPT !.step = "resolve", !.resolved = Append(@, image)]
  /\ download' = NoDownload

Unresolved ==
  /\ worker' = [worker EXCEPT !.step = "resolve", !.failed = @ \cup {Position}]
  /\ download' = NoDownload

Resolving == worker.step = "resolve" /\ Position <= Len(worker.batch)

ResolveInline ==
  /\ Resolving /\ Payload.kind \in {"image_b64", "legacy_image_b64"}
  /\ ResolvedTo(Payload.data)
  /\ UNCHANGED <<queue, job, spoiled>>

\* The headers arrive, or the server cannot be reached, times out or answers
\* with an error.  length is None if it is not announced.
FetchUrl ==
  /\ Resolving /\ Payload.kind = "url"
  /\ \E ok, isImage \in BOOLEAN, length \in {None, 1, MAX_IMAGE_SIZE, MAX_IMAGE_SIZE + 1} :
       IF ok /\ isImage /\ ValidImageUrl(Payload.url)
          /\ (length # None => length <= MAX_IMAGE_SIZE)
       THEN /\ worker' = [worker EXCEPT !.step = "download"]
            /\ download' = [length |-> length, kept |-> 0]
       ELSE Unresolved
  /\ UNCHANGED <<queue, job, spoiled>>

\* Variant: the announced length is believed.
ReceiveChunkUnchecked ==
  /\ worker.step = "download" /\ download.kept <= MAX_IMAGE_SIZE
  /\ \E size \in ChunkSizes :
       IF download.length = None /\ download.kept + size > MAX_IMAGE_SIZE THEN Unresolved
       ELSE download' = [download EXCEPT !.kept = @ + size] /\ UNCHANGED worker
  /\ UNCHANGED <<queue, job, spoiled>>

\* The size is checked before a piece is kept, whatever length was announced.
ReceiveChunk ==
  /\ worker.step = "download"
  /\ \E size \in ChunkSizes :
       IF download.kept + size > MAX_IMAGE_SIZE THEN Unresolved
       ELSE download' = [download EXCEPT !.kept = @ + size] /\ UNCHANGED worker
  /\ UNCHANGED <<queue, job, spoiled>>

\* The body ends, whole or short, or the connection breaks.  Image.open looks
\* at the first bytes only, which may not be those of a picture.
EndBody ==
  /\ worker.step = "download"
  /\ \/ Unresolved
     \/ \E whole \in BOOLEAN : download.kept > 0
                               /\ ResolvedTo(Picture(worker.batch[Position], whole))
  /\ UNCHANGED <<queue, job, spoiled>>

AllResolved == worker.step = "resolve" /\ Position > Len(worker.batch)

\* The jobs of a batch are marked; results maps positions to results.
MarkJobs(results) ==
  /\ job' = [j \in Jobs |->
       IF \E i \in DOMAIN worker.batch : worker.batch[i] = j
       THEN LET i == CHOOSE i \in DOMAIN worker.batch : worker.batch[i] = j
            IN IF i \in DOMAIN results
               THEN [job[j] EXCEPT !.status = "COMPLETED", !.result = results[i]]
               ELSE [job[j] EXCEPT !.status = "FAILED"]
       ELSE job[j]]
  /\ worker' = Idle
  /\ UNCHANGED <<queue, download>>

Valid == DOMAIN worker.batch \ worker.failed

AllReadable == \A k \in DOMAIN worker.resolved : Readable(worker.resolved[k])
Runs == AllResolved /\ ~Misindexed(Valid)

RunBatch ==
  /\ Runs /\ AllReadable
  /\ LET outputs == RunModelInferenceBatch(worker.resolved)
     IN MarkJobs([i \in Valid |-> outputs[Source(Valid, i)]])
  /\ UNCHANGED spoiled

\* One picture that cannot be read fails every job of the batch.
PictureRaises ==
  /\ Runs /\ ~AllReadable
  /\ MarkJobs(<<>>)
  /\ spoiled' = spoiled \cup {{worker.batch[i] : i \in DOMAIN worker.batch}}

ModelRaises ==
  /\ Runs /\ Valid # {}
  /\ MarkJobs(<<>>)
  /\ UNCHANGED spoiled

\* IndexError outside every try: the thread dies with its batch in hand.
WorkerDies ==
  /\ AllResolved /\ Misindexed(Valid)
  /\ worker' = [Idle EXCEPT !.step = "dead"]
  /\ UNCHANGED <<queue, job, download, spoiled>>

RestartPod ==
  /\ worker.step = "dead"
  /\ worker' = Idle
  /\ UNCHANGED <<queue, job, download, spoiled>>

WorkerNext ==
  \/ CollectBatch \/ ResolveInline \/ FetchUrl \/ ReceiveChunk \/ EndBody
  \/ RunBatch \/ PictureRaises \/ ModelRaises \/ WorkerDies \/ RestartPod
===============================================================================
