---------------------------- MODULE ClassifierRequests_proofs ---------------------------
(***************************************************************************)
(* Theorems about ClassifierRequests, for any finite set of requests, any  *)
(* jobs of older releases, any batch size, size limit and sizes of pieces. *)
(***************************************************************************)
EXTENDS ClassifierRequests, BatchOutcome_proofs, UsageReport_proofs

Pictures == [of : Jobs, whole : BOOLEAN]

(***************************************************************************)
(* The shape of the records the actions change with EXCEPT.                *)
(***************************************************************************)
JobShape ==
  /\ job = [j \in Jobs |-> job[j]]
  /\ \A j \in Jobs : job[j] = [status |-> job[j].status, result |-> job[j].result,
                               payload |-> job[j].payload]

(***************************************************************************)
(* What is stored for a job that was submitted is a URL, or its own        *)
(* picture, whole: uploads are encoded at once, and that reads all of one. *)
(***************************************************************************)
Stored(j) ==
  \/ job[j].payload.kind = "url"
  \/ /\ job[j].payload.kind \in {"image_b64", "text"}
     /\ job[j].payload.data = Picture(j, TRUE)

Submitted(j) == j \in Jobs /\ job[j].status # "NONE"

JobsInv ==
  /\ JobShape
  /\ \A j \in Jobs : job[j].status # "NONE" => Stored(j)
  /\ ResultOfOwnPicture

(***************************************************************************)
(* What the worker has in hand: positions are resolved in order, and as    *)
(* long as none failed before it, the k-th picture is that of the k-th     *)
(* job.  A picture that cannot be read was downloaded.                     *)
(***************************************************************************)
Hand ==
  /\ worker = [step |-> worker.step, batch |-> worker.batch, resolved |-> worker.resolved,
               failed |-> worker.failed]
  /\ worker.batch \in Seq(Jobs)
  /\ worker.resolved \in Seq(Pictures)
  /\ IsFiniteSet(worker.failed) /\ worker.failed \subseteq 1..(Position - 1)
  /\ Position <= Len(worker.batch) + 1
  /\ \A i \in DOMAIN worker.batch : Submitted(worker.batch[i])

OwnPictures ==
  \A k \in DOMAIN worker.resolved :
    (\A f \in worker.failed : f > k) => worker.resolved[k].of = worker.batch[k]

Blamed ==
  /\ \A k \in DOMAIN worker.resolved : ~worker.resolved[k].whole =>
       \E i \in DOMAIN worker.batch : job[worker.batch[i]].payload.kind = "url"
  /\ worker.step = "download" =>
       /\ Position <= Len(worker.batch)
       /\ job[worker.batch[Position]].payload.kind = "url"
  /\ \A batch \in spoiled : \E j \in batch : Submitted(j) /\ job[j].payload.kind = "url"

(***************************************************************************)
(* A request is handled once: until then nothing is stored for it.         *)
(***************************************************************************)
HandledOnce ==
  /\ stage = [r \in Requests |-> stage[r]]
  /\ atBackend \subseteq Requests
  /\ \A r \in Requests : stage[r] = "new" => r \notin atBackend /\ job[r].status = "NONE"
  /\ \A r \in atBackend : job[r].status = "NONE"

Waiting == queue \in Seq(Jobs) /\ \A i \in DOMAIN queue : Submitted(queue[i])

RequestsInv == JobsInv /\ Waiting /\ Hand /\ OwnPictures /\ Blamed /\ HandledOnce

-------------------------------------------------------------------------------
USE ImageAssumption, RequestsAssumption DEF Picture, Submitted

LEMMA SequenceOfSet ==
  ASSUME NEW S, IsFiniteSet(S)
  PROVE  LET s == SetToSeq(S)
         IN /\ s \in Seq(S) /\ DOMAIN s = 1..Cardinality(S)
            /\ \A i, k \in DOMAIN s : s[i] = s[k] => i = k
            /\ \A e : (\E i \in DOMAIN s : s[i] = e) <=> e \in S
<1>1. PICK n \in Nat : ExistsBijection(1..n, S)
  BY FS_NatBijection
<1>2. Cardinality(S) = n
  BY <1>1, FS_CountingElements
<1>3. PICK f \in Bijection(1..n, S) : TRUE
  BY <1>1 DEF ExistsBijection
<1>4. f \in [1..Cardinality(S) -> S] /\ IsInjective(f)
  BY <1>2, <1>3 DEF Bijection, Injection, IsInjective
<1> DEFINE s == SetToSeq(S)
<1>5. s \in [1..Cardinality(S) -> S] /\ IsInjective(s)
  BY <1>4 DEF SetToSeq
<1>6. s \in Seq(S)
  BY <1>2, <1>5, SeqDef
<1>7. \A e \in S : \E i \in 1..n : s[i] = e
  <2>1. IsFiniteSet(1..n) /\ Cardinality(1..n) = n
    BY UpTo
  <2>2. s \in Injection(1..n, S)
    BY <1>2, <1>5 DEF Injection
  <2>3. s \in Surjection(1..n, S)
    BY <1>2, <2>1, <2>2, FS_Injection
  <2> QED
    BY <2>3 DEF Surjection
<1> HIDE DEF s
<1>8. \A i, k \in DOMAIN s : s[i] = s[k] => i = k
  BY <1>5 DEF IsInjective
<1>9. DOMAIN s = 1..Cardinality(S) /\ \A e : (\E i \in DOMAIN s : s[i] = e) <=> e \in S
  BY <1>2, <1>5, <1>7
<1> QED
  BY <1>6, <1>8, <1>9 DEF s

LEMMA InitInv == RequestsInit => RequestsInv
<1> SUFFICES ASSUME RequestsInit PROVE RequestsInv
  OBVIOUS
<1> USE DEF RequestsInit
<1>1. JobsInv
  BY DEF JobsInv, JobShape, Stored, ResultOfOwnPicture
<1>2. Waiting
  <2>1. queue \in Seq(Earlier)
    BY SequenceOfSet
  <2> QED
    BY <2>1, ElementOfSeq DEF Waiting
<1>3. Hand
  <2>1. IsFiniteSet({}) /\ Cardinality({}) = 0
    BY FS_EmptySet
  <2>2. /\ worker.batch = <<>> /\ worker.resolved = <<>> /\ worker.failed = {}
        /\ Position = 1
    BY <2>1 DEF Idle, Position
  <2> QED
    BY <2>1, <2>2 DEF Hand, Idle
<1>4. OwnPictures /\ Blamed
  BY DEF OwnPictures, Blamed, Idle
<1>5. HandledOnce
  BY DEF HandledOnce, UsageInit
<1> QED
  BY <1>1, <1>2, <1>3, <1>4, <1>5 DEF RequestsInv

-------------------------------------------------------------------------------
(***************************************************************************)
(* Once submitted, a job keeps its payload, so what is known of it stays.  *)
(***************************************************************************)
PayloadsKept ==
  \A j \in Jobs : Submitted(j) => Submitted(j)' /\ job'[j].payload = job[j].payload

LEMMA CollectInv ==
  ASSUME RequestsInv, CollectBatch, UNCHANGED <<usageVars, atBackend>>
  PROVE  RequestsInv'
<1> USE DEF RequestsInv
<1>1. PICK n \in 1..BatchSize :
        /\ n <= Len(queue)
        /\ worker' = [Idle EXCEPT !.step = "resolve", !.batch = SubSeq(queue, 1, n)]
        /\ queue' = SubSeq(queue, n + 1, Len(queue))
        /\ job' = [j \in Jobs |-> IF \E i \in 1..n : queue[i] = j
                                  THEN [job[j] EXCEPT !.status = "PROCESSING"] ELSE job[j]]
  BY DEF CollectBatch
<1>2. queue \in Seq(Jobs) /\ n \in Nat /\ Len(queue) \in Nat
  BY DEF Waiting
<1>3. /\ \A j \in Jobs : /\ job'[j].payload = job[j].payload
                         /\ job'[j].result = job[j].result
                         /\ job'[j].status \in {"PROCESSING", job[j].status}
                         /\ job[j].status = "NONE" => job'[j].status = "NONE"
      /\ JobShape'
  <2>1. ASSUME NEW j \in Jobs
        PROVE  /\ job'[j] = IF \E i \in 1..n : queue[i] = j
                            THEN [status |-> "PROCESSING", result |-> job[j].result,
                                  payload |-> job[j].payload]
                            ELSE job[j]
               /\ job[j] = [status |-> job[j].status, result |-> job[j].result,
                            payload |-> job[j].payload]
    BY <1>1 DEF JobsInv, JobShape
  <2>2. \A j \in Jobs : (\E i \in 1..n : queue[i] = j) => job[j].status # "NONE"
    BY <1>1, <1>2 DEF Waiting
  <2>3. job' = [j \in Jobs |-> job'[j]]
    BY <1>1
  <2>4. ASSUME NEW j \in Jobs
        PROVE  /\ job'[j].payload = job[j].payload
               /\ job'[j].result = job[j].result
               /\ job'[j].status \in {"PROCESSING", job[j].status}
               /\ job[j].status = "NONE" => job'[j].status = "NONE"
               /\ job'[j] = [status |-> job'[j].status, result |-> job'[j].result,
                             payload |-> job'[j].payload]
    <3>1. CASE \E i \in 1..n : queue[i] = j
      <4>1. job'[j] = [status |-> "PROCESSING", result |-> job[j].result,
                       payload |-> job[j].payload]
        BY <2>1, <3>1
      <4> QED
        BY <4>1, <2>2, <3>1
    <3>2. CASE ~\E i \in 1..n : queue[i] = j
      <4>1. job'[j] = job[j]
        BY <2>1, <3>2
      <4> QED
        BY <4>1, <2>1
    <3> QED
      BY <3>1, <3>2
  <2> QED
    BY <2>3, <2>4 DEF JobShape
<1>4. JobsInv'
  BY <1>3 DEF JobsInv, Stored, ResultOfOwnPicture
<1>5. Waiting'
  <2>1. /\ queue' \in Seq(Jobs)
        /\ \A i \in DOMAIN queue' : queue'[i] = queue[i + n] /\ i + n \in DOMAIN queue
    BY <1>1, <1>2, SubSeqProperties
  <2> QED
    BY <2>1, <1>3 DEF Waiting
<1>6. worker' = [step |-> "resolve", batch |-> SubSeq(queue, 1, n), resolved |-> <<>>,
                 failed |-> {}]
  BY <1>1 DEF Idle
<1>7. /\ worker'.batch \in Seq(Jobs) /\ Len(worker'.batch) \in Nat
      /\ \A i \in DOMAIN worker'.batch : worker'.batch[i] = queue[i] /\ i \in DOMAIN queue
  BY <1>2, <1>6, <1>1, SubSeqProperties
<1>8. Hand'
  <2>1. IsFiniteSet({}) /\ Cardinality({}) = 0
    BY FS_EmptySet
  <2>2. Position' = 1
    BY <2>1, <1>6 DEF Position
  <2>3. worker'.resolved \in Seq(Pictures) /\ worker'.failed = {}
    BY <1>6
  <2>4. \A i \in DOMAIN worker'.batch : Submitted(worker.batch[i])'
    BY <1>3, <1>7 DEF Waiting
  <2>5. Position' <= Len(worker'.batch) + 1
    BY <2>2, <1>7
  <2>6. worker' = [step |-> worker'.step, batch |-> worker'.batch,
                   resolved |-> worker'.resolved, failed |-> worker'.failed]
    BY <1>6
  <2> QED
    BY <2>1, <2>3, <2>4, <2>5, <2>6, <1>7 DEF Hand
<1>9. OwnPictures'
  BY <1>6 DEF OwnPictures
<1>10. Blamed'
  <2>1. spoiled' = spoiled
    BY DEF CollectBatch
  <2> QED
    BY <2>1, <1>3, <1>6 DEF Blamed
<1>11. HandledOnce'
  BY <1>3 DEF HandledOnce, usageVars
<1> QED
  BY <1>4, <1>5, <1>8, <1>9, <1>10, <1>11

-------------------------------------------------------------------------------
(***************************************************************************)
(* The payload loop.  A step that leaves queue and jobs alone disturbs     *)
(* only what is known of the worker.                                       *)
(***************************************************************************)
LEMMA PositionType ==
  ASSUME Hand
  PROVE  /\ Cardinality(worker.failed) \in Nat /\ Len(worker.resolved) \in Nat
         /\ Position = Len(worker.resolved) + Cardinality(worker.failed) + 1
         /\ Position \in Nat \ {0}
         /\ Len(worker.batch) \in Nat /\ DOMAIN worker.batch = 1..Len(worker.batch)
         /\ DOMAIN worker.resolved = 1..Len(worker.resolved)
<1>1. Cardinality(worker.failed) \in Nat
  BY FS_CardinalityType DEF Hand
<1>2. Len(worker.resolved) \in Nat
  BY LenProperties DEF Hand
<1>3. Len(worker.batch) \in Nat
  BY LenProperties DEF Hand
<1> QED
  BY <1>1, <1>2, <1>3, LenProperties DEF Hand, Position

Elsewhere == UNCHANGED <<queue, job, spoiled, usageVars, atBackend>>

LEMMA ElsewhereKept ==
  ASSUME RequestsInv, Elsewhere
  PROVE  JobsInv' /\ Waiting' /\ HandledOnce'
<1> USE DEF RequestsInv, Elsewhere
<1>1. JobsInv'
  BY DEF JobsInv, JobShape, Stored, ResultOfOwnPicture
<1>2. Waiting'
  BY DEF Waiting
<1>3. HandledOnce'
  BY DEF HandledOnce, usageVars
<1> QED
  BY <1>1, <1>2, <1>3

(***************************************************************************)
(* If none failed before the next picture, none failed at all.             *)
(***************************************************************************)
LEMMA NextIsNext ==
  ASSUME Hand, \A f \in worker.failed : f > Len(worker.resolved) + 1
  PROVE  Position = Len(worker.resolved) + 1
<1> DEFINE m == Len(worker.resolved)
           c == Cardinality(worker.failed)
<1>1. m \in Nat /\ c \in Nat /\ Position = m + c + 1
  BY PositionType
<1>2. worker.failed \subseteq (m + 2)..(m + c)
  BY <1>1 DEF Hand
<1>3. /\ IsFiniteSet((m + 2)..(m + c))
      /\ Cardinality((m + 2)..(m + c)) = IF m + 2 > m + c THEN 0 ELSE (m + c) - (m + 2) + 1
  <2>1. m + 2 \in Int /\ m + c \in Int
    BY <1>1
  <2> QED
    BY <2>1, FS_Interval
<1>4. c <= Cardinality((m + 2)..(m + c))
  BY <1>2, <1>3, FS_Subset
<1> QED
  BY <1>1, <1>3, <1>4

LEMMA ResolvedInv ==
  ASSUME RequestsInv, Elsewhere, Position <= Len(worker.batch),
         NEW image \in Pictures, ResolvedTo(image),
         image.of = worker.batch[Position],
         ~image.whole => job[worker.batch[Position]].payload.kind = "url"
  PROVE  RequestsInv'
<1> USE DEF RequestsInv
<1>1. JobsInv' /\ Waiting' /\ HandledOnce'
  BY ElsewhereKept
<1>2. /\ worker' = [step |-> "resolve", batch |-> worker.batch,
                    resolved |-> Append(worker.resolved, image), failed |-> worker.failed]
      /\ job' = job /\ spoiled' = spoiled
  BY DEF ResolvedTo, Hand, Elsewhere
<1> DEFINE m == Len(worker.resolved)
<1>3. /\ worker'.resolved \in Seq(Pictures) /\ Len(worker'.resolved) = m + 1
      /\ \A k \in 1..m : worker'.resolved[k] = worker.resolved[k]
      /\ worker'.resolved[m + 1] = image
  BY <1>2, AppendProperties DEF Hand
<1>4. /\ m \in Nat /\ Cardinality(worker.failed) \in Nat /\ Position' = Position + 1
      /\ Position = m + Cardinality(worker.failed) + 1 /\ Len(worker.batch) \in Nat
      /\ DOMAIN worker.batch = 1..Len(worker.batch)
      /\ DOMAIN worker.resolved = 1..m /\ DOMAIN worker'.resolved = 1..(m + 1)
  BY <1>2, <1>3, PositionType, LenProperties DEF Position
<1>5. Hand'
  <2>1. /\ worker' = [step |-> worker'.step, batch |-> worker'.batch,
                      resolved |-> worker'.resolved, failed |-> worker'.failed]
        /\ worker'.batch \in Seq(Jobs) /\ IsFiniteSet(worker'.failed)
        /\ (\A i \in DOMAIN worker.batch : Submitted(worker.batch[i]))'
    BY <1>2 DEF Hand
  <2>2. worker'.failed \subseteq 1..(Position' - 1) /\ Position' <= Len(worker'.batch) + 1
    BY <1>2, <1>4 DEF Hand
  <2> QED
    BY <2>1, <2>2, <1>3 DEF Hand
<1>6. OwnPictures'
  <2> SUFFICES ASSUME NEW k \in 1..(m + 1), \A f \in worker.failed : f > k
               PROVE  worker'.resolved[k].of = worker.batch[k]
    BY <1>2, <1>4 DEF OwnPictures
  <2>1. CASE k = m + 1
    BY <2>1, <1>3, NextIsNext
  <2>2. CASE k \in 1..m
    BY <2>2, <1>3, <1>4 DEF OwnPictures
  <2> QED
    BY <2>1, <2>2, <1>4
<1>7. Blamed'
  <2>1. ASSUME NEW k \in 1..(m + 1), ~worker'.resolved[k].whole
        PROVE  \E i \in DOMAIN worker.batch : job[worker.batch[i]].payload.kind = "url"
    <3>1. CASE k = m + 1
      BY <2>1, <3>1, <1>3, <1>4
    <3>2. CASE k \in 1..m
      BY <2>1, <3>2, <1>3, <1>4 DEF Blamed
    <3> QED
      BY <3>1, <3>2, <1>4
  <2> QED
    BY <2>1, <1>2, <1>4 DEF Blamed
<1> QED
  BY <1>1, <1>5, <1>6, <1>7

LEMMA UnresolvedInv ==
  ASSUME RequestsInv, Elsewhere, Position <= Len(worker.batch), Unresolved
  PROVE  RequestsInv'
<1> USE DEF RequestsInv
<1>1. JobsInv' /\ Waiting' /\ HandledOnce'
  BY ElsewhereKept
<1>2. /\ worker' = [step |-> "resolve", batch |-> worker.batch,
                    resolved |-> worker.resolved, failed |-> worker.failed \cup {Position}]
      /\ job' = job /\ spoiled' = spoiled
  BY DEF Unresolved, Hand, Elsewhere
<1>3. /\ IsFiniteSet(worker'.failed)
      /\ Cardinality(worker'.failed) = Cardinality(worker.failed) + 1
  <2>1. Position \notin worker.failed
    BY PositionType DEF Hand
  <2> QED
    BY <2>1, <1>2, FS_AddElement DEF Hand
<1>4. Position' = Position + 1 /\ Position \in Nat \ {0} /\ Len(worker.batch) \in Nat
  <2>1. /\ Cardinality(worker.failed) \in Nat /\ Len(worker.resolved) \in Nat
        /\ Position = Len(worker.resolved) + Cardinality(worker.failed) + 1
        /\ Len(worker.batch) \in Nat
    BY PositionType
  <2>2. Position' = Len(worker'.resolved) + Cardinality(worker'.failed) + 1
    BY DEF Position
  <2> QED
    BY <2>1, <2>2, <1>2, <1>3
<1>5. Hand'
  BY <1>2, <1>3, <1>4 DEF Hand
<1>6. OwnPictures' /\ Blamed'
  BY <1>2 DEF OwnPictures, Blamed
<1> QED
  BY <1>1, <1>5, <1>6

\* The payload at the next position, and what it resolves to.
LEMMA NextPayload ==
  ASSUME RequestsInv, Position <= Len(worker.batch)
  PROVE  /\ worker.batch[Position] \in Jobs
         /\ Stored(worker.batch[Position])
         /\ Payload.kind \in {"image_b64", "legacy_image_b64"} =>
              Payload.data = Picture(worker.batch[Position], TRUE)
         /\ Payload.kind = "url" => job[worker.batch[Position]].payload.kind = "url"
<1>1. Position \in DOMAIN worker.batch
  BY PositionType DEF RequestsInv
<1>2. Submitted(worker.batch[Position])
  BY <1>1 DEF RequestsInv, Hand
<1>3. Stored(worker.batch[Position])
  BY <1>2 DEF RequestsInv, JobsInv
<1> QED
  BY <1>2, <1>3 DEF Stored, Payload, DecodePayloadKind

LEMMA ResolveInv ==
  ASSUME RequestsInv, UNCHANGED <<usageVars, atBackend>>,
         ResolveInline \/ FetchUrl \/ ReceiveChunk \/ EndBody
  PROVE  RequestsInv'
<1>1. Elsewhere
  BY DEF Elsewhere, ResolveInline, FetchUrl, ReceiveChunk, EndBody
<1>2. worker.step = "download" => Position <= Len(worker.batch)
  BY DEF RequestsInv, Blamed
<1>3. CASE ResolveInline
  <2>1. Position <= Len(worker.batch) /\ ResolvedTo(Payload.data)
    BY <1>3 DEF ResolveInline, Resolving
  <2>2. Payload.data = Picture(worker.batch[Position], TRUE) /\ worker.batch[Position] \in Jobs
    BY <2>1, <1>3, NextPayload DEF ResolveInline
  <2> QED
    BY <2>1, <2>2, <1>1, ResolvedInv DEF Pictures
<1>4. CASE FetchUrl
  <2>1. Position <= Len(worker.batch) /\ Payload.kind = "url"
    BY <1>4 DEF FetchUrl, Resolving
  <2>2. CASE Unresolved
    BY <2>1, <2>2, <1>1, UnresolvedInv
  <2>3. CASE worker' = [worker EXCEPT !.step = "download"]
    <3>1. worker' = [step |-> "download", batch |-> worker.batch,
                     resolved |-> worker.resolved, failed |-> worker.failed]
      BY <2>3 DEF RequestsInv, Hand
    <3>2. Position' = Position /\ job' = job /\ spoiled' = spoiled
      BY <3>1, <1>1 DEF Position, Elsewhere
    <3>3. Hand' /\ OwnPictures'
      BY <3>1, <3>2 DEF Hand, OwnPictures, RequestsInv
    <3>4. Blamed'
      BY <3>1, <3>2, <2>1, NextPayload DEF Blamed, RequestsInv
    <3> QED
      BY <3>3, <3>4, <1>1, ElsewhereKept DEF RequestsInv
  <2> QED
    BY <2>2, <2>3, <1>4 DEF FetchUrl
<1>5. CASE ReceiveChunk
  <2>1. CASE Unresolved
    BY <2>1, <1>1, <1>2, <1>5, UnresolvedInv DEF ReceiveChunk
  <2>2. CASE worker' = worker
    <3>1. Position' = Position /\ job' = job /\ spoiled' = spoiled
      BY <2>2, <1>1 DEF Position, Elsewhere
    <3>2. Hand' /\ OwnPictures' /\ Blamed'
      BY <2>2, <3>1 DEF Hand, OwnPictures, Blamed, RequestsInv
    <3> QED
      BY <3>2, <1>1, ElsewhereKept DEF RequestsInv
  <2> QED
    BY <2>1, <2>2, <1>5 DEF ReceiveChunk
<1>6. CASE EndBody
  <2>1. Position <= Len(worker.batch)
    BY <1>2, <1>6 DEF EndBody
  <2>2. CASE Unresolved
    BY <2>1, <2>2, <1>1, UnresolvedInv
  <2>3. CASE \E whole \in BOOLEAN : ResolvedTo(Picture(worker.batch[Position], whole))
    <3>1. PICK whole \in BOOLEAN : ResolvedTo(Picture(worker.batch[Position], whole))
      BY <2>3
    <3>2. job[worker.batch[Position]].payload.kind = "url"
      BY <1>6 DEF EndBody, RequestsInv, Blamed
    <3>3. worker.batch[Position] \in Jobs
      BY <2>1, NextPayload
    <3> QED
      BY <2>1, <3>1, <3>2, <3>3, <1>1, ResolvedInv DEF Pictures
  <2> QED
    BY <2>2, <2>3, <1>6 DEF EndBody
<1> QED
  BY <1>3, <1>4, <1>5, <1>6

-------------------------------------------------------------------------------
(***************************************************************************)
(* The ends of a batch.  MarkJobs keeps everything but the statuses and    *)
(* results of the jobs in hand.                                            *)
(***************************************************************************)
LEMMA IdleInv ==
  ASSUME RequestsInv, worker' = Idle, JobsInv', PayloadsKept,
         UNCHANGED <<queue, usageVars, atBackend>>,
         \A j \in Jobs : job[j].status = "NONE" => job'[j].status = "NONE",
         \A batch \in spoiled' : \E j \in batch : Submitted(j) /\ job[j].payload.kind = "url"
  PROVE  RequestsInv'
<1>1. Waiting'
  BY DEF RequestsInv, Waiting, PayloadsKept
<1>2. Hand'
  <2>1. IsFiniteSet({}) /\ Cardinality({}) = 0
    BY FS_EmptySet
  <2>2. Position' = 1
    BY <2>1 DEF Position, Idle
  <2> QED
    BY <2>1, <2>2 DEF Hand, Idle
<1>3. OwnPictures' /\ Blamed'
  BY DEF OwnPictures, Blamed, Idle, PayloadsKept
<1>4. HandledOnce'
  BY DEF RequestsInv, HandledOnce, usageVars
<1> QED
  BY <1>1, <1>2, <1>3, <1>4 DEF RequestsInv

LEMMA MarkInv ==
  ASSUME RequestsInv, NEW results, MarkJobs(results),
         \A i \in DOMAIN worker.batch : i \in DOMAIN results =>
           results[i] = ClassifyLogits(Logits[worker.batch[i]])
  PROVE  /\ JobsInv' /\ PayloadsKept
         /\ \A j \in Jobs : job[j].status = "NONE" => job'[j].status = "NONE"
<1> DEFINE InBatch(j) == \E i \in DOMAIN worker.batch : worker.batch[i] = j
<1>1. job' = [j \in Jobs |-> job'[j]]
  BY DEF MarkJobs
<1>2. ASSUME NEW j \in Jobs
      PROVE  /\ job'[j] = [status |-> job'[j].status, result |-> job'[j].result,
                           payload |-> job'[j].payload]
             /\ job'[j].payload = job[j].payload
             /\ job[j].status = "NONE" <=> job'[j].status = "NONE"
             /\ job'[j].status = "COMPLETED" => job'[j].result = ClassifyLogits(Logits[j])
  <2>1. job[j] = [status |-> job[j].status, result |-> job[j].result,
                  payload |-> job[j].payload]
    BY DEF RequestsInv, JobsInv, JobShape
  <2>2. CASE InBatch(j)
    <3> DEFINE i == CHOOSE i \in DOMAIN worker.batch : worker.batch[i] = j
    <3>1. i \in DOMAIN worker.batch /\ worker.batch[i] = j
      BY <2>2
    <3>2. job[j].status # "NONE"
      BY <3>1 DEF RequestsInv, Hand
    <3>3. job'[j] = IF i \in DOMAIN results
                    THEN [job[j] EXCEPT !.status = "COMPLETED", !.result = results[i]]
                    ELSE [job[j] EXCEPT !.status = "FAILED"]
      BY <2>2 DEF MarkJobs
    <3> HIDE DEF i
    <3>4. CASE i \in DOMAIN results
      <4>1. job'[j] = [status |-> "COMPLETED", result |-> ClassifyLogits(Logits[j]),
                       payload |-> job[j].payload]
        BY <2>1, <3>1, <3>3, <3>4
      <4> QED
        BY <4>1, <3>2
    <3>5. CASE i \notin DOMAIN results
      <4>1. job'[j] = [status |-> "FAILED", result |-> job[j].result,
                       payload |-> job[j].payload]
        BY <2>1, <3>3, <3>5
      <4> QED
        BY <4>1, <3>2
    <3> QED
      BY <3>4, <3>5
  <2>3. CASE ~InBatch(j)
    <3>1. job'[j] = job[j]
      BY <2>3 DEF MarkJobs
    <3> QED
      BY <3>1, <2>1 DEF RequestsInv, JobsInv, ResultOfOwnPicture
  <2> QED
    BY <2>2, <2>3
<1>3. PayloadsKept
  BY <1>2 DEF PayloadsKept
<1>4. JobsInv'
  BY <1>1, <1>2 DEF RequestsInv, JobsInv, JobShape, Stored, ResultOfOwnPicture
<1> QED
  BY <1>2, <1>3, <1>4

(***************************************************************************)
(* Without an IndexError, position i of the batch gets the output computed *)
(* from the picture of its own job.                                        *)
(***************************************************************************)
LEMMA OutputsAreOwn ==
  ASSUME RequestsInv, Runs, AllReadable, NEW i \in Valid
  PROVE  RunModelInferenceBatch(worker.resolved)[Source(Valid, i)]
           = ClassifyLogits(Logits[worker.batch[i]])
<1> DEFINE n == Len(worker.batch)
           m == Len(worker.resolved)
           c == Cardinality(Valid)
<1>1. /\ n \in Nat /\ DOMAIN worker.batch = 1..n
      /\ m \in Nat /\ DOMAIN worker.resolved = 1..m
      /\ Cardinality(worker.failed) \in Nat
      /\ m + Cardinality(worker.failed) = n
      /\ worker.failed \subseteq 1..n
  BY PositionType DEF RequestsInv, Hand, Runs, AllResolved
<1>2. Valid \in SUBSET (1..n) /\ ~Misindexed(Valid) /\ i \in 1..n
  BY <1>1 DEF Valid, Runs
<1>3. Valid = 1..c /\ c \in Nat /\ IsFiniteSet(Valid)
  BY <1>1, <1>2, ValidPrefix
<1>4. c = m
  <2>1. IsFiniteSet(1..n) /\ Cardinality(1..n) = n
    <3> HIDE DEF n
    <3> QED
      BY <1>1, UpTo
  <2>2. Cardinality(Valid) = Cardinality(1..n) - Cardinality((1..n) \cap worker.failed)
    BY <2>1, <1>1, FS_Difference DEF Valid, RequestsInv, Hand
  <2>3. (1..n) \cap worker.failed = worker.failed
    BY <1>1
  <2>4. Cardinality((1..n) \cap worker.failed) = Cardinality(worker.failed)
    BY <2>3
  <2>5. c = n - Cardinality(worker.failed)
    BY <2>1, <2>2, <2>4
  <2> HIDE DEF c, n, m
  <2> QED
    BY <2>5, <1>1
<1>5. Source(Valid, i) = i /\ i \in 1..m
  BY <1>1, <1>2, <1>3, <1>4, SourceIsOwnPosition
<1>6. worker.resolved[i].of = worker.batch[i]
  <2>1. \A f \in worker.failed : f \in 1..n /\ f \notin Valid
    BY <1>1 DEF Valid
  <2>2. \A f \in worker.failed : f > i
    BY <2>1, <1>2, <1>3
  <2> QED
    BY <2>2, <1>1, <1>5 DEF RequestsInv, OwnPictures
<1>7. worker.resolved[i].whole
  BY <1>1, <1>5 DEF AllReadable, Readable
<1> QED
  BY <1>1, <1>5, <1>6, <1>7 DEF RunModelInferenceBatch

LEMMA EndInv ==
  ASSUME RequestsInv, UNCHANGED <<usageVars, atBackend>>,
         RunBatch \/ PictureRaises \/ ModelRaises \/ WorkerDies \/ RestartPod
  PROVE  RequestsInv'
<1>1. CASE RunBatch
  <2> DEFINE outputs == RunModelInferenceBatch(worker.resolved)
             results == [i \in Valid |-> outputs[Source(Valid, i)]]
  <2>1. MarkJobs(results) /\ Runs /\ AllReadable /\ UNCHANGED spoiled
    BY <1>1 DEF RunBatch
  <2>2. \A i \in DOMAIN worker.batch : i \in DOMAIN results =>
          results[i] = ClassifyLogits(Logits[worker.batch[i]])
    BY <2>1, OutputsAreOwn
  <2> HIDE DEF results
  <2>3. worker' = Idle /\ UNCHANGED queue
    BY <2>1 DEF MarkJobs
  <2> QED
    BY <2>1, <2>2, <2>3, MarkInv, IdleInv DEF RequestsInv, Blamed
<1>2. CASE PictureRaises
  <2>1. MarkJobs(<<>>) /\ worker' = Idle /\ UNCHANGED queue
    BY <1>2 DEF PictureRaises, MarkJobs
  <2>2. \A batch \in spoiled' : \E j \in batch : Submitted(j) /\ job[j].payload.kind = "url"
    <3>1. PICK k \in DOMAIN worker.resolved : ~worker.resolved[k].whole
      BY <1>2 DEF PictureRaises, AllReadable, Readable
    <3>2. PICK i \in DOMAIN worker.batch : job[worker.batch[i]].payload.kind = "url"
      BY <3>1 DEF RequestsInv, Blamed
    <3>3. Submitted(worker.batch[i])
      BY DEF RequestsInv, Hand
    <3> QED
      BY <1>2, <3>2, <3>3 DEF PictureRaises, RequestsInv, Blamed
  <2>3. DOMAIN <<>> = {}
    OBVIOUS
  <2> QED
    BY <2>1, <2>2, <2>3, MarkInv, IdleInv
<1>3. CASE ModelRaises
  <2>1. MarkJobs(<<>>) /\ worker' = Idle /\ UNCHANGED <<queue, spoiled>>
    BY <1>3 DEF ModelRaises, MarkJobs
  <2>2. DOMAIN <<>> = {}
    OBVIOUS
  <2> QED
    BY <2>1, <2>2, MarkInv, IdleInv DEF RequestsInv, Blamed
<1>4. CASE RestartPod
  <2>1. worker' = Idle /\ UNCHANGED <<queue, job, spoiled>>
    BY <1>4 DEF RestartPod
  <2>2. PayloadsKept /\ JobsInv'
    BY <2>1 DEF PayloadsKept, RequestsInv, JobsInv, JobShape, Stored, ResultOfOwnPicture
  <2> QED
    BY <2>1, <2>2, IdleInv DEF RequestsInv, Blamed
<1>5. CASE WorkerDies
  <2>1. /\ worker' = [step |-> "dead", batch |-> <<>>, resolved |-> <<>>, failed |-> {}]
        /\ Elsewhere
    BY <1>5 DEF WorkerDies, Idle, Elsewhere
  <2>2. Hand'
    <3>1. IsFiniteSet({}) /\ Cardinality({}) = 0
      BY FS_EmptySet
    <3>2. Position' = 1
      BY <3>1, <2>1 DEF Position
    <3> QED
      BY <3>1, <3>2, <2>1 DEF Hand
  <2>3. OwnPictures' /\ Blamed'
    BY <2>1 DEF OwnPictures, Blamed, RequestsInv, Elsewhere
  <2> QED
    BY <2>1, <2>2, <2>3, ElsewhereKept DEF RequestsInv
<1> QED
  BY <1>1, <1>2, <1>3, <1>4, <1>5

-------------------------------------------------------------------------------
(***************************************************************************)
(* The gateway: no request becomes new again.                              *)
(***************************************************************************)
StageMoves ==
  /\ stage' = [r \in Requests |-> stage'[r]]
  /\ \A r \in Requests : stage'[r] = "new" => stage[r] = "new"

LEMMA AnswerMoves ==
  ASSUME HandledOnce, NEW r \in Requests, NEW status, Answer(r, status)
  PROVE  StageMoves
BY DEF Answer, HandledOnce, StageMoves

LEMMA GatewayMoves ==
  ASSUME HandledOnce, GatewayNext
  PROVE  StageMoves
<1>1. CASE \E r \in Requests : Refuse(r) \/ Timeout(r)
  BY <1>1, AnswerMoves DEF Refuse, Timeout
<1>2. CASE \E r \in Requests : Proxy(r) \/ RecordUsage(r)
  BY <1>2 DEF Proxy, RecordUsage, HandledOnce, StageMoves
<1>3. CASE GatewayRestarts
  BY <1>3 DEF GatewayRestarts, HandledOnce, StageMoves
<1>4. CASE DatabaseChanges \/ Tick
  BY <1>4 DEF DatabaseChanges, Tick, HandledOnce, StageMoves
<1> QED
  BY <1>1, <1>2, <1>3, <1>4 DEF GatewayNext

\* What an inference request stores, if it stores anything.
LEMMA StoredPayload ==
  ASSUME NEW r, NEW payload, payload \notin {None, Raised},
         payload = InferencePayload(Image(r), ask[r].url) \/ payload = None
  PROVE  \/ payload.kind = "url"
         \/ payload.kind = "image_b64" /\ payload.data = Picture(r, TRUE)
<1> DEFINE image == Image(r)
           url == ask[r].url
<1>1. payload = InferencePayload(image, url)
  OBVIOUS
<1>2. CASE url # None /\ image = None
  BY <1>1, <1>2 DEF InferencePayload, EncodeUrlPayload
<1>3. CASE url = None /\ image # None
  <2>1. payload = SerializeInferenceInput(image)
    BY <1>1, <1>3 DEF InferencePayload
  <2>2. image = Picture(r, ask[r].image = "whole")
    BY <1>3 DEF Image
  <2>3. image = [of |-> r, whole |-> image.whole]
    BY <2>2
  <2>4. image.whole
    BY <2>1 DEF SerializeInferenceInput
  <2>5. image.whole = TRUE
    BY <2>2, <2>4
  <2> QED
    BY <2>1, <2>3, <2>4, <2>5 DEF SerializeInferenceInput, EncodeImagePayload
<1>4. CASE (url = None /\ image = None) \/ (url # None /\ image # None)
  BY <1>1, <1>4 DEF InferencePayload
<1> QED
  BY <1>2, <1>3, <1>4

LEMMA HandleInv ==
  ASSUME RequestsInv, NEW r \in Requests, Handle(r)
  PROVE  RequestsInv'
<1> USE DEF RequestsInv
<1> DEFINE payload == IF ask[r].path = InferencePath
                      THEN InferencePayload(Image(r), ask[r].url) ELSE None
<1>1. /\ r \in atBackend /\ atBackend' = atBackend \ {r} /\ r \in Jobs
      /\ worker' = worker /\ spoiled' = spoiled
      /\ IF payload \in {None, Raised} THEN UNCHANGED <<job, queue>> ELSE Enqueue(r, payload)
  BY DEF Handle
<1>2. job[r].status = "NONE"
  BY <1>1 DEF HandledOnce
<1>3. StageMoves
  <2>1. CASE stage[r] = "proxied"
    BY <2>1, AnswerMoves DEF Handle, Backend
  <2>2. CASE stage[r] # "proxied"
    BY <2>2 DEF Handle, usageVars, StageMoves, HandledOnce
  <2> QED
    BY <2>1, <2>2
<1>4. CASE payload \in {None, Raised}
  <2>1. UNCHANGED <<job, queue>>
    BY <1>1, <1>4
  <2>2. JobsInv' /\ Waiting'
    BY <2>1 DEF JobsInv, JobShape, Stored, ResultOfOwnPicture, Waiting
  <2>3. Position' = Position
    BY <1>1 DEF Position
  <2>4. Hand' /\ OwnPictures' /\ Blamed'
    BY <2>1, <2>3, <1>1 DEF Hand, OwnPictures, Blamed
  <2>5. HandledOnce'
    BY <2>1, <1>1, <1>3 DEF HandledOnce, StageMoves
  <2> QED
    BY <2>2, <2>4, <2>5
<1>5. CASE payload \notin {None, Raised}
  <2>1. /\ job' = [job EXCEPT ![r] = [status |-> "PENDING", payload |-> payload,
                                       result |-> None]]
        /\ queue' = Append(queue, r)
    BY <1>1, <1>5 DEF Enqueue
  <2>2. \/ payload.kind = "url"
        \/ payload.kind = "image_b64" /\ payload.data = Picture(r, TRUE)
    BY <1>5, StoredPayload
  <2> HIDE DEF payload
  <2>3. /\ job' = [j \in Jobs |-> job'[j]]
        /\ job'[r] = [status |-> "PENDING", payload |-> payload, result |-> None]
        /\ \A j \in Jobs \ {r} : job'[j] = job[j]
    BY <2>1, <1>1 DEF JobsInv, JobShape
  <2>4. Submitted(r)' /\ \A j \in Jobs : Submitted(j) => j # r
    BY <2>3, <1>1, <1>2
  <2>5. JobsInv'
    <3>1. JobShape'
      BY <2>3 DEF JobsInv, JobShape
    <3>2. ASSUME NEW j \in Jobs
          PROVE  /\ job'[j].status # "NONE" => Stored(j)'
                 /\ job'[j].status = "COMPLETED" =>
                      job'[j].result = ClassifyLogits(Logits[j])
      <4>1. CASE j = r
        BY <4>1, <2>2, <2>3 DEF Stored
      <4>2. CASE j # r
        BY <4>2, <2>3 DEF JobsInv, Stored, ResultOfOwnPicture
      <4> QED
        BY <4>1, <4>2
    <3> QED
      BY <3>1, <3>2 DEF JobsInv, ResultOfOwnPicture
  <2>6. Waiting'
    <3>1. /\ queue' \in Seq(Jobs) /\ Len(queue') = Len(queue) + 1 /\ Len(queue) \in Nat
          /\ \A i \in 1..Len(queue) : queue'[i] = queue[i]
          /\ queue'[Len(queue) + 1] = r
          /\ DOMAIN queue = 1..Len(queue) /\ DOMAIN queue' = 1..Len(queue')
      BY <2>1, <1>1, AppendProperties, LenProperties DEF Waiting
    <3>2. ASSUME NEW i \in 1..(Len(queue) + 1)
          PROVE  queue'[i] \in Jobs /\ job'[queue'[i]].status # "NONE"
      <4>1. CASE i = Len(queue) + 1
        BY <4>1, <3>1, <2>4
      <4>2. CASE i \in 1..Len(queue)
        BY <4>2, <3>1, <2>3, <2>4 DEF Waiting
      <4> QED
        BY <4>1, <4>2, <3>1
    <3> QED
      BY <3>1, <3>2 DEF Waiting
  <2>7. \A i \in DOMAIN worker.batch :
          Submitted(worker.batch[i]) /\ job'[worker.batch[i]] = job[worker.batch[i]]
    BY <2>3, <2>4 DEF Hand
  <2>8. Position' = Position
    BY <1>1 DEF Position
  <2>9. Hand' /\ OwnPictures'
    BY <1>1, <2>7, <2>8 DEF Hand, OwnPictures
  <2>10. Blamed'
    <3>1. worker.step = "download" => Position \in DOMAIN worker.batch
      BY PositionType DEF Blamed
    <3>2. \A batch \in spoiled : \E j \in batch :
            (Submitted(j) /\ job[j].payload.kind = "url")'
      BY <2>3, <2>4 DEF Blamed
    <3> QED
      BY <3>1, <3>2, <1>1, <2>7, <2>8 DEF Blamed
  <2>11. HandledOnce'
    BY <1>1, <1>3, <2>3 DEF HandledOnce, StageMoves
  <2> QED
    BY <2>5, <2>6, <2>9, <2>10, <2>11
<1> QED
  BY <1>4, <1>5

LEMMA GatewayInv ==
  ASSUME RequestsInv, GatewayStep
  PROVE  RequestsInv'
<1> USE DEF RequestsInv
<1>1. UNCHANGED imageVars /\ StageMoves
  BY GatewayMoves DEF GatewayStep
<1>2. JobsInv' /\ Waiting'
  BY <1>1 DEF imageVars, JobsInv, JobShape, Stored, ResultOfOwnPicture, Waiting
<1>3. Hand' /\ OwnPictures' /\ Blamed'
  <2>1. worker' = worker /\ job' = job /\ spoiled' = spoiled
    BY <1>1 DEF imageVars
  <2>2. Position' = Position
    BY <2>1 DEF Position
  <2> QED
    BY <2>1, <2>2 DEF Hand, OwnPictures, Blamed
<1>4. HandledOnce'
  <2>1. atBackend' = atBackend \cup {r \in Requests : stage[r] = "new" /\ stage'[r] = "proxied"}
    BY DEF GatewayStep
  <2> QED
    BY <2>1, <1>1 DEF imageVars, HandledOnce, StageMoves
<1> QED
  BY <1>2, <1>3, <1>4

LEMMA StepInv == RequestsInv /\ [RequestsNext]_requestVars => RequestsInv'
<1> SUFFICES ASSUME RequestsInv, [RequestsNext]_requestVars
             PROVE  RequestsInv'
  OBVIOUS
<1>1. CASE \E r \in Requests : Handle(r)
  BY <1>1, HandleInv
<1>2. CASE GatewayStep
  BY <1>2, GatewayInv
<1>3. CASE WorkerStep
  BY <1>3, CollectInv, ResolveInv, EndInv DEF WorkerStep, WorkerNext
<1>4. CASE UNCHANGED requestVars
  <2>1. Elsewhere /\ worker' = worker /\ job' = job /\ spoiled' = spoiled
    BY <1>4 DEF requestVars, imageVars, Elsewhere
  <2>2. Position' = Position
    BY <2>1 DEF Position
  <2>3. Hand' /\ OwnPictures' /\ Blamed'
    BY <2>1, <2>2 DEF RequestsInv, Hand, OwnPictures, Blamed
  <2> QED
    BY <2>1, <2>3, ElsewhereKept DEF RequestsInv
<1> QED
  BY <1>1, <1>2, <1>3, <1>4 DEF RequestsNext

(***************************************************************************)
(* Whatever arrives, fails or is downloaded, and however batches form, a   *)
(* completed job has the result of its own picture                         *)
(* (model_service.py:183-229, job_payload.py, image_service.py).           *)
(***************************************************************************)
THEOREM ResultsOwned == RequestsSpec => []ResultOfOwnPicture
<1>1. RequestsInv => ResultOfOwnPicture
  BY DEF RequestsInv, JobsInv
<1> QED
  BY <1>1, InitInv, StepInv, PTL DEF RequestsSpec

(***************************************************************************)
(* Only a batch with a downloaded picture can be failed by one picture: an *)
(* upload was read to its end before it was stored                         *)
(* (image_classification_service.py:85-103).                               *)
(***************************************************************************)
THEOREM UploadsSpoilNothing == RequestsSpec => []OnlyDownloadsSpoilBatches
<1>1. RequestsInv => OnlyDownloadsSpoilBatches
  BY DEF RequestsInv, Blamed, OnlyDownloadsSpoilBatches
<1> QED
  BY <1>1, InitInv, StepInv, PTL DEF RequestsSpec

(***************************************************************************)
(* The worker never holds more of a body than MAX_IMAGE_SIZE, whatever was *)
(* announced (image_service.py:80-110).                                    *)
(***************************************************************************)
THEOREM DownloadsLimited == RequestsSpec => []DownloadBounded
<1> DEFINE Limit == download = [length |-> download.length, kept |-> download.kept]
                    /\ download.kept \in Nat /\ download.kept <= MAX_IMAGE_SIZE
<1>1. RequestsInit => Limit
  BY DEF RequestsInit, NoDownload
<1>2. Limit /\ [RequestsNext]_requestVars => Limit'
  <2> SUFFICES ASSUME Limit, [RequestsNext]_requestVars PROVE Limit'
    OBVIOUS
  <2>1. CASE UNCHANGED download
    BY <2>1
  <2>2. CASE download' = NoDownload
    BY <2>2 DEF NoDownload
  <2>3. CASE FetchUrl
    <3>1. CASE Unresolved
      BY <2>2, <3>1 DEF Unresolved
    <3>2. CASE \E length : download' = [length |-> length, kept |-> 0]
      BY <3>2
    <3> QED
      BY <2>3, <3>1, <3>2 DEF FetchUrl
  <2>4. CASE ReceiveChunk
    <3>1. PICK size \in ChunkSizes :
            IF download.kept + size > MAX_IMAGE_SIZE THEN Unresolved
            ELSE download' = [download EXCEPT !.kept = @ + size]
      BY <2>4 DEF ReceiveChunk
    <3>2. CASE Unresolved
      BY <2>2, <3>2 DEF Unresolved
    <3>3. CASE /\ ~(download.kept + size > MAX_IMAGE_SIZE)
               /\ download' = [download EXCEPT !.kept = @ + size]
      <4>1. download' = [length |-> download.length, kept |-> download.kept + size]
        BY <3>3
      <4> QED
        BY <3>3, <4>1
    <3> QED
      BY <3>1, <3>2, <3>3
  <2>5. CASE WorkerNext
    BY <2>1, <2>2, <2>3, <2>4, <2>5
       DEF WorkerNext, CollectBatch, ResolveInline, ResolvedTo, EndBody, Unresolved, RunBatch,
           PictureRaises, ModelRaises, MarkJobs, WorkerDies, RestartPod
  <2> QED
    BY <2>1, <2>5 DEF RequestsNext, Handle, GatewayStep, WorkerStep, requestVars, imageVars
<1>3. Limit => DownloadBounded
  BY DEF DownloadBounded
<1> QED
  BY <1>1, <1>2, <1>3, PTL DEF RequestsSpec

-------------------------------------------------------------------------------
(***************************************************************************)
(* Usage.  What is known of a request at each stage: who may be at the     *)
(* backend, which answers a job or a timeout leaves behind, and the row.   *)
(***************************************************************************)
Answered(r) == stage[r] \in {"recording", "done"}
Named(r) == MatchPath(ask[r].path) /\ ask[r].token.claims # ""
Forwarded(r) == ask[r].token.verified /\ ask[r].path \in Protected
HasJob(r) == job[r].status # "NONE"

\* Nothing is at the backend, or stored, but for a verified caller; what is there
\* after the answer was timed out, or a fault struck the request.
AtBackend(r) ==
  /\ r \in atBackend \/ HasJob(r) => stage[r] # "new" /\ Forwarded(r)
  /\ r \in atBackend /\ Answered(r) /\ r \notin struck => answer[r] = 504

\* Jobs are those of inference requests, and the answer knows of them.
Stores(r) ==
  /\ HasJob(r) => /\ ask[r].path = InferencePath /\ Answered(r)
                  /\ r \notin struck => answer[r] \in {200, 504}
  /\ answer[r] = 200 => /\ Forwarded(r)
                        /\ ask[r].path = InferencePath => HasJob(r)

\* One row, of the answer, written when the request is through; none if it was struck.
RowsOf(r) == {row \in api_usage : row.id = r}
RowsOfAnswer(r) ==
  \A row \in RowsOf(r) : /\ stage[r] = "done" /\ row.status_code = answer[r]
                         /\ row.endpoint_type = Endpoint[ask[r].path]
Rows(r) ==
  /\ stage[r] = "recording" => Named(r)
  /\ RowsOfAnswer(r)
  /\ RowsOf(r) = {} \/ \E row : RowsOf(r) = {row}
  /\ stage[r] = "done" /\ r \notin struck /\ Named(r) => RowsOf(r) # {}
  /\ RowsOf(r) # {} => Named(r)
  /\ r \in struck => stage[r] = "done" /\ RowsOf(r) = {}

UsageInv ==
  /\ handle = TRUE
  /\ ask \in [Requests -> Asks]
  /\ answer = [r \in Requests |-> answer[r]]
  /\ \A r \in Requests :
       /\ stage[r] \in {"new", "proxied", "recording", "done"}
       /\ AtBackend(r) /\ Stores(r) /\ Rows(r)

USE GatewayAssumption, PayloadAssumption

LEMMA UsageInit1 == RequestsInit => UsageInv
<1> SUFFICES ASSUME RequestsInit PROVE UsageInv
  OBVIOUS
<1>1. /\ handle = TRUE /\ ask \in [Requests -> Asks] /\ answer = [r \in Requests |-> 0]
      /\ stage = [r \in Requests |-> "new"] /\ api_usage = {} /\ atBackend = {}
      /\ struck = {}
  BY DEF RequestsInit, UsageInit, InitDatabase
<1>2. \A r \in Requests : job[r].status = "NONE"
  BY DEF RequestsInit
<1> QED
  BY <1>1, <1>2 DEF UsageInv, AtBackend, Stores, Rows, RowsOf, RowsOfAnswer, Answered, HasJob

\* All a step leaves of a request.
SameRequest(r) ==
  /\ stage'[r] = stage[r] /\ answer'[r] = answer[r] /\ (r \in struck' <=> r \in struck)
  /\ job'[r].status = "NONE" <=> job[r].status = "NONE"
  /\ r \in atBackend' <=> r \in atBackend
  /\ RowsOf(r)' = RowsOf(r)

LEMMA UsageKept ==
  ASSUME UsageInv, ask' = ask, NEW r \in Requests, SameRequest(r)
  PROVE  /\ stage'[r] \in {"new", "proxied", "recording", "done"}
         /\ AtBackend(r)' /\ Stores(r)' /\ Rows(r)'
<1>1. AtBackend(r)' /\ Stores(r)'
  BY DEF UsageInv, SameRequest, AtBackend, Stores, Answered, HasJob, Forwarded
<1>2. RowsOfAnswer(r) /\ Rows(r) /\ Named(r)' = Named(r)
  BY DEF UsageInv, Rows, Named
<1>3. RowsOfAnswer(r)'
  BY <1>2 DEF SameRequest, RowsOfAnswer
<1>4. Rows(r)'
  BY <1>2, <1>3 DEF SameRequest, Rows
<1> QED
  BY <1>1, <1>4 DEF UsageInv, SameRequest

\* KrakenD or the backend answers: one request moves on, no row is written yet.
Moved(r) ==
  /\ answer' = [i \in Requests |-> answer'[i]]
  /\ Answered(r)' /\ Rows(r)' /\ ask' = ask /\ handle' = handle /\ struck' = struck
  /\ \A i \in Requests \ {r} : stage'[i] = stage[i] /\ answer'[i] = answer[i]
  /\ api_usage' = api_usage

LEMMA AnswerUsage ==
  ASSUME UsageInv, RequestsInv, NEW r \in Requests, stage[r] \in {"new", "proxied"},
         NEW status, Answer(r, status)
  PROVE  Moved(r) /\ answer'[r] = status
<1>1. /\ answer' = [answer EXCEPT ![r] = status]
      /\ stage' = [stage EXCEPT ![r] = IF Named(r) THEN "recording" ELSE "done"]
      /\ ask' = ask /\ handle' = handle /\ struck' = struck /\ api_usage' = api_usage
  BY DEF Answer, Named, DecodeJWTUsername
<1>2. stage = [i \in Requests |-> stage[i]] /\ answer = [i \in Requests |-> answer[i]]
  BY DEF RequestsInv, HandledOnce, UsageInv
<1>3. /\ answer' = [i \in Requests |-> answer'[i]] /\ answer'[r] = status
      /\ stage'[r] = IF Named(r) THEN "recording" ELSE "done"
      /\ \A i \in Requests \ {r} : stage'[i] = stage[i] /\ answer'[i] = answer[i]
  BY <1>1, <1>2
<1>4. Answered(r)'
  BY <1>3 DEF Answered
<1>5. RowsOf(r)' = {} /\ Named(r)' = Named(r) /\ r \notin struck'
  <2>1. RowsOf(r) = {} /\ r \notin struck
    BY DEF UsageInv, Rows, RowsOfAnswer
  <2> QED
    BY <2>1, <1>1 DEF RowsOf, Named
<1>6. Rows(r)'
  BY <1>3, <1>5 DEF Rows, RowsOfAnswer
<1> QED
  BY <1>1, <1>3, <1>4, <1>6 DEF Moved

LEMMA HandleUsage ==
  ASSUME UsageInv, RequestsInv, NEW r \in Requests, Handle(r)
  PROVE  UsageInv'
<1> DEFINE payload == IF ask[r].path = InferencePath
                      THEN InferencePayload(Image(r), ask[r].url) ELSE None
<1>1. /\ r \in atBackend /\ atBackend' = atBackend \ {r} /\ r \in Jobs
      /\ IF payload \in {None, Raised} THEN UNCHANGED <<job, queue>> ELSE Enqueue(r, payload)
      /\ IF stage[r] = "proxied" THEN Answer(r, IF payload = Raised THEN 500 ELSE 200)
         ELSE UNCHANGED usageVars
  BY DEF Handle, Backend
<1>2. /\ job[r].status = "NONE" /\ stage[r] # "new" /\ Forwarded(r)
      /\ stage[r] \in {"proxied", "recording", "done"}
  BY <1>1 DEF RequestsInv, HandledOnce, UsageInv, AtBackend
<1>3. ask[r] \in Asks
  BY DEF UsageInv
<1>4. ask[r].path = InferencePath => payload # None
  <2> SUFFICES ASSUME ask[r].path = InferencePath
               PROVE  InferencePayload(Image(r), ask[r].url) # None
    OBVIOUS
  <2>1. CASE ask[r].url # None /\ Image(r) = None
    BY <2>1, <1>3 DEF InferencePayload
  <2>2. CASE ask[r].url = None /\ Image(r) # None
    <3>1. Image(r) = Picture(r, ask[r].image = "whole")
      BY <2>2 DEF Image
    <3>2. CASE ask[r].image = "whole"
      <4>1. Image(r) = Picture(r, TRUE)
        BY <3>1, <3>2
      <4> QED
        BY <2>2, <4>1, <1>1 DEF InferencePayload, SerializeInferenceInput
    <3>3. CASE ask[r].image # "whole"
      <4>1. Image(r) = [of |-> r, whole |-> FALSE]
        BY <3>1, <3>3
      <4> QED
        BY <2>2, <4>1 DEF InferencePayload, SerializeInferenceInput
    <3> QED
      BY <3>2, <3>3
  <2>3. CASE ~(ask[r].url # None /\ Image(r) = None) /\ ~(ask[r].url = None /\ Image(r) # None)
    BY <2>3 DEF InferencePayload
  <2> QED
    BY <2>1, <2>2, <2>3
<1>5. /\ \A i \in Requests \ {r} : job'[i] = job[i]
      /\ payload \in {None, Raised} => job' = job
      /\ payload \notin {None, Raised} => job'[r].status = "PENDING"
  <2> HIDE DEF payload
  <2>1. job = [j \in Jobs |-> job[j]]
    BY DEF RequestsInv, JobsInv, JobShape
  <2> QED
    BY <1>1, <2>1 DEF Enqueue
<1>6. /\ payload \notin {None, Raised} => HasJob(r)' /\ ask[r].path = InferencePath
      /\ payload \in {None, Raised} => ~HasJob(r)'
  BY <1>2, <1>5 DEF HasJob
<1> HIDE DEF payload
<1>7. CASE stage[r] = "proxied"
  <2>1. Answer(r, IF payload = Raised THEN 500 ELSE 200)
    BY <1>1, <1>7
  <2>2. Moved(r) /\ answer'[r] = (IF payload = Raised THEN 500 ELSE 200)
    BY <2>1, <1>7, AnswerUsage
  <2>3. \A i \in Requests \ {r} : SameRequest(i)
    BY <1>1, <1>5, <2>2 DEF SameRequest, RowsOf, Moved
  <2>4. AtBackend(r)' /\ Stores(r)'
    BY <1>1, <1>2, <1>4, <1>6, <2>2 DEF AtBackend, Stores, Answered, Forwarded, Moved
  <2>5. stage'[r] \in {"new", "proxied", "recording", "done"}
    BY <2>2 DEF Answered, Moved
  <2> QED
    BY <2>2, <2>3, <2>4, <2>5, UsageKept DEF UsageInv, Moved
<1>8. CASE stage[r] # "proxied"
  <2>1. UNCHANGED usageVars /\ Answered(r)
    BY <1>1, <1>2, <1>8 DEF Answered
  <2>2. \A i \in Requests \ {r} : SameRequest(i)
    BY <1>1, <1>5, <2>1 DEF SameRequest, RowsOf, usageVars
  <2>3. r \notin struck => answer[r] = 504
    BY <1>1, <2>1 DEF UsageInv, AtBackend
  <2>4. AtBackend(r)'
    BY <1>1, <1>2, <2>1, <2>3 DEF AtBackend, Answered, Forwarded, usageVars
  <2>5. Stores(r)'
    <3>1. answer[r] = 200 => Forwarded(r) /\ (ask[r].path = InferencePath => HasJob(r))
      <4>1. Stores(r)
        BY DEF UsageInv
      <4> QED
        BY <4>1 DEF Stores
    <3>2. ~HasJob(r)
      BY <1>2 DEF HasJob
    <3> QED
      BY <1>6, <2>1, <2>3, <3>1, <3>2 DEF Stores, Answered, Forwarded, usageVars
  <2>6. Rows(r)' /\ stage'[r] = stage[r]
    <3>1. Rows(r) /\ UNCHANGED <<stage, answer, struck, ask, api_usage>>
      BY <2>1 DEF UsageInv, usageVars
    <3> QED
      BY <3>1 DEF Rows, RowsOf, RowsOfAnswer, Named
  <2> QED
    BY <2>1, <2>2, <2>4, <2>5, <2>6, UsageKept DEF UsageInv, usageVars
<1> QED
  BY <1>7, <1>8

\* One request moves on, the others stay as they are.
LEMMA OthersKept ==
  ASSUME UsageInv, ask' = ask, handle' = TRUE, answer' = [i \in Requests |-> answer'[i]],
         NEW r \in Requests, \A i \in Requests \ {r} : SameRequest(i),
         stage'[r] \in {"new", "proxied", "recording", "done"},
         AtBackend(r)', Stores(r)', Rows(r)'
  PROVE  UsageInv'
BY UsageKept DEF UsageInv

LEMMA GatewayUsage ==
  ASSUME UsageInv, RequestsInv, GatewayStep
  PROVE  UsageInv'
<1>1. /\ job' = job /\ GatewayNext
      /\ atBackend' = atBackend \cup {r \in Requests : stage[r] = "new" /\ stage'[r] = "proxied"}
  BY DEF GatewayStep, imageVars
<1>2. /\ handle = TRUE /\ stage = [i \in Requests |-> stage[i]]
      /\ answer = [i \in Requests |-> answer[i]]
  BY DEF UsageInv, RequestsInv, HandledOnce
<1>3. ASSUME NEW r \in Requests, Refuse(r) \/ Timeout(r)
      PROVE  UsageInv'
  <2>1. /\ stage[r] \in {"new", "proxied"}
        /\ \/ stage[r] = "new" /\ (Answer(r, 401) \/ Answer(r, 404) \/ Answer(r, 503))
           \/ Answer(r, 504)
    BY <1>3 DEF Refuse, Timeout
  <2>2. Moved(r) /\ answer'[r] # 200 /\ (stage[r] = "new" \/ answer'[r] = 504)
    <3>1. CASE Answer(r, 401) /\ stage[r] = "new"
      <4>1. Moved(r) /\ answer'[r] = 401
        BY <3>1, <2>1, AnswerUsage
      <4> QED
        BY <3>1, <4>1
    <3>2. CASE Answer(r, 404) /\ stage[r] = "new"
      <4>1. Moved(r) /\ answer'[r] = 404
        BY <3>2, <2>1, AnswerUsage
      <4> QED
        BY <3>2, <4>1
    <3>3. CASE Answer(r, 503) /\ stage[r] = "new"
      <4>1. Moved(r) /\ answer'[r] = 503
        BY <3>3, <2>1, AnswerUsage
      <4> QED
        BY <3>3, <4>1
    <3>4. CASE Answer(r, 504)
      <4>1. Moved(r) /\ answer'[r] = 504
        BY <3>4, <2>1, AnswerUsage
      <4> QED
        BY <3>4, <4>1
    <3> QED
      BY <2>1, <3>1, <3>2, <3>3, <3>4
  <2>3. stage'[r] \in {"recording", "done"}
    BY <2>2 DEF Answered, Moved
  <2>4. atBackend' = atBackend
    BY <1>1, <2>2, <2>3 DEF Moved
  <2>5. \A i \in Requests \ {r} : SameRequest(i)
    BY <1>1, <2>2, <2>4 DEF SameRequest, RowsOf, Moved
  <2>6. AtBackend(r) /\ Stores(r)
    BY DEF UsageInv
  <2>7. ~HasJob(r) /\ (stage[r] = "new" => r \notin atBackend)
    BY <2>1, <2>6 DEF Stores, AtBackend, Answered
  <2>8. AtBackend(r)'
    BY <1>1, <2>1, <2>2, <2>3, <2>4, <2>6, <2>7
       DEF AtBackend, HasJob, Forwarded, Answered, Moved
  <2>9. Stores(r)'
    BY <1>1, <2>1, <2>2, <2>7 DEF Stores, HasJob, Moved
  <2> QED
    BY <1>2, <2>2, <2>3, <2>5, <2>8, <2>9, OthersKept DEF Moved
<1>4. ASSUME NEW r \in Requests, Proxy(r)
      PROVE  UsageInv'
  <2>1. /\ stage[r] = "new" /\ Forwarded(r)
        /\ stage'[r] = "proxied" /\ \A i \in Requests \ {r} : stage'[i] = stage[i]
        /\ UNCHANGED <<ask, answer, api_usage, handle, struck>>
    BY <1>2, <1>4 DEF Proxy, Forwarded
  <2>2. atBackend' = atBackend \cup {r}
    BY <1>1, <2>1
  <2>3. \A i \in Requests \ {r} : SameRequest(i)
    BY <1>1, <2>1, <2>2 DEF SameRequest, RowsOf
  <2>4. AtBackend(r) /\ Stores(r) /\ Rows(r)
    BY DEF UsageInv
  <2>5. ~HasJob(r) /\ RowsOf(r) = {} /\ r \notin struck
    BY <2>1, <2>4 DEF AtBackend, Rows, RowsOfAnswer
  <2>6. AtBackend(r)' /\ Stores(r)'
    BY <1>1, <2>1, <2>4, <2>5 DEF AtBackend, Stores, HasJob, Forwarded, Answered
  <2>7. Rows(r)'
    <3>1. RowsOf(r)' = {}
      BY <2>1, <2>5 DEF RowsOf
    <3> QED
      BY <2>1, <2>5, <3>1 DEF Rows, RowsOfAnswer
  <2> QED
    BY <1>2, <2>1, <2>3, <2>6, <2>7, OthersKept
<1>5. ASSUME NEW r \in Requests, RecordUsage(r)
      PROVE  UsageInv'
  <2>1. /\ stage[r] = "recording" /\ stage'[r] = "done"
        /\ \A i \in Requests \ {r} : stage'[i] = stage[i]
        /\ api_usage' = IF database THEN api_usage \cup {Row(r)} ELSE api_usage
        /\ struck' = IF database THEN struck ELSE struck \cup {r}
        /\ UNCHANGED <<ask, answer, handle>>
    BY <1>2, <1>5 DEF RecordUsage
  <2>2. atBackend' = atBackend
    BY <1>1, <2>1
  <2>3. /\ Row(r).id = r /\ Row(r).status_code = answer[r]
        /\ Row(r).endpoint_type = Endpoint[ask[r].path]
    BY DEF Row
  <2>4. ASSUME NEW i \in Requests \ {r}
        PROVE  SameRequest(i)
    <3>1. RowsOf(i)' = RowsOf(i)
      BY <2>1, <2>3 DEF RowsOf
    <3>2. i \in struck' <=> i \in struck
      BY <2>1
    <3> QED
      BY <1>1, <2>1, <2>2, <3>1, <3>2 DEF SameRequest
  <2>5. AtBackend(r) /\ Stores(r) /\ Rows(r)
    BY DEF UsageInv
  <2>6. AtBackend(r)' /\ Stores(r)'
    BY <1>1, <2>1, <2>2, <2>5 DEF AtBackend, Stores, HasJob, Forwarded, Answered
  <2>7. Rows(r)'
    <3>1. RowsOf(r) = {} /\ r \notin struck /\ Named(r)
      BY <2>1, <2>5 DEF Rows, RowsOfAnswer
    <3>2. CASE database
      <4>1. RowsOf(r)' = {Row(r)}
        BY <2>1, <2>3, <3>1, <3>2 DEF RowsOf
      <4>2. Row(r).status_code = answer'[r] /\ Row(r).endpoint_type = Endpoint[ask'[r].path]
        BY <2>1, <2>3
      <4>3. RowsOfAnswer(r)' /\ RowsOf(r)' # {} /\ Named(r)' /\ r \notin struck'
        BY <2>1, <3>1, <3>2, <4>1, <4>2 DEF RowsOfAnswer, Named
      <4> QED
        BY <2>1, <4>1, <4>3 DEF Rows
    <3>3. CASE ~database
      <4>1. RowsOf(r)' = {} /\ r \in struck'
        BY <2>1, <3>1, <3>3 DEF RowsOf
      <4> QED
        BY <2>1, <4>1 DEF Rows, RowsOfAnswer
    <3> QED
      BY <3>2, <3>3
  <2> QED
    BY <1>2, <2>1, <2>4, <2>6, <2>7, OthersKept
<1>6. CASE GatewayRestarts
  <2> DEFINE inFlight == {r \in Requests : stage[r] \notin {"new", "done"}}
  <2>1. /\ \A r \in Requests : stage'[r] = IF r \in inFlight THEN "done" ELSE stage[r]
        /\ struck' = struck \cup inFlight
        /\ handle' = TRUE /\ UNCHANGED <<ask, answer, api_usage>>
    BY <1>6 DEF GatewayRestarts, InitDatabase
  <2>2. atBackend' = atBackend
    BY <1>1, <2>1
  <2>3. ASSUME NEW r \in Requests
        PROVE  /\ stage'[r] \in {"new", "proxied", "recording", "done"}
               /\ AtBackend(r)' /\ Stores(r)' /\ Rows(r)'
    <3>1. RowsOf(r)' = RowsOf(r)
      BY <2>1 DEF RowsOf
    <3>2. CASE r \notin inFlight
      BY <1>1, <2>1, <2>2, <3>1, <3>2, UsageKept DEF SameRequest
    <3>3. CASE r \in inFlight
      <4>1. stage'[r] = "done" /\ r \in struck'
        BY <2>1, <3>3
      <4>2. AtBackend(r) /\ Stores(r) /\ Rows(r) /\ stage[r] # "done"
        BY <3>3 DEF UsageInv
      <4>3. AtBackend(r)' /\ Stores(r)'
        BY <1>1, <2>1, <2>2, <4>1, <4>2 DEF AtBackend, Stores, HasJob, Forwarded, Answered
      <4>4. RowsOf(r)' = {}
        BY <3>1, <4>2 DEF Rows, RowsOfAnswer
      <4>5. Rows(r)'
        BY <4>1, <4>4 DEF Rows, RowsOfAnswer
      <4> QED
        BY <4>1, <4>3, <4>5
    <3> QED
      BY <3>2, <3>3
  <2> QED
    BY <1>2, <2>1, <2>3 DEF UsageInv
<1>7. CASE DatabaseChanges \/ Tick
  <2>1. UNCHANGED <<ask, stage, answer, api_usage, handle, struck>>
    BY <1>7 DEF DatabaseChanges, Tick
  <2>2. atBackend' = atBackend
    BY <1>1, <2>1
  <2>3. \A r \in Requests : SameRequest(r)
    BY <1>1, <2>1, <2>2 DEF SameRequest, RowsOf
  <2> QED
    BY <2>1, <2>3, UsageKept DEF UsageInv
<1> QED
  BY <1>1, <1>3, <1>4, <1>5, <1>6, <1>7 DEF GatewayNext

\* The worker neither submits a job nor forgets one.
LEMMA WorkerSubmitsNothing ==
  ASSUME RequestsInv, WorkerNext
  PROVE  \A j \in Jobs : job'[j].status = "NONE" <=> job[j].status = "NONE"
<1>1. \A j \in Jobs : job[j] = [status |-> job[j].status, result |-> job[j].result,
                                payload |-> job[j].payload]
  BY DEF RequestsInv, JobsInv, JobShape
<1>2. CASE CollectBatch
  <2>1. PICK n \in 1..BatchSize :
          /\ n <= Len(queue)
          /\ job' = [j \in Jobs |-> IF \E i \in 1..n : queue[i] = j
                                    THEN [job[j] EXCEPT !.status = "PROCESSING"] ELSE job[j]]
    BY <1>2 DEF CollectBatch
  <2>2. \A i \in 1..n : queue[i] \in Jobs /\ job[queue[i]].status # "NONE"
    <3>1. Len(queue) \in Nat /\ DOMAIN queue = 1..Len(queue)
      BY LenProperties DEF RequestsInv, Waiting
    <3> QED
      BY <2>1, <3>1 DEF RequestsInv, Waiting
  <2>3. ASSUME NEW j \in Jobs
        PROVE  job'[j].status = "NONE" <=> job[j].status = "NONE"
    <3>1. CASE \E i \in 1..n : queue[i] = j
      <4>1. job'[j] = [job[j] EXCEPT !.status = "PROCESSING"]
        BY <2>1, <3>1
      <4>2. job'[j] = [status |-> "PROCESSING", result |-> job[j].result,
                       payload |-> job[j].payload]
        BY <1>1, <4>1
      <4> QED
        BY <2>2, <3>1, <4>2
    <3>2. CASE ~\E i \in 1..n : queue[i] = j
      BY <2>1, <3>2
    <3> QED
      BY <3>1, <3>2
  <2> QED
    BY <2>3
<1>3. ASSUME NEW results, MarkJobs(results)
      PROVE  \A j \in Jobs : job'[j].status = "NONE" <=> job[j].status = "NONE"
  <2> SUFFICES ASSUME NEW j \in Jobs
               PROVE  job'[j].status = "NONE" <=> job[j].status = "NONE"
    OBVIOUS
  <2>1. CASE \E i \in DOMAIN worker.batch : worker.batch[i] = j
    <3>1. PICK i : job'[j] = IF i \in DOMAIN results
                     THEN [job[j] EXCEPT !.status = "COMPLETED", !.result = results[i]]
                     ELSE [job[j] EXCEPT !.status = "FAILED"]
      BY <1>3, <2>1 DEF MarkJobs
    <3>2. \/ job'[j] = [status |-> "COMPLETED", result |-> results[i],
                        payload |-> job[j].payload]
          \/ job'[j] = [status |-> "FAILED", result |-> job[j].result,
                        payload |-> job[j].payload]
      BY <1>1, <3>1
    <3>3. job[j].status # "NONE"
      BY <2>1 DEF RequestsInv, Hand
    <3> QED
      BY <3>2, <3>3
  <2>2. CASE ~\E i \in DOMAIN worker.batch : worker.batch[i] = j
    BY <1>3, <2>2 DEF MarkJobs
  <2> QED
    BY <2>1, <2>2
<1>4. CASE job' = job
  BY <1>4
<1> QED
  BY <1>2, <1>3, <1>4 DEF WorkerNext, ResolveInline, FetchUrl, ReceiveChunk, EndBody, RunBatch,
                          PictureRaises, ModelRaises, WorkerDies, RestartPod

LEMMA UsageStep ==
  ASSUME UsageInv, RequestsInv, [RequestsNext]_requestVars
  PROVE  UsageInv'
<1>1. CASE \E r \in Requests : Handle(r)
  BY <1>1, HandleUsage
<1>2. CASE GatewayStep
  BY <1>2, GatewayUsage
<1>3. ASSUME UNCHANGED <<usageVars, atBackend>>,
             \A j \in Jobs : job'[j].status = "NONE" <=> job[j].status = "NONE"
      PROVE  UsageInv'
  <2>1. UNCHANGED <<ask, stage, answer, api_usage, handle, struck>>
    BY <1>3 DEF usageVars
  <2>2. \A r \in Requests : SameRequest(r)
    BY <1>3, <2>1 DEF SameRequest, RowsOf
  <2> QED
    BY <2>1, <2>2, UsageKept DEF UsageInv
<1>4. CASE WorkerStep
  BY <1>3, <1>4, WorkerSubmitsNothing DEF WorkerStep
<1>5. CASE UNCHANGED requestVars
  BY <1>3, <1>5 DEF requestVars, imageVars
<1> QED
  BY <1>1, <1>2, <1>4, <1>5 DEF RequestsNext

(***************************************************************************)
(* Rows and work agree, however requests, timeouts, outages of the         *)
(* database and restarts of the gateway interleave: a request that no      *)
(* fault struck has the one row of its answer, 200 stands for a stored     *)
(* job, and a job has a row that says 200 or 504 (main.go:94-204).         *)
(***************************************************************************)
THEOREM UsageIsAccounted == RequestsSpec => []UsageAccounted
<1>1. UsageInv => UsageAccounted
  <2> SUFFICES ASSUME UsageInv, NEW r \in Requests
               PROVE  LET rows == {row \in api_usage : row.id = r}
                      IN /\ stage[r] = "done" /\ r \notin struck
                            /\ MatchPath(ask[r].path) /\ ask[r].token.claims # ""
                            => Cardinality(rows) = 1
                         /\ \A row \in rows : row.status_code = 200 =>
                              /\ ask[r].token.verified
                              /\ row.endpoint_type = "inference" => job[r].status # "NONE"
                         /\ job[r].status # "NONE" /\ stage[r] = "done" /\ r \notin struck
                            => \E row \in rows : row.status_code \in {200, 504}
    BY DEF UsageAccounted
  <2>1. AtBackend(r) /\ Stores(r) /\ Rows(r) /\ ask[r] \in Asks
    BY DEF UsageInv
  <2>2. \A row \in RowsOf(r) : /\ stage[r] = "done" /\ row.status_code = answer[r]
                               /\ row.endpoint_type = Endpoint[ask[r].path]
    BY <2>1 DEF Rows, RowsOfAnswer
  <2>3. stage[r] = "done" /\ r \notin struck /\ Named(r) => Cardinality(RowsOf(r)) = 1
    BY <2>1, FS_Singleton DEF Rows
  <2>4. ASSUME NEW row \in RowsOf(r), row.status_code = 200
        PROVE  /\ ask[r].token.verified
               /\ row.endpoint_type = "inference" => job[r].status # "NONE"
    <3>1. Forwarded(r) /\ (ask[r].path = InferencePath => HasJob(r))
      BY <2>1, <2>2, <2>4 DEF Stores
    <3>2. ask[r].path \in Protected /\ (Endpoint[ask[r].path] = "inference"
            => ask[r].path = InferencePath)
      BY <3>1 DEF Forwarded
    <3>3. row.endpoint_type = Endpoint[ask[r].path]
      BY <2>2, <2>4
    <3> QED
      BY <3>1, <3>2, <3>3 DEF Forwarded, HasJob
  <2>5. ASSUME HasJob(r), stage[r] = "done", r \notin struck
        PROVE  \E row \in RowsOf(r) : row.status_code \in {200, 504}
    <3>1. Named(r)
      BY <2>1, <2>5 DEF AtBackend, Stores, Forwarded, Tokens, Named, MatchPath
    <3>2. answer[r] \in {200, 504}
      BY <2>1, <2>5 DEF Stores
    <3> QED
      BY <2>1, <2>2, <2>5, <3>1, <3>2 DEF Rows
  <2> QED
    BY <2>3, <2>4, <2>5 DEF HasJob, RowsOf, Named
<1> QED
  BY <1>1, InitInv, StepInv, UsageInit1, UsageStep, PTL DEF RequestsSpec

-------------------------------------------------------------------------------
(***************************************************************************)
(* Types.  An id is queued once, as a job that waits; what the worker has  *)
(* in hand is PROCESSING, so that marking it takes nothing from the queue; *)
(* and a download belongs to the step that reads it.                       *)
(***************************************************************************)
Statuses == {"NONE", "PENDING", "PROCESSING", "COMPLETED", "FAILED"}
Queued(j) == \E i \in DOMAIN queue : queue[i] = j

Line ==
  /\ \A i, k \in DOMAIN queue : queue[i] = queue[k] => i = k
  /\ \A j \in Jobs : job[j].status \in Statuses /\ (job[j].status = "PENDING" <=> Queued(j))

InHand ==
  /\ worker.step \in {"idle", "resolve", "download", "dead"}
  /\ \A i \in DOMAIN worker.batch : job[worker.batch[i]].status = "PROCESSING"
  /\ download # NoDownload => worker.step = "download"

LEMMA LineInit == RequestsInit => Line /\ InHand
<1> SUFFICES ASSUME RequestsInit PROVE Line /\ InHand
  OBVIOUS
<1>1. /\ queue = SetToSeq(Earlier) /\ worker = Idle /\ download = NoDownload
      /\ \A j \in Jobs : job[j].status = IF j \in Earlier THEN "PENDING" ELSE "NONE"
  BY DEF RequestsInit
<1>2. /\ DOMAIN queue = 1..Cardinality(Earlier)
      /\ \A i, k \in DOMAIN queue : queue[i] = queue[k] => i = k
      /\ \A j : Queued(j) <=> j \in Earlier
  BY <1>1, SequenceOfSet DEF Queued
<1>3. Line
  <2>1. ASSUME NEW j \in Jobs
        PROVE  job[j].status \in Statuses /\ (job[j].status = "PENDING" <=> Queued(j))
    BY <1>1, <1>2 DEF Statuses
  <2> QED
    BY <1>2, <2>1 DEF Line
<1>4. InHand
  BY <1>1 DEF InHand, Idle
<1> QED
  BY <1>3, <1>4

LEMMA HandleLine ==
  ASSUME Line, InHand, RequestsInv, NEW r \in Requests, Handle(r)
  PROVE  Line' /\ InHand'
<1>1. /\ job[r].status = "NONE" /\ r \in Jobs /\ worker' = worker /\ download' = download
      /\ UNCHANGED <<job, queue>> \/ \E payload : Enqueue(r, payload)
  BY DEF Handle, RequestsInv, HandledOnce
<1>2. CASE UNCHANGED <<job, queue>>
  BY <1>1, <1>2 DEF Line, InHand, Queued
<1>3. ASSUME NEW payload, Enqueue(r, payload)
      PROVE  Line' /\ InHand'
  <2> DEFINE n == Len(queue)
  <2>1. /\ job'[r].status = "PENDING" /\ \A j \in Jobs \ {r} : job'[j] = job[j]
    <3>1. job = [j \in Jobs |-> job[j]]
      BY DEF RequestsInv, JobsInv, JobShape
    <3> QED
      BY <1>1, <1>3, <3>1 DEF Enqueue
  <2>2. /\ queue \in Seq(Jobs) /\ n \in Nat /\ DOMAIN queue = 1..n
        /\ DOMAIN queue' = 1..(n + 1)
        /\ \A i \in 1..n : queue'[i] = queue[i]
        /\ queue'[n + 1] = r
    <3>1. queue \in Seq(Jobs) /\ queue' = Append(queue, r)
      BY <1>3 DEF Enqueue, RequestsInv, Waiting
    <3> QED
      BY <1>1, <3>1, AppendProperties, LenProperties
  <2> HIDE DEF n
  <2>3. ~Queued(r)
    BY <1>1 DEF Line
  <2>4. \A j : Queued(j)' <=> Queued(j) \/ j = r
    <3> SUFFICES ASSUME NEW j
                 PROVE  (\E i \in 1..(n + 1) : queue'[i] = j)
                          <=> (\E i \in 1..n : queue[i] = j) \/ j = r
      BY <2>2 DEF Queued
    <3> QED
      BY <2>2
  <2>5. \A i, k \in 1..(n + 1) : queue'[i] = queue'[k] => i = k
    BY <2>2, <2>3 DEF Line, Queued
  <2>6. \A j \in Jobs :
          job'[j].status \in Statuses /\ (job'[j].status = "PENDING" <=> Queued(j)')
    BY <2>1, <2>4 DEF Line, Statuses
  <2>7. \A i \in DOMAIN worker.batch : worker.batch[i] \in Jobs \ {r}
    BY <1>1 DEF InHand, RequestsInv, Hand
  <2> QED
    BY <1>1, <2>1, <2>2, <2>5, <2>6, <2>7 DEF Line, InHand
<1> QED
  BY <1>1, <1>2, <1>3

LEMMA CollectLine ==
  ASSUME Line, InHand, RequestsInv, CollectBatch
  PROVE  Line' /\ InHand'
<1>1. PICK n \in 1..BatchSize :
        /\ n <= Len(queue)
        /\ worker' = [Idle EXCEPT !.step = "resolve", !.batch = SubSeq(queue, 1, n)]
        /\ queue' = SubSeq(queue, n + 1, Len(queue))
        /\ job' = [j \in Jobs |-> IF \E i \in 1..n : queue[i] = j
                                  THEN [job[j] EXCEPT !.status = "PROCESSING"] ELSE job[j]]
  BY DEF CollectBatch
<1> DEFINE m == Len(queue)
<1>2. /\ queue \in Seq(Jobs) /\ n \in Nat \ {0} /\ m \in Nat /\ n <= m /\ DOMAIN queue = 1..m
      /\ \A i \in 1..m : queue[i] \in Jobs
  BY <1>1, LenProperties, ElementOfSeq DEF RequestsInv, Waiting
<1>3. /\ worker'.step = "resolve" /\ worker'.batch = SubSeq(queue, 1, n)
      /\ download' = download /\ download = NoDownload
  BY <1>1 DEF CollectBatch, Idle, InHand
<1>4. /\ DOMAIN worker'.batch = 1..n /\ \A i \in 1..n : worker'.batch[i] = queue[i]
  BY <1>2, <1>3, SubSeqProperties, LenProperties
<1>5. /\ DOMAIN queue' = 1..(m - n) /\ \A i \in 1..(m - n) : queue'[i] = queue[i + n]
  <2>1. /\ queue' \in Seq(Jobs) /\ Len(queue') = (IF n + 1 <= m THEN m - (n + 1) + 1 ELSE 0)
        /\ \A i \in 1..(m - (n + 1) + 1) : queue'[i] = queue[(n + 1) + i - 1]
    BY <1>1, <1>2, SubSeqProperties
  <2>2. DOMAIN queue' = 1..Len(queue')
    BY <2>1, LenProperties
  <2> HIDE DEF m
  <2>3. Len(queue') = m - n
    BY <1>2, <2>1
  <2>4. ASSUME NEW i \in 1..(m - n)
        PROVE  queue'[i] = queue[i + n]
    <3>1. i \in 1..(m - (n + 1) + 1) /\ (n + 1) + i - 1 = i + n
      BY <1>2
    <3> QED
      BY <2>1, <3>1
  <2> QED
    BY <2>2, <2>3, <2>4
<1> HIDE DEF m
<1>6. ASSUME NEW j \in Jobs
      PROVE  job'[j].status = IF \E i \in 1..n : queue[i] = j THEN "PROCESSING"
                              ELSE job[j].status
  <2>1. job[j] = [status |-> job[j].status, result |-> job[j].result,
                  payload |-> job[j].payload]
    BY DEF RequestsInv, JobsInv, JobShape
  <2>2. job'[j] = IF \E i \in 1..n : queue[i] = j
                  THEN [job[j] EXCEPT !.status = "PROCESSING"] ELSE job[j]
    BY <1>1
  <2>3. CASE \E i \in 1..n : queue[i] = j
    <3>1. job'[j] = [status |-> "PROCESSING", result |-> job[j].result,
                     payload |-> job[j].payload]
      BY <2>1, <2>2, <2>3
    <3> QED
      BY <2>3, <3>1
  <2> QED
    BY <2>2, <2>3
<1>7. ASSUME NEW j \in Jobs
      PROVE  Queued(j)' <=> Queued(j) /\ ~\E i \in 1..n : queue[i] = j
  <2>1. ASSUME NEW i \in 1..(m - n), queue'[i] = j
        PROVE  Queued(j) /\ ~\E k \in 1..n : queue[k] = j
    <3>1. i + n \in 1..m /\ queue[i + n] = j /\ \A k \in 1..n : k \in 1..m /\ k # i + n
      BY <1>2, <1>5, <2>1
    <3> QED
      BY <1>2, <3>1 DEF Line, Queued
  <2>2. ASSUME NEW i \in 1..m, queue[i] = j, ~\E k \in 1..n : queue[k] = j
        PROVE  \E k \in 1..(m - n) : queue'[k] = j
    <3>1. i - n \in 1..(m - n) /\ i = (i - n) + n
      BY <1>2, <2>2
    <3> QED
      BY <1>5, <2>2, <3>1
  <2> QED
    BY <1>2, <1>5, <2>1, <2>2 DEF Queued
<1>8. Line'
  <2>1. ASSUME NEW i \in 1..(m - n), NEW k \in 1..(m - n), queue'[i] = queue'[k]
        PROVE  i = k
    <3>1. i + n \in 1..m /\ k + n \in 1..m /\ queue[i + n] = queue[k + n]
      BY <1>2, <1>5, <2>1
    <3>2. i + n = k + n
      BY <1>2, <3>1 DEF Line
    <3> QED
      BY <1>2, <3>2
  <2>2. \A j \in Jobs :
          job'[j].status \in Statuses /\ (job'[j].status = "PENDING" <=> Queued(j)')
    BY <1>6, <1>7 DEF Line, Statuses
  <2> QED
    BY <1>5, <2>1, <2>2 DEF Line
<1>9. InHand'
  <2>1. \A i \in 1..n : queue[i] \in Jobs
    BY <1>2
  <2>2. \A i \in 1..n : job'[queue[i]].status = "PROCESSING"
    BY <1>6, <2>1
  <2>3. download' = NoDownload
    BY <1>3
  <2> QED
    BY <1>3, <1>4, <2>2, <2>3 DEF InHand, NoDownload
<1> QED
  BY <1>8, <1>9

\* Steps that leave queue and jobs alone: the batch stays in hand, or is dropped.
LEMMA HandLine ==
  ASSUME Line, InHand, RequestsInv, UNCHANGED <<queue, job>>,
         worker'.batch = worker.batch \/ worker'.batch = <<>>,
         worker'.step \in {"idle", "resolve", "download", "dead"},
         download' # NoDownload => worker'.step = "download"
  PROVE  Line' /\ InHand'
<1>1. Line'
  BY DEF Line, Queued
<1>2. (download # NoDownload)' => worker'.step = "download"
  BY DEF NoDownload
<1> QED
  BY <1>1, <1>2 DEF InHand

LEMMA MarkLine ==
  ASSUME Line, InHand, RequestsInv, AllResolved, NEW results, MarkJobs(results)
  PROVE  Line' /\ InHand'
<1>1. worker' = Idle /\ queue' = queue /\ download' = download /\ worker.step = "resolve"
  BY DEF MarkJobs, AllResolved
<1>2. ASSUME NEW j \in Jobs
      PROVE  \/ job'[j].status = job[j].status
             \/ job[j].status = "PROCESSING" /\ job'[j].status \in {"COMPLETED", "FAILED"}
  <2>1. job[j] = [status |-> job[j].status, result |-> job[j].result,
                  payload |-> job[j].payload]
    BY DEF RequestsInv, JobsInv, JobShape
  <2>2. CASE \E i \in DOMAIN worker.batch : worker.batch[i] = j
    <3>1. PICK i : job'[j] = IF i \in DOMAIN results
                     THEN [job[j] EXCEPT !.status = "COMPLETED", !.result = results[i]]
                     ELSE [job[j] EXCEPT !.status = "FAILED"]
      BY <2>2 DEF MarkJobs
    <3>2. \/ job'[j] = [status |-> "COMPLETED", result |-> results[i],
                        payload |-> job[j].payload]
          \/ job'[j] = [status |-> "FAILED", result |-> job[j].result,
                        payload |-> job[j].payload]
      BY <2>1, <3>1
    <3>3. job[j].status = "PROCESSING"
      BY <2>2 DEF InHand
    <3> QED
      BY <3>2, <3>3
  <2>3. CASE ~\E i \in DOMAIN worker.batch : worker.batch[i] = j
    BY <2>3 DEF MarkJobs
  <2> QED
    BY <2>2, <2>3
<1>3. Line'
  <2>1. \A j : Queued(j)' <=> Queued(j)
    BY <1>1 DEF Queued
  <2> QED
    BY <1>1, <1>2, <2>1 DEF Line, Statuses
<1>4. InHand'
  BY <1>1 DEF InHand, Idle, NoDownload
<1> QED
  BY <1>3, <1>4

LEMMA WorkerLine ==
  ASSUME Line, InHand, RequestsInv, WorkerNext
  PROVE  Line' /\ InHand'
<1>1. worker = [step |-> worker.step, batch |-> worker.batch, resolved |-> worker.resolved,
                failed |-> worker.failed]
  BY DEF RequestsInv, Hand
<1>2. ASSUME ResolveInline \/ FetchUrl \/ ReceiveChunk \/ EndBody
      PROVE  Line' /\ InHand'
  <2>1. UNCHANGED <<queue, job>>
    BY <1>2 DEF ResolveInline, FetchUrl, ReceiveChunk, EndBody
  <2>2. \/ Unresolved \/ \E image : ResolvedTo(image)
        \/ worker' = [worker EXCEPT !.step = "download"]
        \/ worker' = worker /\ worker.step = "download"
    BY <1>2 DEF ResolveInline, FetchUrl, ReceiveChunk, EndBody
  <2>3. /\ worker'.batch = worker.batch
        /\ \/ worker'.step = "resolve" /\ download' = NoDownload
           \/ worker'.step = "download"
    BY <1>1, <2>2 DEF Unresolved, ResolvedTo
  <2> QED
    BY <2>1, <2>3, HandLine
<1>3. ASSUME WorkerDies \/ RestartPod
      PROVE  Line' /\ InHand'
  <2>1. /\ UNCHANGED <<queue, job, download>> /\ worker.step \in {"resolve", "dead"}
        /\ worker'.batch = <<>> /\ worker'.step \in {"idle", "dead"}
    BY <1>3 DEF WorkerDies, RestartPod, Idle, AllResolved
  <2>2. download' = NoDownload
    BY <2>1 DEF InHand
  <2> QED
    BY <2>1, <2>2, HandLine
<1>4. CASE RunBatch \/ PictureRaises \/ ModelRaises
  BY <1>4, MarkLine DEF RunBatch, PictureRaises, ModelRaises, Runs
<1> QED
  BY <1>2, <1>3, <1>4, CollectLine DEF WorkerNext

LEMMA LineStep ==
  ASSUME Line, InHand, RequestsInv, [RequestsNext]_requestVars
  PROVE  Line' /\ InHand'
<1>1. CASE \E r \in Requests : Handle(r)
  BY <1>1, HandleLine
<1>2. CASE GatewayStep \/ UNCHANGED requestVars
  <2>1. UNCHANGED <<queue, job, worker, download>>
    BY <1>2 DEF GatewayStep, requestVars, imageVars
  <2> QED
    BY <2>1 DEF Line, InHand, Queued, NoDownload
<1>3. CASE WorkerStep
  BY <1>3, WorkerLine DEF WorkerStep
<1> QED
  BY <1>1, <1>2, <1>3 DEF RequestsNext

(***************************************************************************)
(* Types hold, an id waits in the queue once, and exactly while its job is *)
(* PENDING (redis_queue.py:77-104, image_classification_service.py).       *)
(***************************************************************************)
THEOREM RequestsTypes == RequestsSpec => []RequestsTypeOK
<1>1. RequestsInv /\ UsageInv /\ Line /\ InHand => RequestsTypeOK
  BY DEF RequestsTypeOK, RequestsInv, Waiting, HandledOnce, UsageInv, Line, InHand, Queued,
         Statuses
<1> QED
  BY <1>1, InitInv, StepInv, UsageInit1, UsageStep, LineInit, LineStep, PTL DEF RequestsSpec

-------------------------------------------------------------------------------
(***************************************************************************)
(* The life of each job.  A step moves any number of jobs, each of them as *)
(* JobLifecycle lets it: what a batch marks was PROCESSING.                *)
(***************************************************************************)
From(j, before, after) == job[j].status = before /\ job'[j].status = after

JobMoves(j) ==
  \/ job'[j].status = job[j].status /\ job'[j].result = job[j].result
  \/ From(j, "NONE", "PENDING") /\ job'[j].result = None
  \/ From(j, "PENDING", "PROCESSING") /\ job'[j].result = job[j].result
  \/ From(j, "PROCESSING", "COMPLETED") /\ job'[j].result # None
  \/ From(j, "PROCESSING", "FAILED") /\ job'[j].result = job[j].result

\* A job has a result exactly when it is completed.
Fulfilled == \A j \in Jobs : job[j].result # None <=> job[j].status = "COMPLETED"

LEMMA HandleJobMoves ==
  ASSUME RequestsInv, NEW r \in Requests, Handle(r), NEW j \in Jobs
  PROVE  JobMoves(j)
<1>1. /\ job[r].status = "NONE" /\ r \in Jobs
      /\ job' = job \/ \E payload : Enqueue(r, payload)
  BY DEF Handle, RequestsInv, HandledOnce
<1>2. ASSUME NEW payload, Enqueue(r, payload)
      PROVE  JobMoves(j)
  <2>1. job = [i \in Jobs |-> job[i]]
    BY DEF RequestsInv, JobsInv, JobShape
  <2>2. /\ job'[r] = [status |-> "PENDING", payload |-> payload, result |-> None]
        /\ \A i \in Jobs \ {r} : job'[i] = job[i]
    BY <1>1, <1>2, <2>1 DEF Enqueue
  <2>3. CASE j = r
    BY <1>1, <2>2, <2>3 DEF JobMoves, From
  <2>4. CASE j # r
    BY <2>2, <2>4 DEF JobMoves
  <2> QED
    BY <2>3, <2>4
<1> QED
  BY <1>1, <1>2 DEF JobMoves

LEMMA CollectJobMoves ==
  ASSUME RequestsInv, Line, CollectBatch, NEW j \in Jobs
  PROVE  JobMoves(j)
<1>1. PICK n \in 1..BatchSize :
        /\ n <= Len(queue)
        /\ job' = [i \in Jobs |-> IF \E k \in 1..n : queue[k] = i
                                  THEN [job[i] EXCEPT !.status = "PROCESSING"] ELSE job[i]]
  BY DEF CollectBatch
<1>2. CASE \E k \in 1..n : queue[k] = j
  <2>1. job[j] = [status |-> job[j].status, result |-> job[j].result,
                  payload |-> job[j].payload]
    BY DEF RequestsInv, JobsInv, JobShape
  <2>2. job'[j] = [job[j] EXCEPT !.status = "PROCESSING"]
    BY <1>1, <1>2
  <2>3. job'[j] = [status |-> "PROCESSING", result |-> job[j].result,
                   payload |-> job[j].payload]
    BY <2>1, <2>2
  <2>4. Len(queue) \in Nat /\ DOMAIN queue = 1..Len(queue)
    BY LenProperties DEF RequestsInv, Waiting
  <2>5. job[j].status = "PENDING"
    BY <1>1, <1>2, <2>4 DEF Line, Queued
  <2> QED
    BY <2>3, <2>5 DEF JobMoves, From
<1>3. CASE ~\E k \in 1..n : queue[k] = j
  BY <1>1, <1>3 DEF JobMoves
<1> QED
  BY <1>2, <1>3

LEMMA MarkJobMoves ==
  ASSUME RequestsInv, InHand, NEW results, MarkJobs(results), NEW j \in Jobs,
         \A i \in DOMAIN worker.batch : i \in DOMAIN results => results[i] # None
  PROVE  JobMoves(j)
<1>1. job[j] = [status |-> job[j].status, result |-> job[j].result,
                payload |-> job[j].payload]
  BY DEF RequestsInv, JobsInv, JobShape
<1>2. CASE \E i \in DOMAIN worker.batch : worker.batch[i] = j
  <2> DEFINE i == CHOOSE i \in DOMAIN worker.batch : worker.batch[i] = j
  <2>1. i \in DOMAIN worker.batch /\ worker.batch[i] = j
    BY <1>2
  <2>2. job'[j] = IF i \in DOMAIN results
                  THEN [job[j] EXCEPT !.status = "COMPLETED", !.result = results[i]]
                  ELSE [job[j] EXCEPT !.status = "FAILED"]
    BY <1>2 DEF MarkJobs
  <2> HIDE DEF i
  <2>3. job[j].status = "PROCESSING"
    BY <2>1 DEF InHand
  <2>4. CASE i \in DOMAIN results
    <3>1. job'[j] = [status |-> "COMPLETED", result |-> results[i],
                     payload |-> job[j].payload]
      BY <1>1, <2>2, <2>4
    <3>2. results[i] # None
      BY <2>1, <2>4
    <3> QED
      BY <2>3, <3>1, <3>2 DEF JobMoves, From
  <2>5. CASE i \notin DOMAIN results
    <3>1. job'[j] = [status |-> "FAILED", result |-> job[j].result,
                     payload |-> job[j].payload]
      BY <1>1, <2>2, <2>5
    <3> QED
      BY <2>3, <3>1 DEF JobMoves, From
  <2> QED
    BY <2>4, <2>5
<1>3. CASE ~\E i \in DOMAIN worker.batch : worker.batch[i] = j
  BY <1>3 DEF MarkJobs, JobMoves
<1> QED
  BY <1>2, <1>3

LEMMA StepJobMoves ==
  ASSUME RequestsInv, Line, InHand, [RequestsNext]_requestVars, NEW j \in Jobs
  PROVE  JobMoves(j)
<1>1. CASE \E r \in Requests : Handle(r)
  BY <1>1, HandleJobMoves
<1>2. CASE CollectBatch
  BY <1>2, CollectJobMoves
<1>3. CASE RunBatch
  <2> DEFINE outputs == RunModelInferenceBatch(worker.resolved)
             results == [i \in Valid |-> outputs[Source(Valid, i)]]
  <2>1. MarkJobs(results) /\ Runs /\ AllReadable
    BY <1>3 DEF RunBatch
  <2>2. \A i \in DOMAIN results : results[i] = ClassifyLogits(Logits[worker.batch[i]])
    BY <2>1, OutputsAreOwn
  <2>3. \A i \in DOMAIN worker.batch : worker.batch[i] \in Jobs
    BY DEF RequestsInv, Hand
  <2> HIDE DEF results
  <2>4. \A i \in DOMAIN worker.batch : i \in DOMAIN results => results[i] # None
    BY <2>2, <2>3
  <2> QED
    BY <2>1, <2>4, MarkJobMoves
<1>4. CASE PictureRaises \/ ModelRaises
  <2>1. MarkJobs(<<>>) /\ DOMAIN <<>> = {}
    BY <1>4 DEF PictureRaises, ModelRaises
  <2> QED
    BY <2>1, MarkJobMoves
<1>5. CASE UNCHANGED job
  BY <1>5 DEF JobMoves
<1> QED
  BY <1>1, <1>2, <1>3, <1>4, <1>5
     DEF RequestsNext, GatewayStep, WorkerStep, WorkerNext, requestVars, imageVars,
         ResolveInline, FetchUrl, ReceiveChunk, EndBody, WorkerDies, RestartPod

\* One job's move is a step of its life, or none.
LEMMA MoveIsLife ==
  ASSUME NEW j \in Jobs, JobMoves(j), job[j].status \in Statuses,
         job[j].result # None <=> job[j].status = "COMPLETED"
  PROVE  /\ Life(j)!LifecycleNext \/ UNCHANGED Life(j)!lifecycle
         /\ job'[j].result # None <=> job'[j].status = "COMPLETED"
<1>1. job'[j].result # None <=> job'[j].status = "COMPLETED"
  BY DEF JobMoves, From, Statuses
<1>2. CASE job'[j].status = job[j].status /\ job'[j].result = job[j].result
  BY <1>2 DEF Life!lifecycle
<1>3. CASE From(j, "NONE", "PENDING") /\ job'[j].result = None
  <2>1. Life(j)!Accept(j)
    BY <1>3 DEF From, Life!Accept, Life!Move
  <2> QED
    BY <1>1, <2>1 DEF Life!LifecycleNext
<1>4. CASE From(j, "PENDING", "PROCESSING") /\ job'[j].result = job[j].result
  <2>1. Life(j)!Start(j)
    BY <1>4 DEF From, Life!Start, Life!Move
  <2> QED
    BY <1>1, <2>1 DEF Life!LifecycleNext
<1>5. CASE From(j, "PROCESSING", "COMPLETED") /\ job'[j].result # None
  <2>1. Life(j)!Complete(j)
    BY <1>5 DEF From, Life!Complete, Life!Move
  <2> QED
    BY <1>1, <2>1 DEF Life!LifecycleNext
<1>6. CASE From(j, "PROCESSING", "FAILED") /\ job'[j].result = job[j].result
  <2>1. Life(j)!Fail(j)
    BY <1>6 DEF From, Life!Fail, Life!Move
  <2> QED
    BY <1>1, <2>1 DEF Life!LifecycleNext
<1> QED
  BY <1>1, <1>2, <1>3, <1>4, <1>5, <1>6 DEF JobMoves

(***************************************************************************)
(* From the request to the result, with uploads, downloads, batches of     *)
(* several jobs and a worker that dies, each job has the life JobLifecycle *)
(* describes, as it has in JobQueue (image_service.py:129-140,             *)
(* model_service.py:183-229).                                              *)
(***************************************************************************)
THEOREM JobsLiveOnce == RequestsSpec => JobsFollowLifecycle
<1> DEFINE Inv == RequestsInv /\ Line /\ InHand /\ Fulfilled
           Lives == \A j \in Jobs : Life(j)!LifecycleNext \/ UNCHANGED Life(j)!lifecycle
<1>1. RequestsInit => Inv /\ \A r \in Requests : Life(r)!LifecycleInit
  <2>1. RequestsInit => Fulfilled /\ \A r \in Requests : Life(r)!LifecycleInit
    BY DEF RequestsInit, Fulfilled, Life!LifecycleInit
  <2> QED
    BY <2>1, InitInv, LineInit
<1>2. Inv /\ [RequestsNext]_requestVars => Inv' /\ Lives
  <2> SUFFICES ASSUME Inv, [RequestsNext]_requestVars
               PROVE  Inv' /\ Lives
    OBVIOUS
  <2>1. \A j \in Jobs : JobMoves(j)
    BY StepJobMoves
  <2>2. \A j \in Jobs : /\ job[j].status \in Statuses
                        /\ job[j].result # None <=> job[j].status = "COMPLETED"
    BY DEF Line, Fulfilled
  <2>3. Fulfilled' /\ Lives
    BY <2>1, <2>2, MoveIsLife DEF Fulfilled
  <2> QED
    BY <2>3, StepInv, LineStep
<1>3. Inv /\ [RequestsNext]_requestVars => [Lives]_job
  BY <1>2
<1> QED
  BY <1>1, <1>2, <1>3, PTL DEF RequestsSpec, JobsFollowLifecycle

-------------------------------------------------------------------------------
(***************************************************************************)
(* Reports.  Rows are of requests, finitely many, and not of the future.   *)
(***************************************************************************)
RowsInv ==
  /\ clock \in Nat /\ IsFiniteSet(api_usage)
  /\ \A row \in api_usage : row.id \in Requests /\ row.timestamp \in 0..clock

LEMMA RowsInit == RequestsInit => RowsInv
BY FS_EmptySet DEF RequestsInit, UsageInit, RowsInv

LEMMA RowsStep ==
  ASSUME RowsInv, [RequestsNext]_requestVars
  PROVE  RowsInv'
<1>1. CASE UNCHANGED <<api_usage, clock>>
  BY <1>1 DEF RowsInv
<1>2. ASSUME NEW r \in Requests, RecordUsage(r)
      PROVE  RowsInv'
  <2>1. clock' = clock /\ api_usage' \in {api_usage, api_usage \cup {Row(r)}}
    BY <1>2 DEF RecordUsage
  <2>2. Row(r).id = r /\ Row(r).timestamp = clock
    BY DEF Row
  <2>3. IsFiniteSet(api_usage \cup {Row(r)})
    BY FS_AddElement DEF RowsInv
  <2> QED
    BY <2>1, <2>2, <2>3 DEF RowsInv
<1>3. CASE Tick
  <2>1. PICK t \in Ticks : clock' = clock + t
    BY <1>3 DEF Tick
  <2>2. t \in Nat /\ api_usage' = api_usage
    BY <1>3, UsageAssumption DEF Tick
  <2> QED
    BY <2>1, <2>2 DEF RowsInv
<1>4. ASSUME NEW r \in Requests, NEW status, Answer(r, status)
      PROVE  UNCHANGED <<api_usage, clock>>
  BY <1>4 DEF Answer
<1>5. CASE \E r \in Requests : Handle(r)
  BY <1>1, <1>4, <1>5 DEF Handle, Backend, usageVars
<1>6. CASE GatewayStep
  <2>1. CASE \E r \in Requests : Refuse(r) \/ Timeout(r)
    BY <1>1, <2>1 DEF Refuse, Timeout, Answer
  <2>2. CASE (\E r \in Requests : Proxy(r)) \/ GatewayRestarts \/ DatabaseChanges
    BY <1>1, <2>2 DEF Proxy, GatewayRestarts, DatabaseChanges
  <2> QED
    BY <1>2, <1>3, <1>6, <2>1, <2>2 DEF GatewayStep, GatewayNext
<1> QED
  BY <1>1, <1>5, <1>6 DEF RequestsNext, WorkerStep, requestVars, usageVars

\* A report without limits is made from every row.
LEMMA WholeTable ==
  ASSUME RowsInv
  PROVE  LET report == Report(api_usage, "report", Nothing, Nothing, clock)
         IN report.total = Cardinality(api_usage) /\ report.error_count = Errors(api_usage)
<1>1. Since("report", Nothing) = Nothing
  BY DEF Since
<1>2. TimeExpr(Nothing, FALSE, clock) = -1 /\ TimeExpr(Nothing, TRUE, clock) = clock
  BY DEF TimeExpr, Nothing
<1>3. Base(api_usage, Nothing, Nothing, clock) = api_usage
  <2>1. ASSUME NEW row \in api_usage
        PROVE  row.timestamp >= -1 /\ row.timestamp <= clock
    <3>1. row.timestamp \in 0..clock /\ clock \in Nat
      BY DEF RowsInv
    <3> QED
      BY <3>1
  <2> QED
    BY <1>2, <2>1 DEF Base
<1> QED
  BY <1>1, <1>3 DEF Report, BuildSql

\* Rows and the requests they are of: as many ones as others.
LEMMA RowsCountRequests ==
  ASSUME UsageInv, RowsInv, NEW rows \in SUBSET api_usage
  PROVE  Cardinality(rows) = Cardinality({row.id : row \in rows})
<1> DEFINE ids == {row.id : row \in rows}
           id == [row \in rows |-> row.id]
<1>1. \A row \in rows, other \in rows : row.id = other.id => row = other
  <2> SUFFICES ASSUME NEW row \in rows, NEW other \in rows, row.id = other.id
               PROVE  row = other
    OBVIOUS
  <2>1. row.id \in Requests /\ row \in RowsOf(row.id) /\ other \in RowsOf(row.id)
    BY DEF RowsInv, RowsOf
  <2>2. Rows(row.id)
    BY <2>1 DEF UsageInv
  <2> QED
    BY <2>1, <2>2 DEF Rows
<1>2. id \in Bijection(rows, ids)
  BY <1>1 DEF Bijection, Injection, Surjection, IsInjective
<1>3. IsFiniteSet(rows)
  BY FS_Subset DEF RowsInv
<1>4. ExistsBijection(rows, ids)
  BY <1>2 DEF ExistsBijection
<1> HIDE DEF ids
<1>5. Cardinality(ids) = Cardinality(rows)
  BY <1>3, <1>4, FS_Bijection
<1> QED
  BY <1>5 DEF ids

(***************************************************************************)
(* A report without limits counts every request a row is owed for, once,   *)
(* with its errors, at every moment (sql.py, usage_report.py).             *)
(***************************************************************************)
THEOREM ReportsCountTraffic == RequestsSpec => []ReportCountsTraffic
<1>1. UsageInv /\ RowsInv => ReportCountsTraffic
  <2> SUFFICES ASSUME UsageInv, RowsInv PROVE ReportCountsTraffic
    OBVIOUS
  <2>1. Counted = {row.id : row \in api_usage}
    <3>1. ASSUME NEW r \in Counted
          PROVE  \E row \in api_usage : row.id = r
      <4>1. r \in Requests /\ stage[r] = "done" /\ r \notin struck /\ Named(r)
        BY DEF Counted, Named
      <4>2. Rows(r)
        BY <4>1 DEF UsageInv
      <4> QED
        BY <4>1, <4>2 DEF Rows, RowsOf
    <3>2. ASSUME NEW row \in api_usage
          PROVE  row.id \in Counted
      <4>1. row.id \in Requests /\ row \in RowsOf(row.id)
        BY DEF RowsInv, RowsOf
      <4>2. Rows(row.id)
        BY <4>1 DEF UsageInv
      <4> QED
        BY <4>1, <4>2 DEF Rows, RowsOfAnswer, Counted, Named
    <3> HIDE DEF Counted
    <3> QED
      BY <3>1, <3>2
  <2>2. \A row \in api_usage : row.status_code = answer[row.id]
    <3> SUFFICES ASSUME NEW row \in api_usage PROVE row.status_code = answer[row.id]
      OBVIOUS
    <3>1. row.id \in Requests /\ row \in RowsOf(row.id)
      BY DEF RowsInv, RowsOf
    <3>2. Rows(row.id)
      BY <3>1 DEF UsageInv
    <3> QED
      BY <3>1, <3>2 DEF Rows, RowsOfAnswer
  <2> DEFINE failed == {row \in api_usage : row.status_code >= 400}
  <2>3. {r \in Counted : answer[r] >= 400} = {row.id : row \in failed}
    BY <2>1, <2>2
  <2>4. /\ Cardinality(api_usage) = Cardinality(Counted)
        /\ Errors(api_usage) = Cardinality({r \in Counted : answer[r] >= 400})
    <3>1. Cardinality(api_usage) = Cardinality({row.id : row \in api_usage})
      BY RowsCountRequests
    <3>2. failed \in SUBSET api_usage /\ Errors(api_usage) = Cardinality(failed)
      BY DEF Errors
    <3> HIDE DEF failed
    <3>3. Cardinality(failed) = Cardinality({row.id : row \in failed})
      BY <3>2, RowsCountRequests
    <3> QED
      BY <2>1, <2>3, <3>1, <3>2, <3>3
  <2> QED
    BY <2>4, WholeTable DEF ReportCountsTraffic
<1> QED
  BY <1>1, InitInv, StepInv, UsageInit1, UsageStep, RowsInit, RowsStep, PTL DEF RequestsSpec

\* Every answer is a number.
Codes == answer \in [Requests -> Int]

LEMMA CodesInit == RequestsInit => Codes
BY DEF RequestsInit, UsageInit, Codes

LEMMA CodesStep ==
  ASSUME Codes, [RequestsNext]_requestVars
  PROVE  Codes'
<1>1. CASE UNCHANGED answer
  BY <1>1 DEF Codes
<1>2. ASSUME NEW r \in Requests, NEW status \in Int, Answer(r, status)
      PROVE  Codes'
  BY <1>2 DEF Answer, Codes
<1>3. CASE \E r \in Requests : Handle(r)
  BY <1>1, <1>2, <1>3 DEF Handle, Backend, usageVars
<1>4. CASE GatewayStep
  <2>1. CASE \E r \in Requests : Refuse(r) \/ Timeout(r)
    BY <1>2, <2>1 DEF Refuse, Timeout
  <2>2. CASE (\E r \in Requests : Proxy(r) \/ RecordUsage(r))
             \/ GatewayRestarts \/ DatabaseChanges \/ Tick
    BY <1>1, <2>2 DEF Proxy, RecordUsage, GatewayRestarts, DatabaseChanges, Tick
  <2> QED
    BY <1>4, <2>1, <2>2 DEF GatewayStep, GatewayNext
<1> QED
  BY <1>1, <1>3, <1>4 DEF RequestsNext, WorkerStep, requestVars, usageVars

(***************************************************************************)
(* Whatever the plugin, the handler and the faults made of the table, at   *)
(* every moment each report asked for adds up (sql.py:49-66, 85-170,       *)
(* usage_report.py:99-226).                                                *)
(***************************************************************************)
THEOREM ReportsMatchTraffic == RequestsSpec => []ReportMatchesTraffic
<1>1. UsageInv /\ RowsInv /\ Codes => ReportMatchesTraffic
  <2> SUFFICES ASSUME UsageInv, RowsInv, Codes, NEW q \in Queries
               PROVE  LET report == Report(api_usage, q.mode, q.since, q.until, clock)
                      IN /\ PageAddsUp(report) /\ TextAddsUp(report)
                         /\ q.mode = "report" /\ q.since.form = "ago" /\ report.bucket # "day" =>
                              2 * ((Seconds(q.since) \div BucketSeconds[report.bucket]) + 1)
                                <= ChartWidth
    BY DEF ReportMatchesTraffic
  <2> DEFINE report == Report(api_usage, q.mode, q.since, q.until, clock)
  <2>1. Window(api_usage)
    <3>1. ASSUME NEW row \in api_usage
          PROVE  row.timestamp \in Int /\ row.status_code \in Int
      <4>1. row.id \in Requests /\ row \in RowsOf(row.id) /\ row.timestamp \in 0..clock
        BY DEF RowsInv, RowsOf
      <4>2. Rows(row.id)
        BY <4>1 DEF UsageInv
      <4>3. row.status_code = answer[row.id]
        BY <4>1, <4>2 DEF Rows, RowsOfAnswer
      <4> QED
        BY <4>1, <4>3 DEF Codes, RowsInv
    <3> QED
      BY <3>1 DEF RowsInv, Window
  <2>2. PageAddsUp(report) /\ TextAddsUp(report)
    BY <2>1, ReportAddsUp
  <2>3. report.bucket = ChooseBucket(q.mode, Since(q.mode, q.since), "auto")
    BY DEF Report, BuildSql
  <2> HIDE DEF report
  <2>4. ASSUME q.mode = "report", q.since.form = "ago", report.bucket # "day"
        PROVE  2 * ((Seconds(q.since) \div BucketSeconds[report.bucket]) + 1) <= ChartWidth
    <3>1. PICK amount \in Nat, unit \in DOMAIN UnitSeconds : q.since = Ago(amount, unit)
      BY <2>4, QueriesAssumption
    <3>2. unit \in {"s", "m", "h", "d", "w"}
      BY DEF UnitSeconds
    <3>3. report.bucket = ChooseBucket("report", q.since, "auto")
      BY <2>3, <2>4 DEF Since
    <3> QED
      BY <2>4, <3>1, <3>2, <3>3, BucketsHaveRoom
  <2> QED
    BY <2>2, <2>4 DEF report
<1> QED
  BY <1>1, InitInv, StepInv, UsageInit1, UsageStep, RowsInit, RowsStep, CodesInit, CodesStep, PTL
     DEF RequestsSpec
===============================================================================
