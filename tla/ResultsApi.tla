------------------------------ MODULE ResultsApi ------------------------------
(***************************************************************************)
(* The read side of the API: the status and results handlers of            *)
(* model_service.py, and the two ways they are called: by                  *)
(* InferenceClient.run_inference (api_client.py: submit, poll until done,  *)
(* fetch) and directly with a job id.  The jobs themselves live as in      *)
(* JobLifecycle, which JobQueue implements; each HGETALL is one read of    *)
(* the job hash.                                                           *)
(***************************************************************************)
EXTENDS JobLifecycle, Integers

CONSTANT Clients  \* concurrent callers

VARIABLES
  at,      \* what the caller, or its request in progress, does next
  target,  \* the job asked about
  seen,    \* last status answered to poll_until_done
  reply    \* answer of the results call

api == <<at, target, seen, reply>>
apiVars == <<lifecycle, api>>

Ended == {"COMPLETED", "FAILED"}
StatusValue == {"none", "NOT_FOUND", "PENDING", "PROCESSING"} \cup Ended
Answer == [status : StatusValue, result : BOOLEAN]
NoAnswer == [status |-> "none", result |-> FALSE]

\* Variant: the handler passes the missing record on as it is.
StatusOfRaw(j) == life[j]

\* get_job_status, None turned into NOT_FOUND by the handler.
StatusOf(j) == IF life[j] \in {"new", "gone"} THEN "NOT_FOUND" ELSE life[j]

ApiTypeOK ==
  /\ life \in [Jobs -> Stages] /\ answer \in SUBSET Jobs
  /\ at \in [Clients -> {"idle", "poll", "fetch", "reread", "check",
                         "returned", "raised", "replied", "gaveUp"}]
  /\ target \in [Clients -> Jobs]
  /\ seen \in [Clients -> StatusValue]
  /\ reply \in [Clients -> Answer]

ApiInit ==
  /\ LifecycleInit
  /\ at = [c \in Clients |-> "idle"]
  /\ target \in [Clients -> Jobs]
  /\ seen = [c \in Clients |-> "none"]
  /\ reply = [c \in Clients |-> NoAnswer]

Go(c, from, to) == at[c] = from /\ at' = [at EXCEPT ![c] = to]

\* InferenceClient.submit: the id arrives, or only the job does.
SubmitAcked(c) ==
  /\ Accept(target[c])
  /\ Go(c, "idle", "poll")
  /\ UNCHANGED <<target, seen, reply>>

SubmitLost(c) ==
  /\ Accept(target[c])
  /\ Go(c, "idle", "gaveUp")
  /\ UNCHANGED <<target, seen, reply>>

\* One turn of poll_until_done.
PollStatus(c) ==
  LET s == StatusOf(target[c])
  IN /\ Go(c, "poll", IF s = "COMPLETED" THEN "fetch"
                      ELSE IF s \in {"FAILED", "NOT_FOUND"} THEN "gaveUp" ELSE "poll")
     /\ seen' = [seen EXCEPT ![c] = s]
     /\ UNCHANGED <<lifecycle, target, reply>>

\* The deadline of poll_until_done, or a request that fails on its way.
GiveUp(c) ==
  /\ at[c] \in {"poll", "fetch", "reread"}
  /\ at' = [at EXCEPT ![c] = "gaveUp"]
  /\ UNCHANGED <<lifecycle, target, seen, reply>>

\* A caller of /results that has the id of a submitted job, and does not poll.
CallResults(c) ==
  /\ life[target[c]] # "new"
  /\ Go(c, "idle", "fetch")
  /\ UNCHANGED <<lifecycle, target, seen, reply>>

\* Variant: COMPLETED is missing from the statuses get_job_result answers for.
ReadResultFailedOnly(c) ==
  LET j == target[c]
  IN /\ IF life[j] = "FAILED"
          THEN /\ Go(c, "fetch", "check")
               /\ reply' = [reply EXCEPT ![c] = [status |-> life[j], result |-> j \in answer]]
          ELSE Go(c, "fetch", "reread") /\ UNCHANGED reply
     /\ UNCHANGED <<lifecycle, target, seen>>

\* results: get_job_result answers for a finished job ...
ReadResult(c) ==
  LET j == target[c]
  IN /\ IF life[j] \in Ended
          THEN /\ Go(c, "fetch", "check")
               /\ reply' = [reply EXCEPT ![c] = [status |-> life[j], result |-> j \in answer]]
          ELSE Go(c, "fetch", "reread") /\ UNCHANGED reply
     /\ UNCHANGED <<lifecycle, target, seen>>

\* Variant: a job without a result is reported as PENDING.
ReadStatusPending(c) ==
  /\ Go(c, "reread", "check")
  /\ reply' = [reply EXCEPT ![c] = [status |-> "PENDING", result |-> FALSE]]
  /\ UNCHANGED <<lifecycle, target, seen>>

\* ... otherwise a second read, get_job_status, gives the status of the answer.
ReadStatus(c) ==
  /\ Go(c, "reread", "check")
  /\ reply' = [reply EXCEPT ![c] = [status |-> StatusOf(target[c]), result |-> FALSE]]
  /\ UNCHANGED <<lifecycle, target, seen>>

\* The caller looks at the answer; run_inference raises unless it is a result.
CheckReply(c) ==
  /\ Go(c, "check", IF seen[c] = "none" THEN "replied"
                    ELSE IF reply[c].status = "COMPLETED" /\ reply[c].result
                         THEN "returned" ELSE "raised")
  /\ UNCHANGED <<lifecycle, target, seen, reply>>

ClientNext(c) ==
  \/ SubmitAcked(c) \/ SubmitLost(c) \/ PollStatus(c) \/ GiveUp(c)
  \/ CallResults(c) \/ ReadResult(c) \/ ReadStatus(c) \/ CheckReply(c)

JobNext(j) ==
  /\ Start(j) \/ Complete(j) \/ Fail(j) \/ Vanish(j)
  /\ UNCHANGED api

ApiNext == (\E c \in Clients : ClientNext(c)) \/ (\E j \in Jobs : JobNext(j))

ApiSpec == ApiInit /\ [][ApiNext]_apiVars

-------------------------------------------------------------------------------
(***************************************************************************)
(* run_inference raises on the answer of /results only if the job's        *)
(* retention ended after the poll saw it COMPLETED: the poll and the two   *)
(* reads of the results handler never contradict each other otherwise.     *)
(***************************************************************************)
RaisesOnlyWhenGone == \A c \in Clients : at[c] = "raised" => life[target[c]] = "gone"

(***************************************************************************)
(* Successive answers to a caller follow the job's life: what /results     *)
(* says is never older than what /status said before, nor newer than the   *)
(* job itself.                                                             *)
(***************************************************************************)
Rank(s) ==
  CASE s = "none" -> 0 [] s = "PENDING" -> 1 [] s = "PROCESSING" -> 2
    [] s \in Ended -> 3 [] s = "NOT_FOUND" -> 4

AnswersInOrder ==
  \A c \in Clients :
    reply[c] # NoAnswer =>
      /\ Rank(seen[c]) <= Rank(reply[c].status)
      /\ Rank(reply[c].status) <= Rank(StatusOf(target[c]))
      /\ reply[c].status \in Ended =>
           StatusOf(target[c]) \in {reply[c].status, "NOT_FOUND"}

\* results, "Return job result if available, otherwise status/error metadata."
\* (model_service.py:273): an answer that says COMPLETED carries the result.
CompletedAnswersCarryResult ==
  \A c \in Clients : reply[c].status = "COMPLETED" => reply[c].result
===============================================================================
