--------------------------- MODULE ResultsApi_proofs ---------------------------
(***************************************************************************)
(* Theorems about ResultsApi for any set of jobs and of callers: what the  *)
(* answers of the read handlers say never contradicts the life of the job. *)
(***************************************************************************)
EXTENDS ResultsApi, TLAPS

USE DEF StatusValue, Answer, NoAnswer, Ended, Stages

-------------------------------------------------------------------------------
(***************************************************************************)
(* A caller that has asked anything has asked about a job that was         *)
(* submitted.                                                              *)
(***************************************************************************)
AsksAboutJob(c) ==
  at[c] # "idle" \/ seen[c] # "none" \/ reply[c] # NoAnswer => life[target[c]] # "new"

(***************************************************************************)
(* A caller that polls asks for the results once it was told COMPLETED,    *)
(* and has no answer of /results before.  From then on the job is          *)
(* COMPLETED or gone, so only the end of its retention leads to a second   *)
(* read, or to an answer without a result.                                 *)
(***************************************************************************)
AsksInTurn(c) ==
  /\ at[c] \in {"idle", "poll", "fetch", "reread"} => reply[c] = NoAnswer
  /\ at[c] = "idle" => seen[c] = "none"
  /\ at[c] \in {"fetch", "reread", "check"} => seen[c] \in {"none", "COMPLETED"}
  /\ at[c] = "reread" /\ seen[c] = "COMPLETED" => life[target[c]] = "gone"
  /\ at[c] = "check" /\ seen[c] = "COMPLETED" =>
       \/ reply[c] = [status |-> "COMPLETED", result |-> TRUE]
       \/ life[target[c]] = "gone"
  /\ at[c] = "raised" => life[target[c]] = "gone"

(***************************************************************************)
(* What a caller was told is not newer than the job, and what it was told  *)
(* last is not older than what it was told first.                          *)
(***************************************************************************)
ToldInOrder(c) ==
  /\ Rank(seen[c]) <= Rank(StatusOf(target[c]))
  /\ Rank(reply[c].status) <= Rank(StatusOf(target[c]))
  /\ reply[c] # NoAnswer => Rank(seen[c]) <= Rank(reply[c].status)
  /\ seen[c] \in Ended => StatusOf(target[c]) \in {seen[c], "NOT_FOUND"}
  /\ reply[c].status \in Ended => StatusOf(target[c]) \in {reply[c].status, "NOT_FOUND"}

CallerInv(c) == AsksAboutJob(c) /\ AsksInTurn(c) /\ ToldInOrder(c)

ResultsKept == \A j \in Jobs : life[j] = "COMPLETED" => j \in answer

ApiInv == ApiTypeOK /\ ResultsKept /\ \A c \in Clients : CallerInv(c)

-------------------------------------------------------------------------------
LEMMA Ranks ==
  /\ Rank("none") = 0 /\ Rank("PENDING") = 1 /\ Rank("PROCESSING") = 2
  /\ Rank("COMPLETED") = 3 /\ Rank("FAILED") = 3 /\ Rank("NOT_FOUND") = 4
  /\ \A s \in StatusValue : Rank(s) \in 0..4
<1>1. /\ Rank("none") = 0 /\ Rank("PENDING") = 1 /\ Rank("PROCESSING") = 2
      /\ Rank("COMPLETED") = 3 /\ Rank("FAILED") = 3 /\ Rank("NOT_FOUND") = 4
  BY DEF Rank
<1> QED
  BY <1>1

\* The status that is answered, by the stage of the job.
LEMMA Statuses ==
  ASSUME ApiTypeOK, NEW j \in Jobs
  PROVE  /\ life[j] \in {"new", "gone"} => StatusOf(j) = "NOT_FOUND"
         /\ life[j] \notin {"new", "gone"} => StatusOf(j) = life[j]
         /\ StatusOf(j) \in StatusValue \ {"none"}
BY DEF ApiTypeOK, StatusOf

JobMoves(j) == Accept(j) \/ Start(j) \/ Complete(j) \/ Fail(j) \/ Vanish(j)

(***************************************************************************)
(* A job's life goes on under a caller that does nothing.                  *)
(***************************************************************************)
LEMMA LifeMoves ==
  ASSUME ApiTypeOK, ResultsKept, NEW j \in Jobs, JobMoves(j)
  PROVE  /\ life' \in [Jobs -> Stages] /\ answer' \in SUBSET Jobs
         /\ ResultsKept'
         /\ \A i \in Jobs : i # j => life'[i] = life[i]
         /\ <<life[j], life'[j]>> \in
              {<<"new", "PENDING">>, <<"PENDING", "PROCESSING">>, <<"PROCESSING", "COMPLETED">>,
               <<"PROCESSING", "FAILED">>, <<"COMPLETED", "gone">>, <<"FAILED", "gone">>}
<1>1. CASE Accept(j) \/ Start(j) \/ Fail(j)
  BY <1>1 DEF Accept, Start, Fail, Move, ApiTypeOK, ResultsKept
<1>2. CASE Complete(j)
  BY <1>2 DEF Complete, Move, ApiTypeOK, ResultsKept
<1>3. CASE Vanish(j)
  BY <1>3 DEF Vanish, Move, ApiTypeOK, ResultsKept
<1> QED
  BY <1>1, <1>2, <1>3 DEF JobMoves

LEMMA LifeKeepsCaller ==
  ASSUME ApiInv, NEW j \in Jobs, JobMoves(j), NEW c \in Clients, ApiTypeOK',
         at'[c] = at[c], target'[c] = target[c], seen'[c] = seen[c], reply'[c] = reply[c]
  PROVE  CallerInv(c)'
<1> DEFINE t == target[c]
<1>1. /\ t \in Jobs /\ seen[c] \in StatusValue /\ reply[c] \in Answer
      /\ ApiTypeOK /\ ResultsKept /\ CallerInv(c)
  BY DEF ApiInv, ApiTypeOK
<1>2. /\ \A i \in Jobs : i # j => life'[i] = life[i]
      /\ <<life[j], life'[j]>> \in
           {<<"new", "PENDING">>, <<"PENDING", "PROCESSING">>, <<"PROCESSING", "COMPLETED">>,
            <<"PROCESSING", "FAILED">>, <<"COMPLETED", "gone">>, <<"FAILED", "gone">>}
  BY <1>1, LifeMoves
<1>3. /\ life'[t] # "new" \/ life[t] = "new"
      /\ life[t] = "gone" => life'[t] = "gone"
  BY <1>1, <1>2
<1>4. AsksAboutJob(c)' /\ AsksInTurn(c)'
  BY <1>1, <1>3 DEF CallerInv, AsksAboutJob, AsksInTurn
<1>5. ToldInOrder(c)'
  <2>1. CASE life[t] = "new"
    <3>1. seen[c] = "none" /\ reply[c] = NoAnswer
      BY <2>1, <1>1 DEF CallerInv, AsksAboutJob
    <3>2. StatusOf(t)' \in StatusValue \ {"none"}
      BY <1>1, Statuses DEF ApiTypeOK, StatusOf
    <3> QED
      BY <3>1, <3>2, Ranks DEF ToldInOrder
  <2>2. CASE life[t] # "new"
    <3>1. /\ StatusOf(t) \in StatusValue /\ StatusOf(t)' \in StatusValue
          /\ Rank(StatusOf(t)) <= Rank(StatusOf(t)')
          /\ StatusOf(t) \in Ended \cup {"NOT_FOUND"} =>
               StatusOf(t)' \in {StatusOf(t), "NOT_FOUND"}
          /\ StatusOf(t) = "NOT_FOUND" => StatusOf(t)' = "NOT_FOUND"
      BY <2>2, <1>1, <1>2, Ranks DEF StatusOf, ApiTypeOK
    <3>2. Rank(seen[c]) \in 0..4 /\ Rank(reply[c].status) \in 0..4
          /\ Rank(StatusOf(t)) \in 0..4 /\ Rank(StatusOf(t)') \in 0..4
      BY <3>1, <1>1, Ranks
    <3>3. StatusOf(target[c])' = StatusOf(t)'
      BY DEF StatusOf
    <3> QED
      BY <3>1, <3>2, <3>3, <1>1 DEF CallerInv, ToldInOrder
  <2> QED
    BY <2>1, <2>2
<1> QED
  BY <1>4, <1>5 DEF CallerInv

-------------------------------------------------------------------------------
(***************************************************************************)
(* A step of one caller.                                                   *)
(***************************************************************************)
LEMMA NothingMoves ==
  ASSUME ApiInv, NEW c \in Clients, UNCHANGED lifecycle,
         at'[c] = at[c], target'[c] = target[c], seen'[c] = seen[c], reply'[c] = reply[c]
  PROVE  CallerInv(c)'
<1>1. StatusOf(target[c])' = StatusOf(target[c]) /\ life' = life
  BY DEF StatusOf, lifecycle
<1> QED
  BY <1>1 DEF ApiInv, CallerInv, AsksAboutJob, AsksInTurn, ToldInOrder

LEMMA SubmitInv ==
  ASSUME ApiInv, NEW c \in Clients, SubmitAcked(c) \/ SubmitLost(c)
  PROVE  ApiInv'
<1> DEFINE j == target[c]
<1>1. /\ j \in Jobs /\ JobMoves(j) /\ life'[j] = "PENDING" /\ at[c] = "idle"
      /\ UNCHANGED <<target, seen, reply>>
      /\ at' = [at EXCEPT ![c] = "poll"] \/ at' = [at EXCEPT ![c] = "gaveUp"]
  BY DEF SubmitAcked, SubmitLost, Go, Accept, Move, JobMoves, ApiInv, ApiTypeOK
<1>2. ApiTypeOK' /\ ResultsKept'
  BY <1>1, LifeMoves DEF ApiInv, ApiTypeOK
<1>3. ASSUME NEW d \in Clients PROVE CallerInv(d)'
  <2>1. CASE d # c
    BY <2>1, <1>1, <1>2, LifeKeepsCaller DEF ApiInv, ApiTypeOK
  <2>2. CASE d = c
    <3>1. at'[c] \in {"poll", "gaveUp"} /\ seen[c] = "none" /\ reply[c] = NoAnswer
      BY <1>1 DEF ApiInv, ApiTypeOK, CallerInv, AsksInTurn
    <3>2. StatusOf(j)' = "PENDING"
      BY <1>1 DEF StatusOf
    <3> QED
      BY <2>2, <3>1, <3>2, <1>1, Ranks DEF CallerInv, AsksAboutJob, AsksInTurn, ToldInOrder
  <2> QED
    BY <2>1, <2>2
<1> QED
  BY <1>2, <1>3 DEF ApiInv

(***************************************************************************)
(* The other steps of a caller leave the jobs alone: what is left to show  *)
(* is about this caller.                                                   *)
(***************************************************************************)
LEMMA CallerStep ==
  ASSUME ApiInv, NEW c \in Clients, UNCHANGED <<lifecycle, target>>,
         NEW a \in {"poll", "fetch", "reread", "check", "returned", "raised", "replied", "gaveUp"},
         NEW s \in StatusValue, NEW r \in Answer,
         at' = [at EXCEPT ![c] = a],
         seen' = seen \/ seen' = [seen EXCEPT ![c] = s],
         reply' = reply \/ reply' = [reply EXCEPT ![c] = r],
         CallerInv(c)'
  PROVE  ApiInv'
<1>1. ApiTypeOK' /\ ResultsKept'
  BY DEF ApiInv, ApiTypeOK, ResultsKept, lifecycle
<1>2. \A d \in Clients \ {c} : CallerInv(d)'
  BY NothingMoves DEF ApiInv, ApiTypeOK
<1> QED
  BY <1>1, <1>2 DEF ApiInv

\* What is known of a caller before its step.
LEMMA Caller ==
  ASSUME ApiInv, NEW c \in Clients
  PROVE  /\ target[c] \in Jobs /\ seen[c] \in StatusValue /\ reply[c] \in Answer
         /\ life[target[c]] \in Stages
         /\ AsksAboutJob(c) /\ AsksInTurn(c) /\ ToldInOrder(c)
         /\ StatusOf(target[c]) \in StatusValue \ {"none"}
         /\ life[target[c]] \in {"new", "gone"} => StatusOf(target[c]) = "NOT_FOUND"
         /\ life[target[c]] \notin {"new", "gone"} => StatusOf(target[c]) = life[target[c]]
         /\ life[target[c]] = "COMPLETED" => target[c] \in answer
         /\ Rank(StatusOf(target[c])) \in 0..4
BY Statuses, Ranks DEF ApiInv, ApiTypeOK, CallerInv, ResultsKept

LEMMA PollInv ==
  ASSUME ApiInv, NEW c \in Clients, PollStatus(c)
  PROVE  ApiInv'
<1> DEFINE s == StatusOf(target[c])
           a == IF s = "COMPLETED" THEN "fetch"
                ELSE IF s \in {"FAILED", "NOT_FOUND"} THEN "gaveUp" ELSE "poll"
<1>1. /\ at[c] = "poll" /\ at' = [at EXCEPT ![c] = a] /\ seen' = [seen EXCEPT ![c] = s]
      /\ UNCHANGED <<life, lifecycle, target, reply>>
  BY DEF PollStatus, Go, lifecycle
<1>2. /\ at'[c] = a /\ seen'[c] = s /\ reply'[c] = NoAnswer /\ StatusOf(target[c])' = s
      /\ life[target[c]] # "new"
  BY <1>1, Caller DEF ApiInv, ApiTypeOK, AsksInTurn, AsksAboutJob, StatusOf
<1>3. CallerInv(c)'
  BY <1>1, <1>2, Caller, Ranks DEF CallerInv, AsksAboutJob, AsksInTurn, ToldInOrder
<1> QED
  BY <1>1, <1>3, Caller, CallerStep

LEMMA GiveUpInv ==
  ASSUME ApiInv, NEW c \in Clients, GiveUp(c) \/ CallResults(c)
  PROVE  ApiInv'
<1>1. PICK a \in {"gaveUp", "fetch"} :
        /\ at' = [at EXCEPT ![c] = a] /\ life[target[c]] # "new"
        /\ a = "gaveUp" \/ at[c] = "idle"
        /\ UNCHANGED <<life, lifecycle, target, seen, reply>>
  BY Caller DEF GiveUp, CallResults, Go, AsksAboutJob, lifecycle
<1>2. at'[c] = a /\ StatusOf(target[c])' = StatusOf(target[c])
  BY <1>1 DEF ApiInv, ApiTypeOK, StatusOf
<1>3. CallerInv(c)'
  BY <1>1, <1>2, Caller DEF CallerInv, AsksAboutJob, AsksInTurn, ToldInOrder
<1> QED
  BY <1>1, <1>3, Caller, CallerStep

LEMMA ReadResultInv ==
  ASSUME ApiInv, NEW c \in Clients, ReadResult(c)
  PROVE  ApiInv'
<1> DEFINE j == target[c]
           r == [status |-> life[j], result |-> j \in answer]
<1>1. at[c] = "fetch" /\ life[j] # "new" /\ UNCHANGED <<life, lifecycle, target, seen>>
  BY Caller DEF ReadResult, Go, AsksAboutJob, lifecycle
<1>2. StatusOf(target[c])' = StatusOf(j) /\ seen[c] \in {"none", "COMPLETED"}
  BY <1>1, Caller DEF StatusOf, AsksInTurn
<1>3. CASE life[j] \in Ended
  <2>1. at' = [at EXCEPT ![c] = "check"] /\ reply' = [reply EXCEPT ![c] = r]
    BY <1>3 DEF ReadResult, Go
  <2>2. r \in Answer /\ StatusOf(j) = life[j]
    BY <1>3, Caller
  <2>3. at'[c] = "check" /\ reply'[c] = r
    BY <2>1 DEF ApiInv, ApiTypeOK
  <2>4. seen[c] = "COMPLETED" => r = [status |-> "COMPLETED", result |-> TRUE]
    <3>1. seen[c] = "COMPLETED" => life[j] = "COMPLETED"
      BY <2>2, <1>3, Caller DEF ToldInOrder
    <3> QED
      BY <3>1, Caller
  <2> HIDE DEF r
  <2>5. r.status = StatusOf(j) /\ r.status \in Ended
    BY <2>2, <1>3 DEF r
  <2>6. AsksAboutJob(c)' /\ AsksInTurn(c)'
    BY <2>3, <2>4, <1>1, <1>2 DEF AsksAboutJob, AsksInTurn
  <2>7. ToldInOrder(c)'
    BY <2>3, <2>5, <1>1, <1>2, Caller DEF ToldInOrder
  <2> QED
    BY <2>1, <2>2, <2>6, <2>7, <1>1, Caller, CallerStep DEF CallerInv
<1>4. CASE life[j] \notin Ended
  <2>1. at' = [at EXCEPT ![c] = "reread"] /\ UNCHANGED reply
    BY <1>4 DEF ReadResult, Go
  <2>2. at'[c] = "reread"
    BY <2>1 DEF ApiInv, ApiTypeOK
  <2>3. seen[c] = "COMPLETED" => life[j] = "gone"
    BY <1>1, <1>4, Caller DEF ToldInOrder
  <2>4. CallerInv(c)'
    BY <2>1, <2>2, <2>3, <1>1, <1>2, Caller DEF CallerInv, AsksAboutJob, AsksInTurn, ToldInOrder
  <2> QED
    BY <2>1, <2>4, <1>1, Caller, CallerStep
<1> QED
  BY <1>3, <1>4

LEMMA ReadStatusInv ==
  ASSUME ApiInv, NEW c \in Clients, ReadStatus(c)
  PROVE  ApiInv'
<1> DEFINE j == target[c]
           r == [status |-> StatusOf(j), result |-> FALSE]
<1>1. /\ at[c] = "reread" /\ life[j] # "new" /\ UNCHANGED <<life, lifecycle, target, seen>>
      /\ at' = [at EXCEPT ![c] = "check"] /\ reply' = [reply EXCEPT ![c] = r]
  BY Caller DEF ReadStatus, Go, AsksAboutJob, lifecycle
<1>2. /\ r \in Answer /\ at'[c] = "check" /\ reply'[c] = r
      /\ StatusOf(target[c])' = StatusOf(j)
  BY <1>1, Caller DEF ApiInv, ApiTypeOK, StatusOf
<1>3. /\ seen[c] \in {"none", "COMPLETED"}
      /\ seen[c] = "COMPLETED" => life[j] = "gone"
  BY <1>1, Caller DEF AsksInTurn
<1>4. r.status = StatusOf(j)
  OBVIOUS
<1> HIDE DEF r
<1>5. AsksAboutJob(c)' /\ AsksInTurn(c)'
  BY <1>1, <1>2, <1>3 DEF AsksAboutJob, AsksInTurn
<1>6. ToldInOrder(c)'
  <2>1. Rank(seen[c]) <= Rank(StatusOf(j)) /\ Rank(StatusOf(j)) <= Rank(StatusOf(j))
        /\ (seen[c] \in Ended => StatusOf(j) \in {seen[c], "NOT_FOUND"})
    BY Caller DEF ToldInOrder
  <2> QED
    BY <2>1, <1>1, <1>2, <1>4 DEF ToldInOrder
<1> QED
  BY <1>1, <1>2, <1>5, <1>6, Caller, CallerStep DEF CallerInv

LEMMA CheckInv ==
  ASSUME ApiInv, NEW c \in Clients, CheckReply(c)
  PROVE  ApiInv'
<1> DEFINE a == IF seen[c] = "none" THEN "replied"
                ELSE IF reply[c].status = "COMPLETED" /\ reply[c].result
                     THEN "returned" ELSE "raised"
<1>1. /\ at[c] = "check" /\ at' = [at EXCEPT ![c] = a]
      /\ UNCHANGED <<life, lifecycle, target, seen, reply>>
  BY DEF CheckReply, Go, lifecycle
<1>2. at'[c] = a /\ StatusOf(target[c])' = StatusOf(target[c]) /\ life[target[c]] # "new"
  BY <1>1, Caller DEF ApiInv, ApiTypeOK, StatusOf, AsksAboutJob
<1>3. a = "raised" => life[target[c]] = "gone"
  BY <1>1, Caller DEF AsksInTurn
<1> HIDE DEF a
<1>4. a \in {"replied", "returned", "raised"}
  BY DEF a
<1>5. CallerInv(c)'
  BY <1>1, <1>2, <1>3, <1>4, Caller DEF CallerInv, AsksAboutJob, AsksInTurn, ToldInOrder
<1> QED
  BY <1>1, <1>4, <1>5, Caller, CallerStep

-------------------------------------------------------------------------------
LEMMA ApiInvInit == ApiInit => ApiInv
<1> SUFFICES ASSUME ApiInit PROVE ApiInv
  OBVIOUS
<1>1. ApiTypeOK /\ ResultsKept
  BY DEF ApiInit, LifecycleInit, ApiTypeOK, ResultsKept
<1>2. ASSUME NEW c \in Clients PROVE CallerInv(c)
  <2>1. /\ at[c] = "idle" /\ seen[c] = "none" /\ reply[c] = NoAnswer
        /\ StatusOf(target[c]) = "NOT_FOUND"
    BY DEF ApiInit, LifecycleInit, StatusOf
  <2> QED
    BY <2>1, Ranks DEF CallerInv, AsksAboutJob, AsksInTurn, ToldInOrder
<1> QED
  BY <1>1, <1>2 DEF ApiInv

LEMMA ApiInvNext == ApiInv /\ [ApiNext]_apiVars => ApiInv'
<1> SUFFICES ASSUME ApiInv, [ApiNext]_apiVars PROVE ApiInv'
  OBVIOUS
<1>1. ASSUME NEW c \in Clients, ClientNext(c) PROVE ApiInv'
  BY <1>1, SubmitInv, PollInv, GiveUpInv, ReadResultInv, ReadStatusInv, CheckInv DEF ClientNext
<1>2. ASSUME NEW j \in Jobs, JobNext(j) PROVE ApiInv'
  <2>1. JobMoves(j) /\ UNCHANGED <<at, target, seen, reply>>
    BY <1>2 DEF JobNext, JobMoves, api
  <2>2. ApiTypeOK' /\ ResultsKept'
    BY <2>1, LifeMoves DEF ApiInv, ApiTypeOK
  <2> QED
    BY <2>1, <2>2, LifeKeepsCaller DEF ApiInv
<1>3. CASE UNCHANGED apiVars
  <2>1. UNCHANGED <<life, answer, lifecycle, at, target, seen, reply>>
    BY <1>3 DEF apiVars, api, lifecycle
  <2>2. ApiTypeOK' /\ ResultsKept'
    BY <2>1 DEF ApiInv, ApiTypeOK, ResultsKept
  <2> QED
    BY <2>1, <2>2, NothingMoves DEF ApiInv
<1> QED
  BY <1>1, <1>2, <1>3 DEF ApiNext

LEMMA ApiInvariant == ApiSpec => []ApiInv
BY ApiInvInit, ApiInvNext, PTL DEF ApiSpec

(***************************************************************************)
(* Handlers and callers keep their types: no step of a caller is reached   *)
(* with a status or an answer that the handlers do not give.               *)
(***************************************************************************)
THEOREM ApiTypesCorrect == ApiSpec => []ApiTypeOK
<1>1. ApiInv => ApiTypeOK
  BY DEF ApiInv
<1> QED
  BY <1>1, ApiInvariant, PTL

(***************************************************************************)
(* run_inference raises on the answer of /results (api_client.py) only if  *)
(* the job is gone, for any number of callers of any jobs.                 *)
(***************************************************************************)
THEOREM RaisesOnlyOnExpiry == ApiSpec => []RaisesOnlyWhenGone
<1>1. ApiInv => RaisesOnlyWhenGone
  BY DEF ApiInv, CallerInv, AsksInTurn, RaisesOnlyWhenGone
<1> QED
  BY <1>1, ApiInvariant, PTL

(***************************************************************************)
(* The answers of the status and results handlers follow the job's life,   *)
(* although a results answer is put together from two reads.               *)
(***************************************************************************)
THEOREM AnswersFollowJob == ApiSpec => []AnswersInOrder
<1>1. ApiInv => AnswersInOrder
  BY DEF ApiInv, CallerInv, ToldInOrder, AnswersInOrder
<1> QED
  BY <1>1, ApiInvariant, PTL
===============================================================================
