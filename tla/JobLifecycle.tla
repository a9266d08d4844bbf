----------------------------- MODULE JobLifecycle -----------------------------
(***************************************************************************)
(* What the queue promises a client about one job: it is accepted once,    *)
(* picked up at most once, finished at most once, with a result exactly    *)
(* when it is COMPLETED, and forgotten only after it is finished.  This is *)
(* the life that the four values of JobStatus and the two retention rules  *)
(* of redis_queue.py (no TTL before a job is finished, job_ttl after)      *)
(* describe; JobQueue is shown to implement it.                            *)
(***************************************************************************)
CONSTANT Jobs

VARIABLES
  life,   \* "new", a JobStatus, or "gone"
  answer  \* jobs whose hash holds a result

lifecycle == <<life, answer>>

Stages == {"new", "PENDING", "PROCESSING", "COMPLETED", "FAILED", "gone"}

LifecycleInit ==
  /\ life = [j \in Jobs |-> "new"]
  /\ answer = {}

Move(j, from, to) ==
  /\ life[j] = from
  /\ life' = [life EXCEPT ![j] = to]

Accept(j) == Move(j, "new", "PENDING") /\ UNCHANGED answer
Start(j) == Move(j, "PENDING", "PROCESSING") /\ UNCHANGED answer
Complete(j) == Move(j, "PROCESSING", "COMPLETED") /\ answer' = answer \cup {j}
Fail(j) == Move(j, "PROCESSING", "FAILED") /\ UNCHANGED answer
Vanish(j) ==
  /\ \E end \in {"COMPLETED", "FAILED"} : Move(j, end, "gone")
  /\ answer' = answer \ {j}

LifecycleNext ==
  \E j \in Jobs :
    \/ Accept(j) \/ Start(j) \/ Complete(j) \/ Fail(j) \/ Vanish(j)

LifecycleSpec == LifecycleInit /\ [][LifecycleNext]_lifecycle
===============================================================================
