-------------------------- MODULE ServiceDeploy_proofs -------------------------
(***************************************************************************)
(* Theorems about ServiceDeploy, and with it ServiceBundles, for any       *)
(* platform settings, overlays and cached snapshots, and any number of     *)
(* commands, edits and interrupts.                                         *)
(***************************************************************************)
EXTENDS ServiceDeploy, SequenceTheorems, TLAPS

-------------------------------------------------------------------------------
(***************************************************************************)
(* onboard writes service.yaml into the directory it has just made: the    *)
(* step is either behind mkdir, which refuses a directory that is there,   *)
(* or next, and then there is no service.yaml.                             *)
(***************************************************************************)
Onboarding ==
  /\ dir \in BOOLEAN /\ (~dir => service = NoFile)
  /\ \A i \in DOMAIN todo : todo[i] = "service.yaml" =>
       \/ i = 2 /\ todo[1] = "mkdir"
       \/ i = 1 /\ dir /\ service = NoFile

(***************************************************************************)
(* A render is a block of steps that ends in the lock.  The files it has   *)
(* written and those it has still to write are all there are, and the lock *)
(* is not among the first.                                                 *)
(***************************************************************************)
FileNames ==
  {"k8s", "gateway-settings.json", "gateway-settings.dev-workaround.json",
   "bentoml-config.yaml", "secrets.yaml.example", "deploy.env", "apply-order.txt",
   "preflight-checklist.md", "usage-report", "service.lock"}

RenderSteps == {"clear"} \cup FileNames

Rendering ==
  \/ \A k \in DOMAIN todo : todo[k] \notin RenderSteps
  \/ \E i \in DOMAIN todo :
       /\ todo[i] = "service.lock"
       /\ \A k \in DOMAIN todo : k > i => todo[k] \notin RenderSteps
       /\ \A k \in 2..i : todo[k] \in AllFiles(env)
       /\ \A k \in 1..i : k # i => todo[k] # "service.lock"
       /\ \/ /\ todo[1] = "clear"
             /\ AllFiles(env) \subseteq {todo[k] : k \in 2..i}
          \/ /\ todo[1] \in AllFiles(env)
             /\ AllFiles(env) \subseteq DOMAIN bundle[env] \cup {todo[k] : k \in 1..i}
             /\ DOMAIN bundle[env] \subseteq AllFiles(env) \ {"service.lock"}

PlainSteps ==
  {"mkdir", "overlay.example", "stub", "secrets", "render", "validate", "verify", "pack",
   "resolve", "build", "use release", "app secrets", "config", "gateway", "workload",
   "workload, restart", "rollout", "rollout, rebuilt", "rollout of restart", "restart", "reset",
   "configure"}

Steps == RenderSteps \cup {"service.yaml"} \cup PlainSteps

Typed ==
  /\ todo \in Seq(Steps)
  /\ env \in Envs
  /\ bundle = [e \in Envs |-> bundle[e]]
  /\ used \in [commands : Nat, edits : Nat, interrupts : Nat]

CommandInv == Typed /\ Onboarding /\ Rendering

-------------------------------------------------------------------------------
FirstFiles == <<"k8s", "gateway-settings.json">>
DevFiles(e) == IF e = "dev" THEN <<"gateway-settings.dev-workaround.json">> ELSE <<>>
LastFiles ==
  <<"bentoml-config.yaml", "secrets.yaml.example", "deploy.env", "apply-order.txt",
    "preflight-checklist.md", "usage-report", "service.lock">>

(***************************************************************************)
(* Files(e) is a sequence that ends in the lock, and holds it only there.  *)
(***************************************************************************)
LEMMA LockIsLast ==
  ASSUME NEW e \in Envs
  PROVE  /\ Files(e) \in Seq(FileNames) /\ Len(Files(e)) \in Nat \ {0}
         /\ DOMAIN Files(e) = 1..Len(Files(e))
         /\ Files(e)[Len(Files(e))] = "service.lock"
         /\ \A k \in 1..Len(Files(e)) : k # Len(Files(e)) => Files(e)[k] # "service.lock"
<1> DEFINE d == DevFiles(e)
           front == FirstFiles \o d
<1>1. /\ FirstFiles \in Seq(FileNames) /\ d \in Seq(FileNames) /\ LastFiles \in Seq(FileNames)
      /\ Len(FirstFiles) = 2 /\ Len(d) \in {0, 1} /\ Len(LastFiles) = 7
  <2>1. FirstFiles \in Seq(FileNames) /\ Len(FirstFiles) = 2
    BY DEF FirstFiles, FileNames
  <2>2. LastFiles \in Seq(FileNames) /\ Len(LastFiles) = 7
    BY DEF LastFiles, FileNames
  <2>3. CASE e = "dev"
    BY <2>1, <2>2, <2>3 DEF DevFiles, FileNames
  <2>4. CASE e # "dev"
    BY <2>1, <2>2, <2>4 DEF DevFiles
  <2> QED
    BY <2>3, <2>4
<1>2. /\ LastFiles[7] = "service.lock"
      /\ \A k \in 1..6 : LastFiles[k] # "service.lock"
      /\ \A k \in 1..2 : FirstFiles[k] # "service.lock"
      /\ \A k \in 1..Len(d) : d[k] # "service.lock"
  BY DEF FirstFiles, DevFiles, LastFiles
<1>3. /\ front \in Seq(FileNames) /\ Len(front) = Len(FirstFiles) + Len(d)
      /\ \A i \in 1..(Len(FirstFiles) + Len(d)) :
           front[i] = IF i <= Len(FirstFiles) THEN FirstFiles[i] ELSE d[i - Len(FirstFiles)]
  BY <1>1, ConcatProperties
<1>4. Len(front) \in {2, 3} /\ \A k \in 1..Len(front) : front[k] # "service.lock"
  <2>1. ASSUME NEW k \in 1..Len(front) PROVE front[k] # "service.lock"
    <3>1. CASE k <= 2
      BY <3>1, <1>1, <1>2, <1>3
    <3>2. CASE k > 2
      <4>1. front[k] = d[k - 2] /\ k - 2 \in 1..Len(d)
        BY <3>2, <1>1, <1>3
      <4> QED
        BY <4>1, <1>2
    <3> QED
      BY <3>1, <3>2, <1>1, <1>3
  <2> QED
    BY <2>1, <1>1, <1>3
<1>5. /\ Files(e) = front \o LastFiles
      /\ Files(e) \in Seq(FileNames)
      /\ Len(Files(e)) = Len(front) + Len(LastFiles)
      /\ \A i \in 1..(Len(front) + Len(LastFiles)) :
           Files(e)[i] = IF i <= Len(front) THEN front[i] ELSE LastFiles[i - Len(front)]
  <2>1. Files(e) = front \o LastFiles
    BY DEF Files, FirstFiles, DevFiles, LastFiles
  <2> HIDE DEF front
  <2>2. /\ front \o LastFiles \in Seq(FileNames)
        /\ Len(front \o LastFiles) = Len(front) + Len(LastFiles)
        /\ \A i \in 1..(Len(front) + Len(LastFiles)) :
             (front \o LastFiles)[i] =
               IF i <= Len(front) THEN front[i] ELSE LastFiles[i - Len(front)]
    <3>1. front \in Seq(FileNames) /\ LastFiles \in Seq(FileNames)
      BY <1>1, <1>3
    <3> QED
      BY <3>1, ConcatProperties
  <2> QED
    BY <2>1, <2>2
<1> HIDE DEF front, d
<1>6. Files(e)[Len(Files(e))] = "service.lock"
  BY <1>1, <1>2, <1>4, <1>5
<1>7. ASSUME NEW k \in 1..Len(Files(e)), k # Len(Files(e))
      PROVE  Files(e)[k] # "service.lock"
  <2>1. CASE k <= Len(front)
    BY <2>1, <1>1, <1>4, <1>5
  <2>2. CASE k > Len(front)
    <3>0. Len(Files(e)) = Len(front) + 7 /\ Len(front) \in {2, 3}
      BY <1>1, <1>4, <1>5
    <3>1. Files(e)[k] = LastFiles[k - Len(front)] /\ k - Len(front) \in 1..6
      <4>1. k \in 1..(Len(front) + 7) /\ k # Len(front) + 7
        BY <3>0, <1>7
      <4>2. k - Len(front) \in 1..6
        BY <4>1, <3>0, <2>2
      <4> QED
        BY <4>1, <4>2, <2>2, <1>1, <1>5
    <3> QED
      BY <3>1, <1>2
  <2> QED
    BY <2>1, <2>2, <1>1, <1>4, <1>5
<1> QED
  BY <1>1, <1>4, <1>5, <1>6, <1>7, LenProperties

-------------------------------------------------------------------------------
(***************************************************************************)
(* Steps that write neither a file of a bundle nor service.yaml.           *)
(***************************************************************************)
Plain(steps) ==
  /\ steps \in Seq(Steps)
  /\ \A i \in DOMAIN steps : steps[i] \notin RenderSteps \cup {"service.yaml"}

OthersTyped ==
  /\ env \in Envs
  /\ bundle = [e \in Envs |-> bundle[e]]
  /\ used \in [commands : Nat, edits : Nat, interrupts : Nat]
  /\ dir \in BOOLEAN /\ (~dir => service = NoFile)

LEMMA Others == CommandInv => OthersTyped
BY DEF CommandInv, Typed, Onboarding, OthersTyped

LEMMA PlainConcat ==
  ASSUME NEW s, NEW t, Plain(s), Plain(t)
  PROVE  Plain(s \o t)
<1>1. /\ s \o t \in Seq(Steps) /\ Len(s \o t) = Len(s) + Len(t)
      /\ \A i \in 1..(Len(s) + Len(t)) :
           (s \o t)[i] = IF i <= Len(s) THEN s[i] ELSE t[i - Len(s)]
  <2>1. s \in Seq(Steps) /\ t \in Seq(Steps)
    BY DEF Plain
  <2> QED
    BY <2>1, ConcatProperties
<1>2. /\ Len(s) \in Nat /\ DOMAIN s = 1..Len(s) /\ Len(t) \in Nat /\ DOMAIN t = 1..Len(t)
      /\ DOMAIN (s \o t) = 1..(Len(s) + Len(t))
  BY <1>1, LenProperties DEF Plain
<1>3. ASSUME NEW i \in 1..(Len(s) + Len(t))
      PROVE  (s \o t)[i] \notin RenderSteps \cup {"service.yaml"}
  <2>1. CASE i <= Len(s)
    <3>1. (s \o t)[i] = s[i] /\ i \in DOMAIN s
      BY <2>1, <1>1, <1>2
    <3> QED
      BY <3>1 DEF Plain
  <2>2. CASE i > Len(s)
    <3>1. (s \o t)[i] = t[i - Len(s)] /\ i - Len(s) \in DOMAIN t
      BY <2>2, <1>1, <1>2
    <3> QED
      BY <3>1 DEF Plain
  <2> QED
    BY <2>1, <2>2, <1>2
<1> QED
  BY <1>1, <1>2, <1>3 DEF Plain

LEMMA PlainInv ==
  ASSUME Plain(todo'), OthersTyped'
  PROVE  CommandInv'
BY DEF Plain, OthersTyped, CommandInv, Typed, Onboarding, Rendering

LEMMA TailSteps ==
  ASSUME CommandInv, todo # <<>>
  PROVE  /\ Tail(todo) \in Seq(Steps) /\ Len(todo) \in Nat \ {0}
         /\ DOMAIN todo = 1..Len(todo) /\ DOMAIN Tail(todo) = 1..(Len(todo) - 1)
         /\ Head(todo) = todo[1] /\ 1 \in DOMAIN todo
         /\ \A i \in 1..(Len(todo) - 1) : Tail(todo)[i] = todo[i + 1]
<1>1. todo \in Seq(Steps)
  BY DEF CommandInv, Typed
<1> QED
  BY <1>1, HeadTailProperties, LenProperties

LEMMA FilesAreNamed == \A e \in Envs : AllFiles(e) \subseteq FileNames
BY LockIsLast, ElementOfSeq DEF AllFiles

(***************************************************************************)
(* What is left after a step that neither renders nor is mkdir is plain.   *)
(***************************************************************************)
LEMMA TailPlain ==
  ASSUME CommandInv, todo # <<>>, Head(todo) \notin RenderSteps \cup {"mkdir"}
  PROVE  Plain(Tail(todo))
<1>1. \A k \in DOMAIN todo : todo[k] \notin RenderSteps
  BY TailSteps, FilesAreNamed DEF CommandInv, Typed, Rendering, RenderSteps
<1>2. \A k \in DOMAIN todo : k # 1 => todo[k] # "service.yaml"
  BY TailSteps DEF CommandInv, Onboarding
<1> QED
  BY <1>1, <1>2, TailSteps DEF Plain

LEMMA NothingPlain == Plain(<<>>)
BY DEF Plain

LEMMA PassInv ==
  ASSUME CommandInv, todo # <<>>, Head(todo) \notin RenderSteps \cup {"mkdir"},
         NEW condition, PassIf(condition) \/ Continue(Tail(todo)) \/ Continue(<<>>),
         OthersTyped'
  PROVE  CommandInv'
<1>1. todo' = Tail(todo) \/ todo' = <<>>
  BY DEF PassIf, Continue
<1> QED
  BY <1>1, TailPlain, NothingPlain, PlainInv

LEMMA ContinueEnv ==
  ASSUME CommandInv, NEW steps, Continue(steps)
  PROVE  env' \in Envs
BY DEF Continue, CommandInv, Typed, Envs

-------------------------------------------------------------------------------
LEMMA MakeDirectoryInv ==
  ASSUME CommandInv, MakeDirectory
  PROVE  CommandInv'
<1>1. /\ todo # <<>> /\ todo[1] = "mkdir" /\ dir' = TRUE
      /\ UNCHANGED <<sources, bundle, used>>
      /\ todo' = <<>> \/ (~dir /\ todo' = Tail(todo))
  BY TailSteps DEF MakeDirectory, At, PassIf, Continue
<1>2. OthersTyped'
  BY <1>1, Others, ContinueEnv DEF MakeDirectory, PassIf, OthersTyped
<1>3. CASE todo' = <<>>
  BY <1>2, <1>3, NothingPlain, PlainInv
<1>4. CASE ~dir /\ todo' = Tail(todo)
  <2>1. \A k \in DOMAIN todo : todo[k] \notin RenderSteps
    BY <1>1, TailSteps, FilesAreNamed DEF CommandInv, Typed, Rendering, RenderSteps, FileNames
  <2>2. /\ todo' \in Seq(Steps)
        /\ \A k \in DOMAIN todo' : todo'[k] = todo[k + 1] /\ k + 1 \in DOMAIN todo
    BY <1>1, <1>4, TailSteps
  <2>3. service = NoFile /\ service' = NoFile
    BY <1>1, <1>4 DEF CommandInv, Onboarding, sources
  <2>4. Onboarding'
    <3>1. ASSUME NEW i \in DOMAIN todo', todo'[i] = "service.yaml" PROVE i = 1
      <4>1. i + 1 \in DOMAIN todo /\ todo[i + 1] = "service.yaml"
        BY <2>2, <3>1
      <4>2. i + 1 = 2 \/ i + 1 = 1
        BY <4>1 DEF CommandInv, Onboarding
      <4> QED
        BY <4>2, <1>4, TailSteps, <1>1
    <3> QED
      BY <3>1, <1>1, <2>3 DEF Onboarding
  <2>5. Rendering'
    BY <2>1, <2>2 DEF Rendering
  <2> QED
    BY <1>2, <2>2, <2>4, <2>5 DEF CommandInv, Typed, OthersTyped
<1> QED
  BY <1>1, <1>3, <1>4

(***************************************************************************)
(* render_service puts a whole render before what is left.                 *)
(***************************************************************************)
LEMMA RenderInv ==
  ASSUME CommandInv, Render
  PROVE  CommandInv'
<1>1. todo # <<>> /\ Head(todo) = "render" /\ UNCHANGED <<sources, bundle, used, dir>>
  BY DEF Render, At
<1>2. Plain(Tail(todo))
  BY <1>1, TailPlain DEF RenderSteps, FileNames
<1>3. CASE Continue(<<>>)
  <2>1. OthersTyped'
    BY <1>1, <1>3, Others, ContinueEnv DEF OthersTyped, sources
  <2> QED
    BY <2>1, <1>3, NothingPlain, PlainInv DEF Continue
<1>4. CASE todo' = <<"clear">> \o Files(env) \o Tail(todo) /\ env' = env
  <2> DEFINE n == Len(Files(env))
             block == <<"clear">> \o Files(env)
             rest == Tail(todo)
  <2>1. env \in Envs
    BY Others DEF OthersTyped
  <2>2. /\ Files(env) \in Seq(FileNames) /\ n \in Nat \ {0} /\ DOMAIN Files(env) = 1..n
        /\ Files(env)[n] = "service.lock"
        /\ \A k \in 1..n : k # n => Files(env)[k] # "service.lock"
    BY <2>1, LockIsLast
  <2>3. /\ block \in Seq(RenderSteps) /\ Len(block) = n + 1 /\ block[1] = "clear"
        /\ \A k \in 2..(n + 1) : block[k] = Files(env)[k - 1]
    <3>1. <<"clear">> \in Seq(RenderSteps) /\ Len(<<"clear">>) = 1 /\ <<"clear">>[1] = "clear"
      BY DEF RenderSteps
    <3>2. Files(env) \in Seq(RenderSteps)
      BY <2>2, SeqMonotonic DEF RenderSteps
    <3>3. /\ block \in Seq(RenderSteps) /\ Len(block) = Len(<<"clear">>) + n
          /\ \A k \in 1..(Len(<<"clear">>) + n) :
               block[k] = IF k <= Len(<<"clear">>) THEN <<"clear">>[k]
                          ELSE Files(env)[k - Len(<<"clear">>)]
      BY <3>1, <3>2, ConcatProperties
    <3>4. Len(block) = 1 + n /\ \A k \in 1..(1 + n) :
            block[k] = IF k <= 1 THEN <<"clear">>[k] ELSE Files(env)[k - 1]
      BY <3>1, <3>3
    <3> HIDE DEF block, n
    <3>5. n \in Nat \ {0} /\ Len(block) = n + 1 /\ block[1] = "clear"
      BY <3>1, <3>4, <2>2
    <3>6. \A k \in 2..(n + 1) : block[k] = Files(env)[k - 1]
      BY <3>4, <3>5
    <3> QED
      BY <3>3, <3>5, <3>6
  <2> HIDE DEF n, block, rest
  <2>4. rest \in Seq(Steps) /\ Len(rest) \in Nat /\ DOMAIN rest = 1..Len(rest)
    BY <1>2, LenProperties DEF Plain, rest
  <2>5. /\ todo' \in Seq(Steps) /\ Len(todo') = n + 1 + Len(rest)
        /\ DOMAIN todo' = 1..(n + 1 + Len(rest))
        /\ \A k \in 1..(n + 1) : todo'[k] = block[k]
        /\ \A k \in DOMAIN todo' : k > n + 1 => todo'[k] = rest[k - (n + 1)]
                                                /\ k - (n + 1) \in DOMAIN rest
    <3>1. block \in Seq(Steps) /\ rest \in Seq(Steps)
      BY <2>3, <2>4, SeqMonotonic DEF Steps
    <3>2. /\ block \o rest \in Seq(Steps) /\ Len(block \o rest) = Len(block) + Len(rest)
          /\ \A i \in 1..(Len(block) + Len(rest)) : (block \o rest)[i] =
               IF i <= Len(block) THEN block[i] ELSE rest[i - Len(block)]
      BY <3>1, ConcatProperties
    <3>3. todo' = block \o rest
      BY <1>4 DEF block, rest
    <3>4. DOMAIN todo' = 1..Len(todo')
      BY <3>2, <3>3, LenProperties
    <3> QED
      BY <3>2, <3>3, <3>4, <2>2, <2>3, <2>4
  <2>6. \A k \in DOMAIN todo' : k > n + 1 => todo'[k] \notin RenderSteps \cup {"service.yaml"}
    BY <2>5, <1>2 DEF Plain, rest
  <2>7. \A k \in DOMAIN todo' : todo'[k] # "service.yaml"
    <3>1. \A k \in 1..(n + 1) : todo'[k] \in RenderSteps
      BY <2>2, <2>3, <2>5, ElementOfSeq
    <3>2. "service.yaml" \notin RenderSteps
      BY DEF RenderSteps, FileNames
    <3>3. \A k \in DOMAIN todo' : k \in 1..(n + 1) \/ k > n + 1
      BY <2>2, <2>4, <2>5
    <3> QED
      BY <3>1, <3>2, <3>3, <2>6
  <2>8. Rendering'
    <3>1. \A k \in 2..(n + 1) : todo'[k] = Files(env)[k - 1]
      BY <2>2, <2>3, <2>5
    <3>2. AllFiles(env) = {todo'[k] : k \in 2..(n + 1)}
      <4>1. \A k \in 1..n : Files(env)[k] = todo'[k + 1] /\ k + 1 \in 2..(n + 1)
        BY <3>1, <2>2
      <4>2. \A k \in 2..(n + 1) : k - 1 \in 1..n
        BY <2>2
      <4>3. AllFiles(env) = {Files(env)[k] : k \in 1..n}
        BY <2>2 DEF AllFiles
      <4> QED
        BY <4>1, <4>2, <4>3, <3>1
    <3>3. /\ n + 1 \in DOMAIN todo' /\ todo'[n + 1] = "service.lock"
          /\ \A k \in 1..(n + 1) : k # n + 1 => todo'[k] # "service.lock"
          /\ todo'[1] = "clear"
      <4>1. todo'[1] = "clear"
        BY <2>2, <2>3, <2>5
      <4>2. todo'[n + 1] = "service.lock" /\ n + 1 \in DOMAIN todo'
        BY <3>1, <2>2, <2>4, <2>5
      <4>3. ASSUME NEW k \in 2..(n + 1), k # n + 1
            PROVE  todo'[k] # "service.lock"
        <5>1. k - 1 \in 1..n /\ k - 1 # n
          BY <4>3, <2>2
        <5> QED
          BY <5>1, <3>1, <2>2
      <4> QED
        BY <4>1, <4>2, <4>3, <2>2
    <3>4. \A k \in 2..(n + 1) : todo'[k] \in AllFiles(env)
      BY <3>2
    <3> QED
      BY <3>2, <3>3, <3>4, <2>6, <1>4 DEF Rendering
  <2>9. OthersTyped' /\ Onboarding'
    BY <1>1, <1>4, <2>7, Others DEF OthersTyped, Onboarding, sources
  <2> QED
    BY <2>5, <2>8, <2>9 DEF CommandInv, Typed, OthersTyped
<1> QED
  BY <1>3, <1>4 DEF Render

LEMMA EnvKept ==
  ASSUME CommandInv, todo # <<>>, Len(todo) > 1, Continue(Tail(todo))
  PROVE  env' = env
<1>1. 1 \in DOMAIN Tail(todo)
  BY TailSteps
<1>2. DOMAIN <<>> = {}
  OBVIOUS
<1>3. Tail(todo) # <<>>
  BY <1>1, <1>2
<1> QED
  BY <1>3 DEF Continue

LEMMA ClearInv ==
  ASSUME CommandInv, Clear
  PROVE  CommandInv'
<1>1. /\ todo # <<>> /\ todo[1] = "clear" /\ todo' = Tail(todo)
      /\ bundle' = [bundle EXCEPT ![env] = <<>>] /\ UNCHANGED <<sources, used, dir>>
  BY TailSteps DEF Clear, At, Continue
<1>2. env \in Envs /\ bundle'[env] = <<>> /\ DOMAIN bundle'[env] = {} /\ OthersTyped'
  <2>1. env \in Envs /\ bundle'[env] = <<>> /\ bundle' = [e \in Envs |-> bundle'[e]]
    BY <1>1 DEF CommandInv, Typed
  <2>2. env' \in Envs
    BY ContinueEnv DEF Clear
  <2> QED
    BY <1>1, <2>1, <2>2, Others DEF OthersTyped, sources
<1>3. PICK i \in DOMAIN todo :
        /\ todo[i] = "service.lock"
        /\ \A k \in DOMAIN todo : k > i => todo[k] \notin RenderSteps
        /\ \A k \in 2..i : todo[k] \in AllFiles(env)
        /\ \A k \in 1..i : k # i => todo[k] # "service.lock"
        /\ AllFiles(env) \subseteq {todo[k] : k \in 2..i}
  <2>1. "clear" \in RenderSteps /\ "clear" \notin AllFiles(env)
    BY <1>2, FilesAreNamed DEF RenderSteps, FileNames
  <2> QED
    BY <2>1, <1>1, TailSteps DEF CommandInv, Rendering
<1>4. /\ Len(todo) \in Nat \ {0} /\ DOMAIN todo = 1..Len(todo) /\ i \in 2..Len(todo)
      /\ todo' \in Seq(Steps) /\ DOMAIN todo' = 1..(Len(todo) - 1)
      /\ \A k \in 1..(Len(todo) - 1) : todo'[k] = todo[k + 1]
  BY <1>1, <1>3, TailSteps
<1>5. env' = env
  BY <1>1, <1>4, EnvKept DEF Clear
<1>6. Rendering'
  <2>1. i - 1 \in DOMAIN todo' /\ todo'[i - 1] = "service.lock"
    BY <1>3, <1>4
  <2>2. \A k \in DOMAIN todo' : k > i - 1 => todo'[k] \notin RenderSteps
    BY <1>3, <1>4
  <2>3. \A k \in 1..(i - 1) : todo'[k] \in AllFiles(env) /\ (k # i - 1 => todo'[k] # "service.lock")
    BY <1>3, <1>4
  <2>4. AllFiles(env) \subseteq {todo'[k] : k \in 1..(i - 1)}
    <3>1. \A k \in 2..i : todo[k] = todo'[k - 1] /\ k - 1 \in 1..(i - 1)
      BY <1>4
    <3> QED
      BY <3>1, <1>3
  <2>5. 1 \in 1..(i - 1) /\ \A k \in 2..(i - 1) : k \in 1..(i - 1)
    BY <1>4
  <2> QED
    BY <2>1, <2>2, <2>3, <2>4, <2>5, <1>2, <1>5 DEF Rendering
<1>7. Onboarding'
  BY <1>1, <1>2, <1>4 DEF CommandInv, Onboarding, OthersTyped
<1> QED
  BY <1>2, <1>4, <1>6, <1>7 DEF CommandInv, Typed, OthersTyped

(***************************************************************************)
(* A file of the bundle is written; the lock is, once all others are.      *)
(***************************************************************************)
LEMMA WrittenDomain ==
  ASSUME CommandInv, NEW file, NEW content, Written(file, content)
  PROVE  /\ bundle' = [e \in Envs |-> bundle'[e]]
         /\ DOMAIN bundle'[env] = DOMAIN bundle[env] \cup {file}
         /\ \A e \in Envs : e # env => bundle'[e] = bundle[e]
BY DEF Written, CommandInv, Typed

LEMMA FileInv ==
  ASSUME CommandInv, todo # <<>>, Head(todo) \in AllFiles(env), NEW content,
         Written(Head(todo), content), Continue(Tail(todo)), UNCHANGED <<sources, used, dir>>
  PROVE  /\ CommandInv'
         /\ Head(todo) # "service.lock" => "service.lock" \notin DOMAIN bundle'[env]
         /\ Head(todo) = "service.lock" => DOMAIN bundle'[env] = AllFiles(env)
<1> DEFINE file == todo[1]
<1>1. /\ Len(todo) \in Nat \ {0} /\ DOMAIN todo = 1..Len(todo) /\ Head(todo) = file
      /\ todo' = Tail(todo) /\ todo' \in Seq(Steps) /\ DOMAIN todo' = 1..(Len(todo) - 1)
      /\ \A k \in 1..(Len(todo) - 1) : todo'[k] = todo[k + 1]
  BY TailSteps DEF Continue
<1>2. /\ env \in Envs /\ OthersTyped'
      /\ DOMAIN bundle'[env] = DOMAIN bundle[env] \cup {file}
  BY <1>1, Others, ContinueEnv, WrittenDomain DEF OthersTyped, sources
<1>3. file \in AllFiles(env) /\ file \in RenderSteps /\ file # "clear" /\ file # "mkdir"
  BY <1>1, <1>2, FilesAreNamed DEF RenderSteps, FileNames
<1>4. PICK i \in DOMAIN todo :
        /\ todo[i] = "service.lock"
        /\ \A k \in DOMAIN todo : k > i => todo[k] \notin RenderSteps
        /\ \A k \in 2..i : todo[k] \in AllFiles(env)
        /\ \A k \in 1..i : k # i => todo[k] # "service.lock"
        /\ AllFiles(env) \subseteq DOMAIN bundle[env] \cup {todo[k] : k \in 1..i}
        /\ DOMAIN bundle[env] \subseteq AllFiles(env) \ {"service.lock"}
  BY <1>1, <1>3 DEF CommandInv, Rendering
<1>5. Onboarding'
  <2>1. ASSUME NEW k \in DOMAIN todo', todo'[k] = "service.yaml" PROVE FALSE
    <3>1. todo[k + 1] = "service.yaml" /\ k + 1 \in DOMAIN todo /\ k + 1 # 1
      BY <2>1, <1>1
    <3> QED
      BY <3>1, <1>3 DEF CommandInv, Onboarding
  <2> QED
    BY <2>1, <1>2 DEF Onboarding, OthersTyped
<1>6. CASE file = "service.lock"
  <2>1. i = 1
    BY <1>1, <1>4, <1>6
  <2>2. DOMAIN bundle'[env] = AllFiles(env)
    BY <2>1, <1>2, <1>3, <1>4
  <2>3. \A k \in DOMAIN todo' : todo'[k] \notin RenderSteps
    BY <2>1, <1>1, <1>4
  <2>4. Rendering'
    BY <2>3 DEF Rendering
  <2> QED
    BY <2>2, <2>4, <1>1, <1>2, <1>5, <1>6 DEF CommandInv, Typed, OthersTyped
<1>7. CASE file # "service.lock"
  <2>1. i \in 2..Len(todo)
    BY <1>1, <1>4, <1>7
  <2>2. env' = env
    BY <2>1, <1>1, EnvKept
  <2>3. DOMAIN bundle'[env] \subseteq AllFiles(env) \ {"service.lock"}
    BY <1>2, <1>3, <1>4, <1>7
  <2>4. i - 1 \in DOMAIN todo' /\ todo'[i - 1] = "service.lock"
    BY <2>1, <1>1, <1>4
  <2>5. \A k \in DOMAIN todo' : k > i - 1 => todo'[k] \notin RenderSteps
    BY <2>1, <1>1, <1>4
  <2>6. \A k \in 1..(i - 1) : todo'[k] \in AllFiles(env) /\ (k # i - 1 => todo'[k] # "service.lock")
    BY <2>1, <1>1, <1>4
  <2>7. AllFiles(env) \subseteq DOMAIN bundle'[env] \cup {todo'[k] : k \in 1..(i - 1)}
    <3>1. \A k \in 2..i : todo[k] = todo'[k - 1] /\ k - 1 \in 1..(i - 1)
      BY <2>1, <1>1
    <3>2. \A k \in 1..i : k = 1 \/ k \in 2..i
      BY <2>1
    <3> QED
      BY <3>1, <3>2, <1>2, <1>4
  <2>8. 1 \in 1..(i - 1) /\ \A k \in 2..(i - 1) : k \in 1..(i - 1)
    BY <2>1, <1>1
  <2>9. Rendering'
    BY <2>2, <2>3, <2>4, <2>5, <2>6, <2>7, <2>8 DEF Rendering
  <2> QED
    BY <2>3, <2>9, <1>1, <1>2, <1>5, <1>7 DEF CommandInv, Typed, OthersTyped
<1> QED
  BY <1>6, <1>7

-------------------------------------------------------------------------------
(***************************************************************************)
(* A command is put on the list.                                           *)
(***************************************************************************)
LEMMA BeginInv ==
  ASSUME CommandInv, NEW e \in Envs, NEW steps, Begin(e, steps), Plain(steps)
  PROVE  CommandInv' /\ used'.edits = used.edits
<1>1. todo' = steps /\ env' = e /\ UNCHANGED <<dir, sources, bundle>>
  BY DEF Begin
<1>2. /\ used' = [used EXCEPT !["commands"] = @ + 1]
  BY DEF Begin, Spend
<1>3. /\ used' \in [commands : Nat, edits : Nat, interrupts : Nat]
      /\ used'.edits = used.edits
  BY <1>2 DEF CommandInv, Typed
<1>4. OthersTyped'
  BY <1>1, <1>3, Others DEF OthersTyped, sources
<1> QED
  BY <1>1, <1>3, <1>4, PlainInv

LEMMA OnboardInv ==
  ASSUME CommandInv, Onboard
  PROVE  CommandInv' /\ used'.edits = used.edits
<1> DEFINE steps == <<"mkdir", "service.yaml", "overlay.example", "stub", "secrets",
                      "render", "validate">>
<1>1. todo' = steps /\ env' = "dev" /\ UNCHANGED <<dir, sources, bundle>>
  BY DEF Onboard, Begin
<1>2. /\ used' = [used EXCEPT !["commands"] = @ + 1]
  BY DEF Onboard, Begin, Spend
<1>3. /\ used' \in [commands : Nat, edits : Nat, interrupts : Nat]
      /\ used'.edits = used.edits
  BY <1>2 DEF CommandInv, Typed
<1>4. /\ steps \in Seq(Steps)
      /\ \A k \in DOMAIN steps : steps[k] \notin RenderSteps
      /\ \A k \in DOMAIN steps : steps[k] = "service.yaml" => k = 2
      /\ steps[1] = "mkdir"
  <2>1. steps \in Seq(Steps)
    <3>1. steps \in Seq({"service.yaml"} \cup PlainSteps)
      BY DEF PlainSteps
    <3> HIDE DEF steps
    <3> QED
      BY <3>1, SeqMonotonic DEF Steps
  <2>2. \A k \in DOMAIN steps : steps[k] \notin RenderSteps
    BY DEF RenderSteps, FileNames
  <2> QED
    BY <2>1, <2>2
<1>5. OthersTyped'
  BY <1>1, <1>3, Others DEF OthersTyped, sources, Envs
<1> HIDE DEF steps
<1> QED
  BY <1>1, <1>3, <1>4, <1>5 DEF CommandInv, Typed, Onboarding, Rendering, OthersTyped

LEMMA PlainTuple ==
  ASSUME NEW steps \in Seq(PlainSteps)
  PROVE  Plain(steps)
<1>1. steps \in Seq(Steps)
  BY SeqMonotonic DEF Steps
<1>2. \A i \in DOMAIN steps : steps[i] \in PlainSteps
  BY LenProperties, ElementOfSeq
<1>3. \A step \in PlainSteps : step \notin RenderSteps \cup {"service.yaml"}
  BY DEF PlainSteps, RenderSteps, FileNames
<1> QED
  BY <1>1, <1>2, <1>3 DEF Plain

LEMMA PlainCommands ==
  /\ Plain(<<"render">>)
  /\ Plain(<<"render", "verify", "pack">>)
  /\ Plain(<<"render", "validate", "resolve">>)
  /\ Plain(<<"render", "validate", "resolve", "build">>)
  /\ Plain(<<"resolve", "build", "reset", "resolve", "use release">>)
  /\ Plain(<<"reset", "render", "validate", "resolve", "build">>)
  /\ Plain(<<"reset">>)
  /\ Plain(<<"configure">>)
  /\ Plain(<<"resolve", "build", "restart", "rollout of restart">>)
  /\ Plain(Apply(TRUE))
  /\ Plain(Apply(FALSE))
<1>1. <<"render">> \in Seq(PlainSteps)
  BY DEF PlainSteps
<1>2. <<"render", "verify", "pack">> \in Seq(PlainSteps)
  BY DEF PlainSteps
<1>3. <<"render", "validate", "resolve">> \in Seq(PlainSteps)
  BY DEF PlainSteps
<1>4. <<"render", "validate", "resolve", "build">> \in Seq(PlainSteps)
  BY DEF PlainSteps
<1>5. <<"resolve", "build", "reset", "resolve", "use release">> \in Seq(PlainSteps)
  BY DEF PlainSteps
<1>6. <<"reset", "render", "validate", "resolve", "build">> \in Seq(PlainSteps)
  BY DEF PlainSteps
<1>7. <<"reset">> \in Seq(PlainSteps)
  BY DEF PlainSteps
<1>8. <<"configure">> \in Seq(PlainSteps)
  BY DEF PlainSteps
<1>9. <<"resolve", "build", "restart", "rollout of restart">> \in Seq(PlainSteps)
  BY DEF PlainSteps
<1>10. Apply(TRUE) \in Seq(PlainSteps)
  BY DEF PlainSteps, Apply
<1>11. Apply(FALSE) \in Seq(PlainSteps)
  BY DEF PlainSteps, Apply
<1> QED
  BY <1>1, <1>2, <1>3, <1>4, <1>5, <1>6, <1>7, <1>8, <1>9, <1>10, <1>11, PlainTuple

LEMMA CommandsInv ==
  ASSUME CommandInv,
         RenderCommand \/ ProdPack \/ DeployCommand \/ RebuildCommand \/ Bootstrap \/ Fresh
           \/ Teardown \/ BuildCommand \/ ConfigureCommand
  PROVE  CommandInv' /\ used'.edits = used.edits
<1> USE PlainCommands, BeginInv DEF Envs
<1>1. CASE RenderCommand \/ ProdPack
  BY <1>1 DEF RenderCommand, ProdPack
<1>2. CASE DeployCommand
  BY <1>2, PlainConcat DEF DeployCommand
<1>3. CASE RebuildCommand
  BY <1>3, PlainConcat DEF RebuildCommand
<1>4. CASE Bootstrap
  BY <1>4, PlainConcat DEF Bootstrap
<1>5. CASE Fresh
  <2>1. Plain(<<"reset", "render", "validate", "resolve", "build">> \o Apply(TRUE))
    BY PlainConcat
  <2> QED
    BY <2>1, <1>5, PlainConcat DEF Fresh
<1>6. CASE Teardown \/ BuildCommand \/ ConfigureCommand
  BY <1>6 DEF Teardown, BuildCommand, ConfigureCommand
<1> QED
  BY <1>1, <1>2, <1>3, <1>4, <1>5, <1>6

-------------------------------------------------------------------------------
(***************************************************************************)
(* The steps of commands other than those of a render.                     *)
(***************************************************************************)
LEMMA ScaffoldInv ==
  ASSUME CommandInv, WriteService \/ WriteExample \/ WriteStub \/ WriteSecrets
  PROVE  CommandInv' /\ UNCHANGED used
<1>1. /\ todo # <<>> /\ Continue(Tail(todo)) /\ UNCHANGED <<dir, bundle, used>>
      /\ Head(todo) \in {"service.yaml", "overlay.example", "stub", "secrets"}
      /\ service' = service \/ Head(todo) = "service.yaml"
  BY DEF WriteService, WriteExample, WriteStub, WriteSecrets, At
<1>2. Head(todo) = "service.yaml" => dir
  BY <1>1, TailSteps DEF CommandInv, Onboarding
<1>3. OthersTyped'
  BY <1>1, <1>2, Others, ContinueEnv DEF OthersTyped
<1>4. Head(todo) \notin RenderSteps \cup {"mkdir"}
  BY <1>1 DEF RenderSteps, FileNames
<1> QED
  BY <1>1, <1>3, <1>4, PassInv

LEMMA ChecksInv ==
  ASSUME CommandInv, Validate \/ Verify \/ Pack
  PROVE  CommandInv' /\ UNCHANGED used
<1>1. /\ todo # <<>> /\ UNCHANGED <<dir, sources, bundle, used>>
      /\ Head(todo) \in {"validate", "verify", "pack"}
      /\ \E condition \in {ValidateErrors = {}, VerifyErrors = {}, TRUE} :
           PassIf(condition) \/ Continue(Tail(todo))
  BY DEF Validate, Verify, Pack, At
<1>2. PICK condition \in {ValidateErrors = {}, VerifyErrors = {}, TRUE} :
        PassIf(condition) \/ Continue(Tail(todo))
  BY <1>1
<1>3. OthersTyped'
  BY <1>1, <1>2, Others, ContinueEnv DEF OthersTyped, sources, PassIf
<1>4. Head(todo) \notin RenderSteps \cup {"mkdir"}
  BY <1>1 DEF RenderSteps, FileNames
<1> QED
  BY <1>1, <1>2, <1>3, <1>4, PassInv

LEMMA InterruptInv ==
  ASSUME CommandInv, Interrupt
  PROVE  CommandInv' /\ used'.edits = used.edits
<1>1. todo' = <<>> /\ UNCHANGED <<dir, sources>>
  BY DEF Interrupt, Continue
<1>2. used' = [used EXCEPT !["interrupts"] = @ + 1]
  BY DEF Interrupt, Spend
<1>3. /\ used' \in [commands : Nat, edits : Nat, interrupts : Nat]
      /\ used'.edits = used.edits
  BY <1>2 DEF CommandInv, Typed
<1>4. bundle' = [e \in Envs |-> bundle'[e]]
  BY DEF Interrupt, CommandInv, Typed
<1>5. OthersTyped'
  BY <1>1, <1>3, <1>4, Others, ContinueEnv DEF OthersTyped, sources, Interrupt
<1> QED
  BY <1>1, <1>3, <1>5, NothingPlain, PlainInv

LEMMA ClusterInv ==
  ASSUME CommandInv, ClusterStep
  PROVE  CommandInv' /\ UNCHANGED <<dir, sources, bundle, used>>
<1> DEFINE Names == {"resolve", "build", "use release", "app secrets", "config", "gateway",
                     "workload", "workload, restart", "rollout", "rollout, rebuilt",
                     "rollout of restart", "restart", "reset", "configure"}
           Next(name, condition) ==
             Step(name) /\ (PassIf(condition) \/ Continue(Tail(todo)) \/ Continue(<<>>))
<1>1. ASSUME NEW name \in Names, NEW condition, Next(name, condition)
      PROVE  CommandInv' /\ UNCHANGED <<dir, sources, bundle, used>>
  <2>1. todo # <<>> /\ Head(todo) = name /\ UNCHANGED <<dir, sources, bundle, used>>
    BY <1>1 DEF Step, At
  <2>2. OthersTyped'
    BY <1>1, <2>1, Others, ContinueEnv DEF OthersTyped, sources, PassIf
  <2>3. Head(todo) \notin RenderSteps \cup {"mkdir"}
    BY <2>1 DEF RenderSteps, FileNames
  <2> QED
    BY <1>1, <2>1, <2>2, <2>3, PassInv
<1>2. CASE Resolve
  BY <1>1, <1>2 DEF Resolve
<1>3. CASE Build
  BY <1>1, <1>3 DEF Build
<1>4. CASE NeedRelease
  BY <1>1, <1>4 DEF NeedRelease
<1>5. CASE ApplySecrets
  BY <1>1, <1>5 DEF ApplySecrets
<1>6. CASE ApplyConfig \/ ApplyGateway
  BY <1>1, <1>6 DEF ApplyConfig, ApplyGateway
<1>7. CASE ApplyWorkload
  BY <1>1, <1>7 DEF ApplyWorkload
<1>8. CASE Restart
  BY <1>1, <1>8 DEF Restart
<1>9. CASE WaitRollout
  BY <1>1, <1>9 DEF WaitRollout
<1>10. CASE Reset
  BY <1>1, <1>10 DEF Reset
<1>11. CASE Configure
  BY <1>1, <1>11 DEF Configure
<1> QED
  BY <1>2, <1>3, <1>4, <1>5, <1>6, <1>7, <1>8, <1>9, <1>10, <1>11 DEF ClusterStep

-------------------------------------------------------------------------------
(***************************************************************************)
(* What a step does to the files written by hand, and to the locks.        *)
(***************************************************************************)
FilesKept ==
  used'.edits = used.edits =>
    /\ service # NoFile => service' = service
    /\ overlay # NoFile => overlay' = overlay
    /\ secrets # NoFile => secrets' = secrets
    /\ code # "absent" => code' = code

LockStep ==
  \A e \in Envs :
    Has(e, "service.lock")' /\ ~Has(e, "service.lock") => DOMAIN bundle'[e] = AllFiles(e)

LEMMA SourcesKept == UNCHANGED sources => FilesKept
BY DEF sources, FilesKept

LEMMA BundlesKept == UNCHANGED bundle => LockStep
BY DEF LockStep, Has

LEMMA WriteInv ==
  ASSUME CommandInv, WriteFile \/ WriteLock
  PROVE  CommandInv' /\ FilesKept /\ LockStep
<1>1. /\ todo # <<>> /\ Continue(Tail(todo)) /\ UNCHANGED <<sources, used, dir>>
      /\ Head(todo) \in AllFiles(env)
  <2>1. CASE WriteFile
    BY <2>1 DEF WriteFile
  <2>2. CASE WriteLock
    <3>1. env \in Envs
      BY DEF CommandInv, Typed
    <3>2. "service.lock" \in AllFiles(env)
      BY <3>1, LockIsLast DEF AllFiles
    <3> QED
      BY <2>2, <3>2 DEF WriteLock, At
  <2> QED
    BY <2>1, <2>2
<1>2. PICK content : Written(Head(todo), content)
  BY DEF WriteFile, WriteLock, At
<1>3. /\ CommandInv'
      /\ Head(todo) # "service.lock" => "service.lock" \notin DOMAIN bundle'[env]
      /\ Head(todo) = "service.lock" => DOMAIN bundle'[env] = AllFiles(env)
  BY <1>1, <1>2, FileInv
<1>4. \A e \in Envs : e # env => bundle'[e] = bundle[e]
  BY <1>2, WrittenDomain
<1> QED
  BY <1>1, <1>3, <1>4, SourcesKept DEF LockStep, Has

LEMMA ClearKeeps ==
  ASSUME CommandInv, Clear
  PROVE  FilesKept /\ LockStep
<1>1. \A e \in Envs : bundle'[e] = bundle[e] \/ bundle'[e] = <<>>
  BY DEF Clear, CommandInv, Typed
<1>2. DOMAIN <<>> = {}
  OBVIOUS
<1>3. LockStep
  BY <1>1, <1>2 DEF LockStep, Has
<1> QED
  BY <1>3, SourcesKept DEF Clear

LEMMA ScaffoldKeeps ==
  ASSUME CommandInv, WriteService \/ WriteExample \/ WriteStub \/ WriteSecrets
  PROVE  FilesKept /\ LockStep
<1>1. LockStep
  BY BundlesKept DEF WriteService, WriteExample, WriteStub, WriteSecrets
<1>2. CASE WriteService
  <2>1. service = NoFile
    BY <1>2, TailSteps DEF WriteService, At, CommandInv, Onboarding
  <2> QED
    BY <1>1, <1>2, <2>1 DEF WriteService, FilesKept
<1>3. CASE WriteExample \/ WriteStub \/ WriteSecrets
  BY <1>1, <1>3 DEF WriteExample, WriteStub, WriteSecrets, FilesKept
<1> QED
  BY <1>2, <1>3

LEMMA InterruptKeeps ==
  ASSUME CommandInv, Interrupt
  PROVE  FilesKept /\ LockStep
<1>1. CASE UNCHANGED bundle
  BY <1>1, BundlesKept, SourcesKept DEF Interrupt
<1>2. CASE ~UNCHANGED bundle
  <2>1. PICK removed : /\ bundle[env] # NoFile
                       /\ bundle' = [bundle EXCEPT ![env] = [f \in DOMAIN @ \ removed |-> @[f]]]
    BY <1>2 DEF Interrupt
  <2>2. /\ \A e \in Envs : e # env => bundle'[e] = bundle[e]
        /\ env \in Envs /\ DOMAIN bundle'[env] \subseteq DOMAIN bundle[env]
    BY <2>1 DEF CommandInv, Typed
  <2>3. LockStep
    BY <2>1, <2>2 DEF LockStep, Has
  <2> QED
    BY <2>3, SourcesKept DEF Interrupt
<1> QED
  BY <1>1, <1>2

(***************************************************************************)
(* An edit leaves the command where it is.  service.yaml is edited only    *)
(* when it is there, and so not between mkdir and the first write.         *)
(***************************************************************************)
LEMMA EditInv ==
  ASSUME CommandInv, EditByHand
  PROVE  CommandInv' /\ FilesKept /\ LockStep
<1>1. /\ UNCHANGED <<dir, bundle, todo, env>> /\ used' = [used EXCEPT !["edits"] = @ + 1]
      /\ service' = service \/ service # NoFile
  BY DEF EditByHand, command, Spend, EditService, EditOverlay, EditCode, EditSecrets
<1>2. /\ used' \in [commands : Nat, edits : Nat, interrupts : Nat]
      /\ used'.edits # used.edits
  BY <1>1 DEF CommandInv, Typed
<1>3. Typed'
  BY <1>1, <1>2 DEF CommandInv, Typed
<1>4. Rendering'
  <2>1. AllFiles(env)' = AllFiles(env)
    BY <1>1 DEF AllFiles
  <2> QED
    BY <1>1, <2>1 DEF CommandInv, Rendering
<1>5. Onboarding'
  BY <1>1 DEF CommandInv, Onboarding
<1> QED
  BY <1>1, <1>2, <1>3, <1>4, <1>5, BundlesKept DEF CommandInv, FilesKept

LEMMA RemoveInv ==
  ASSUME CommandInv, RemoveService
  PROVE  CommandInv' /\ FilesKept /\ LockStep
<1>1. /\ todo' = <<>> /\ env' = env /\ dir' = FALSE /\ service' = NoFile
      /\ bundle' = [e \in Envs |-> NoFile] /\ used' = [used EXCEPT !["edits"] = @ + 1]
  BY DEF RemoveService, command, Spend
<1>2. /\ used' \in [commands : Nat, edits : Nat, interrupts : Nat]
      /\ used'.edits # used.edits
  BY <1>1 DEF CommandInv, Typed
<1>3. bundle' = [e \in Envs |-> bundle'[e]] /\ \A e \in Envs : bundle'[e] = NoFile
  BY <1>1
<1>4. OthersTyped'
  BY <1>1, <1>2, <1>3, Others DEF OthersTyped
<1> QED
  BY <1>1, <1>2, <1>3, <1>4, NothingPlain, PlainInv DEF FilesKept, LockStep, Has

LEMMA CommandsKeep ==
  ASSUME Onboard \/ RenderCommand \/ ProdPack \/ DeployCommand \/ RebuildCommand \/ Bootstrap
           \/ Fresh \/ Teardown \/ BuildCommand \/ ConfigureCommand
  PROVE  FilesKept /\ LockStep
<1>1. UNCHANGED <<sources, bundle>>
  BY DEF Onboard, RenderCommand, ProdPack, DeployCommand, RebuildCommand, Bootstrap, Fresh,
         Teardown, BuildCommand, ConfigureCommand, Begin
<1> QED
  BY <1>1, SourcesKept, BundlesKept

LEMMA BundleStepInv ==
  ASSUME CommandInv, BundleNext
  PROVE  CommandInv' /\ FilesKept /\ LockStep
<1>1. CASE Onboard
  BY <1>1, OnboardInv, CommandsKeep
<1>2. CASE RenderCommand \/ ProdPack
  BY <1>2, CommandsInv, CommandsKeep
<1>3. CASE MakeDirectory
  BY <1>3, MakeDirectoryInv, SourcesKept, BundlesKept DEF MakeDirectory
<1>4. CASE WriteService \/ WriteExample \/ WriteStub \/ WriteSecrets
  BY <1>4, ScaffoldInv, ScaffoldKeeps
<1>5. CASE Render
  BY <1>5, RenderInv, SourcesKept, BundlesKept DEF Render
<1>6. CASE Clear
  BY <1>6, ClearInv, ClearKeeps
<1>7. CASE WriteFile \/ WriteLock
  BY <1>7, WriteInv
<1>8. CASE Validate \/ Verify \/ Pack
  <2>1. UNCHANGED <<sources, bundle>>
    BY <1>8 DEF Validate, Verify, Pack
  <2> QED
    BY <2>1, <1>8, ChecksInv, SourcesKept, BundlesKept
<1>9. CASE Interrupt
  BY <1>9, InterruptInv, InterruptKeeps
<1>10. CASE EditByHand
  BY <1>10, EditInv
<1>11. CASE RemoveService
  BY <1>11, RemoveInv
<1> QED
  BY <1>1, <1>2, <1>3, <1>4, <1>5, <1>6, <1>7, <1>8, <1>9, <1>10, <1>11
  DEF BundleNext, GeneratorStep

LEMMA UnchangedInv ==
  ASSUME CommandInv, UNCHANGED bundleVars
  PROVE  CommandInv' /\ FilesKept /\ LockStep
<1>1. UNCHANGED <<dir, sources, service, bundle, todo, env, used>>
  BY DEF bundleVars, command, sources
<1>2. CommandInv'
  BY <1>1 DEF CommandInv, Typed, Onboarding, Rendering
<1> QED
  BY <1>1, <1>2, SourcesKept, BundlesKept

LEMMA StepInv ==
  ASSUME CommandInv, [DeployNext]_deployVars
  PROVE  CommandInv' /\ FilesKept /\ LockStep
<1>1. CASE BundleStep
  BY <1>1, BundleStepInv DEF BundleStep
<1>2. CASE ClusterCommand
  BY <1>2, CommandsInv, CommandsKeep DEF ClusterCommand
<1>3. CASE ClusterStep
  BY <1>3, ClusterInv, SourcesKept, BundlesKept
<1>4. CASE StartPod \/ StopPod \/ UNCHANGED deployVars
  <2>1. UNCHANGED bundleVars
    BY <1>4 DEF StartPod, StopPod, deployVars
  <2> QED
    BY <2>1, UnchangedInv
<1> QED
  BY <1>1, <1>2, <1>3, <1>4 DEF DeployNext

LEMMA InitInv == DeployInit => CommandInv
<1> SUFFICES ASSUME DeployInit PROVE CommandInv
  OBVIOUS
<1>1. /\ dir = TRUE /\ todo = <<>> /\ env = "dev"
      /\ used = [commands |-> 0, edits |-> 0, interrupts |-> 0]
  BY DEF DeployInit
<1>2. bundle = [e \in Envs |-> bundle[e]]
  BY DEF DeployInit
<1> QED
  BY <1>1, <1>2 DEF CommandInv, Typed, Onboarding, Rendering, Envs

(***************************************************************************)
(* Whatever the commands, edits and interrupts, and wherever they fall,    *)
(* no command of the generator or of the deployment changes a file that is *)
(* written by hand once it is there (scaffold, render_service, app.sh).    *)
(***************************************************************************)
THEOREM FilesByHandStay == DeploySpec => HandWrittenFilesKept
<1>1. CommandInv /\ [DeployNext]_deployVars => CommandInv'
  BY StepInv
<1>2. CommandInv /\ [DeployNext]_deployVars =>
        [used'.edits = used.edits =>
           /\ service # NoFile => service' = service
           /\ overlay # NoFile => overlay' = overlay
           /\ secrets # NoFile => secrets' = secrets
           /\ code # "absent" => code' = code]_bundleVars
  BY StepInv DEF FilesKept
<1> QED
  BY <1>1, <1>2, InitInv, PTL DEF DeploySpec, HandWrittenFilesKept

(***************************************************************************)
(* service.lock appears only in a directory that has every other file of a *)
(* render (render_service writes it last), for any number of interrupted   *)
(* and repeated renders.                                                   *)
(***************************************************************************)
THEOREM LockMeansComplete == DeploySpec => LockComesLast
<1>1. CommandInv /\ [DeployNext]_deployVars => CommandInv'
  BY StepInv
<1>2. CommandInv /\ [DeployNext]_deployVars =>
        [\A e \in Envs :
           Has(e, "service.lock")' /\ ~Has(e, "service.lock")
             => DOMAIN bundle'[e] = AllFiles(e)]_bundleVars
  BY StepInv DEF LockStep
<1> QED
  BY <1>1, <1>2, InitInv, PTL DEF DeploySpec, LockComesLast

-------------------------------------------------------------------------------
(***************************************************************************)
(* What is left of the running command.                                    *)
(***************************************************************************)
StepsOf(steps) == {steps[i] : i \in DOMAIN steps}
Left == StepsOf(todo)

ScaffoldSteps == {"mkdir", "service.yaml", "overlay.example", "stub", "secrets"}
Workloads == {"workload", "workload, restart"}

\* Step b comes right after step a in the make targets and in app.sh.
Follows(a, b) ==
  /\ b # "mkdir"
  /\ b = "verify" => a \in {"render", "service.lock"}
  /\ b = "pack" => a = "verify"
  /\ b = "build" => a = "resolve"
  /\ b = "use release" => a = "resolve"
  /\ b = "reset" => a = "build"
  /\ b = "app secrets" => a \in {"resolve", "build", "use release"}
  /\ b = "config" => a = "app secrets"
  /\ b = "gateway" => a = "config"
  /\ b \in Workloads => a = "gateway"
  /\ b = "restart" => a = "build"
  /\ b = "rollout, rebuilt" => a = "workload, restart"

\* What make and app.sh do before they build, and render in between.
BeforeBuild == {"reset", "render", "validate", "resolve"} \cup RenderSteps

Ordered(steps) ==
  /\ \A i, j \in DOMAIN steps :
       i < j /\ steps[j] \in ScaffoldSteps => steps[i] \in ScaffoldSteps
  /\ \A i, j \in DOMAIN steps : i < j /\ steps[j] = "build" => steps[i] \in BeforeBuild
  /\ \A i \in DOMAIN steps : i + 1 \in DOMAIN steps => Follows(steps[i], steps[i + 1])

(***************************************************************************)
(* Nothing of a service is there without its directory, and no step is on  *)
(* the list that would write into a directory that is not there.           *)
(***************************************************************************)
Directory ==
  /\ example # NoFile \/ overlay # NoFile \/ secrets # NoFile => dir
  /\ \A e \in Envs : bundle[e] # NoFile => dir
  /\ Left \cap (ScaffoldSteps \ {"mkdir"}) # {} => dir \/ "mkdir" \in Left
  /\ Left \cap RenderSteps # {} => dir

(***************************************************************************)
(* What the edits leave of service.yaml: a model with an id, and one of    *)
(* the known revisions or none.                                            *)
(***************************************************************************)
Described(s) ==
  /\ {"service_id", "model"} \subseteq DOMAIN s
  /\ {"id", "revision"} \subseteq DOMAIN s["model"]
  /\ s["model"]["id"] # "" /\ s["model"]["revision"] \in {"", "r1", "r2"}

\* The file render_service takes the values of this environment from.
Source(e) == IF e = "dev" THEN <<>> ELSE IF overlay # NoFile THEN overlay ELSE example

(***************************************************************************)
(* The context of a command is one of a service.yaml that was there, and,  *)
(* unless an input was edited since, of the one that is there now.         *)
(***************************************************************************)
Context ==
  /\ todo = <<>> \/ Left \cap ScaffoldSteps # {} => ctx = NoFile
  /\ service # NoFile => Described(service)
  /\ ctx # NoFile => \E s, o : Described(s) /\ ctx = BuildContext(s, o, env)
  /\ Left \cap RenderSteps # {} => ctx # NoFile
  /\ ctx # NoFile /\ ~touched => ctx = BuildContext(service, Source(env), env)

(***************************************************************************)
(* The files of a bundle, but for the lock, are those of one context.      *)
(* While a bundle is rendered it is that of the command; with a lock, and  *)
(* no edit during the render, it is the one of the inputs in the lock.     *)
(***************************************************************************)
RenderedFrom(e, c) == \A f \in DOMAIN bundle[e] \ {"service.lock"} : bundle[e][f] = Content(f, c)

Recorded(e) ==
  LET lock == bundle[e]["service.lock"]
  IN Has(e, "service.lock") /\ ~raced[e] /\ (e = "prod" => lock[2] # NoFile)
     => RenderedFrom(e, BuildContext(lock[1], IF e = "dev" THEN <<>> ELSE lock[2], e))

Contents ==
  /\ \A e \in Envs : bundle[e] # NoFile =>
       \E s, o : Described(s) /\ RenderedFrom(e, BuildContext(s, o, e))
  /\ "service.lock" \in Left /\ "clear" \notin Left => RenderedFrom(env, ctx)
  /\ \A e \in Envs : Recorded(e)

\* What verify_prod is there to make sure of.
Ships(files) ==
  /\ DOMAIN files = AllFiles("prod")
  /\ Placeholder \notin {files["deploy.env"].namespace, files["usage-report"].namespace}
  /\ Unsafe(files["gateway-settings.json"]) = {}

(***************************************************************************)
(* verify looks at a bundle that was just rendered, whole, and pack packs  *)
(* the bundle verify looked at.                                            *)
(***************************************************************************)
Packing ==
  /\ Left \cap {"verify", "pack"} # {} => env = "prod"
  /\ At("verify") => DOMAIN bundle["prod"] = AllFiles("prod")
  /\ At("pack") => Ships(bundle["prod"])
  /\ packed # NoFile => Ships(packed)

\* resolve_dev_environment_files has passed, for this bundle.
Accepted ==
  /\ Has("dev", "bentoml-config.yaml")
  /\ LET config == Dev("bentoml-config.yaml")
         source == CASE config.source = "hf_public" -> "hugging_face"
                     [] config.source \in {"local_dir", "private_cache"} -> "private"
                     [] OTHER -> config.source
     IN source \in {"hugging_face", "private"}

\* The release is an image that starts with the bundle that is deployed.
WayBack ==
  /\ Has("dev", "bentoml-config.yaml")
  /\ release \in DOMAIN registry
  /\ CanStart(Dev("bentoml-config.yaml"), registry[release])

(***************************************************************************)
(* What has been done when a step of a deployment is next, because of the  *)
(* order of the steps.                                                     *)
(***************************************************************************)
Ready ==
  /\ At("build") \/ At("use release") \/ At("app secrets") \/ At("config") => Accepted
  /\ At("reset") /\ "use release" \in Left => WayBack
  /\ At("config") \/ At("gateway") \/ (\E w \in Workloads : At(w)) => appSecret # NoFile
  /\ At("gateway") \/ (\E w \in Workloads : At(w)) => configMap # NoFile
  /\ (\E w \in Workloads : At(w)) => gateway # NoFile
  /\ At("gateway") \/ At("restart") \/ (\E w \in Workloads : At(w)) => deployed = "no"

(***************************************************************************)
(* The pods: none without a template, none newer than the template.  Once  *)
(* app.sh has built an image that it will wait for, this image is the      *)
(* release; once it has stamped the template, pods of the template run the *)
(* image with the settings applied; and once it has waited, all pods do.   *)
(***************************************************************************)
Latest == template # NoFile /\ template.image = Len(registry) /\ template.image # 0
UpToDate(p) == p.config = configMap /\ p.image = Len(registry)

Rollout ==
  /\ registry \in Seq(SUBSET ({"r1", "r2"} \cup CachedSnapshots))
  /\ release \in 0..Len(registry)
  /\ template # NoFile =>
       /\ template = [image |-> template.image, stamp |-> template.stamp]
       /\ template.image \in 0..Len(registry) /\ template.stamp \in Nat
       /\ configMap # NoFile /\ appSecret # NoFile /\ gateway # NoFile
  /\ \A p \in pods :
       /\ template # NoFile /\ p.image \in 1..Len(registry)
       /\ p.template.stamp \in Nat /\ p.template.stamp <= template.stamp
  /\ "rollout, rebuilt" \in Left /\ "build" \notin Left =>
       dir /\ release = Len(registry) /\ release # 0
  /\ At("rollout, rebuilt") =>
       Latest /\ \A p \in pods : p.template = template => UpToDate(p)
  /\ deployed = "rebuilt" => Latest /\ \A p \in pods : UpToDate(p)

(***************************************************************************)
(* After configure Authentik has the credentials of the cluster, and       *)
(* KrakenD runs with what was applied.                                     *)
(***************************************************************************)
Credentials ==
  /\ deployed \in {"no", "yes", "rebuilt"} /\ configured \in BOOLEAN
  /\ configured =>
       /\ provider = appSecret /\ provider # NoFile
       /\ gateway # NoFile => gateway.running = gateway.applied
  /\ gateway # NoFile => {"applied", "running"} \subseteq DOMAIN gateway

Typing ==
  /\ touched \in BOOLEAN /\ raced \in [Envs -> BOOLEAN]
  /\ overlay # NoFile => overlay \in Overlays
  /\ secrets # NoFile => "kind" \in DOMAIN secrets /\ secrets.kind \in {"mapping", "manifest"}
  /\ code \in {"absent", "stub", "edited", "renamed", "broken"}
  /\ \A e \in Envs : bundle[e] # NoFile => DOMAIN bundle[e] \subseteq AllFiles(e)

DeployInv ==
  /\ CommandInv /\ Ordered(todo)
  /\ Directory /\ Context /\ Contents /\ Packing
  /\ Ready /\ Rollout /\ Credentials /\ Typing

-------------------------------------------------------------------------------
(***************************************************************************)
(* A step of the running command takes the next step off the list, or ends *)
(* the command.                                                            *)
(***************************************************************************)
Advance ==
  /\ todo # <<>> /\ Ordered(todo') /\ Left' \subseteq Left /\ Head(todo) \in Left
  /\ "mkdir" \notin Left'
  /\ \/ todo' = <<>> /\ Left' = {} /\ ctx' = NoFile
     \/ /\ todo' # <<>> /\ UNCHANGED <<env, ctx>>
        /\ Left = Left' \cup {Head(todo)} /\ Head(todo') \in Left'
        /\ "build" \in Left' => Head(todo) \in BeforeBuild
        /\ Follows(Head(todo), Head(todo'))

LEMMA NothingLeft == Ordered(<<>>) /\ StepsOf(<<>>) = {}
BY DEF Ordered, StepsOf

LEMMA TailOrdered ==
  ASSUME CommandInv, Ordered(todo), todo # <<>>
  PROVE  /\ Ordered(Tail(todo)) /\ Left = {Head(todo)} \cup StepsOf(Tail(todo))
         /\ "mkdir" \notin StepsOf(Tail(todo))
         /\ "build" \in StepsOf(Tail(todo)) => Head(todo) \in BeforeBuild
         /\ Tail(todo) # <<>> =>
              /\ Head(Tail(todo)) = Tail(todo)[1] /\ Head(Tail(todo)) \in StepsOf(Tail(todo))
              /\ Follows(Head(todo), Head(Tail(todo)))
<1> DEFINE tail == Tail(todo)
<1>1. /\ tail \in Seq(Steps) /\ Len(todo) \in Nat \ {0}
      /\ DOMAIN todo = 1..Len(todo) /\ DOMAIN tail = 1..(Len(todo) - 1)
      /\ Head(todo) = todo[1] /\ 1 \in DOMAIN todo
      /\ \A i \in 1..(Len(todo) - 1) : tail[i] = todo[i + 1]
  BY TailSteps
<1> HIDE DEF tail
<1>2. Ordered(tail)
  <2>1. \A i, j \in DOMAIN tail : i < j /\ tail[j] \in ScaffoldSteps => tail[i] \in ScaffoldSteps
    BY <1>1 DEF Ordered
  <2>2. ASSUME NEW i \in DOMAIN tail, i + 1 \in DOMAIN tail
        PROVE  Follows(tail[i], tail[i + 1])
    <3>1. /\ tail[i] = todo[i + 1] /\ tail[i + 1] = todo[(i + 1) + 1]
          /\ i + 1 \in DOMAIN todo /\ (i + 1) + 1 \in DOMAIN todo
      BY <2>2, <1>1
    <3> QED
      BY <3>1 DEF Ordered
  <2>3. \A i, j \in DOMAIN tail : i < j /\ tail[j] = "build" => tail[i] \in BeforeBuild
    BY <1>1 DEF Ordered
  <2> QED
    BY <2>1, <2>2, <2>3 DEF Ordered
<1>3. Left = {Head(todo)} \cup StepsOf(tail)
  <2>1. \A i \in DOMAIN todo : i = 1 \/ (i - 1 \in DOMAIN tail /\ todo[i] = tail[i - 1])
    BY <1>1
  <2>2. \A i \in DOMAIN tail : i + 1 \in DOMAIN todo /\ tail[i] = todo[i + 1]
    BY <1>1
  <2> QED
    BY <2>1, <2>2, <1>1 DEF Left, StepsOf
<1>4. ASSUME tail # <<>>
      PROVE  /\ Head(tail) = tail[1] /\ Head(tail) \in StepsOf(tail)
             /\ Follows(Head(todo), Head(tail))
  <2>1. tail \in Seq(Steps) /\ tail # <<>>
    BY <1>1, <1>4
  <2>2. Len(tail) \in Nat \ {0} /\ Head(tail) = tail[1] /\ DOMAIN tail = 1..Len(tail)
    BY <2>1, HeadTailProperties, LenProperties, EmptySeq
  <2>3. 1 \in DOMAIN tail /\ 1 \in DOMAIN todo /\ 1 + 1 \in DOMAIN todo /\ tail[1] = todo[1 + 1]
    BY <1>1, <2>2
  <2>4. Follows(todo[1], todo[1 + 1])
    BY <2>3 DEF Ordered
  <2> QED
    BY <2>2, <2>3, <2>4, <1>1 DEF StepsOf
<1>5. "mkdir" \notin StepsOf(tail)
  <2>1. ASSUME NEW i \in DOMAIN tail PROVE tail[i] # "mkdir"
    <3>1. i \in DOMAIN todo /\ i + 1 \in DOMAIN todo /\ tail[i] = todo[i + 1]
      BY <1>1
    <3> QED
      BY <3>1 DEF Ordered, Follows
  <2> QED
    BY <2>1 DEF StepsOf
<1>6. "build" \in StepsOf(tail) => Head(todo) \in BeforeBuild
  <2>1. ASSUME NEW i \in DOMAIN tail, tail[i] = "build" PROVE todo[1] \in BeforeBuild
    <3>1. i + 1 \in DOMAIN todo /\ 1 < i + 1 /\ todo[i + 1] = "build"
      BY <2>1, <1>1
    <3> QED
      BY <3>1, <1>1 DEF Ordered
  <2> QED
    BY <2>1, <1>1 DEF StepsOf
<1> QED
  BY <1>2, <1>3, <1>4, <1>5, <1>6 DEF tail

LEMMA AdvanceStep ==
  ASSUME CommandInv, Ordered(todo), todo # <<>>, Continue(Tail(todo)) \/ Continue(<<>>)
  PROVE  Advance
<1>1. CASE todo' = <<>>
  BY <1>1, NothingLeft, TailOrdered DEF Continue, Advance, Left
<1>2. CASE todo' # <<>>
  <2>1. todo' = Tail(todo) /\ UNCHANGED <<env, ctx>>
    BY <1>2 DEF Continue
  <2> QED
    BY <1>2, <2>1, TailOrdered DEF Advance, Left
<1> QED
  BY <1>1, <1>2

-------------------------------------------------------------------------------
(***************************************************************************)
(* The lists of steps that commands begin with.                            *)
(***************************************************************************)
Part(steps) ==
  /\ steps \in Seq(Steps) /\ steps # <<>> /\ Ordered(steps)
  /\ StepsOf(steps) \cap ScaffoldSteps = {}

Piece(steps, first, last, names) ==
  Part(steps) /\ steps[1] = first /\ steps[Len(steps)] = last /\ StepsOf(steps) = names

Joins(last, S, first, T) == Follows(last, first) /\ (S \subseteq BeforeBuild \/ "build" \notin T)

LEMMA Together ==
  ASSUME NEW s, NEW a, NEW b, NEW S, Piece(s, a, b, S),
         NEW t, NEW c, NEW d, NEW T, Piece(t, c, d, T), Joins(b, S, c, T)
  PROVE  Piece(s \o t, a, d, S \cup T)
<1>0. /\ Part(s) /\ Part(t) /\ Follows(s[Len(s)], t[1])
      /\ StepsOf(s) \subseteq BeforeBuild \/ "build" \notin StepsOf(t)
  BY DEF Piece, Joins
<1>1. /\ s \o t \in Seq(Steps) /\ Len(s \o t) = Len(s) + Len(t)
      /\ \A i \in 1..(Len(s) + Len(t)) :
           (s \o t)[i] = IF i <= Len(s) THEN s[i] ELSE t[i - Len(s)]
  <2>1. s \in Seq(Steps) /\ t \in Seq(Steps)
    BY <1>0 DEF Part
  <2> QED
    BY <2>1, ConcatProperties
<1>2. /\ Len(s) \in Nat \ {0} /\ DOMAIN s = 1..Len(s)
      /\ Len(t) \in Nat \ {0} /\ DOMAIN t = 1..Len(t)
      /\ DOMAIN (s \o t) = 1..(Len(s) + Len(t))
  BY <1>1, <1>0, LenProperties, EmptySeq DEF Part
<1> DEFINE u == s \o t
<1>3. /\ \A i \in DOMAIN s : i \in DOMAIN u /\ u[i] = s[i]
      /\ \A i \in DOMAIN t : i + Len(s) \in DOMAIN u /\ u[i + Len(s)] = t[i]
      /\ \A i \in DOMAIN u : i \in DOMAIN s \/ (i - Len(s) \in DOMAIN t /\ u[i] = t[i - Len(s)])
  BY <1>1, <1>2
<1>4. Len(u) = Len(s) + Len(t) /\ u \in Seq(Steps) /\ DOMAIN u = 1..(Len(s) + Len(t))
  BY <1>1, <1>2
<1> HIDE DEF u
<1>5. StepsOf(u) = StepsOf(s) \cup StepsOf(t)
  BY <1>3 DEF StepsOf
<1>6. u[1] = s[1] /\ u[Len(u)] = t[Len(t)]
  BY <1>2, <1>3, <1>4
<1>7. u # <<>>
  BY <1>2, <1>4
<1>8. ASSUME NEW i \in DOMAIN u, i + 1 \in DOMAIN u
      PROVE  Follows(u[i], u[i + 1])
  <2>1. CASE i + 1 \in DOMAIN s
    <3>1. i \in DOMAIN s
      BY <2>1, <1>2, <1>4
    <3> QED
      BY <3>1, <2>1, <1>0, <1>3 DEF Part, Ordered
  <2>2. CASE i = Len(s)
    <3>1. u[i] = s[Len(s)] /\ u[i + 1] = t[1]
      BY <2>2, <1>2, <1>3
    <3> QED
      BY <3>1, <1>0
  <2>3. CASE i > Len(s)
    <3>1. i - Len(s) \in DOMAIN t /\ u[i] = t[i - Len(s)]
      BY <2>3, <1>2, <1>3
    <3>2. (i - Len(s)) + 1 \in DOMAIN t /\ u[i + 1] = t[(i - Len(s)) + 1]
      BY <2>3, <1>2, <1>3, <1>4, <1>8
    <3> QED
      BY <3>1, <3>2, <1>0 DEF Part, Ordered
  <2> QED
    BY <2>1, <2>2, <2>3, <1>2, <1>4
<1>9. Ordered(u) /\ StepsOf(u) \cap ScaffoldSteps = {}
  <2>1. StepsOf(u) \cap ScaffoldSteps = {}
    BY <1>0, <1>5 DEF Part
  <2>2. \A i \in DOMAIN u : u[i] \notin ScaffoldSteps
    BY <2>1 DEF StepsOf
  <2>3. ASSUME NEW i \in DOMAIN u, NEW j \in DOMAIN u, i < j, u[j] = "build"
        PROVE  u[i] \in BeforeBuild
    <3>1. CASE j \in DOMAIN s
      <4>1. i \in DOMAIN s
        BY <2>3, <3>1, <1>2, <1>4
      <4> QED
        BY <4>1, <3>1, <2>3, <1>0, <1>3 DEF Part, Ordered
    <3>2. CASE j \notin DOMAIN s
      <4>1. j - Len(s) \in DOMAIN t /\ t[j - Len(s)] = "build"
        BY <2>3, <3>2, <1>3
      <4>2. StepsOf(s) \subseteq BeforeBuild
        BY <4>1, <1>0 DEF StepsOf
      <4>3. CASE i \in DOMAIN s
        BY <4>2, <4>3, <1>3 DEF StepsOf
      <4>4. CASE i \notin DOMAIN s
        <5>1. i - Len(s) \in DOMAIN t /\ u[i] = t[i - Len(s)] /\ i - Len(s) < j - Len(s)
          BY <2>3, <4>4, <1>2, <1>3, <1>4
        <5> QED
          BY <5>1, <4>1, <1>0 DEF Part, Ordered
      <4> QED
        BY <4>3, <4>4
    <3> QED
      BY <3>1, <3>2
  <2> QED
    BY <2>1, <2>2, <2>3, <1>8 DEF Ordered
<1> QED
  BY <1>4, <1>5, <1>6, <1>7, <1>9 DEF Part, Piece, u

(***************************************************************************)
(* What holds when a command has just been put on the list.                *)
(***************************************************************************)
Beginning(steps, e) ==
  /\ steps # <<>> /\ Ordered(steps)
  /\ Head(steps) \in {"mkdir", "render", "resolve", "reset", "configure"}
  /\ Head(steps) = "reset" => "use release" \notin StepsOf(steps)
  /\ StepsOf(steps) \cap RenderSteps = {}
  /\ StepsOf(steps) \cap ScaffoldSteps # {} => "mkdir" \in StepsOf(steps)
  /\ "rollout, rebuilt" \in StepsOf(steps) => "build" \in StepsOf(steps)
  /\ StepsOf(steps) \cap {"verify", "pack"} # {} => e = "prod"

(***************************************************************************)
(* The parts the commands are made of.                                     *)
(***************************************************************************)
LEMMA Parts ==
  /\ Piece(<<"render">>,
            "render", "render", {"render"})
  /\ Piece(<<"reset">>,
            "reset", "reset", {"reset"})
  /\ Piece(<<"configure">>,
            "configure", "configure", {"configure"})
  /\ Piece(<<"render", "verify", "pack">>,
            "render", "pack", {"pack", "render", "verify"})
  /\ Piece(<<"render", "validate", "resolve">>,
            "render", "resolve", {"render", "resolve", "validate"})
  /\ Piece(<<"render", "validate", "resolve", "build">>,
            "render", "build", {"build", "render", "resolve", "validate"})
  /\ Piece(<<"resolve", "build", "reset", "resolve", "use release">>,
            "resolve", "use release", {"build", "reset", "resolve", "use release"})
  /\ Piece(<<"reset", "render", "validate", "resolve", "build">>,
            "reset", "build", {"build", "render", "reset", "resolve", "validate"})
  /\ Piece(<<"resolve", "build", "restart", "rollout of restart">>,
            "resolve", "rollout of restart", {"build", "resolve", "restart", "rollout of restart"})
  /\ Piece(Apply(TRUE),
            "app secrets", "rollout, rebuilt",
            {"app secrets", "config", "gateway", "rollout, rebuilt", "workload, restart"})
  /\ Piece(Apply(FALSE),
            "app secrets", "rollout", {"app secrets", "config", "gateway", "rollout", "workload"})
<1>1. ASSUME NEW s, Plain(s), s # <<>>, \A i \in DOMAIN s : s[i] \notin ScaffoldSteps,
             \A i \in DOMAIN s : i + 1 \in DOMAIN s => Follows(s[i], s[i + 1]),
             \A i, j \in DOMAIN s : i < j /\ s[j] = "build" => s[i] \in BeforeBuild
      PROVE  Part(s)
  BY <1>1 DEF Part, Plain, Ordered, StepsOf
<1>2. Piece(<<"render">>,
             "render", "render", {"render"})
  <2> DEFINE s == <<"render">>
  <2>0. s # <<>> /\ DOMAIN s = {1}
    OBVIOUS
  <2>1. /\ s[1] = "render"
    OBVIOUS
  <2>2. Plain(s)
    BY PlainCommands
  <2> HIDE DEF s
  <2>3. \A i \in DOMAIN s : s[i] \notin ScaffoldSteps
    BY <2>0, <2>1 DEF ScaffoldSteps
  <2>5. \A i \in DOMAIN s : i + 1 \notin DOMAIN s
    BY <2>0
  <2>9. \A i \in DOMAIN s : s[i] # "build"
    BY <2>0, <2>1
  <2>6. StepsOf(s) = {"render"}
    BY <2>0, <2>1 DEF StepsOf
  <2>7. Part(s)
    BY <2>0, <2>2, <2>3, <2>5, <2>9, <1>1
  <2>8. Len(<<"render">>) = 1
    OBVIOUS
  <2> QED
    BY <2>1, <2>6, <2>7, <2>8 DEF s, Piece
<1>3. Piece(<<"reset">>,
             "reset", "reset", {"reset"})
  <2> DEFINE s == <<"reset">>
  <2>0. s # <<>> /\ DOMAIN s = {1}
    OBVIOUS
  <2>1. /\ s[1] = "reset"
    OBVIOUS
  <2>2. Plain(s)
    BY PlainCommands
  <2> HIDE DEF s
  <2>3. \A i \in DOMAIN s : s[i] \notin ScaffoldSteps
    BY <2>0, <2>1 DEF ScaffoldSteps
  <2>5. \A i \in DOMAIN s : i + 1 \notin DOMAIN s
    BY <2>0
  <2>9. \A i \in DOMAIN s : s[i] # "build"
    BY <2>0, <2>1
  <2>6. StepsOf(s) = {"reset"}
    BY <2>0, <2>1 DEF StepsOf
  <2>7. Part(s)
    BY <2>0, <2>2, <2>3, <2>5, <2>9, <1>1
  <2>8. Len(<<"reset">>) = 1
    OBVIOUS
  <2> QED
    BY <2>1, <2>6, <2>7, <2>8 DEF s, Piece
<1>4. Piece(<<"configure">>,
             "configure", "configure", {"configure"})
  <2> DEFINE s == <<"configure">>
  <2>0. s # <<>> /\ DOMAIN s = {1}
    OBVIOUS
  <2>1. /\ s[1] = "configure"
    OBVIOUS
  <2>2. Plain(s)
    BY PlainCommands
  <2> HIDE DEF s
  <2>3. \A i \in DOMAIN s : s[i] \notin ScaffoldSteps
    BY <2>0, <2>1 DEF ScaffoldSteps
  <2>5. \A i \in DOMAIN s : i + 1 \notin DOMAIN s
    BY <2>0
  <2>9. \A i \in DOMAIN s : s[i] # "build"
    BY <2>0, <2>1
  <2>6. StepsOf(s) = {"configure"}
    BY <2>0, <2>1 DEF StepsOf
  <2>7. Part(s)
    BY <2>0, <2>2, <2>3, <2>5, <2>9, <1>1
  <2>8. Len(<<"configure">>) = 1
    OBVIOUS
  <2> QED
    BY <2>1, <2>6, <2>7, <2>8 DEF s, Piece
<1>5. Piece(<<"render", "verify", "pack">>,
             "render", "pack", {"pack", "render", "verify"})
  <2> DEFINE s == <<"render", "verify", "pack">>
  <2>0. s # <<>> /\ DOMAIN s = {1, 2, 3}
    OBVIOUS
  <2>1. /\ s[1] = "render"
        /\ s[2] = "verify"
        /\ s[3] = "pack"
    OBVIOUS
  <2>2. Plain(s)
    BY PlainCommands
  <2> HIDE DEF s
  <2>3. \A i \in DOMAIN s : s[i] \notin ScaffoldSteps
    BY <2>0, <2>1 DEF ScaffoldSteps
  <2>4. /\ Follows("render", "verify")
        /\ Follows("verify", "pack")
    BY DEF Follows, Workloads
  <2>5. ASSUME NEW i \in DOMAIN s, i + 1 \in DOMAIN s
        PROVE  Follows(s[i], s[i + 1])
    <3>1. i # 3 /\ 1 + 1 = 2 /\ 2 + 1 = 3
      BY <2>0, <2>5
    <3> QED
      BY <3>1, <2>0, <2>1, <2>4
  <2>9. \A i \in DOMAIN s : s[i] # "build"
    BY <2>0, <2>1
  <2>6. StepsOf(s) = {"pack", "render", "verify"}
    BY <2>0, <2>1 DEF StepsOf
  <2>7. Part(s)
    BY <2>0, <2>2, <2>3, <2>5, <2>9, <1>1
  <2>8. Len(<<"render", "verify", "pack">>) = 3
    OBVIOUS
  <2> QED
    BY <2>1, <2>6, <2>7, <2>8 DEF s, Piece
<1>6. Piece(<<"render", "validate", "resolve">>,
             "render", "resolve", {"render", "resolve", "validate"})
  <2> DEFINE s == <<"render", "validate", "resolve">>
  <2>0. s # <<>> /\ DOMAIN s = {1, 2, 3}
    OBVIOUS
  <2>1. /\ s[1] = "render"
        /\ s[2] = "validate"
        /\ s[3] = "resolve"
    OBVIOUS
  <2>2. Plain(s)
    BY PlainCommands
  <2> HIDE DEF s
  <2>3. \A i \in DOMAIN s : s[i] \notin ScaffoldSteps
    BY <2>0, <2>1 DEF ScaffoldSteps
  <2>4. /\ Follows("render", "validate")
        /\ Follows("validate", "resolve")
    BY DEF Follows, Workloads
  <2>5. ASSUME NEW i \in DOMAIN s, i + 1 \in DOMAIN s
        PROVE  Follows(s[i], s[i + 1])
    <3>1. i # 3 /\ 1 + 1 = 2 /\ 2 + 1 = 3
      BY <2>0, <2>5
    <3> QED
      BY <3>1, <2>0, <2>1, <2>4
  <2>9. \A i \in DOMAIN s : s[i] # "build"
    BY <2>0, <2>1
  <2>6. StepsOf(s) = {"render", "resolve", "validate"}
    BY <2>0, <2>1 DEF StepsOf
  <2>7. Part(s)
    BY <2>0, <2>2, <2>3, <2>5, <2>9, <1>1
  <2>8. Len(<<"render", "validate", "resolve">>) = 3
    OBVIOUS
  <2> QED
    BY <2>1, <2>6, <2>7, <2>8 DEF s, Piece
<1>7. Piece(<<"render", "validate", "resolve", "build">>,
             "render", "build", {"build", "render", "resolve", "validate"})
  <2> DEFINE s == <<"render", "validate", "resolve", "build">>
  <2>0. s # <<>> /\ DOMAIN s = {1, 2, 3, 4}
    OBVIOUS
  <2>1. /\ s[1] = "render"
        /\ s[2] = "validate"
        /\ s[3] = "resolve"
        /\ s[4] = "build"
    OBVIOUS
  <2>2. Plain(s)
    BY PlainCommands
  <2> HIDE DEF s
  <2>3. \A i \in DOMAIN s : s[i] \notin ScaffoldSteps
    BY <2>0, <2>1 DEF ScaffoldSteps
  <2>4. /\ Follows("render", "validate")
        /\ Follows("validate", "resolve")
        /\ Follows("resolve", "build")
    BY DEF Follows, Workloads
  <2>5. ASSUME NEW i \in DOMAIN s, i + 1 \in DOMAIN s
        PROVE  Follows(s[i], s[i + 1])
    <3>1. i # 4 /\ 1 + 1 = 2 /\ 2 + 1 = 3 /\ 3 + 1 = 4
      BY <2>0, <2>5
    <3> QED
      BY <3>1, <2>0, <2>1, <2>4
  <2>9. \A i, j \in DOMAIN s : i < j /\ s[j] = "build" => s[i] \in BeforeBuild
    <3>1. \A j \in DOMAIN s : s[j] = "build" => j = 4
      BY <2>0, <2>1
    <3>2. \A i \in DOMAIN s : i < 4 => i = 1 \/ i = 2 \/ i = 3
      BY <2>0
    <3>3. s[1] \in BeforeBuild /\ s[2] \in BeforeBuild /\ s[3] \in BeforeBuild
      BY <2>1 DEF BeforeBuild
    <3> QED
      BY <3>1, <3>2, <3>3
  <2>6. StepsOf(s) = {"build", "render", "resolve", "validate"}
    BY <2>0, <2>1 DEF StepsOf
  <2>7. Part(s)
    BY <2>0, <2>2, <2>3, <2>5, <2>9, <1>1
  <2>8. Len(<<"render", "validate", "resolve", "build">>) = 4
    OBVIOUS
  <2> QED
    BY <2>1, <2>6, <2>7, <2>8 DEF s, Piece
<1>8. Piece(<<"resolve", "build", "reset", "resolve", "use release">>,
             "resolve", "use release", {"build", "reset", "resolve", "use release"})
  <2> DEFINE s == <<"resolve", "build", "reset", "resolve", "use release">>
  <2>0. s # <<>> /\ DOMAIN s = {1, 2, 3, 4, 5}
    OBVIOUS
  <2>1. /\ s[1] = "resolve"
        /\ s[2] = "build"
        /\ s[3] = "reset"
        /\ s[4] = "resolve"
        /\ s[5] = "use release"
    OBVIOUS
  <2>2. Plain(s)
    BY PlainCommands
  <2> HIDE DEF s
  <2>3. \A i \in DOMAIN s : s[i] \notin ScaffoldSteps
    BY <2>0, <2>1 DEF ScaffoldSteps
  <2>4. /\ Follows("resolve", "build")
        /\ Follows("build", "reset")
        /\ Follows("reset", "resolve")
        /\ Follows("resolve", "use release")
    BY DEF Follows, Workloads
  <2>5. ASSUME NEW i \in DOMAIN s, i + 1 \in DOMAIN s
        PROVE  Follows(s[i], s[i + 1])
    <3>1. i # 5 /\ 1 + 1 = 2 /\ 2 + 1 = 3 /\ 3 + 1 = 4 /\ 4 + 1 = 5
      BY <2>0, <2>5
    <3> QED
      BY <3>1, <2>0, <2>1, <2>4
  <2>9. \A i, j \in DOMAIN s : i < j /\ s[j] = "build" => s[i] \in BeforeBuild
    <3>1. \A j \in DOMAIN s : s[j] = "build" => j = 2
      BY <2>0, <2>1
    <3>2. \A i \in DOMAIN s : i < 2 => i = 1
      BY <2>0
    <3>3. s[1] \in BeforeBuild
      BY <2>1 DEF BeforeBuild
    <3> QED
      BY <3>1, <3>2, <3>3
  <2>6. StepsOf(s) = {"build", "reset", "resolve", "use release"}
    BY <2>0, <2>1 DEF StepsOf
  <2>7. Part(s)
    BY <2>0, <2>2, <2>3, <2>5, <2>9, <1>1
  <2>8. Len(<<"resolve", "build", "reset", "resolve", "use release">>) = 5
    OBVIOUS
  <2> QED
    BY <2>1, <2>6, <2>7, <2>8 DEF s, Piece
<1>9. Piece(<<"reset", "render", "validate", "resolve", "build">>,
             "reset", "build", {"build", "render", "reset", "resolve", "validate"})
  <2> DEFINE s == <<"reset", "render", "validate", "resolve", "build">>
  <2>0. s # <<>> /\ DOMAIN s = {1, 2, 3, 4, 5}
    OBVIOUS
  <2>1. /\ s[1] = "reset"
        /\ s[2] = "render"
        /\ s[3] = "validate"
        /\ s[4] = "resolve"
        /\ s[5] = "build"
    OBVIOUS
  <2>2. Plain(s)
    BY PlainCommands
  <2> HIDE DEF s
  <2>3. \A i \in DOMAIN s : s[i] \notin ScaffoldSteps
    BY <2>0, <2>1 DEF ScaffoldSteps
  <2>4. /\ Follows("reset", "render")
        /\ Follows("render", "validate")
        /\ Follows("validate", "resolve")
        /\ Follows("resolve", "build")
    BY DEF Follows, Workloads
  <2>5. ASSUME NEW i \in DOMAIN s, i + 1 \in DOMAIN s
        PROVE  Follows(s[i], s[i + 1])
    <3>1. i # 5 /\ 1 + 1 = 2 /\ 2 + 1 = 3 /\ 3 + 1 = 4 /\ 4 + 1 = 5
      BY <2>0, <2>5
    <3> QED
      BY <3>1, <2>0, <2>1, <2>4
  <2>9. \A i, j \in DOMAIN s : i < j /\ s[j] = "build" => s[i] \in BeforeBuild
    <3>1. \A j \in DOMAIN s : s[j] = "build" => j = 5
      BY <2>0, <2>1
    <3>2. \A i \in DOMAIN s : i < 5 => i = 1 \/ i = 2 \/ i = 3 \/ i = 4
      BY <2>0
    <3>3. /\ s[1] \in BeforeBuild /\ s[2] \in BeforeBuild
          /\ s[3] \in BeforeBuild /\ s[4] \in BeforeBuild
      BY <2>1 DEF BeforeBuild
    <3> QED
      BY <3>1, <3>2, <3>3
  <2>6. StepsOf(s) = {"build", "render", "reset", "resolve", "validate"}
    BY <2>0, <2>1 DEF StepsOf
  <2>7. Part(s)
    BY <2>0, <2>2, <2>3, <2>5, <2>9, <1>1
  <2>8. Len(<<"reset", "render", "validate", "resolve", "build">>) = 5
    OBVIOUS
  <2> QED
    BY <2>1, <2>6, <2>7, <2>8 DEF s, Piece
<1>10. Piece(<<"resolve", "build", "restart", "rollout of restart">>,
             "resolve", "rollout of restart", {"build", "resolve", "restart", "rollout of restart"})
  <2> DEFINE s == <<"resolve", "build", "restart", "rollout of restart">>
  <2>0. s # <<>> /\ DOMAIN s = {1, 2, 3, 4}
    OBVIOUS
  <2>1. /\ s[1] = "resolve"
        /\ s[2] = "build"
        /\ s[3] = "restart"
        /\ s[4] = "rollout of restart"
    OBVIOUS
  <2>2. Plain(s)
    BY PlainCommands
  <2> HIDE DEF s
  <2>3. \A i \in DOMAIN s : s[i] \notin ScaffoldSteps
    BY <2>0, <2>1 DEF ScaffoldSteps
  <2>4. /\ Follows("resolve", "build")
        /\ Follows("build", "restart")
        /\ Follows("restart", "rollout of restart")
    BY DEF Follows, Workloads
  <2>5. ASSUME NEW i \in DOMAIN s, i + 1 \in DOMAIN s
        PROVE  Follows(s[i], s[i + 1])
    <3>1. i # 4 /\ 1 + 1 = 2 /\ 2 + 1 = 3 /\ 3 + 1 = 4
      BY <2>0, <2>5
    <3> QED
      BY <3>1, <2>0, <2>1, <2>4
  <2>9. \A i, j \in DOMAIN s : i < j /\ s[j] = "build" => s[i] \in BeforeBuild
    <3>1. \A j \in DOMAIN s : s[j] = "build" => j = 2
      BY <2>0, <2>1
    <3>2. \A i \in DOMAIN s : i < 2 => i = 1
      BY <2>0
    <3>3. s[1] \in BeforeBuild
      BY <2>1 DEF BeforeBuild
    <3> QED
      BY <3>1, <3>2, <3>3
  <2>6. StepsOf(s) = {"build", "resolve", "restart", "rollout of restart"}
    BY <2>0, <2>1 DEF StepsOf
  <2>7. Part(s)
    BY <2>0, <2>2, <2>3, <2>5, <2>9, <1>1
  <2>8. Len(<<"resolve", "build", "restart", "rollout of restart">>) = 4
    OBVIOUS
  <2> QED
    BY <2>1, <2>6, <2>7, <2>8 DEF s, Piece
<1>11. Piece(Apply(TRUE),
             "app secrets", "rollout, rebuilt",
             {"app secrets", "config", "gateway", "rollout, rebuilt", "workload, restart"})
  <2> DEFINE s == Apply(TRUE)
  <2>0. s # <<>> /\ DOMAIN s = {1, 2, 3, 4, 5}
    BY DEF Apply
  <2>1. /\ s[1] = "app secrets"
        /\ s[2] = "config"
        /\ s[3] = "gateway"
        /\ s[4] = "workload, restart"
        /\ s[5] = "rollout, rebuilt"
    BY DEF Apply
  <2>2. Plain(s)
    BY PlainCommands
  <2> HIDE DEF s
  <2>3. \A i \in DOMAIN s : s[i] \notin ScaffoldSteps
    BY <2>0, <2>1 DEF ScaffoldSteps
  <2>4. /\ Follows("app secrets", "config")
        /\ Follows("config", "gateway")
        /\ Follows("gateway", "workload, restart")
        /\ Follows("workload, restart", "rollout, rebuilt")
    BY DEF Follows, Workloads
  <2>5. ASSUME NEW i \in DOMAIN s, i + 1 \in DOMAIN s
        PROVE  Follows(s[i], s[i + 1])
    <3>1. i # 5 /\ 1 + 1 = 2 /\ 2 + 1 = 3 /\ 3 + 1 = 4 /\ 4 + 1 = 5
      BY <2>0, <2>5
    <3> QED
      BY <3>1, <2>0, <2>1, <2>4
  <2>9. \A i \in DOMAIN s : s[i] # "build"
    BY <2>0, <2>1
  <2>6. StepsOf(s) = {"app secrets", "config", "gateway", "rollout, rebuilt", "workload, restart"}
    BY <2>0, <2>1 DEF StepsOf
  <2>7. Part(s)
    BY <2>0, <2>2, <2>3, <2>5, <2>9, <1>1
  <2>8. Len(Apply(TRUE)) = 5
    BY DEF Apply
  <2> QED
    BY <2>1, <2>6, <2>7, <2>8 DEF s, Piece
<1>12. Piece(Apply(FALSE),
             "app secrets", "rollout", {"app secrets", "config", "gateway", "rollout", "workload"})
  <2> DEFINE s == Apply(FALSE)
  <2>0. s # <<>> /\ DOMAIN s = {1, 2, 3, 4, 5}
    BY DEF Apply
  <2>1. /\ s[1] = "app secrets"
        /\ s[2] = "config"
        /\ s[3] = "gateway"
        /\ s[4] = "workload"
        /\ s[5] = "rollout"
    BY DEF Apply
  <2>2. Plain(s)
    BY PlainCommands
  <2> HIDE DEF s
  <2>3. \A i \in DOMAIN s : s[i] \notin ScaffoldSteps
    BY <2>0, <2>1 DEF ScaffoldSteps
  <2>4. /\ Follows("app secrets", "config")
        /\ Follows("config", "gateway")
        /\ Follows("gateway", "workload")
        /\ Follows("workload", "rollout")
    BY DEF Follows, Workloads
  <2>5. ASSUME NEW i \in DOMAIN s, i + 1 \in DOMAIN s
        PROVE  Follows(s[i], s[i + 1])
    <3>1. i # 5 /\ 1 + 1 = 2 /\ 2 + 1 = 3 /\ 3 + 1 = 4 /\ 4 + 1 = 5
      BY <2>0, <2>5
    <3> QED
      BY <3>1, <2>0, <2>1, <2>4
  <2>9. \A i \in DOMAIN s : s[i] # "build"
    BY <2>0, <2>1
  <2>6. StepsOf(s) = {"app secrets", "config", "gateway", "rollout", "workload"}
    BY <2>0, <2>1 DEF StepsOf
  <2>7. Part(s)
    BY <2>0, <2>2, <2>3, <2>5, <2>9, <1>1
  <2>8. Len(Apply(FALSE)) = 5
    BY DEF Apply
  <2> QED
    BY <2>1, <2>6, <2>7, <2>8 DEF s, Piece
<1> QED
  BY <1>2, <1>3, <1>4, <1>5, <1>6, <1>7, <1>8, <1>9, <1>10, <1>11, <1>12

\* The first step and the steps of a list that a command may begin with.
Launches(first, names, e) ==
  /\ first \in {"render", "resolve", "reset", "configure"}
  /\ first = "reset" => "use release" \notin names
  /\ names \cap RenderSteps = {}
  /\ "rollout, rebuilt" \in names => "build" \in names
  /\ names \cap {"verify", "pack"} # {} => e = "prod"

LEMMA PieceBegins ==
  ASSUME NEW s, NEW a, NEW b, NEW S, Piece(s, a, b, S), NEW e, Launches(a, S, e)
  PROVE  Beginning(s, e)
<1>1. s \in Seq(Steps) /\ s # <<>>
  BY DEF Piece, Part
<1>2. Ordered(s) /\ s[1] = a /\ StepsOf(s) = S /\ S \cap ScaffoldSteps = {}
  BY DEF Piece, Part
<1>3. Head(s) = s[1]
  BY <1>1
<1> QED
  BY <1>1, <1>2, <1>3 DEF Beginning, Launches

LEMMA CommandBegins ==
  ASSUME RenderCommand \/ ProdPack \/ DeployCommand \/ RebuildCommand \/ Bootstrap \/ Fresh
           \/ Teardown \/ BuildCommand \/ ConfigureCommand
  PROVE  Beginning(todo', env') /\ env' \in Envs
<1> USE DEF Envs
<1>1. ASSUME NEW e \in Envs, Begin(e, <<"render">>)
      PROVE  Beginning(todo', env') /\ env' \in Envs
  <2>1. Piece(<<"render">>, "render", "render", {"render"})
    BY Parts
  <2>2. Launches("render", {"render"}, e)
    BY DEF Launches, RenderSteps, FileNames
  <2> QED
    BY <1>1, <2>1, <2>2, PieceBegins DEF Begin
<1>2. CASE RenderCommand
  BY <1>1, <1>2 DEF RenderCommand
<1>3. CASE ProdPack
  <2>1. Piece(<<"render", "verify", "pack">>, "render", "pack", {"pack", "render", "verify"})
    BY Parts
  <2>2. Launches("render", {"pack", "render", "verify"}, "prod")
    BY DEF Launches, RenderSteps, FileNames
  <2> QED
    BY <1>3, <2>1, <2>2, PieceBegins DEF ProdPack, Begin
<1>4. CASE DeployCommand
  <2> DEFINE first == <<"render", "validate", "resolve">>
             S == {"render", "resolve", "validate"}
             T == {"app secrets", "config", "gateway", "rollout", "workload"}
  <2>1. Piece(first, "render", "resolve", S) /\ Piece(Apply(FALSE), "app secrets", "rollout", T)
    BY Parts
  <2>2. Joins("resolve", S, "app secrets", T)
    BY DEF Joins, Follows, Workloads
  <2>3. Launches("render", S \cup T, "dev")
    BY DEF Launches, RenderSteps, FileNames
  <2>5. todo' = first \o Apply(FALSE) /\ env' = "dev"
    BY <1>4 DEF DeployCommand, Begin
  <2> HIDE DEF first, S, T
  <2>6. Piece(first \o Apply(FALSE), "render", "rollout", S \cup T)
    BY <2>1, <2>2, Together
  <2>7. Beginning(first \o Apply(FALSE), "dev")
    BY <2>3, <2>6, PieceBegins
  <2> QED
    BY <2>5, <2>7
<1>5. CASE RebuildCommand
  <2> DEFINE first == <<"render", "validate", "resolve", "build">>
             S == {"build", "render", "resolve", "validate"}
             T == {"app secrets", "config", "gateway", "rollout, rebuilt", "workload, restart"}
  <2>1. /\ Piece(first, "render", "build", S)
        /\ Piece(Apply(TRUE), "app secrets", "rollout, rebuilt", T)
    BY Parts
  <2>2. Joins("build", S, "app secrets", T)
    BY DEF Joins, Follows, Workloads
  <2>3. Launches("render", S \cup T, "dev")
    BY DEF Launches, RenderSteps, FileNames
  <2>5. todo' = first \o Apply(TRUE) /\ env' = "dev"
    BY <1>5 DEF RebuildCommand, Begin
  <2> HIDE DEF first, S, T
  <2>6. Piece(first \o Apply(TRUE), "render", "rollout, rebuilt", S \cup T)
    BY <2>1, <2>2, Together
  <2>7. Beginning(first \o Apply(TRUE), "dev")
    BY <2>3, <2>6, PieceBegins
  <2> QED
    BY <2>5, <2>7
<1>6. CASE Bootstrap
  <2> DEFINE first == <<"resolve", "build", "reset", "resolve", "use release">>
             S == {"build", "reset", "resolve", "use release"}
             T == {"app secrets", "config", "gateway", "rollout", "workload"}
  <2>1. /\ Piece(first, "resolve", "use release", S)
        /\ Piece(Apply(FALSE), "app secrets", "rollout", T)
    BY Parts
  <2>2. Joins("use release", S, "app secrets", T)
    BY DEF Joins, Follows, Workloads
  <2>3. Launches("resolve", S \cup T, "dev")
    BY DEF Launches, RenderSteps, FileNames
  <2>5. todo' = first \o Apply(FALSE) /\ env' = "dev"
    BY <1>6 DEF Bootstrap, Begin
  <2> HIDE DEF first, S, T
  <2>6. Piece(first \o Apply(FALSE), "resolve", "rollout", S \cup T)
    BY <2>1, <2>2, Together
  <2>7. Beginning(first \o Apply(FALSE), "dev")
    BY <2>3, <2>6, PieceBegins
  <2> QED
    BY <2>5, <2>7
<1>7. CASE Fresh
  <2> DEFINE first == <<"reset", "render", "validate", "resolve", "build">>
             S == {"build", "render", "reset", "resolve", "validate"}
             T == {"app secrets", "config", "gateway", "rollout, rebuilt", "workload, restart"}
             U == {"configure"}
  <2>1. /\ Piece(first, "reset", "build", S)
        /\ Piece(Apply(TRUE), "app secrets", "rollout, rebuilt", T)
        /\ Piece(<<"configure">>, "configure", "configure", U)
    BY Parts
  <2>2. Joins("build", S, "app secrets", T) /\ Joins("rollout, rebuilt", S \cup T, "configure", U)
    BY DEF Joins, Follows, Workloads
  <2>3. Launches("reset", (S \cup T) \cup U, "dev")
    BY DEF Launches, RenderSteps, FileNames
  <2>5. todo' = first \o Apply(TRUE) \o <<"configure">> /\ env' = "dev"
    BY <1>7 DEF Fresh, Begin
  <2> HIDE DEF first, S, T, U
  <2>6. Piece(first \o Apply(TRUE), "reset", "rollout, rebuilt", S \cup T)
    BY <2>1, <2>2, Together
  <2>7. Piece(first \o Apply(TRUE) \o <<"configure">>, "reset", "configure", (S \cup T) \cup U)
    BY <2>1, <2>2, <2>6, Together
  <2>8. Beginning(first \o Apply(TRUE) \o <<"configure">>, "dev")
    BY <2>3, <2>7, PieceBegins
  <2> QED
    BY <2>5, <2>8
<1>8. CASE Teardown
  <2>1. Piece(<<"reset">>, "reset", "reset",
              {"reset"})
    BY Parts
  <2>2. Launches("reset", {"reset"}, "dev")
    BY DEF Launches, RenderSteps, FileNames
  <2> QED
    BY <1>8, <2>1, <2>2, PieceBegins DEF Teardown, Begin
<1>9. CASE BuildCommand
  <2>1. Piece(<<"resolve", "build", "restart", "rollout of restart">>,
              "resolve", "rollout of restart",
              {"build", "resolve", "restart", "rollout of restart"})
    BY Parts
  <2>2. Launches("resolve", {"build", "resolve", "restart", "rollout of restart"}, "dev")
    BY DEF Launches, RenderSteps, FileNames
  <2> QED
    BY <1>9, <2>1, <2>2, PieceBegins DEF BuildCommand, Begin
<1>10. CASE ConfigureCommand
  <2>1. Piece(<<"configure">>, "configure", "configure",
              {"configure"})
    BY Parts
  <2>2. Launches("configure", {"configure"}, "dev")
    BY DEF Launches, RenderSteps, FileNames
  <2> QED
    BY <1>10, <2>1, <2>2, PieceBegins DEF ConfigureCommand, Begin
<1> QED
  BY <1>2, <1>3, <1>4, <1>5, <1>6, <1>7, <1>8, <1>9, <1>10

LEMMA OnboardBegins ==
  ASSUME Onboard
  PROVE  Beginning(todo', env') /\ env' \in Envs
<1> DEFINE s == <<"mkdir", "service.yaml", "overlay.example", "stub", "secrets",
                  "render", "validate">>
<1>1. todo' = s /\ env' = "dev"
  BY DEF Onboard, Begin
<1>2. s # <<>> /\ DOMAIN s = 1..7 /\ Head(s) = "mkdir"
  OBVIOUS
<1>3. /\ s[1] = "mkdir" /\ s[2] = "service.yaml" /\ s[3] = "overlay.example"
      /\ s[4] = "stub" /\ s[5] = "secrets" /\ s[6] = "render" /\ s[7] = "validate"
  OBVIOUS
<1> HIDE DEF s
<1>4. DOMAIN s = {1, 2, 3, 4, 5, 6, 7}
  BY <1>2
<1>5. StepsOf(s) = {"mkdir", "service.yaml", "overlay.example", "stub", "secrets",
                    "render", "validate"}
  BY <1>3, <1>4 DEF StepsOf
<1>6. \A i \in 1..5 : s[i] \in ScaffoldSteps
  <2>1. 1..5 = {1, 2, 3, 4, 5}
    OBVIOUS
  <2> QED
    BY <2>1, <1>3 DEF ScaffoldSteps
<1>7. \A i \in 6..7 : s[i] \in {"render", "validate"}
  <2>1. 6..7 = {6, 7}
    OBVIOUS
  <2> QED
    BY <2>1, <1>3
<1>8. \A i \in DOMAIN s : s[i] \in ScaffoldSteps \cup {"render", "validate"}
  BY <1>2, <1>6, <1>7
<1>9. \A a \in Steps, b \in (ScaffoldSteps \cup {"render", "validate"}) \ {"mkdir"} :
        Follows(a, b)
  BY DEF ScaffoldSteps, Follows, Workloads
<1>10. \A i \in DOMAIN s : s[i] \in Steps
  BY <1>8 DEF ScaffoldSteps, Steps, PlainSteps
<1>11. ASSUME NEW i \in DOMAIN s, i + 1 \in DOMAIN s
       PROVE  s[i + 1] # "mkdir"
  <2>1. i + 1 \in 2..7 /\ 2..7 = {2, 3, 4, 5, 6, 7}
    BY <1>2, <1>11
  <2> QED
    BY <2>1, <1>3
<1>12. Ordered(s)
  <2>1. ASSUME NEW i \in DOMAIN s, NEW j \in DOMAIN s, i < j, s[j] \in ScaffoldSteps
        PROVE  s[i] \in ScaffoldSteps
    <3>1. s[j] \notin {"render", "validate"}
      BY <2>1 DEF ScaffoldSteps
    <3>2. j \in 1..5
      BY <3>1, <1>2, <1>7
    <3> QED
      BY <3>2, <2>1, <1>2, <1>6
  <2>2. \A i \in DOMAIN s : s[i] # "build"
    BY <1>8 DEF ScaffoldSteps
  <2> QED
    BY <2>1, <2>2, <1>8, <1>9, <1>10, <1>11 DEF Ordered
<1> QED
  BY <1>1, <1>2, <1>5, <1>12 DEF Beginning, ScaffoldSteps, RenderSteps, FileNames, Envs

-------------------------------------------------------------------------------
(***************************************************************************)
(* render puts its own steps before the rest of the command.               *)
(***************************************************************************)
Rendered ==
  /\ todo # <<>> /\ Head(todo) = "render" /\ todo' # <<>> /\ Head(todo') = "clear"
  /\ Ordered(todo') /\ env' = env
  /\ Left' \subseteq Left \cup RenderSteps /\ Left \subseteq Left' \cup {"render"}
  /\ Left' \cap ScaffoldSteps = {} /\ "clear" \in Left'
  /\ service # NoFile /\ touched' = FALSE
  /\ ctx' = BuildContext(service, Source(env), env)

LEMMA RenderStep ==
  ASSUME CommandInv, Ordered(todo), Render
  PROVE  (Advance /\ todo' = <<>>) \/ Rendered
<1> DEFINE file == IF env = "dev" THEN <<>> ELSE IF overlay # NoFile THEN overlay ELSE example
<1>1. /\ todo # <<>> /\ Head(todo) = "render" /\ touched' = FALSE
      /\ \/ Continue(<<>>)
         \/ /\ todo' = <<"clear">> \o Files(env) \o Tail(todo) /\ env' = env
            /\ service # NoFile /\ ctx' = BuildContext(service, file, env)
  BY DEF Render, At
<1>2. CASE Continue(<<>>)
  BY <1>1, <1>2, AdvanceStep DEF Continue
<1>3. CASE ~Continue(<<>>)
  <2> DEFINE block == <<"clear">> \o Files(env)
             rest == Tail(todo)
  <2>1. /\ env \in Envs /\ Files(env) \in Seq(FileNames) /\ Len(Files(env)) \in Nat \ {0}
        /\ Files(env)[Len(Files(env))] = "service.lock"
    BY Others, LockIsLast DEF OthersTyped
  <2>2. /\ block \in Seq(RenderSteps) /\ Len(block) = 1 + Len(Files(env))
        /\ \A i \in 1..(1 + Len(Files(env))) :
             block[i] = IF i <= 1 THEN <<"clear">>[i] ELSE Files(env)[i - 1]
    <3>1. <<"clear">> \in Seq(RenderSteps) /\ Len(<<"clear">>) = 1
      BY DEF RenderSteps
    <3>2. Files(env) \in Seq(RenderSteps)
      BY <2>1, SeqMonotonic DEF RenderSteps
    <3>3. /\ block \in Seq(RenderSteps) /\ Len(block) = Len(<<"clear">>) + Len(Files(env))
          /\ \A i \in 1..(Len(<<"clear">>) + Len(Files(env))) :
               block[i] = IF i <= Len(<<"clear">>) THEN <<"clear">>[i]
                          ELSE Files(env)[i - Len(<<"clear">>)]
      BY <3>1, <3>2, ConcatProperties
    <3> QED
      BY <3>1, <3>3
  <2>3. <<"clear">>[1] = "clear" /\ todo' = block \o rest
    BY <1>1, <1>3
  <2> HIDE DEF block
  <2>4. /\ Len(block) \in Nat \ {0} /\ DOMAIN block = 1..Len(block)
        /\ block[1] = "clear" /\ block[Len(block)] = "service.lock"
        /\ block \in Seq(Steps) /\ block # <<>>
        /\ \A i \in DOMAIN block : block[i] \in RenderSteps
    <3>1. Len(block) \in Nat \ {0} /\ DOMAIN block = 1..Len(block)
      BY <2>1, <2>2, LenProperties
    <3>2. block[1] = "clear"
      BY <2>1, <2>2, <2>3
    <3>3. block[Len(block)] = "service.lock"
      <4> DEFINE n == Len(Files(env))
      <4>1. n \in Nat \ {0} /\ Len(block) = 1 + n /\ block[1 + n] = Files(env)[(1 + n) - 1]
        <5> HIDE DEF n
        <5>1. n \in Nat \ {0} /\ 1 + n \in 1..(1 + n) /\ ~(1 + n <= 1)
          BY <2>1 DEF n
        <5> QED
          BY <5>1, <2>2 DEF n
      <4>2. (1 + n) - 1 = n
        BY <4>1
      <4> QED
        BY <4>1, <4>2, <2>1
    <3>4. \A i \in DOMAIN block : block[i] \in RenderSteps
      BY <2>2, <3>1, ElementOfSeq
    <3>5. block \in Seq(Steps)
      BY <2>2, SeqMonotonic DEF Steps
    <3>6. block # <<>>
      BY <3>1, <3>5, EmptySeq
    <3> QED
      BY <3>1, <3>2, <3>3, <3>4, <3>5, <3>6
  <2>5. /\ Piece(block, "clear", "service.lock", StepsOf(block))
        /\ StepsOf(block) \subseteq RenderSteps
        /\ "clear" \in StepsOf(block)
    <3>1. \A a \in Steps, b \in RenderSteps : Follows(a, b) /\ b \notin ScaffoldSteps
      BY DEF Follows, RenderSteps, FileNames, ScaffoldSteps, Workloads
    <3>2. \A i \in DOMAIN block : block[i] \in Steps
      BY <2>4 DEF Steps
    <3>3. Ordered(block)
      BY <2>4, <3>1, <3>2 DEF Ordered, BeforeBuild
    <3>4. 1 \in DOMAIN block
      BY <2>4
    <3> QED
      BY <2>4, <3>1, <3>3, <3>4 DEF Piece, Part, StepsOf
  <2>6. /\ Ordered(rest) /\ Left = {"render"} \cup StepsOf(rest) /\ rest \in Seq(Steps)
        /\ rest # <<>> => rest[1] = Head(rest) /\ Follows("render", rest[1])
    BY <1>1, TailOrdered, TailSteps
  <2>7. StepsOf(rest) \cap ScaffoldSteps = {}
    <3>1. \A j \in DOMAIN todo : j > 1 => todo[j] \notin ScaffoldSteps
      <4>1. 1 \in DOMAIN todo /\ todo[1] = "render"
        BY <1>1, TailSteps
      <4>2. "render" \notin ScaffoldSteps
        BY DEF ScaffoldSteps
      <4> QED
        BY <4>1, <4>2 DEF Ordered
    <3>2. \A i \in DOMAIN rest : rest[i] = todo[i + 1] /\ i + 1 \in DOMAIN todo /\ i + 1 > 1
      BY <1>1, TailSteps
    <3> QED
      BY <3>1, <3>2 DEF StepsOf
  <2> HIDE DEF rest
  <2>8. /\ Ordered(block \o rest) /\ StepsOf(block \o rest) = StepsOf(block) \cup StepsOf(rest)
        /\ (block \o rest)[1] = "clear" /\ block \o rest \in Seq(Steps) /\ block \o rest # <<>>
    <3>1. CASE rest = <<>>
      <4>1. block \o rest = block
        BY <2>4, <3>1, ConcatEmptySeq
      <4> QED
        BY <4>1, <3>1, <2>4, <2>5, NothingLeft DEF Piece, Part
    <3>2. CASE rest # <<>>
      <4>1. Follows("service.lock", rest[1])
        <5>1. Follows("render", rest[1])
          BY <3>2, <2>6
        <5> QED
          BY <5>1 DEF Follows, Workloads
      <4>2. Piece(rest, rest[1], rest[Len(rest)], StepsOf(rest))
        BY <2>6, <2>7, <3>2 DEF Piece, Part
      <4>4. Joins("service.lock", StepsOf(block), rest[1], StepsOf(rest))
        BY <4>1, <2>5 DEF Joins, BeforeBuild
      <4>3. Piece(block \o rest, "clear", rest[Len(rest)], StepsOf(block) \cup StepsOf(rest))
        BY <4>2, <4>4, <2>5, Together
      <4> QED
        BY <4>3 DEF Piece, Part
    <3> QED
      BY <3>1, <3>2
  <2>9. Head(todo') = "clear" /\ todo' # <<>>
    <3> DEFINE s == block \o rest
    <3>1. s \in Seq(Steps) /\ s # <<>> /\ s[1] = "clear"
      BY <2>8
    <3> HIDE DEF s
    <3>2. Head(s) = s[1]
      BY <3>1
    <3> QED
      BY <3>1, <3>2, <2>3 DEF s
  <2>10. Left' = StepsOf(block) \cup StepsOf(rest) /\ Ordered(todo')
    BY <2>3, <2>8 DEF Left
  <2>11. RenderSteps \cap ScaffoldSteps = {}
    BY DEF RenderSteps, FileNames, ScaffoldSteps
  <2> QED
    BY <1>1, <1>3, <2>5, <2>6, <2>7, <2>9, <2>10, <2>11 DEF Rendered, Source
<1> QED
  BY <1>2, <1>3

(***************************************************************************)
(* Every step keeps the order of the steps that are left.                  *)
(***************************************************************************)
LEMMA GeneratorAdvances ==
  ASSUME CommandInv, Ordered(todo),
         MakeDirectory \/ WriteService \/ WriteExample \/ WriteStub \/ WriteSecrets
           \/ Clear \/ WriteFile \/ WriteLock \/ Validate \/ Verify \/ Pack \/ Interrupt
  PROVE  Advance
<1>1. /\ todo # <<>>
      /\ \/ \E condition \in {~dir, ValidateErrors = {}, VerifyErrors = {}} : PassIf(condition)
         \/ Continue(Tail(todo)) \/ Continue(<<>>)
  BY DEF MakeDirectory, WriteService, WriteExample, WriteStub, WriteSecrets, Clear, WriteFile,
         WriteLock, Validate, Verify, Pack, Interrupt, At
<1> QED
  BY <1>1, AdvanceStep DEF PassIf

LEMMA ClusterAdvances ==
  ASSUME CommandInv, Ordered(todo), ClusterStep
  PROVE  Advance
<1> DEFINE Goes == todo # <<>> /\ (Continue(Tail(todo)) \/ Continue(<<>>))
<1> USE DEF Step, At, PassIf
<1>1. CASE Resolve \/ NeedRelease
  BY <1>1, AdvanceStep DEF Resolve, NeedRelease
<1>2. CASE Build
  BY <1>2, AdvanceStep DEF Build
<1>3. CASE ApplySecrets
  BY <1>3, AdvanceStep DEF ApplySecrets
<1>4. CASE ApplyConfig \/ ApplyGateway \/ ApplyWorkload
  BY <1>4, AdvanceStep DEF ApplyConfig, ApplyGateway, ApplyWorkload
<1>5. CASE Restart \/ Reset
  BY <1>5, AdvanceStep DEF Restart, Reset
<1>6. CASE WaitRollout
  BY <1>6, AdvanceStep DEF WaitRollout
<1>7. CASE Configure
  BY <1>7, AdvanceStep DEF Configure
<1> QED
  BY <1>1, <1>2, <1>3, <1>4, <1>5, <1>6, <1>7 DEF ClusterStep

Commands ==
  \/ Onboard \/ RenderCommand \/ ProdPack \/ DeployCommand \/ RebuildCommand \/ Bootstrap
  \/ Fresh \/ Teardown \/ BuildCommand \/ ConfigureCommand

Begun ==
  /\ todo = <<>> /\ Beginning(todo', env') /\ env' \in Envs /\ ctx' = NoFile
  /\ UNCHANGED <<dir, sources, bundle, packed, touched, raced>>

LEMMA CommandsBegun ==
  ASSUME Commands
  PROVE  Begun
<1>1. Beginning(todo', env') /\ env' \in Envs
  BY CommandBegins, OnboardBegins DEF Commands
<1>2. \E e, steps : Begin(e, steps)
  BY DEF Commands, Onboard, RenderCommand, ProdPack, DeployCommand, RebuildCommand, Bootstrap,
         Fresh, Teardown, BuildCommand, ConfigureCommand
<1> QED
  BY <1>1, <1>2 DEF Begun, Begin

\* What happens between the steps of commands.
Between ==
  \/ EditByHand \/ RemoveService \/ StartPod \/ StopPod
  \/ UNCHANGED deployVars

LEMMA BetweenKeeps ==
  ASSUME Between
  PROVE  UNCHANGED <<todo, env, ctx, Left, raced>>
<1>1. UNCHANGED <<todo, env, ctx, raced>>
  BY DEF Between, EditByHand, RemoveService, StartPod, StopPod, deployVars, bundleVars, command
<1> QED
  BY <1>1 DEF Left, StepsOf

LEMMA OrderedStep ==
  ASSUME CommandInv, Ordered(todo), [DeployNext]_deployVars
  PROVE  Ordered(todo')
<1>1. CASE Commands
  BY <1>1, CommandsBegun DEF Begun, Beginning
<1>2. CASE Render
  BY <1>2, RenderStep DEF Advance, Rendered
<1>3. CASE Between
  BY <1>3, BetweenKeeps
<1>4. CASE MakeDirectory \/ WriteService \/ WriteExample \/ WriteStub \/ WriteSecrets
             \/ Clear \/ WriteFile \/ WriteLock \/ Validate \/ Verify \/ Pack \/ Interrupt
  BY <1>4, GeneratorAdvances DEF Advance
<1>5. CASE ClusterStep
  BY <1>5, ClusterAdvances DEF Advance
<1> QED
  BY <1>1, <1>2, <1>3, <1>4, <1>5
  DEF DeployNext, BundleStep, BundleNext, GeneratorStep, ClusterCommand, Commands, Between

-------------------------------------------------------------------------------
(***************************************************************************)
(* Nothing is there without the directory.                                 *)
(***************************************************************************)
LEMMA DirectoryAdvance ==
  ASSUME CommandInv, Directory, Advance, Head(todo) # "mkdir",
         UNCHANGED <<dir, example, overlay, secrets, bundle>>
  PROVE  Directory'
<1>1. Left' \subseteq Left /\ (Left' # {} => Left = Left' \cup {Head(todo)})
  BY DEF Advance
<1>2. Left' \cap (ScaffoldSteps \ {"mkdir"}) # {} => dir \/ "mkdir" \in Left'
  BY <1>1 DEF Directory
<1>3. Left' \cap RenderSteps # {} => dir
  BY <1>1 DEF Directory
<1> QED
  BY <1>2, <1>3 DEF Directory

LEMMA DirectoryThere ==
  ASSUME dir'
  PROVE  Directory'
BY DEF Directory

LEMMA StepInDirectory ==
  ASSUME CommandInv, Ordered(todo), Directory, todo # <<>>,
         Head(todo) \in RenderSteps \cup {"overlay.example", "stub", "secrets"}
  PROVE  dir
<1>1. Head(todo) \in Left /\ "mkdir" \notin Left
  <2>1. Left = {Head(todo)} \cup StepsOf(Tail(todo)) /\ "mkdir" \notin StepsOf(Tail(todo))
    BY TailOrdered
  <2>2. Head(todo) # "mkdir"
    BY DEF RenderSteps, FileNames
  <2> QED
    BY <2>1, <2>2
<1> QED
  BY <1>1 DEF Directory, ScaffoldSteps

LEMMA DirectoryGenerator ==
  ASSUME CommandInv, Ordered(todo), Directory, GeneratorStep \/ Interrupt
  PROVE  Directory'
<1>1. CASE MakeDirectory
  BY <1>1, DirectoryThere DEF MakeDirectory
<1>2. CASE WriteService
  <2>1. dir
    BY <1>2, TailSteps DEF WriteService, At, CommandInv, Onboarding
  <2> QED
    BY <1>2, <2>1, DirectoryThere DEF WriteService
<1>3. CASE WriteExample \/ WriteStub \/ WriteSecrets
  <2>1. UNCHANGED dir /\ todo # <<>> /\ Head(todo) \in {"overlay.example", "stub", "secrets"}
    BY <1>3 DEF WriteExample, WriteStub, WriteSecrets, At
  <2> QED
    BY <2>1, StepInDirectory, DirectoryThere
<1>4. CASE Clear \/ WriteFile \/ WriteLock
  <2>1. UNCHANGED dir /\ todo # <<>> /\ Head(todo) \in RenderSteps
    BY <1>4, Others, FilesAreNamed
    DEF Clear, WriteFile, WriteLock, At, OthersTyped, RenderSteps, FileNames
  <2> QED
    BY <2>1, StepInDirectory, DirectoryThere
<1>5. CASE Render
  <2>1. UNCHANGED <<dir, example, overlay, secrets, bundle>> /\ Head(todo) = "render"
    BY <1>5 DEF Render, sources, At
  <2>2. CASE Advance
    BY <2>1, <2>2, DirectoryAdvance
  <2>3. CASE Rendered
    BY <2>1, <2>3, DirectoryThere DEF Rendered, CommandInv, Onboarding
  <2> QED
    BY <1>5, <2>2, <2>3, RenderStep
<1>6. CASE Validate \/ Verify \/ Pack
  <2>1. /\ UNCHANGED <<dir, example, overlay, secrets, bundle>>
        /\ Head(todo) \in {"validate", "verify", "pack"}
    BY <1>6 DEF Validate, Verify, Pack, sources, At
  <2> QED
    BY <1>6, <2>1, GeneratorAdvances, DirectoryAdvance
<1>7. CASE Interrupt
  <2>1. /\ Left' = {} /\ UNCHANGED <<dir, example, overlay, secrets>>
        /\ \A e \in Envs : bundle'[e] # NoFile => bundle[e] # NoFile
    <3>1. todo' = <<>>
      BY <1>7 DEF Interrupt, Continue
    <3>2. \A e \in Envs : bundle'[e] # NoFile => bundle[e] # NoFile
      BY <1>7 DEF Interrupt, CommandInv, Typed
    <3> QED
      BY <1>7, <3>1, <3>2, NothingLeft DEF Interrupt, Left, sources
  <2> QED
    BY <2>1 DEF Directory
<1> QED
  BY <1>1, <1>2, <1>3, <1>4, <1>5, <1>6, <1>7 DEF GeneratorStep

LEMMA DirectoryBetween ==
  ASSUME CommandInv, Directory, Between
  PROVE  Directory'
<1>1. CASE EditByHand
  <2>1. UNCHANGED <<dir, bundle, Left>>
    BY <1>1, BetweenKeeps DEF EditByHand, Between
  <2>2. example' # NoFile \/ overlay' # NoFile \/ secrets' # NoFile => dir
    <3>1. \/ UNCHANGED <<example, overlay, secrets>>
          \/ example # NoFile /\ UNCHANGED <<example, secrets>>
          \/ secrets # NoFile /\ UNCHANGED <<example, overlay>>
          \/ bundle["dev"] # NoFile
      BY <1>1 DEF EditByHand, EditService, EditOverlay, EditCode, EditSecrets, Has
    <3> QED
      BY <3>1 DEF Directory, Envs
  <2> QED
    BY <2>1, <2>2 DEF Directory
<1>2. CASE RemoveService
  <2>1. /\ example' = NoFile /\ overlay' = NoFile /\ secrets' = NoFile
        /\ \A e \in Envs : bundle'[e] = NoFile
        /\ todo' = <<>>
    BY <1>2 DEF RemoveService, command
  <2>2. Left' = {}
    BY <2>1, NothingLeft DEF Left
  <2> QED
    BY <2>1, <2>2 DEF Directory
<1>3. CASE StartPod \/ StopPod \/ UNCHANGED deployVars
  <2>1. UNCHANGED <<dir, example, overlay, secrets, bundle, Left>>
    BY <1>3, BetweenKeeps DEF StartPod, StopPod, Between, deployVars, bundleVars, sources
  <2> QED
    BY <2>1 DEF Directory
<1> QED
  BY <1>1, <1>2, <1>3 DEF Between

LEMMA DirectoryStep ==
  ASSUME CommandInv, Ordered(todo), Directory, [DeployNext]_deployVars
  PROVE  Directory'
<1>1. CASE Commands
  <2>1. Begun
    BY <1>1, CommandsBegun
  <2>2. /\ UNCHANGED <<dir, example, overlay, secrets, bundle>> /\ Left' \cap RenderSteps = {}
        /\ Left' \cap ScaffoldSteps # {} => "mkdir" \in Left'
    BY <2>1 DEF Begun, Beginning, Left, sources
  <2> QED
    BY <2>2 DEF Directory
<1>2. CASE ClusterStep
  <2>1. Advance /\ UNCHANGED <<dir, sources, bundle>>
    BY <1>2, ClusterAdvances, ClusterInv
  <2>2. Head(todo) # "mkdir"
    BY <1>2 DEF ClusterStep, Resolve, Build, NeedRelease, ApplySecrets, ApplyConfig, ApplyGateway,
       ApplyWorkload, Restart, WaitRollout, Reset, Configure, Step, At
  <2> QED
    BY <2>1, <2>2, DirectoryAdvance DEF sources
<1> QED
  BY <1>1, <1>2, DirectoryGenerator, DirectoryBetween
  DEF DeployNext, BundleStep, BundleNext, ClusterCommand, Commands, Between

-------------------------------------------------------------------------------
(***************************************************************************)
(* The context of a command.                                               *)
(***************************************************************************)
LEMMA ContextIsThere == \A s, o, e : BuildContext(s, o, e) # NoFile
<1>1. \A s, o, e : "env" \in DOMAIN BuildContext(s, o, e)
  BY DEF BuildContext
<1>2. "env" \notin DOMAIN NoFile
  BY DEF NoFile
<1> QED
  BY <1>1, <1>2

LEMMA ScaffoldDescribed == Described(ScaffoldedService)
<1> DEFINE model == [module |-> ServiceId, class |-> ServiceId, bento_name |-> ServiceId,
                     source |-> "hugging_face", id |-> "org/model", revision |-> "",
                     cache_dir |-> ""]
<1>1. /\ {"id", "revision"} \subseteq DOMAIN model
      /\ model["id"] = "org/model" /\ model["revision"] = ""
  OBVIOUS
<1>2. {"service_id", "model"} \subseteq DOMAIN ScaffoldedService
  BY DEF ScaffoldedService
<1>3. ScaffoldedService["model"] = model
  BY DEF ScaffoldedService
<1> HIDE DEF model
<1> QED
  BY <1>1, <1>2, <1>3 DEF Described

LEMMA EditsDescribed ==
  ASSUME NEW s, Described(s), NEW t \in ServiceEdits(s)
  PROVE  Described(t)
<1>1. ASSUME NEW r \in {"r1", "r2"}, t = [s EXCEPT !.model.revision = r]
      PROVE  Described(t)
  <2>1. DOMAIN t = DOMAIN s /\ t["model"] = [s["model"] EXCEPT !.revision = r]
    BY <1>1 DEF Described
  <2> QED
    BY <2>1 DEF Described
<1>2. ASSUME t = [s EXCEPT !.oidc.client_id = "client"] \/ t = [s EXCEPT !.kubernetes = <<>>]
      PROVE  Described(t)
  <2>1. DOMAIN t = DOMAIN s /\ t["model"] = s["model"]
    BY <1>2 DEF Described
  <2> QED
    BY <2>1 DEF Described
<1>3. ASSUME t = [s EXCEPT !.model.source = "local_dir", !.model.cache_dir = "/cache"]
      PROVE  Described(t)
  <2>1. /\ DOMAIN t = DOMAIN s
        /\ t["model"] = [s["model"] EXCEPT !.source = "local_dir", !.cache_dir = "/cache"]
    BY <1>3 DEF Described
  <2> QED
    BY <2>1 DEF Described
<1>4. ASSUME t = Overridden(s, [worker |-> [inference_batch_size |-> 4]])
      PROVE  Described(t)
  <2> DEFINE worker == [worker |-> [inference_batch_size |-> 4]]
  <2>1. "model" \notin DOMAIN worker
    OBVIOUS
  <2>2. t = [k \in DOMAIN worker \cup DOMAIN s |-> IF k \in DOMAIN worker THEN worker[k] ELSE s[k]]
    BY <1>4 DEF Overridden
  <2> HIDE DEF worker
  <2>3. DOMAIN s \subseteq DOMAIN t /\ t["model"] = s["model"]
    BY <2>1, <2>2 DEF Described
  <2> QED
    BY <2>3 DEF Described
<1> QED
  BY <1>1, <1>2, <1>3, <1>4 DEF ServiceEdits

LEMMA ContextAdvance ==
  ASSUME CommandInv, Context, Advance, UNCHANGED <<service, example, overlay, touched>>
  PROVE  Context'
<1>1. CASE todo' = <<>> /\ Left' = {} /\ ctx' = NoFile
  BY <1>1 DEF Context
<1>2. CASE todo' # <<>> /\ Left' \subseteq Left /\ UNCHANGED <<env, ctx>>
  <2>1. Source(env)' = Source(env)
    BY <1>2 DEF Source
  <2> QED
    BY <1>2, <2>1 DEF Context, Advance
<1> QED
  BY <1>1, <1>2 DEF Advance

LEMMA ContextScaffold ==
  ASSUME CommandInv, Ordered(todo), Context,
         WriteService \/ WriteExample \/ WriteStub \/ WriteSecrets
  PROVE  Context'
<1>1. Advance /\ Head(todo) \in ScaffoldSteps
  BY GeneratorAdvances
  DEF WriteService, WriteExample, WriteStub, WriteSecrets, At, ScaffoldSteps
<1>2. ctx = NoFile /\ ctx' = NoFile /\ Left' \cap RenderSteps = {}
  BY <1>1 DEF Advance, Context
<1>3. service' # NoFile => Described(service')
  BY ScaffoldDescribed DEF Context, WriteService, WriteExample, WriteStub, WriteSecrets
<1> QED
  BY <1>2, <1>3 DEF Context

LEMMA ContextEdit ==
  ASSUME CommandInv, Context, EditByHand
  PROVE  Context'
<1>1. UNCHANGED <<todo, env, ctx, Left>>
  BY BetweenKeeps DEF Between
<1>2. service' # NoFile => Described(service')
  BY EditsDescribed
  DEF Context, EditByHand, EditService, EditOverlay, EditCode, EditSecrets
<1>3. ctx # NoFile /\ ~touched' =>
        ~touched /\ UNCHANGED <<service, example>> /\ (env # "dev" => UNCHANGED overlay)
  BY Others DEF EditByHand, EditService, EditOverlay, EditCode, EditSecrets, Edited,
                OthersTyped, Envs
<1>4. ctx # NoFile /\ ~touched' => service' = service /\ Source(env)' = Source(env)
  BY <1>1, <1>3 DEF Source
<1>5. ctx' # NoFile /\ ~touched' => ctx' = BuildContext(service', Source(env)', env')
  BY <1>1, <1>3, <1>4 DEF Context
<1>6. ctx' # NoFile => \E s, o : Described(s) /\ ctx' = BuildContext(s, o, env')
  BY <1>1 DEF Context
<1> QED
  BY <1>1, <1>2, <1>5, <1>6 DEF Context

LEMMA ContextStep ==
  ASSUME CommandInv, Ordered(todo), Context, [DeployNext]_deployVars
  PROVE  Context'
<1>1. CASE Commands
  <2>1. Begun
    BY <1>1, CommandsBegun
  <2>2. /\ ctx' = NoFile /\ UNCHANGED service /\ Left' \cap RenderSteps = {}
    BY <2>1 DEF Begun, Beginning, Left, sources
  <2> QED
    BY <2>2 DEF Context
<1>2. CASE ClusterStep
  <2>1. Advance /\ UNCHANGED sources
    BY <1>2, ClusterAdvances, ClusterInv
  <2>2. UNCHANGED touched
    BY <1>2 DEF ClusterStep, Resolve, Build, NeedRelease, ApplySecrets, ApplyConfig, ApplyGateway,
       ApplyWorkload, Restart, WaitRollout, Reset, Configure, Step
  <2> QED
    BY <2>1, <2>2, ContextAdvance DEF sources
<1>3. CASE WriteService \/ WriteExample \/ WriteStub \/ WriteSecrets
  BY <1>3, ContextScaffold
<1>4. CASE MakeDirectory \/ Clear \/ WriteFile \/ WriteLock
           \/ Validate \/ Verify \/ Pack \/ Interrupt
  <2>1. UNCHANGED <<sources, touched>>
    BY <1>4 DEF MakeDirectory, Clear, WriteFile, WriteLock, Validate, Verify, Pack, Interrupt
  <2> QED
    BY <1>4, <2>1, GeneratorAdvances, ContextAdvance DEF sources
<1>5. CASE Render
  <2>1. UNCHANGED sources
    BY <1>5 DEF Render
  <2>2. CASE Rendered
    <3>1. /\ service # NoFile /\ Described(service) /\ env' = env
          /\ ctx' = BuildContext(service, Source(env), env) /\ ctx' # NoFile
      BY <2>2, ContextIsThere DEF Rendered, Context
    <3>2. service' = service /\ Source(env)' = Source(env)
      BY <2>1, <3>1 DEF sources, Source
    <3>3. todo' # <<>> /\ Left' \cap ScaffoldSteps = {}
      BY <2>2 DEF Rendered
    <3> QED
      BY <3>1, <3>2, <3>3 DEF Context
  <2>3. CASE todo' = <<>> /\ Left' = {} /\ ctx' = NoFile
    BY <2>1, <2>3 DEF Context, sources
  <2> QED
    BY <1>5, <2>2, <2>3, RenderStep DEF Advance
<1>6. CASE Between
  <2>1. CASE RemoveService
    <3>1. UNCHANGED <<todo, env, ctx, Left>> /\ todo = <<>> /\ service' = NoFile
      BY <2>1, BetweenKeeps DEF Between, RemoveService
    <3> QED
      BY <3>1 DEF Context
  <2>2. CASE StartPod \/ StopPod \/ UNCHANGED deployVars
    <3>1. UNCHANGED <<todo, env, ctx, Left, sources, touched>>
      BY <2>2, BetweenKeeps DEF Between, StartPod, StopPod, deployVars, bundleVars
    <3>2. service' = service /\ Source(env)' = Source(env)
      BY <3>1 DEF sources, Source
    <3> QED
      BY <3>1, <3>2 DEF Context
  <2> QED
    BY <1>6, <2>1, <2>2, ContextEdit DEF Between
<1> QED
  BY <1>1, <1>2, <1>3, <1>4, <1>5, <1>6
  DEF DeployNext, BundleStep, BundleNext, GeneratorStep, ClusterCommand, Commands, Between

-------------------------------------------------------------------------------
(***************************************************************************)
(* The files of a bundle are those of one context.                         *)
(***************************************************************************)
LEMMA ContentsKept ==
  ASSUME Contents, UNCHANGED <<bundle, raced>>
  PROVE  /\ \A e \in Envs : bundle'[e] # NoFile =>
              \E s, o : Described(s) /\ RenderedFrom(e, BuildContext(s, o, e))'
         /\ \A e \in Envs : Recorded(e)'
BY DEF Contents, RenderedFrom, Recorded, Has

LEMMA ContentsAdvance ==
  ASSUME CommandInv, Contents, Advance, Head(todo) # "clear", UNCHANGED <<bundle, raced>>
  PROVE  Contents'
<1>1. "service.lock" \in Left' /\ "clear" \notin Left' => RenderedFrom(env, ctx)'
  BY DEF Advance, Contents, RenderedFrom
<1> QED
  BY <1>1, ContentsKept DEF Contents

\* Where a render is while it writes.
LEMMA Writing ==
  ASSUME CommandInv, todo # <<>>, Head(todo) \in AllFiles(env)
  PROVE  "service.lock" \in Left /\ "clear" \notin Left /\ Head(todo) \in RenderSteps
<1>1. /\ DOMAIN todo = 1..Len(todo) /\ Len(todo) \in Nat \ {0} /\ Head(todo) = todo[1]
      /\ 1 \in DOMAIN todo
  BY TailSteps
<1>2. env \in Envs /\ AllFiles(env) \subseteq FileNames
  BY Others, FilesAreNamed DEF OthersTyped
<1>3. "clear" \notin FileNames /\ "clear" \in RenderSteps /\ FileNames \subseteq RenderSteps
  BY DEF FileNames, RenderSteps
<1>4. PICK i \in DOMAIN todo :
        /\ todo[i] = "service.lock"
        /\ \A k \in DOMAIN todo : k > i => todo[k] \notin RenderSteps
        /\ \A k \in 2..i : todo[k] \in AllFiles(env)
  BY <1>1, <1>2, <1>3 DEF CommandInv, Rendering
<1>5. \A k \in DOMAIN todo : k = 1 \/ k \in 2..i \/ k > i
  BY <1>1
<1> QED
  BY <1>1, <1>2, <1>3, <1>4, <1>5 DEF Left, StepsOf

LEMMA ContentsClear ==
  ASSUME CommandInv, Ordered(todo), Context, Contents, Clear
  PROVE  Contents'
<1>1. /\ bundle'[env] = <<>> /\ \A e \in Envs : e # env => bundle'[e] = bundle[e]
      /\ env \in Envs /\ UNCHANGED raced
  BY DEF Clear, CommandInv, Typed
<1>2. Advance /\ Head(todo) \in RenderSteps
  BY GeneratorAdvances DEF Clear, At, RenderSteps
<1>3. /\ DOMAIN <<>> = {}
      /\ \A e \in Envs : e = env => \A c : RenderedFrom(e, c)' /\ ~Has(e, "service.lock")'
  BY <1>1 DEF RenderedFrom, Has
<1>4. "service.lock" \in Left' => env' = env
  BY <1>2 DEF Advance
<1>5. PICK s, o : Described(s) /\ ctx = BuildContext(s, o, env)
  BY <1>2 DEF Advance, Context
<1>6. \A e \in Envs : bundle'[e] # NoFile =>
        \E t, u : Described(t) /\ RenderedFrom(e, BuildContext(t, u, e))'
  BY <1>1, <1>3, <1>5 DEF Contents, RenderedFrom
<1>7. \A e \in Envs : Recorded(e)'
  BY <1>1, <1>3 DEF Contents, Recorded, RenderedFrom, Has
<1>8. "service.lock" \in Left' => RenderedFrom(env, ctx)'
  BY <1>1, <1>3, <1>4 DEF RenderedFrom
<1> QED
  BY <1>6, <1>7, <1>8 DEF Contents

LEMMA ContentsWrite ==
  ASSUME CommandInv, Ordered(todo), Context, Contents, Typing, WriteFile \/ WriteLock
  PROVE  Contents'
<1>1. /\ todo # <<>> /\ Continue(Tail(todo)) /\ UNCHANGED <<sources, used, dir>>
      /\ Head(todo) \in AllFiles(env) /\ env \in Envs
  <2>1. env \in Envs
    BY DEF CommandInv, Typed
  <2>2. "service.lock" \in AllFiles(env)
    BY <2>1, LockIsLast DEF AllFiles
  <2> QED
    BY <2>1, <2>2 DEF WriteFile, WriteLock, At
<1>2. /\ Advance /\ ctx # NoFile /\ RenderedFrom(env, ctx)
  <2>1. "service.lock" \in Left /\ "clear" \notin Left /\ Head(todo) \in RenderSteps
    BY <1>1, Writing
  <2>2. Advance
    BY GeneratorAdvances
  <2> QED
    BY <2>1, <2>2 DEF Advance, Context, Contents
<1>3. PICK s, o : Described(s) /\ ctx = BuildContext(s, o, env)
  BY <1>2 DEF Context
<1>4. PICK content : /\ Written(Head(todo), content)
                     /\ Head(todo) # "service.lock" => content = Content(Head(todo), ctx)
                     /\ Head(todo) = "service.lock" =>
                          content = Lock(service, overlay, env)
                            /\ raced' = [raced EXCEPT ![env] = touched]
  BY DEF WriteFile, WriteLock, At
<1>5. /\ bundle'[env] = [f \in DOMAIN bundle[env] \cup {Head(todo)} |->
                           IF f = Head(todo) THEN content ELSE bundle[env][f]]
      /\ \A e \in Envs : e # env => bundle'[e] = bundle[e] /\ raced'[e] = raced[e]
  <2>1. bundle = [e \in Envs |-> bundle[e]] /\ raced = [e \in Envs |-> raced[e]]
    BY DEF CommandInv, Typed, Typing
  <2>2. raced' = raced \/ raced' = [raced EXCEPT ![env] = touched]
    BY DEF WriteFile, WriteLock
  <2> QED
    BY <1>1, <1>4, <2>1, <2>2 DEF Written
<1>7. \A f \in DOMAIN bundle'[env] \ {"service.lock"} : bundle'[env][f] = Content(f, ctx)
  BY <1>2, <1>4, <1>5 DEF RenderedFrom
<1>8. \A e \in Envs : bundle'[e] # NoFile =>
        \E t, u : Described(t) /\ RenderedFrom(e, BuildContext(t, u, e))'
  BY <1>3, <1>5, <1>7 DEF Contents, RenderedFrom
<1>9. "service.lock" \in Left' => RenderedFrom(env, ctx)'
  <2>1. "service.lock" \in Left' => UNCHANGED <<env, ctx>>
    BY <1>2 DEF Advance
  <2> QED
    BY <2>1, <1>7 DEF RenderedFrom
<1>10. ASSUME NEW e \in Envs, e = env PROVE Recorded(e)'
  <2>1. CASE Head(todo) # "service.lock"
    <3>1. "service.lock" \notin DOMAIN bundle'[env]
      BY <1>1, <1>4, <2>1, FileInv
    <3> QED
      BY <3>1, <1>10 DEF Recorded, Has
  <2>2. CASE Head(todo) = "service.lock"
    <3>1. bundle'[env]["service.lock"] = <<service, overlay, env>>
      BY <2>2, <1>4, <1>5 DEF Lock
    <3>2. ASSUME ~raced'[env], env = "prod" => overlay # NoFile
          PROVE  ctx = BuildContext(service, IF env = "dev" THEN <<>> ELSE overlay, env)
      <4>1. ~touched
        BY <3>2, <2>2, <1>4, <1>1 DEF Typing
      <4> QED
        BY <4>1, <3>2, <1>1, <1>2 DEF Context, Source, Envs
    <3>3. \A c : c = ctx => RenderedFrom(e, c)'
      BY <1>7, <1>10 DEF RenderedFrom
    <3>4. bundle'[e]["service.lock"][1] = service /\ bundle'[e]["service.lock"][2] = overlay
      BY <3>1, <1>10
    <3> QED
      BY <3>2, <3>3, <3>4, <1>10 DEF Recorded
  <2> QED
    BY <2>1, <2>2
<1>11. \A e \in Envs : Recorded(e)'
  BY <1>5, <1>10 DEF Contents, Recorded, RenderedFrom, Has
<1> QED
  BY <1>8, <1>9, <1>11 DEF Contents

LEMMA ContentsInterrupt ==
  ASSUME CommandInv, Contents, Interrupt
  PROVE  Contents'
<1>1. Left' = {} /\ UNCHANGED raced
  BY NothingLeft DEF Interrupt, Continue, Left
<1>2. CASE UNCHANGED bundle
  BY <1>1, <1>2, ContentsKept DEF Contents
<1>3. CASE ~UNCHANGED bundle
  <2>1. PICK removed : /\ bundle[env] # NoFile
                       /\ bundle' = [bundle EXCEPT ![env] = [f \in DOMAIN @ \ removed |-> @[f]]]
    BY <1>3 DEF Interrupt
  <2>2. /\ \A e \in Envs : e # env => bundle'[e] = bundle[e]
        /\ env \in Envs /\ DOMAIN bundle'[env] \subseteq DOMAIN bundle[env]
        /\ \A f \in DOMAIN bundle'[env] : bundle'[env][f] = bundle[env][f]
    BY <2>1 DEF CommandInv, Typed
  <2>3. \A e \in Envs : bundle'[e] # NoFile =>
          \E s, o : Described(s) /\ RenderedFrom(e, BuildContext(s, o, e))'
    BY <2>1, <2>2 DEF Contents, RenderedFrom
  <2>4. \A e \in Envs : Recorded(e)'
    BY <2>1, <2>2, <1>1 DEF Contents, Recorded, RenderedFrom, Has
  <2> QED
    BY <2>3, <2>4, <1>1 DEF Contents
<1> QED
  BY <1>2, <1>3

LEMMA ContentsStep ==
  ASSUME CommandInv, Ordered(todo), Context, Contents, Typing, [DeployNext]_deployVars
  PROVE  Contents'
<1>1. CASE Commands
  <2>1. Begun
    BY <1>1, CommandsBegun
  <2>2. UNCHANGED <<bundle, raced>> /\ "service.lock" \notin Left'
    BY <2>1 DEF Begun, Beginning, Left, RenderSteps, FileNames
  <2> QED
    BY <2>2, ContentsKept DEF Contents
<1>2. CASE ClusterStep
  <2>1. Advance /\ UNCHANGED bundle
    BY <1>2, ClusterAdvances, ClusterInv
  <2>2. UNCHANGED raced /\ Head(todo) # "clear"
    BY <1>2 DEF ClusterStep, Resolve, Build, NeedRelease, ApplySecrets, ApplyConfig, ApplyGateway,
       ApplyWorkload, Restart, WaitRollout, Reset, Configure, Step, At
  <2> QED
    BY <2>1, <2>2, ContentsAdvance
<1>3. CASE MakeDirectory \/ WriteService \/ WriteExample \/ WriteStub \/ WriteSecrets
             \/ Validate \/ Verify \/ Pack
  <2>1. UNCHANGED <<bundle, raced>> /\ Head(todo) # "clear"
    BY <1>3 DEF MakeDirectory, WriteService, WriteExample, WriteStub, WriteSecrets,
                Validate, Verify, Pack, At
  <2> QED
    BY <1>3, <2>1, GeneratorAdvances, ContentsAdvance
<1>4. CASE Render
  <2>1. UNCHANGED <<bundle, raced>> /\ Head(todo) # "clear"
    BY <1>4 DEF Render, At
  <2>2. CASE Rendered
    BY <2>1, <2>2, ContentsKept DEF Rendered, Contents
  <2> QED
    BY <1>4, <2>1, <2>2, RenderStep, ContentsAdvance
<1>5. CASE Between
  <2>1. CASE RemoveService
    <3>1. /\ \A e \in Envs : bundle'[e] = NoFile
          /\ Left' = {}
      BY <2>1, NothingLeft DEF RemoveService, command, Left
    <3> QED
      BY <3>1 DEF Contents, Recorded, Has
  <2>2. CASE EditByHand \/ StartPod \/ StopPod \/ UNCHANGED deployVars
    <3>1. UNCHANGED <<todo, env, ctx, Left, bundle, raced>>
      BY <1>5, <2>2, BetweenKeeps DEF EditByHand, StartPod, StopPod, deployVars, bundleVars
    <3>2. "service.lock" \in Left' /\ "clear" \notin Left' => RenderedFrom(env, ctx)'
      BY <3>1 DEF Contents, RenderedFrom
    <3> QED
      BY <3>1, <3>2, ContentsKept DEF Contents
  <2> QED
    BY <1>5, <2>1, <2>2 DEF Between
<1> QED
  BY <1>1, <1>2, <1>3, <1>4, <1>5, ContentsClear, ContentsWrite, ContentsInterrupt
  DEF DeployNext, BundleStep, BundleNext, GeneratorStep, ClusterCommand, Commands, Between

-------------------------------------------------------------------------------
(***************************************************************************)
(* verify and pack have the whole bundle before them.                      *)
(***************************************************************************)
LEMMA ConcatElements ==
  ASSUME NEW S, NEW s \in Seq(S), NEW t \in Seq(S)
  PROVE  s \o t \in Seq(S) /\ StepsOf(s \o t) = StepsOf(s) \cup StepsOf(t)
<1>1. /\ s \o t \in Seq(S) /\ Len(s \o t) = Len(s) + Len(t)
      /\ \A i \in 1..(Len(s) + Len(t)) :
           (s \o t)[i] = IF i <= Len(s) THEN s[i] ELSE t[i - Len(s)]
  BY ConcatProperties
<1>2. /\ Len(s) \in Nat /\ DOMAIN s = 1..Len(s) /\ Len(t) \in Nat /\ DOMAIN t = 1..Len(t)
      /\ DOMAIN (s \o t) = 1..(Len(s) + Len(t))
  BY <1>1, LenProperties
<1> DEFINE u == s \o t
<1>3. /\ \A i \in DOMAIN s : i \in DOMAIN u /\ u[i] = s[i]
      /\ \A i \in DOMAIN t : i + Len(s) \in DOMAIN u /\ u[i + Len(s)] = t[i]
      /\ \A i \in DOMAIN u : i \in DOMAIN s \/ (i - Len(s) \in DOMAIN t /\ u[i] = t[i - Len(s)])
  BY <1>1, <1>2
<1> HIDE DEF u
<1>4. StepsOf(u) = StepsOf(s) \cup StepsOf(t)
  BY <1>3 DEF StepsOf
<1> QED
  BY <1>1, <1>4 DEF u

LEMMA FilesThere ==
  ASSUME NEW e \in Envs
  PROVE  {"k8s", "gateway-settings.json", "deploy.env", "usage-report"} \subseteq AllFiles(e)
<1>1. /\ FirstFiles \in Seq(FileNames)
      /\ {"k8s", "gateway-settings.json"} \subseteq StepsOf(FirstFiles)
  <2>1. /\ FirstFiles[1] = "k8s" /\ FirstFiles[2] = "gateway-settings.json"
        /\ DOMAIN FirstFiles = {1, 2}
    <3>1. DOMAIN FirstFiles = 1..2 /\ 1..2 = {1, 2}
      BY DEF FirstFiles
    <3> QED
      BY <3>1 DEF FirstFiles
  <2> QED
    BY <2>1 DEF FirstFiles, FileNames, StepsOf
<1>2. LastFiles \in Seq(FileNames) /\ {"deploy.env", "usage-report"} \subseteq StepsOf(LastFiles)
  <2>1. LastFiles[3] = "deploy.env" /\ LastFiles[6] = "usage-report" /\ DOMAIN LastFiles = 1..7
    BY DEF LastFiles
  <2>2. 3 \in DOMAIN LastFiles /\ 6 \in DOMAIN LastFiles
    BY <2>1
  <2>3. {"deploy.env", "usage-report"} \subseteq StepsOf(LastFiles)
    BY <2>1, <2>2 DEF StepsOf
  <2>4. LastFiles \in Seq(FileNames)
    BY DEF LastFiles, FileNames
  <2> QED
    BY <2>3, <2>4
<1>3. DevFiles(e) \in Seq(FileNames)
  <2>1. CASE e = "dev"
    BY <2>1 DEF DevFiles, FileNames
  <2>2. CASE e # "dev"
    BY <2>2 DEF DevFiles
  <2> QED
    BY <2>1, <2>2
<1>4. Files(e) = (FirstFiles \o DevFiles(e)) \o LastFiles
  BY DEF Files, FirstFiles, DevFiles, LastFiles
<1>5. AllFiles(e) = StepsOf(Files(e))
  BY DEF AllFiles, StepsOf
<1>6. /\ FirstFiles \o DevFiles(e) \in Seq(FileNames)
      /\ StepsOf(FirstFiles \o DevFiles(e)) = StepsOf(FirstFiles) \cup StepsOf(DevFiles(e))
  BY <1>1, <1>3, ConcatElements
<1> DEFINE front == FirstFiles \o DevFiles(e)
<1>7. StepsOf(Files(e)) = StepsOf(front) \cup StepsOf(LastFiles)
  <2>1. front \in Seq(FileNames) /\ LastFiles \in Seq(FileNames) /\ Files(e) = front \o LastFiles
    BY <1>2, <1>4, <1>6
  <2> HIDE DEF front
  <2>2. StepsOf(front \o LastFiles) = StepsOf(front) \cup StepsOf(LastFiles)
    BY <2>1, ConcatElements
  <2> QED
    BY <2>1, <2>2
<1> QED
  BY <1>1, <1>2, <1>5, <1>6, <1>7

LEMMA PackingAdvance ==
  ASSUME Packing, Advance, Head(todo) \notin {"render", "service.lock", "verify"} \/ todo' = <<>>,
         UNCHANGED packed
  PROVE  Packing'
<1>1. Left' \cap {"verify", "pack"} # {} => env' = "prod"
  BY DEF Advance, Packing
<1>2. ~At("verify")' /\ ~At("pack")'
  BY DEF Advance, Follows, At
<1> QED
  BY <1>1, <1>2 DEF Packing

(***************************************************************************)
(* What verify checks is enough for what it does not look at, because all  *)
(* files are those of one context.                                         *)
(***************************************************************************)
LEMMA VerifiedShips ==
  ASSUME CommandInv, Contents, Packing, Verify, todo' # <<>>
  PROVE  Ships(bundle["prod"])
<1> DEFINE files == bundle["prod"]
<1>1. VerifyErrors = {} /\ DOMAIN files = AllFiles("prod") /\ "prod" \in Envs
  BY DEF Verify, PassIf, Continue, Packing, At, Envs
<1>2. {"k8s", "gateway-settings.json", "deploy.env", "usage-report"} \subseteq DOMAIN files
  BY <1>1, FilesThere
<1>3. files # NoFile
  BY <1>1 DEF VerifyErrors
<1>4. PICK s, o : RenderedFrom("prod", BuildContext(s, o, "prod"))
  BY <1>1, <1>3 DEF Contents
<1> DEFINE c == BuildContext(s, o, "prod")
<1> HIDE DEF c
<1>5. /\ files["k8s"].namespace = c.namespace
      /\ files["deploy.env"].namespace = c.namespace
      /\ files["usage-report"].namespace = c.namespace
  <2>1. /\ files["k8s"] = Content("k8s", c) /\ files["deploy.env"] = Content("deploy.env", c)
        /\ files["usage-report"] = Content("usage-report", c)
    BY <1>2, <1>4 DEF RenderedFrom, c
  <2>2. /\ Content("k8s", c) = K8sManifests(c) /\ Content("deploy.env", c) = DeployEnv(c)
        /\ Content("usage-report", c) = UsageReportTools(c)
    BY DEF Content
  <2> QED
    BY <2>1, <2>2 DEF K8sManifests, DeployEnv, UsageReportTools
<1>6. Placeholder \notin Scanned("k8s", files["k8s"])
  BY <1>1, <1>2, <1>3 DEF VerifyErrors
<1>7. Unsafe(files["gateway-settings.json"]) = {}
  BY <1>1, <1>2, <1>3 DEF VerifyErrors
<1>8. Scanned("k8s", files["k8s"]) = {files["k8s"].namespace}
  BY DEF Scanned
<1> QED
  BY <1>1, <1>5, <1>6, <1>7, <1>8 DEF Ships

LEMMA PackingGenerator ==
  ASSUME CommandInv, Ordered(todo), Contents, Packing, GeneratorStep \/ Interrupt
  PROVE  Packing'
<1>1. CASE Render
  <2>1. UNCHANGED packed
    BY <1>1 DEF Render
  <2>2. CASE Rendered
    <3>1. ~At("verify")' /\ ~At("pack")'
      BY <2>2 DEF Rendered, At
    <3>2. Left' \cap {"verify", "pack"} # {} => Left \cap {"verify", "pack"} # {}
      BY <2>2 DEF Rendered, RenderSteps, FileNames
    <3> QED
      BY <2>1, <2>2, <3>1, <3>2 DEF Packing, Rendered
  <2> QED
    BY <1>1, <2>1, <2>2, RenderStep, PackingAdvance
<1>2. CASE WriteLock
  <2>1. Advance /\ UNCHANGED packed /\ Head(todo) = "service.lock"
    BY <1>2, GeneratorAdvances DEF WriteLock, At
  <2>2. Left' \cap {"verify", "pack"} # {} => env' = "prod" /\ env = "prod"
    BY <2>1 DEF Advance, Packing
  <2>3. ~At("pack")'
    BY <2>1 DEF Advance, Follows, At
  <2>4. At("verify")' => DOMAIN bundle'["prod"] = AllFiles("prod")
    <3>1. env \in Envs /\ "service.lock" \in AllFiles(env)
      BY Others, LockIsLast DEF OthersTyped, AllFiles
    <3>2. DOMAIN bundle'[env] = AllFiles(env)
      BY <1>2, <2>1, <3>1, FileInv DEF WriteLock, At
    <3>3. At("verify")' => env = "prod"
      BY <2>1, <2>2 DEF At, Advance
    <3> QED
      BY <3>2, <3>3
  <2> QED
    BY <2>1, <2>2, <2>3, <2>4 DEF Packing
<1>3. CASE Verify
  <2>1. Advance /\ UNCHANGED <<packed, bundle>> /\ Head(todo) = "verify"
    BY <1>3, GeneratorAdvances DEF Verify, At
  <2>2. Left' \cap {"verify", "pack"} # {} => env' = "prod"
    BY <2>1 DEF Advance, Packing
  <2>3. ~At("verify")'
    BY <2>1 DEF Advance, Follows, At
  <2>4. At("pack")' => Ships(bundle'["prod"])
    BY <1>3, <2>1, VerifiedShips DEF At
  <2> QED
    BY <2>1, <2>2, <2>3, <2>4 DEF Packing
<1>4. CASE Pack
  <2>1. Advance /\ packed' = bundle["prod"] /\ Head(todo) = "pack" /\ Ships(bundle["prod"])
    BY <1>4, GeneratorAdvances DEF Pack, At, Packing
  <2>2. Left' \cap {"verify", "pack"} # {} => env' = "prod"
    BY <2>1 DEF Advance, Packing
  <2>3. ~At("verify")' /\ ~At("pack")'
    BY <2>1 DEF Advance, Follows, At
  <2> QED
    BY <2>1, <2>2, <2>3 DEF Packing
<1>5. CASE MakeDirectory \/ WriteService \/ WriteExample \/ WriteStub \/ WriteSecrets
             \/ Clear \/ WriteFile \/ Validate
  <2>1. UNCHANGED packed /\ Head(todo) \notin {"render", "service.lock", "verify"}
    <3>1. {"render", "verify"} \cap FileNames = {}
      BY DEF FileNames
    <3> QED
      BY <1>5, <3>1, Others, FilesAreNamed
      DEF MakeDirectory, WriteService, WriteExample, WriteStub, WriteSecrets, Clear, WriteFile,
          Validate, At, OthersTyped
  <2> QED
    BY <1>5, <2>1, GeneratorAdvances, PackingAdvance
<1>6. CASE Interrupt
  <2>1. UNCHANGED packed /\ todo' = <<>>
    BY <1>6 DEF Interrupt, Continue
  <2> QED
    BY <1>6, <2>1, GeneratorAdvances, PackingAdvance
<1> QED
  BY <1>1, <1>2, <1>3, <1>4, <1>5, <1>6 DEF GeneratorStep

LEMMA PackingStep ==
  ASSUME CommandInv, Ordered(todo), Contents, Packing, [DeployNext]_deployVars
  PROVE  Packing'
<1>1. CASE Commands
  <2>1. Begun
    BY <1>1, CommandsBegun
  <2>2. /\ UNCHANGED packed /\ ~At("verify")' /\ ~At("pack")'
        /\ Left' \cap {"verify", "pack"} # {} => env' = "prod"
    BY <2>1 DEF Begun, Beginning, Left, At
  <2> QED
    BY <2>2 DEF Packing
<1>2. CASE ClusterStep
  <2>1. Advance
    BY <1>2, ClusterAdvances
  <2>2. UNCHANGED packed /\ Head(todo) \notin {"render", "service.lock", "verify"}
    BY <1>2 DEF ClusterStep, Resolve, Build, NeedRelease, ApplySecrets, ApplyConfig, ApplyGateway,
       ApplyWorkload, Restart, WaitRollout, Reset, Configure, Step, At
  <2> QED
    BY <2>1, <2>2, PackingAdvance
<1>3. CASE Between
  <2>1. UNCHANGED <<todo, env, Left>>
    BY <1>3, BetweenKeeps
  <2>2. UNCHANGED <<packed, bundle>> \/ (packed' = NoFile /\ todo = <<>>)
    <3>1. CASE EditByHand
      BY <3>1 DEF EditByHand
    <3>2. CASE RemoveService
      BY <3>2 DEF RemoveService
    <3>3. CASE StartPod \/ StopPod \/ UNCHANGED deployVars
      BY <3>3 DEF StartPod, StopPod, deployVars, bundleVars
    <3> QED
      BY <1>3, <3>1, <3>2, <3>3 DEF Between
  <2> QED
    BY <2>1, <2>2 DEF Packing, At
<1> QED
  BY <1>1, <1>2, <1>3, PackingGenerator
  DEF DeployNext, BundleStep, BundleNext, ClusterCommand, Commands, Between

-------------------------------------------------------------------------------
(***************************************************************************)
(* app.sh: what a step may rely on.                                        *)
(***************************************************************************)
LEMMA ConfigRendered ==
  ASSUME Contents, Has("dev", "bentoml-config.yaml")
  PROVE  \E s, o : Described(s) /\ Dev("bentoml-config.yaml")
                                     = BentomlConfig(BuildContext(s, o, "dev"))
<1>1. bundle["dev"] # NoFile /\ "bentoml-config.yaml" \in DOMAIN bundle["dev"] /\ "dev" \in Envs
  BY DEF Has, Envs
<1>2. PICK s, o : Described(s) /\ RenderedFrom("dev", BuildContext(s, o, "dev"))
  BY <1>1 DEF Contents
<1>3. \A c : Content("bentoml-config.yaml", c) = BentomlConfig(c)
  BY DEF Content
<1> QED
  BY <1>1, <1>2, <1>3 DEF RenderedFrom, Dev

LEMMA ConfigDescribed ==
  ASSUME Contents, Has("dev", "bentoml-config.yaml")
  PROVE  LET config == Dev("bentoml-config.yaml")
         IN config # NoFile /\ config.id # "" /\ config.revision \in {"", "r1", "r2"}
<1>1. PICK s, o : /\ Described(s)
                  /\ Dev("bentoml-config.yaml") = BentomlConfig(BuildContext(s, o, "dev"))
  BY ConfigRendered
<1>2. BuildContext(s, o, "dev").model = Model(s)
  BY DEF BuildContext
<1>3. /\ BentomlConfig(BuildContext(s, o, "dev")).id = Model(s).id
      /\ BentomlConfig(BuildContext(s, o, "dev")).revision = Model(s).revision
      /\ "id" \in DOMAIN BentomlConfig(BuildContext(s, o, "dev"))
  BY <1>2 DEF BentomlConfig
<1>4. Model(s).id = s["model"]["id"] /\ Model(s).revision = s["model"]["revision"]
  BY <1>1 DEF Model, Section, Get, Described
<1>5. "id" \notin DOMAIN NoFile
  BY DEF NoFile
<1> QED
  BY <1>1, <1>3, <1>4, <1>5 DEF Described

LEMMA BuildStarts ==
  ASSUME Contents, Accepted, Builds(Dev("bentoml-config.yaml"))
  PROVE  CanStart(Dev("bentoml-config.yaml"), Baked(Dev("bentoml-config.yaml")))
<1> DEFINE config == Dev("bentoml-config.yaml")
<1>1. config.id # "" /\ config.revision \in Baked(config) /\ config.revision # ""
  BY ConfigDescribed DEF Accepted, Builds
<1>2. LET source == CASE config.source = "hf_public" -> "hugging_face"
                     [] config.source \in {"local_dir", "private_cache"} -> "private"
                     [] OTHER -> config.source
      IN source \in {"hugging_face", "private"}
  BY DEF Accepted
<1> HIDE DEF config
<1>3. NormalizeModelSource(config.source) \in {"hugging_face", "private"}
  BY <1>2 DEF NormalizeModelSource
<1>4. StartChecks(config)
  BY <1>1, <1>3 DEF StartChecks
<1>5. RevisionArg(config, Baked(config)) = config.revision
  BY <1>1 DEF RevisionArg
<1> QED
  BY <1>1, <1>4, <1>5 DEF CanStart, config

Release == {"resolve", "build", "use release", "app secrets", "config", "gateway"}

(***************************************************************************)
(* Only after these steps is one next that relies on something.            *)
(***************************************************************************)
Relying == {"build", "use release", "app secrets", "config", "gateway", "restart", "reset"}
             \cup Workloads

LEMMA NotReady ==
  ASSUME \A step \in Relying : ~At(step)'
  PROVE  Ready'
BY DEF Ready, Relying

LEMMA ReadyAdvance ==
  ASSUME Advance, Head(todo) \notin Release \/ todo' = <<>>
  PROVE  Ready'
<1>1. \A step \in Relying \ {"reset"} : ~At(step)'
  BY DEF Advance, Follows, At, Relying, Workloads, Release
<1>2. ~At("reset")'
  BY DEF Advance, Follows, At, Release
<1> QED
  BY <1>1, <1>2, NotReady

LEMMA BuildSteps ==
  ASSUME CommandInv, Ordered(todo), Contents, Ready, Rollout, Build,
         Builds(Dev("bentoml-config.yaml"))
  PROVE  /\ Accepted
         /\ registry' = Append(registry, Baked(Dev("bentoml-config.yaml")))
         /\ registry' \in Seq(SUBSET ({"r1", "r2"} \cup CachedSnapshots))
         /\ Len(registry) \in Nat /\ Len(registry') = Len(registry) + 1
         /\ release' = Len(registry') /\ deployed' = "no"
         /\ registry'[Len(registry')] = Baked(Dev("bentoml-config.yaml"))
         /\ CanStart(Dev("bentoml-config.yaml"), registry'[Len(registry')])
<1> DEFINE config == Dev("bentoml-config.yaml")
           Images == SUBSET ({"r1", "r2"} \cup CachedSnapshots)
<1>1. /\ Builds(config) /\ registry' = Append(registry, Baked(config))
      /\ release' = Len(registry') /\ deployed' = "no"
  BY DEF Build, Continue
<1>2. Accepted
  BY DEF Build, Step, Ready, At
<1>3. Baked(config) \in Images
  <2>1. config.revision \in {"r1", "r2"}
    BY <1>1, <1>2, ConfigDescribed DEF Accepted, Builds
  <2> QED
    BY <2>1 DEF Baked
<1>4. CanStart(config, Baked(config))
  BY <1>1, <1>2, BuildStarts
<1>5. registry \in Seq(Images)
  BY DEF Rollout
<1> HIDE DEF config, Images
<1>6. /\ registry' \in Seq(Images) /\ Len(registry) \in Nat /\ Len(registry') = Len(registry) + 1
      /\ registry'[Len(registry')] = Baked(config)
  BY <1>1, <1>3, <1>5
<1> QED
  BY <1>1, <1>2, <1>4, <1>6 DEF config, Images

\* Of the steps that rely on something, only these may be next.
NextIn(names) == \A step \in Relying \ names : ~At(step)'

LEMMA AcceptedKept ==
  ASSUME Accepted, UNCHANGED bundle
  PROVE  Accepted'
BY DEF Accepted, Has, Dev

LEMMA ReadyResolve ==
  ASSUME CommandInv, Ordered(todo), Resolve
  PROVE  Ready'
<1>1. Advance /\ Head(todo) = "resolve" /\ UNCHANGED bundle
  BY ClusterAdvances DEF ClusterStep, Resolve, Step, At
<1>2. NextIn({"build", "use release", "app secrets"})
  BY <1>1 DEF NextIn, Advance, Follows, At, Relying, Workloads
<1>3. todo' # <<>> => Accepted
  <2>1. todo' # <<>> => ShellAccepts
    BY DEF Resolve, PassIf, Continue
  <2> QED
    BY <2>1 DEF ShellAccepts, Accepted
<1>4. todo' # <<>> => Accepted'
  BY <1>1, <1>3, AcceptedKept
<1> QED
  BY <1>2, <1>4 DEF Ready, NextIn, Relying, Workloads, At

LEMMA ReadyBuild ==
  ASSUME CommandInv, Ordered(todo), Contents, Ready, Rollout, Build
  PROVE  Ready'
<1>1. Advance /\ Head(todo) = "build" /\ UNCHANGED bundle
  BY ClusterAdvances DEF ClusterStep, Build, Step, At
<1>2. NextIn({"reset", "app secrets", "restart"})
  BY <1>1 DEF NextIn, Advance, Follows, At, Relying, Workloads
<1>3. CASE todo' = <<>>
  BY <1>1, <1>3, ReadyAdvance
<1>4. CASE todo' # <<>>
  <2>0. Builds(Dev("bentoml-config.yaml"))
    BY <1>4 DEF Build, Continue
  <2>1. Accepted' /\ deployed' = "no"
    BY <1>1, <2>0, BuildSteps, AcceptedKept
  <2>2. WayBack'
    <3>1. /\ Len(registry') \in Nat \ {0} /\ release' = Len(registry')
          /\ registry' \in Seq(SUBSET ({"r1", "r2"} \cup CachedSnapshots))
          /\ CanStart(Dev("bentoml-config.yaml"), registry'[Len(registry')])
      BY <2>0, BuildSteps
    <3>2. release' \in DOMAIN registry' /\ registry'[release'] = registry'[Len(registry')]
      BY <3>1, LenProperties
    <3>3. Dev("bentoml-config.yaml")' = Dev("bentoml-config.yaml")
      BY <1>1 DEF Dev
    <3> QED
      BY <2>1, <3>1, <3>2, <3>3 DEF WayBack, Accepted
  <2> QED
    BY <1>2, <2>1, <2>2 DEF Ready, NextIn, Relying, Workloads
<1> QED
  BY <1>3, <1>4

LEMMA ReadyRelease ==
  ASSUME CommandInv, Ordered(todo), Ready, NeedRelease
  PROVE  Ready'
<1>1. Advance /\ Head(todo) = "use release" /\ UNCHANGED bundle /\ Accepted
  BY ClusterAdvances DEF ClusterStep, NeedRelease, Step, At, Ready
<1>2. NextIn({"app secrets"})
  BY <1>1 DEF NextIn, Advance, Follows, At, Relying, Workloads
<1> QED
  BY <1>1, <1>2, AcceptedKept DEF Ready, NextIn, Relying, Workloads

LEMMA ReadySecrets ==
  ASSUME CommandInv, Ordered(todo), Ready, ApplySecrets
  PROVE  Ready'
<1>1. Advance /\ Head(todo) = "app secrets" /\ UNCHANGED bundle /\ Accepted
  BY ClusterAdvances DEF ClusterStep, ApplySecrets, Step, At, Ready
<1>2. NextIn({"config"})
  BY <1>1 DEF NextIn, Advance, Follows, At, Relying, Workloads
<1>3. todo' # <<>> => \E c, s : appSecret' = [client |-> c, secret |-> s]
  BY DEF ApplySecrets, PassIf, Continue
<1>4. todo' # <<>> => appSecret' # NoFile
  BY <1>3 DEF NoFile
<1> QED
  BY <1>1, <1>2, <1>4, AcceptedKept DEF Ready, NextIn, Relying, Workloads, At

LEMMA ReadyConfig ==
  ASSUME CommandInv, Ordered(todo), Contents, Ready, ApplyConfig
  PROVE  Ready'
<1>1. /\ Advance /\ Head(todo) = "config" /\ Accepted
      /\ appSecret # NoFile /\ appSecret' = appSecret /\ deployed' = "no"
      /\ configMap' = Dev("bentoml-config.yaml")
  BY ClusterAdvances DEF ClusterStep, ApplyConfig, Step, At, Ready
<1>2. NextIn({"gateway"})
  BY <1>1 DEF NextIn, Advance, Follows, At, Relying, Workloads
<1>3. configMap' # NoFile
  BY <1>1, ConfigDescribed DEF Accepted
<1> QED
  BY <1>1, <1>2, <1>3 DEF Ready, NextIn, Relying, Workloads

LEMMA ReadyGateway ==
  ASSUME CommandInv, Ordered(todo), Ready, ApplyGateway
  PROVE  Ready'
<1>1. /\ Advance /\ Head(todo) = "gateway"
      /\ appSecret # NoFile /\ configMap # NoFile /\ deployed = "no"
      /\ UNCHANGED <<appSecret, configMap, deployed>>
  BY ClusterAdvances DEF ClusterStep, ApplyGateway, Step, At, Ready
<1>2. NextIn(Workloads)
  BY <1>1 DEF NextIn, Advance, Follows, At, Relying, Workloads
<1>3. \E a, r : gateway' = [applied |-> a, running |-> r]
  BY DEF ApplyGateway
<1>4. gateway' # NoFile
  BY <1>3 DEF NoFile
<1> QED
  BY <1>1, <1>2, <1>4 DEF Ready, NextIn, Relying, Workloads

LEMMA ReadyCluster ==
  ASSUME CommandInv, Ordered(todo), Contents, Ready, Rollout, ClusterStep
  PROVE  Ready'
<1>1. CASE ApplyWorkload \/ Restart \/ WaitRollout \/ Reset \/ Configure
  <2>1. Head(todo) \notin Release
    BY <1>1 DEF ApplyWorkload, Restart, WaitRollout, Reset, Configure, Step, At, Release
  <2> QED
    BY <2>1, ClusterAdvances, ReadyAdvance
<1> QED
  BY <1>1, ReadyResolve, ReadyBuild, ReadyRelease, ReadySecrets, ReadyConfig, ReadyGateway
  DEF ClusterStep

(***************************************************************************)
(* A release stays while the directory is there.                           *)
(***************************************************************************)
LEMMA ReadyStep ==
  ASSUME CommandInv, Ordered(todo), Directory, Contents, Ready, Rollout, [DeployNext]_deployVars
  PROVE  Ready'
<1>1. CASE Commands
  <2>1. Begun
    BY <1>1, CommandsBegun
  <2>2. /\ \A step \in Relying \ {"reset"} : ~At(step)'
        /\ At("reset")' => "use release" \notin Left'
    BY <2>1 DEF Begun, Beginning, Left, Relying, Workloads, At
  <2> QED
    BY <2>2 DEF Ready, Relying, Workloads
<1>2. CASE GeneratorStep \/ Interrupt
  <2>1. CASE Rendered
    <3>1. \A step \in Relying : ~At(step)'
      BY <2>1 DEF Rendered, At, Relying, Workloads
    <3> QED
      BY <3>1, NotReady
  <2>2. CASE Advance /\ (Head(todo) \notin Release \/ todo' = <<>>)
    BY <2>2, ReadyAdvance
  <2>3. CASE Render \/ Interrupt
    <3>1. Interrupt => todo' = <<>>
      BY DEF Interrupt, Continue
    <3> QED
      BY <2>1, <2>2, <2>3, <3>1, RenderStep, GeneratorAdvances
  <2>4. CASE ~(Render \/ Interrupt)
    <3>1. FileNames \cap Release = {}
      BY DEF FileNames, Release
    <3>2. Head(todo) \notin Release
      BY <1>2, <2>4, <3>1, Others, FilesAreNamed
      DEF GeneratorStep, MakeDirectory, WriteService, WriteExample, WriteStub, WriteSecrets,
          Clear, WriteFile, WriteLock, Validate, Verify, Pack, At, OthersTyped, Release
    <3> QED
      BY <1>2, <2>2, <2>4, <3>2, GeneratorAdvances DEF GeneratorStep
  <2> QED
    BY <2>3, <2>4
<1>3. CASE RemoveService
  <2>1. todo' = <<>>
    BY <1>3 DEF RemoveService, command
  <2> QED
    BY <2>1, NotReady DEF At
<1>4. CASE (BundleStep /\ EditByHand) \/ StartPod \/ StopPod \/ UNCHANGED deployVars
  <2>1. /\ UNCHANGED <<todo, Left, bundle, registry, configMap, appSecret, gateway, deployed>>
        /\ dir => release' = release
    <3>1. CASE EditByHand /\ BundleStep
      BY <3>1, BetweenKeeps DEF EditByHand, BundleStep, Between
    <3>2. CASE StartPod \/ StopPod \/ UNCHANGED deployVars
      BY <3>2, BetweenKeeps
      DEF StartPod, StopPod, deployVars, bundleVars, cluster, Between
    <3> QED
      BY <1>4, <3>1, <3>2
  <2>2. Accepted => Accepted'
    BY <2>1, AcceptedKept
  <2>3. WayBack => WayBack'
    <3>1. WayBack => dir
      BY DEF WayBack, Has, Directory, Envs
    <3> QED
      BY <2>1, <3>1 DEF WayBack, Has, Dev
  <2>4. \A step : At(step)' <=> At(step)
    BY <2>1 DEF At
  <2> QED
    BY <2>1, <2>2, <2>3, <2>4 DEF Ready
<1> QED
  BY <1>1, <1>2, <1>3, <1>4, ReadyCluster
  DEF DeployNext, BundleStep, BundleNext, ClusterCommand, Commands

-------------------------------------------------------------------------------
(***************************************************************************)
(* The rollout after a build.                                              *)
(***************************************************************************)
RolloutTyped ==
  /\ registry \in Seq(SUBSET ({"r1", "r2"} \cup CachedSnapshots))
  /\ release \in 0..Len(registry)
  /\ template # NoFile =>
       /\ template = [image |-> template.image, stamp |-> template.stamp]
       /\ template.image \in 0..Len(registry) /\ template.stamp \in Nat
       /\ configMap # NoFile /\ appSecret # NoFile /\ gateway # NoFile
  /\ \A p \in pods :
       /\ template # NoFile /\ p.image \in 1..Len(registry)
       /\ p.template.stamp \in Nat /\ p.template.stamp <= template.stamp

Rebuilding ==
  "rollout, rebuilt" \in Left /\ "build" \notin Left =>
    dir /\ release = Len(registry) /\ release # 0

Settling ==
  /\ At("rollout, rebuilt") =>
       Latest /\ \A p \in pods : p.template = template => UpToDate(p)
  /\ deployed = "rebuilt" => Latest /\ \A p \in pods : UpToDate(p)

LEMMA RolloutParts == Rollout <=> RolloutTyped /\ Rebuilding /\ Settling
BY DEF Rollout, RolloutTyped, Rebuilding, Settling

LEMMA RolloutPartsAfter == Rollout' <=> RolloutTyped' /\ Rebuilding' /\ Settling'
BY DEF Rollout, RolloutTyped, Rebuilding, Settling

LEMMA RebuildingAdvance ==
  ASSUME Advance, Head(todo) # "build" \/ todo' = <<>>, Rebuilding, UNCHANGED registry,
         dir => dir' /\ release' = release
  PROVE  Rebuilding'
BY DEF Advance, Rebuilding

LEMMA SettlingAdvance ==
  ASSUME Advance, Head(todo) # "workload, restart" \/ todo' = <<>>, Settling,
         deployed' = deployed => UNCHANGED <<registry, configMap, template, pods>>,
         deployed' # deployed => deployed' # "rebuilt"
  PROVE  Settling'
<1>1. ~At("rollout, rebuilt")'
  BY DEF Advance, Follows, At
<1>2. deployed' = "rebuilt" => Latest' /\ \A p \in pods' : UpToDate(p)'
  BY DEF Settling, Latest, UpToDate
<1> QED
  BY <1>1, <1>2 DEF Settling

LEMMA RolloutBuild ==
  ASSUME CommandInv, Ordered(todo), Directory, Contents, Ready, Rollout, Build
  PROVE  Rollout'
<1>1. /\ Advance /\ Head(todo) = "build"
      /\ UNCHANGED <<dir, configMap, appSecret, gateway, template, pods>>
  BY ClusterAdvances DEF ClusterStep, Build, Step, At
<1>2. CASE ~Builds(Dev("bentoml-config.yaml"))
  <2>1. UNCHANGED <<registry, release, deployed>> /\ todo' = <<>>
    BY <1>2 DEF Build, Continue
  <2> QED
    BY <1>1, <2>1, RolloutParts, RolloutPartsAfter, RebuildingAdvance, SettlingAdvance
    DEF RolloutTyped
<1>3. CASE Builds(Dev("bentoml-config.yaml"))
  <2>1. /\ registry' \in Seq(SUBSET ({"r1", "r2"} \cup CachedSnapshots))
        /\ Len(registry) \in Nat /\ Len(registry') = Len(registry) + 1
        /\ release' = Len(registry') /\ deployed' = "no" /\ Accepted
    BY <1>3, BuildSteps
  <2>2. dir'
    BY <1>1, <2>1 DEF Accepted, Has, Directory, Envs
  <2>6. /\ 1..Len(registry) \subseteq 1..Len(registry')
        /\ 0..Len(registry) \subseteq 0..Len(registry')
        /\ release' \in 0..Len(registry') /\ release' # 0
    BY <2>1
  <2>3. RolloutTyped'
    BY <1>1, <2>1, <2>6 DEF Rollout, RolloutTyped
  <2>4. Rebuilding'
    BY <2>1, <2>2, <2>6 DEF Rebuilding
  <2>5. Settling'
    <3>1. ~At("rollout, rebuilt")'
      BY <1>1 DEF Advance, Follows, At, Workloads
    <3> QED
      BY <2>1, <3>1 DEF Settling
  <2> QED
    BY <2>3, <2>4, <2>5, RolloutPartsAfter
<1> QED
  BY <1>2, <1>3

LEMMA RolloutApplied ==
  ASSUME CommandInv, Ordered(todo), Contents, Ready, Rollout,
         ApplySecrets \/ ApplyConfig \/ ApplyGateway
  PROVE  Rollout'
<1>1. /\ Advance /\ Head(todo) \in {"app secrets", "config", "gateway"}
      /\ UNCHANGED <<dir, registry, release, template, pods>>
      /\ ApplyConfig => deployed' = "no"
      /\ ~ApplyConfig => UNCHANGED <<configMap, deployed>>
  BY ClusterAdvances DEF ClusterStep, ApplySecrets, ApplyConfig, ApplyGateway, Step, At
<1>2. RolloutTyped'
  <2>1. appSecret # NoFile => appSecret' # NoFile
    <3>1. appSecret' = appSecret \/ \E c, s : appSecret' = [client |-> c, secret |-> s]
      BY DEF ApplySecrets, ApplyConfig, ApplyGateway
    <3> QED
      BY <3>1 DEF NoFile
  <2>2. configMap # NoFile => configMap' # NoFile
    <3>1. ApplyConfig => Accepted
      BY DEF ApplyConfig, Step, Ready
    <3>2. ApplyConfig => configMap' # NoFile
      BY <3>1, ConfigDescribed DEF Accepted, ApplyConfig
    <3> QED
      BY <1>1, <3>2
  <2>3. gateway # NoFile => gateway' # NoFile
    <3>1. gateway' = gateway \/ \E a, r : gateway' = [applied |-> a, running |-> r]
      BY DEF ApplySecrets, ApplyConfig, ApplyGateway
    <3> QED
      BY <3>1 DEF NoFile
  <2> QED
    BY <1>1, <2>1, <2>2, <2>3 DEF Rollout, RolloutTyped
<1>3. Rebuilding'
  BY <1>1, RolloutParts, RebuildingAdvance
<1>4. Settling'
  <2>1. CASE ApplyConfig
    <3>1. ~At("rollout, rebuilt")'
      BY <1>1 DEF Advance, Follows, At
    <3> QED
      BY <1>1, <2>1, <3>1 DEF Settling
  <2>2. CASE ~ApplyConfig
    BY <1>1, <2>2, RolloutParts, SettlingAdvance
  <2> QED
    BY <2>1, <2>2
<1> QED
  BY <1>2, <1>3, <1>4, RolloutPartsAfter

(***************************************************************************)
(* Before the wait the template is stamped anew: no pod is of it yet.      *)
(***************************************************************************)
LEMMA RolloutWorkload ==
  ASSUME CommandInv, Ordered(todo), Ready, Rollout, ApplyWorkload
  PROVE  Rollout'
<1>1. PICK rebuilt \in BOOLEAN :
        /\ At(IF rebuilt THEN "workload, restart" ELSE "workload")
        /\ template' = [image |-> release,
                        stamp |-> (IF template = NoFile THEN 0 ELSE template.stamp)
                                  + (IF rebuilt THEN 1 ELSE 0)]
  BY DEF ApplyWorkload, Step
<1>2. /\ Advance /\ Head(todo) \in Workloads
      /\ UNCHANGED <<dir, registry, release, configMap, appSecret, gateway, pods, deployed>>
      /\ Head(todo) = "workload, restart" => rebuilt = TRUE
  BY <1>1, ClusterAdvances DEF ClusterStep, ApplyWorkload, Step, At, Workloads
<1>3. configMap # NoFile /\ appSecret # NoFile /\ gateway # NoFile /\ deployed = "no"
  BY <1>1 DEF Ready, Workloads
<1>4. template' # NoFile /\ template'.image = release
  BY <1>1 DEF NoFile
<1> DEFINE stamp == IF template = NoFile THEN 0 ELSE template.stamp
           more == IF rebuilt THEN 1 ELSE 0
<1>5. stamp \in Nat /\ more \in {0, 1} /\ (Head(todo) = "workload, restart" => more = 1)
  BY <1>2 DEF Rollout
<1>11. /\ template'.stamp = stamp + more
       /\ template' = [image |-> template'.image, stamp |-> template'.stamp]
  BY <1>1
<1>6. \A p \in pods : p.template.stamp \in Nat /\ p.template.stamp <= stamp
  BY DEF Rollout
<1> HIDE DEF stamp, more
<1>7. \A p \in pods : /\ p.template.stamp <= template'.stamp
                      /\ Head(todo) = "workload, restart" => p.template.stamp # template'.stamp
  <2>1. \A n, t \in Nat, m \in {0, 1} : t <= n => t <= n + m /\ (m = 1 => t # n + m)
    OBVIOUS
  <2>2. ASSUME NEW p \in pods
        PROVE  /\ p.template.stamp <= stamp + more
               /\ more = 1 => p.template.stamp # stamp + more
    <3>1. p.template.stamp \in Nat /\ p.template.stamp <= stamp
      BY <1>6
    <3> QED
      BY <2>1, <3>1, <1>5
  <2> QED
    BY <2>2, <1>5, <1>11
<1>8. RolloutTyped'
  <2>1. template'.stamp \in Nat
    <3>1. \A n \in Nat, m \in {0, 1} : n + m \in Nat
      OBVIOUS
    <3> QED
      BY <3>1, <1>5, <1>11
  <2> QED
    BY <1>2, <1>3, <1>4, <1>7, <1>11, <2>1 DEF Rollout, RolloutTyped
<1>9. Rebuilding'
  BY <1>2, RolloutParts, RebuildingAdvance DEF Workloads
<1>10. Settling'
  <2>1. ASSUME At("rollout, rebuilt")'
        PROVE  Latest' /\ \A p \in pods' : p.template = template' => UpToDate(p)'
    <3>1. /\ Head(todo) = "workload, restart" /\ "rollout, rebuilt" \in Left'
          /\ "build" \notin Left'
      BY <1>2, <2>1 DEF Advance, Follows, At, BeforeBuild, RenderSteps, FileNames, Workloads
    <3>2. release = Len(registry) /\ release # 0
      BY <3>1, <1>9, <1>2 DEF Rebuilding
    <3>3. Latest'
      BY <3>2, <1>2, <1>4 DEF Latest
    <3>4. \A p \in pods' : p.template # template'
      BY <3>1, <1>2, <1>7
    <3> QED
      BY <3>3, <3>4
  <2> QED
    BY <2>1, <1>2, <1>3 DEF Settling
<1> QED
  BY <1>8, <1>9, <1>10, RolloutPartsAfter

LEMMA RolloutRestart ==
  ASSUME CommandInv, Ordered(todo), Ready, Rollout, Restart
  PROVE  Rollout'
<1>1. /\ Advance /\ Head(todo) = "restart" /\ deployed = "no"
      /\ template' = IF template = NoFile THEN NoFile ELSE [template EXCEPT !.stamp = @ + 1]
      /\ UNCHANGED <<dir, registry, release, configMap, appSecret, gateway, pods, deployed>>
  BY ClusterAdvances DEF ClusterStep, Restart, Step, At, Ready
<1>2. CASE template = NoFile
  BY <1>1, <1>2, RolloutParts, RolloutPartsAfter, RebuildingAdvance, SettlingAdvance
  DEF RolloutTyped
<1>3. CASE template # NoFile
  <2>1. /\ template = [image |-> template.image, stamp |-> template.stamp]
        /\ template.stamp \in Nat
    BY <1>3 DEF Rollout
  <2>2. template' = [image |-> template.image, stamp |-> template.stamp + 1]
    BY <1>1, <1>3, <2>1
  <2>3. /\ template' # NoFile /\ template'.image = template.image
        /\ template'.stamp = template.stamp + 1
    BY <2>2 DEF NoFile
  <2>4. \A p \in pods : p.template.stamp \in Nat /\ p.template.stamp <= template'.stamp
    <3>1. \A n, t \in Nat : t <= n => t <= n + 1
      OBVIOUS
    <3> QED
      BY <2>1, <2>3, <3>1 DEF Rollout
  <2>5. /\ template'.stamp \in Nat
        /\ template' = [image |-> template'.image, stamp |-> template'.stamp]
    BY <2>1, <2>2, <2>3
  <2>6. RolloutTyped'
    BY <1>1, <1>3, <2>3, <2>4, <2>5 DEF Rollout, RolloutTyped
  <2>7. Settling'
    <3>1. ~At("rollout, rebuilt")'
      BY <1>1 DEF Advance, Follows, At
    <3> QED
      BY <1>1, <3>1 DEF Settling
  <2> QED
    BY <1>1, <2>6, <2>7, RolloutParts, RolloutPartsAfter, RebuildingAdvance
<1> QED
  BY <1>2, <1>3

LEMMA RolloutWait ==
  ASSUME CommandInv, Ordered(todo), Rollout, WaitRollout
  PROVE  Rollout'
<1>1. /\ Advance /\ Head(todo) \in {"rollout", "rollout, rebuilt", "rollout of restart"}
      /\ UNCHANGED <<dir, registry, release, configMap, appSecret, gateway, template, pods>>
      /\ \/ UNCHANGED deployed
         \/ RolledOut /\ (deployed' = "rebuilt" => At("rollout, rebuilt"))
  <2>1. PICK kind \in {"yes", "rebuilt", "no"} :
          /\ Step(CASE kind = "yes" -> "rollout" [] kind = "rebuilt" -> "rollout, rebuilt"
                    [] OTHER -> "rollout of restart")
          /\ IF RolledOut
             THEN Continue(Tail(todo)) /\ deployed' = kind
             ELSE Continue(<<>>) /\ UNCHANGED deployed
    BY DEF WaitRollout
  <2>2. UNCHANGED <<registry, release, configMap, appSecret, gateway, template, pods>>
    BY DEF WaitRollout
  <2>3. Advance
    BY ClusterAdvances DEF ClusterStep
  <2> QED
    BY <2>1, <2>2, <2>3 DEF Step, At
<1>2. RolloutTyped' /\ Rebuilding'
  BY <1>1, RolloutParts, RebuildingAdvance DEF RolloutTyped
<1>3. Settling'
  <2>1. ~At("rollout, rebuilt")'
    BY <1>1 DEF Advance, Follows, At
  <2>2. deployed' = "rebuilt" => Latest /\ \A p \in pods : UpToDate(p)
    BY <1>1 DEF Rollout, RolledOut
  <2>3. Latest' = Latest /\ \A p : UpToDate(p)' = UpToDate(p)
    BY <1>1 DEF Latest, UpToDate
  <2> QED
    BY <1>1, <2>1, <2>2, <2>3 DEF Settling
<1> QED
  BY <1>2, <1>3, RolloutPartsAfter

LEMMA RolloutReset ==
  ASSUME CommandInv, Ordered(todo), Rollout, Reset
  PROVE  Rollout'
<1>1. /\ Advance /\ Head(todo) = "reset" /\ deployed' = "no" /\ template' = NoFile /\ pods' = {}
      /\ UNCHANGED <<dir, registry, release>>
  BY ClusterAdvances DEF ClusterStep, Reset, Step, At
<1>2. RolloutTyped' /\ Rebuilding'
  BY <1>1, RolloutParts, RebuildingAdvance DEF RolloutTyped
<1>3. ~At("rollout, rebuilt")'
  BY <1>1 DEF Advance, Follows, At
<1> QED
  BY <1>1, <1>2, <1>3, RolloutPartsAfter DEF Settling

LEMMA RolloutIdle ==
  ASSUME CommandInv, Ordered(todo), Rollout, Credentials, Resolve \/ NeedRelease \/ Configure
  PROVE  Rollout'
<1>1. /\ Advance /\ Head(todo) \in {"resolve", "use release", "configure"}
      /\ UNCHANGED <<dir, registry, release, configMap, appSecret, template, pods, deployed>>
  BY ClusterAdvances DEF ClusterStep, Resolve, NeedRelease, Configure, Step, At, cluster
<1>2. gateway # NoFile => gateway' # NoFile
  <2>1. gateway' = gateway \/ gateway' = KrakendRestarted
    BY DEF Resolve, NeedRelease, Configure, cluster
  <2>2. gateway # NoFile => KrakendRestarted # NoFile
    <3>1. gateway # NoFile => "applied" \in DOMAIN KrakendRestarted
      BY DEF KrakendRestarted, Credentials
    <3>2. "applied" \notin DOMAIN NoFile
      BY DEF NoFile
    <3> QED
      BY <3>1, <3>2
  <2> QED
    BY <2>1, <2>2
<1>3. RolloutTyped'
  BY <1>1, <1>2 DEF Rollout, RolloutTyped
<1> QED
  BY <1>1, <1>3, RolloutParts, RolloutPartsAfter, RebuildingAdvance, SettlingAdvance

LEMMA RolloutCluster ==
  ASSUME CommandInv, Ordered(todo), Directory, Contents, Ready, Rollout, Credentials, ClusterStep
  PROVE  Rollout'
BY RolloutBuild, RolloutApplied, RolloutWorkload, RolloutRestart, RolloutWait, RolloutReset,
   RolloutIdle DEF ClusterStep

(***************************************************************************)
(* A pod that starts is of the template that is there, with the settings   *)
(* that were applied.                                                      *)
(***************************************************************************)
LEMMA RolloutPods ==
  ASSUME CommandInv, Rollout, StartPod \/ StopPod
  PROVE  Rollout'
<1>1. UNCHANGED <<bundleVars, registry, release, configMap, appSecret, gateway, template, deployed>>
  BY DEF StartPod, StopPod
<1>2. UNCHANGED <<dir, todo, Left>>
  BY <1>1, BetweenKeeps DEF bundleVars, Between
<1>3. ASSUME NEW p \in pods' \ pods
      PROVE  /\ template # NoFile /\ p.template = template /\ p.config = configMap
             /\ p.image = IF template.image = 0 THEN Len(registry) ELSE template.image
             /\ p.image # 0
  BY DEF StartPod, StopPod
<1>4. RolloutTyped'
  <2>1. ASSUME NEW p \in pods' \ pods PROVE p.image \in 1..Len(registry)
    <3>1. template.image \in 0..Len(registry) /\ Len(registry) \in Nat
      BY <1>3, LenProperties DEF Rollout
    <3>2. \A i \in 0..Len(registry) : i # 0 => i \in 1..Len(registry)
      BY <3>1
    <3>3. p.image \in 0..Len(registry)
      BY <1>3, <3>1
    <3> QED
      BY <1>3, <3>2, <3>3
  <2>2. ASSUME NEW p \in pods' \ pods
        PROVE  p.template.stamp \in Nat /\ p.template.stamp <= template.stamp
    <3>1. template.stamp \in Nat
      BY <1>3 DEF Rollout
    <3>2. \A n \in Nat : n <= n
      OBVIOUS
    <3> QED
      BY <1>3, <3>1, <3>2
  <2> QED
    BY <1>1, <1>3, <2>1, <2>2 DEF Rollout, RolloutTyped
<1>5. Rebuilding'
  BY <1>1, <1>2 DEF Rollout, Rebuilding
<1>6. Settling'
  <2>1. /\ Latest' = Latest /\ \A p : UpToDate(p)' = UpToDate(p)
        /\ At("rollout, rebuilt")' = At("rollout, rebuilt")
    BY <1>1, <1>2 DEF Latest, UpToDate, At
  <2>2. Latest => \A p \in pods' \ pods : UpToDate(p)
    BY <1>3 DEF Latest, UpToDate
  <2> QED
    BY <1>1, <2>1, <2>2 DEF Rollout, Settling
<1> QED
  BY <1>4, <1>5, <1>6, RolloutPartsAfter

LEMMA RolloutFiles ==
  ASSUME CommandInv, Ordered(todo), Rollout, BundleStep
  PROVE  Rollout'
<1>1. /\ UNCHANGED <<registry, configMap, appSecret, gateway, template, pods, deployed>>
      /\ BundleNext /\ release' = IF dir' THEN release ELSE 0
  BY DEF BundleStep
<1>2. RolloutTyped'
  <2>1. release \in 0..Len(registry) /\ 0 \in 0..Len(registry)
    <3>1. Len(registry) \in Nat /\ release \in 0..Len(registry)
      BY LenProperties DEF Rollout
    <3> QED
      BY <3>1
  <2> QED
    BY <1>1, <2>1 DEF Rollout, RolloutTyped
<1>3. Latest' = Latest /\ \A p : UpToDate(p)' = UpToDate(p)
  BY <1>1 DEF Latest, UpToDate
<1>4. CASE todo' = <<>> /\ Left' = {}
  BY <1>1, <1>2, <1>3, <1>4, RolloutPartsAfter DEF Rollout, Rebuilding, Settling, At
<1>5. CASE Onboard \/ RenderCommand \/ ProdPack
  <2>1. Begun
    BY <1>5, CommandsBegun DEF Commands
  <2>2. /\ "rollout, rebuilt" \in Left' => "build" \in Left'
        /\ ~At("rollout, rebuilt")'
    BY <2>1 DEF Begun, Beginning, Left, At
  <2> QED
    BY <1>1, <1>2, <1>3, <2>2, RolloutPartsAfter DEF Rollout, Rebuilding, Settling
<1>6. CASE GeneratorStep
  <2>1. dir => dir' /\ release' = release
    BY <1>1, <1>6 DEF GeneratorStep, MakeDirectory, WriteService, WriteExample, WriteStub,
       WriteSecrets, Render, Clear, WriteFile, WriteLock, Validate, Verify, Pack
  <2>2. CASE Rendered
    <3>1. ~At("rollout, rebuilt")'
      BY <2>2 DEF Rendered, At
    <3>2. Rebuilding'
      BY <1>1, <2>1, <2>2, RolloutParts DEF Rendered, Rebuilding, RenderSteps, FileNames
    <3> QED
      BY <1>1, <1>2, <1>3, <3>1, <3>2, RolloutPartsAfter DEF Rollout, Settling
  <2>3. CASE Advance
    <3>1. Head(todo) \notin {"build", "workload, restart"}
      <4>1. {"build", "workload, restart"} \cap FileNames = {}
        BY DEF FileNames
      <4> QED
        BY <1>6, <4>1, Others, FilesAreNamed
        DEF GeneratorStep, MakeDirectory, WriteService, WriteExample, WriteStub, WriteSecrets,
            Render, Clear, WriteFile, WriteLock, Validate, Verify, Pack, At, OthersTyped
    <3> QED
      BY <1>1, <1>2, <2>1, <2>3, <3>1, RolloutParts, RolloutPartsAfter, RebuildingAdvance,
         SettlingAdvance
  <2> QED
    BY <1>6, <2>2, <2>3, RenderStep, GeneratorAdvances DEF GeneratorStep
<1>7. CASE Interrupt \/ RemoveService
  <2>1. todo' = <<>>
    BY <1>7 DEF Interrupt, Continue, RemoveService, command
  <2> QED
    BY <1>4, <2>1, NothingLeft DEF Left
<1>8. CASE EditByHand
  <2>1. UNCHANGED <<todo, Left, dir>> /\ (dir => release' = release)
    BY <1>1, <1>8, BetweenKeeps DEF Between, EditByHand
  <2> QED
    BY <1>1, <1>2, <1>3, <2>1, RolloutPartsAfter DEF Rollout, Rebuilding, Settling, At
<1> QED
  BY <1>1, <1>5, <1>6, <1>7, <1>8 DEF BundleNext

LEMMA RolloutStep ==
  ASSUME CommandInv, Ordered(todo), Directory, Contents, Ready, Rollout, Credentials,
         [DeployNext]_deployVars
  PROVE  Rollout'
<1>1. CASE ClusterCommand
  <2>1. Begun /\ UNCHANGED <<cluster, dir>>
    BY <1>1, CommandsBegun DEF ClusterCommand, Commands, Begun
  <2>2. /\ "rollout, rebuilt" \in Left' => "build" \in Left'
        /\ ~At("rollout, rebuilt")'
    BY <2>1 DEF Begun, Beginning, Left, At
  <2>3. UNCHANGED <<registry, release, configMap, appSecret, gateway, template, pods, deployed>>
    BY <2>1 DEF cluster
  <2> QED
    BY <2>2, <2>3 DEF Rollout, Latest, UpToDate
<1>2. CASE UNCHANGED deployVars
  <2>1. UNCHANGED <<todo, Left, dir, registry, release, configMap, appSecret, gateway, template,
                    pods, deployed>>
    BY <1>2, BetweenKeeps DEF Between, deployVars, bundleVars, cluster
  <2> QED
    BY <2>1 DEF Rollout, Latest, UpToDate, At
<1> QED
  BY <1>1, <1>2, RolloutCluster, RolloutPods, RolloutFiles DEF DeployNext

-------------------------------------------------------------------------------
(***************************************************************************)
(* The copies of the client and secret.                                    *)
(***************************************************************************)
LEMMA CredentialsKept ==
  ASSUME Credentials, UNCHANGED <<appSecret, gateway, provider, configured>>,
         deployed' \in {deployed, "no", "yes", "rebuilt"}
  PROVE  Credentials'
BY DEF Credentials

LEMMA CredentialsCluster ==
  ASSUME Credentials, ClusterStep
  PROVE  Credentials'
<1>1. CASE Resolve \/ Build \/ NeedRelease \/ ApplyConfig \/ ApplyWorkload \/ Restart \/ WaitRollout
  <2>1. UNCHANGED <<appSecret, gateway, provider, configured>>
    BY <1>1 DEF Resolve, Build, NeedRelease, ApplyConfig, ApplyWorkload, Restart, WaitRollout,
                cluster
  <2>2. deployed' \in {deployed, "no", "yes", "rebuilt"}
    BY <1>1 DEF Resolve, Build, NeedRelease, ApplyConfig, ApplyWorkload, Restart, WaitRollout,
                cluster
  <2> QED
    BY <2>1, <2>2, CredentialsKept
<1>2. CASE ApplySecrets
  <2>1. /\ UNCHANGED <<gateway, provider, deployed>>
        /\ configured' = (configured /\ appSecret' = appSecret)
    BY <1>2 DEF ApplySecrets
  <2> QED
    BY <2>1 DEF Credentials
<1>3. CASE ApplyGateway
  <2>1. /\ UNCHANGED <<appSecret, provider, deployed>>
        /\ configured' = (configured /\ gateway' = gateway)
        /\ \E a, r : gateway' = [applied |-> a, running |-> r]
    BY <1>3 DEF ApplyGateway
  <2> QED
    BY <2>1 DEF Credentials
<1>4. CASE Reset
  BY <1>4 DEF Reset, Credentials
<1>5. CASE Configure
  <2>1. PICK ready \in BOOLEAN, bootstrap \in BOOLEAN :
          LET written == appSecret # NoFile /\ ready
          IN /\ provider' = IF Has("dev", "deploy.env") /\ written THEN appSecret ELSE provider
             /\ IF Has("dev", "deploy.env") /\ written /\ bootstrap
                THEN configured' = TRUE /\ gateway' = KrakendRestarted
                ELSE configured' = FALSE /\ UNCHANGED gateway
    BY <1>5 DEF Configure
  <2>2. UNCHANGED <<appSecret, deployed>>
    BY <1>5 DEF Configure
  <2>3. gateway # NoFile =>
          /\ DOMAIN KrakendRestarted = DOMAIN gateway
          /\ KrakendRestarted.applied = gateway.applied
          /\ KrakendRestarted.running = gateway.applied
    BY DEF KrakendRestarted, Credentials
  <2>4. CASE gateway' = gateway /\ configured' = FALSE
    BY <2>2, <2>4 DEF Credentials
  <2>5. CASE gateway' = KrakendRestarted /\ provider' = appSecret /\ appSecret # NoFile
             /\ configured' = TRUE
    <3>1. gateway' # NoFile => gateway # NoFile
      BY <2>5 DEF KrakendRestarted
    <3> QED
      BY <2>2, <2>3, <2>5, <3>1 DEF Credentials
  <2> QED
    BY <2>1, <2>4, <2>5
<1> QED
  BY <1>1, <1>2, <1>3, <1>4, <1>5 DEF ClusterStep

LEMMA CredentialsStep ==
  ASSUME Credentials, [DeployNext]_deployVars
  PROVE  Credentials'
<1>1. CASE BundleStep \/ StartPod \/ StopPod
  BY <1>1, CredentialsKept DEF BundleStep, StartPod, StopPod
<1>2. CASE ClusterCommand \/ UNCHANGED deployVars
  <2>1. UNCHANGED cluster
    BY <1>2 DEF ClusterCommand, deployVars
  <2> QED
    BY <2>1, CredentialsKept DEF cluster
<1> QED
  BY <1>1, <1>2, CredentialsCluster DEF DeployNext

-------------------------------------------------------------------------------
(***************************************************************************)
(* Types.                                                                  *)
(***************************************************************************)
FilesTyped ==
  /\ overlay # NoFile => overlay \in Overlays
  /\ secrets # NoFile => "kind" \in DOMAIN secrets /\ secrets.kind \in {"mapping", "manifest"}
  /\ code \in {"absent", "stub", "edited", "renamed", "broken"}

BundlesTyped == \A e \in Envs : bundle[e] # NoFile => DOMAIN bundle[e] \subseteq AllFiles(e)

LEMMA TypingParts ==
  Typing <=> touched \in BOOLEAN /\ raced \in [Envs -> BOOLEAN] /\ FilesTyped /\ BundlesTyped
BY DEF Typing, FilesTyped, BundlesTyped

LEMMA TypingPartsAfter ==
  Typing' <=> touched' \in BOOLEAN /\ raced' \in [Envs -> BOOLEAN] /\ FilesTyped' /\ BundlesTyped'
BY DEF Typing, FilesTyped, BundlesTyped

LEMMA TypingKept ==
  ASSUME Typing, UNCHANGED <<sources, bundle, raced>>, touched' \in {touched, FALSE}
  PROVE  Typing'
<1>1. touched' \in BOOLEAN /\ UNCHANGED <<overlay, secrets, code, bundle, raced>>
  BY DEF sources, Typing
<1> QED
  BY <1>1 DEF Typing

LEMMA TypingWrite ==
  ASSUME CommandInv, Typing, WriteFile \/ WriteLock \/ Clear \/ Interrupt
  PROVE  Typing'
<1>1. /\ env \in Envs /\ touched \in BOOLEAN /\ raced \in [Envs -> BOOLEAN]
      /\ UNCHANGED <<sources, touched>>
  BY DEF CommandInv, Typed, Typing, WriteFile, WriteLock, Clear, Interrupt
<1>2. raced' \in [Envs -> BOOLEAN]
  BY <1>1 DEF WriteFile, WriteLock, Clear, Interrupt
<1>3. FilesTyped'
  BY <1>1 DEF FilesTyped, Typing, sources
<1>4. BundlesTyped'
  <2>1. CASE WriteFile \/ WriteLock
    <3>1. "service.lock" \in AllFiles(env)
      BY <1>1, LockIsLast DEF AllFiles
    <3>2. PICK file \in AllFiles(env) : \E content : Written(file, content)
      BY <2>1, <3>1 DEF WriteFile, WriteLock
    <3>3. /\ DOMAIN bundle'[env] = DOMAIN bundle[env] \cup {file}
          /\ \A e \in Envs : e # env => bundle'[e] = bundle[e]
      BY <3>2, WrittenDomain
    <3>4. DOMAIN bundle[env] \subseteq AllFiles(env)
      <4>1. todo # <<>> /\ Head(todo) \in AllFiles(env)
        BY <2>1, <3>1 DEF WriteFile, WriteLock, At
      <4>2. Head(todo) # "clear" /\ Head(todo) \in RenderSteps
        BY <4>1, <1>1, FilesAreNamed DEF FileNames, RenderSteps
      <4> QED
        BY <4>1, <4>2, TailSteps DEF CommandInv, Rendering
    <3> QED
      BY <3>3, <3>4, <1>1 DEF BundlesTyped, Typing
  <2>2. CASE Clear
    <3>1. /\ bundle'[env] = <<>> /\ \A e \in Envs : e # env => bundle'[e] = bundle[e]
          /\ DOMAIN <<>> = {}
      BY <1>1, <2>2 DEF Clear, CommandInv, Typed
    <3> QED
      BY <3>1 DEF BundlesTyped, Typing
  <2>3. CASE Interrupt /\ ~UNCHANGED bundle
    <3>1. PICK removed : /\ bundle[env] # NoFile
                         /\ bundle' = [bundle EXCEPT ![env] = [f \in DOMAIN @ \ removed |-> @[f]]]
      BY <2>3 DEF Interrupt
    <3>2. /\ DOMAIN bundle'[env] \subseteq DOMAIN bundle[env]
          /\ \A e \in Envs : e # env => bundle'[e] = bundle[e]
      BY <3>1, <1>1 DEF CommandInv, Typed
    <3> QED
      BY <3>1, <3>2, <1>1 DEF BundlesTyped, Typing
  <2>4. CASE UNCHANGED bundle
    BY <2>4 DEF BundlesTyped, Typing
  <2> QED
    BY <2>1, <2>2, <2>3, <2>4
<1> QED
  BY <1>1, <1>2, <1>3, <1>4, TypingPartsAfter

LEMMA TypingHand ==
  ASSUME CommandInv, Typing,
         WriteService \/ WriteExample \/ WriteStub \/ WriteSecrets \/ EditByHand \/ RemoveService
  PROVE  Typing'
<1>1. raced' = raced /\ touched \in BOOLEAN
  BY DEF Typing, WriteService, WriteExample, WriteStub, WriteSecrets, EditByHand, RemoveService
<1>2. touched' \in BOOLEAN
  <2>1. UNCHANGED touched \/ \E changed : Edited(changed)
    BY DEF WriteService, WriteExample, WriteStub, WriteSecrets, EditByHand, RemoveService,
           EditService, EditOverlay, EditCode, EditSecrets
  <2> QED
    BY <1>1, <2>1 DEF Edited
<1>3. FilesTyped'
  <2>1. CASE WriteService \/ WriteExample
    BY <2>1 DEF WriteService, WriteExample, FilesTyped, Typing
  <2>2. CASE WriteStub
    BY <2>2 DEF WriteStub, FilesTyped, Typing
  <2>3. CASE WriteSecrets
    BY <2>3 DEF WriteSecrets, FilesTyped, Typing
  <2>4. CASE EditService
    BY <2>4 DEF EditService, FilesTyped, Typing
  <2>5. CASE EditOverlay
    BY <2>5 DEF EditOverlay, FilesTyped, Typing
  <2>6. CASE EditCode
    BY <2>6 DEF EditCode, FilesTyped, Typing
  <2>7. CASE EditSecrets
    <3>1. UNCHANGED <<overlay, code>>
      BY <2>7 DEF EditSecrets
    <3>2. "kind" \in DOMAIN secrets' /\ secrets'.kind \in {"mapping", "manifest"}
      <4>1. CASE secrets # NoFile /\ secrets' = [secrets EXCEPT !.secret = "s1"]
        BY <4>1 DEF Typing
      <4>2. CASE \E c : secrets' = [kind |-> "manifest", secret |-> "s2", client |-> c]
        BY <4>2
      <4> QED
        BY <2>7, <4>1, <4>2 DEF EditSecrets
    <3> QED
      BY <3>1, <3>2 DEF FilesTyped, Typing
  <2>8. CASE RemoveService
    BY <2>8 DEF RemoveService, FilesTyped, Typing
  <2> QED
    BY <2>1, <2>2, <2>3, <2>4, <2>5, <2>6, <2>7, <2>8 DEF EditByHand
<1>4. BundlesTyped'
  <2>1. UNCHANGED bundle \/ \A e \in Envs : bundle'[e] = NoFile
    BY DEF WriteService, WriteExample, WriteStub, WriteSecrets, EditByHand, RemoveService
  <2> QED
    BY <2>1 DEF BundlesTyped, Typing
<1>5. raced' \in [Envs -> BOOLEAN]
  BY <1>1 DEF Typing
<1> QED
  BY <1>2, <1>3, <1>4, <1>5, TypingPartsAfter

LEMMA TypingStep ==
  ASSUME CommandInv, Typing, [DeployNext]_deployVars
  PROVE  Typing'
<1>1. CASE Commands
  <2>1. Begun
    BY <1>1, CommandsBegun
  <2> QED
    BY <2>1, TypingKept DEF Begun
<1>2. CASE ClusterStep
  <2>1. UNCHANGED <<sources, bundle, raced, touched>>
    BY <1>2 DEF ClusterStep, Resolve, Build, NeedRelease, ApplySecrets, ApplyConfig, ApplyGateway,
       ApplyWorkload, Restart, WaitRollout, Reset, Configure, Step
  <2> QED
    BY <2>1, TypingKept
<1>3. CASE MakeDirectory \/ Render \/ Validate \/ Verify \/ Pack
  <2>1. UNCHANGED <<sources, bundle, raced>> /\ touched' \in {touched, FALSE}
    BY <1>3 DEF MakeDirectory, Render, Validate, Verify, Pack
  <2> QED
    BY <2>1, TypingKept
<1>4. CASE StartPod \/ StopPod \/ UNCHANGED deployVars
  <2>1. UNCHANGED <<sources, bundle, raced, touched>>
    BY <1>4 DEF StartPod, StopPod, deployVars, bundleVars
  <2> QED
    BY <2>1, TypingKept
<1> QED
  BY <1>1, <1>2, <1>3, <1>4, TypingWrite, TypingHand
  DEF DeployNext, BundleStep, BundleNext, GeneratorStep, ClusterCommand, Commands

LEMMA DeployStep ==
  ASSUME DeployInv, [DeployNext]_deployVars
  PROVE  DeployInv'
<1>1. CommandInv'
  BY StepInv DEF DeployInv
<1>2. Ordered(todo')
  BY OrderedStep DEF DeployInv
<1>3. Directory' /\ Context' /\ Contents' /\ Packing'
  BY DirectoryStep, ContextStep, ContentsStep, PackingStep DEF DeployInv
<1>4. Ready' /\ Rollout' /\ Credentials' /\ Typing'
  BY ReadyStep, RolloutStep, CredentialsStep, TypingStep DEF DeployInv
<1> QED
  BY <1>1, <1>2, <1>3, <1>4 DEF DeployInv

-------------------------------------------------------------------------------
LEMMA InitContents ==
  ASSUME DeployInit
  PROVE  Directory /\ Context /\ Contents /\ Packing
<1> DEFINE s == [ScaffoldedService EXCEPT !.model.revision = "r1"]
           c == BuildContext(s, <<>>, "dev")
<1>1. Described(s)
  <2>1. s \in ServiceEdits(ScaffoldedService)
    BY DEF ServiceEdits
  <2> HIDE DEF s
  <2> QED
    BY <2>1, ScaffoldDescribed, EditsDescribed
<1>2. /\ dir = TRUE /\ service = s /\ packed = NoFile /\ todo = <<>> /\ ctx = NoFile /\ env = "dev"
      /\ bundle = [e \in Envs |-> IF e = "prod" THEN NoFile ELSE
                     [f \in AllFiles(e) |-> IF f = "service.lock" THEN Lock(s, NoFile, e)
                                            ELSE Content(f, c)]]
  BY DEF DeployInit
<1> HIDE DEF s, c
<1>3. Left = {}
  BY <1>2, NothingLeft DEF Left
<1>4. /\ bundle["prod"] = NoFile
      /\ bundle["dev"] = [f \in AllFiles("dev") |->
                            IF f = "service.lock" THEN Lock(s, NoFile, "dev") ELSE Content(f, c)]
  BY <1>2 DEF Envs
<1>5. RenderedFrom("dev", c)
  BY <1>4 DEF RenderedFrom
<1>6. Recorded("dev")
  <2>1. Has("dev", "service.lock") => bundle["dev"]["service.lock"][1] = s
    BY <1>4 DEF Has, Lock
  <2> QED
    BY <2>1, <1>5 DEF Recorded, c
<1>7. Recorded("prod")
  BY <1>4 DEF Recorded, Has
<1>8. Contents
  BY <1>1, <1>3, <1>4, <1>5, <1>6, <1>7 DEF Contents, Envs, c
<1>9. Directory /\ Context /\ Packing
  BY <1>1, <1>2, <1>3 DEF Directory, Context, Packing, At
<1> QED
  BY <1>8, <1>9

LEMMA InitCluster ==
  ASSUME DeployInit
  PROVE  Ready /\ Rollout /\ Credentials
<1> DEFINE id == BuildContext([ScaffoldedService EXCEPT !.model.revision = "r1"],
                              <<>>, "dev").oidc.client_id
           config == BentomlConfig(BuildContext([ScaffoldedService EXCEPT !.model.revision = "r1"],
                                                <<>>, "dev"))
           t == [image |-> 1, stamp |-> 1]
           credentials == [client |-> id, secret |-> "s2"]
           running == [applied |-> id, running |-> id]
           pod == [template |-> t, config |-> config, image |-> 1]
<1>1. /\ todo = <<>> /\ registry = <<{"r1"}>> /\ release = 1
      /\ configMap = config /\ appSecret = credentials /\ provider = credentials
      /\ gateway = running /\ template = t /\ pods = {pod}
      /\ deployed = "rebuilt" /\ configured = TRUE
  BY DEF DeployInit
<1>2. config # NoFile
  BY DEF BentomlConfig, NoFile
<1> HIDE DEF config
<1>3. credentials # NoFile
  BY DEF NoFile
<1>4. running # NoFile /\ {"applied", "running"} \subseteq DOMAIN running
      /\ running.running = running.applied
  BY DEF NoFile
<1>5. t # NoFile /\ t = [image |-> t.image, stamp |-> t.stamp] /\ t.image = 1 /\ t.stamp = 1
  BY DEF NoFile
<1>6. pod.template = t /\ pod.config = config /\ pod.image = 1
  OBVIOUS
<1>7. /\ registry \in Seq(SUBSET ({"r1", "r2"} \cup CachedSnapshots)) /\ Len(registry) = 1
  BY <1>1
<1> HIDE DEF credentials, running, t, pod
<1>8. Ready
  BY <1>1 DEF Ready, At
<1>9. Rollout
  <2>1. Left = {}
    BY <1>1, NothingLeft DEF Left
  <2>2. /\ release \in 0..Len(registry) /\ template.image \in 0..Len(registry)
        /\ template.stamp \in Nat /\ template.image # 0
    BY <1>1, <1>5, <1>7
  <2>3. \A p \in pods : /\ p.image \in 1..Len(registry) /\ UpToDate(p)
                        /\ p.template.stamp \in Nat /\ p.template.stamp <= template.stamp
    BY <1>1, <1>5, <1>6, <1>7 DEF UpToDate
  <2> QED
    BY <1>1, <1>2, <1>3, <1>4, <1>5, <1>7, <2>1, <2>2, <2>3 DEF Rollout, Latest, At
<1>10. Credentials
  BY <1>1, <1>3, <1>4 DEF Credentials
<1> QED
  BY <1>8, <1>9, <1>10

LEMMA InitTyping ==
  ASSUME DeployInit
  PROVE  Typing
<1>1. touched = FALSE /\ raced = [e \in Envs |-> FALSE] /\ code = "edited"
      /\ overlay \in Overlays \cup {NoFile}
  BY DEF DeployInit
<1>2. \E k : secrets = [kind |-> "manifest", client |-> k, secret |-> "s2"]
  BY DEF DeployInit
<1>3. "kind" \in DOMAIN secrets /\ secrets.kind = "manifest"
  BY <1>2
<1>4. \A e \in Envs : bundle[e] = NoFile \/ DOMAIN bundle[e] = AllFiles(e)
  BY DEF DeployInit
<1> QED
  BY <1>1, <1>3, <1>4 DEF Typing

LEMMA DeployInitially == DeployInit => DeployInv
<1>1. DeployInit => Ordered(todo)
  BY NothingLeft DEF DeployInit
<1> QED
  BY <1>1, InitInv, InitContents, InitCluster, InitTyping DEF DeployInv

LEMMA DeployAlways == DeploySpec => []DeployInv
<1>1. DeployInv /\ [DeployNext]_deployVars => DeployInv'
  BY DeployStep
<1> QED
  BY <1>1, DeployInitially, PTL DEF DeploySpec

-------------------------------------------------------------------------------
(***************************************************************************)
(* Types, and what the cluster has only together.                          *)
(***************************************************************************)
THEOREM DeployTypes == DeploySpec => []DeployTypeOK
<1>1. DeployInv => DeployTypeOK
  <2> SUFFICES ASSUME DeployInv PROVE DeployTypeOK
    OBVIOUS
  <2>1. {dir, touched} \cup {raced[e] : e \in Envs} \subseteq BOOLEAN
    BY DEF DeployInv, CommandInv, Onboarding, Typing
  <2>2. service # NoFile => dir /\ "service_id" \in DOMAIN service
    BY DEF DeployInv, CommandInv, Onboarding, Context, Described
  <2>3. /\ overlay # NoFile => dir /\ overlay \in Overlays
        /\ secrets # NoFile => dir /\ secrets.kind \in {"mapping", "manifest"}
        /\ code \in {"absent", "stub", "edited", "renamed", "broken"}
        /\ \A e \in Envs : bundle[e] # NoFile => DOMAIN bundle[e] \subseteq AllFiles(e)
    BY DEF DeployInv, Directory, Typing
  <2>4. ctx # NoFile => ctx.env = env
    <3>1. \A s, o : BuildContext(s, o, env).env = env
      BY DEF BuildContext
    <3> QED
      BY <3>1 DEF DeployInv, Context
  <2>5. BundleTypeOK
    BY <2>1, <2>2, <2>3, <2>4 DEF BundleTypeOK, DeployInv, Context
  <2> QED
    BY <2>5 DEF DeployTypeOK, DeployInv, Rollout, Credentials
<1> QED
  BY <1>1, DeployAlways, PTL

(***************************************************************************)
(* The files of a bundle agree with each other, whatever was edited or cut *)
(* short between renders (render_service takes them all from one context). *)
(***************************************************************************)
THEOREM FilesAgree == DeploySpec => []BundleCoherent
<1>1. DeployInv => BundleCoherent
  <2> SUFFICES ASSUME DeployInv, NEW e \in Envs, bundle[e] # NoFile
               PROVE  LET b == bundle[e]
                          named == DOMAIN b \cap {"k8s", "deploy.env", "apply-order.txt",
                                                  "preflight-checklist.md", "usage-report"}
                      IN /\ \A f, g \in named : b[f].namespace = b[g].namespace
                         /\ Has(e, "gateway-settings.json") /\ Has(e, "secrets.yaml.example") =>
                              b["gateway-settings.json"].audience
                                = b["secrets.yaml.example"].oidc_client_id
                         /\ Has(e, "gateway-settings.json") /\ Has(e, "deploy.env") =>
                              /\ b["gateway-settings.json"].audience
                                   = b["deploy.env"].oidc.client_id
                              /\ b["gateway-settings.json"].slug = b["deploy.env"].oidc.slug
                         /\ Has(e, "bentoml-config.yaml") /\ Has(e, "deploy.env") =>
                              b["bentoml-config.yaml"].revision = b["deploy.env"].model.revision
                         /\ Has(e, "k8s") /\ Has(e, "apply-order.txt") =>
                              b["apply-order.txt"].names \subseteq b["k8s"].names
    BY DEF BundleCoherent
  <2> DEFINE b == bundle[e]
  <2>1. PICK s, o : RenderedFrom(e, BuildContext(s, o, e))
    BY DEF DeployInv, Contents
  <2> DEFINE c == BuildContext(s, o, e)
  <2>2. \A f : Has(e, f) /\ f # "service.lock" => b[f] = Content(f, c)
    BY <2>1 DEF RenderedFrom, Has
  <2>3. /\ c.env = e /\ c.oidc = Oidc(s) /\ c.ingress = IngressContext(o, e)
        /\ c.gateway_settings = IF e = "dev" THEN DevGatewaySettings(s)
                                ELSE ProdGatewaySettings(s, o)
    BY DEF BuildContext
  <2> HIDE DEF c
  <2>4. /\ c.gateway_settings.audience = c.oidc.client_id
        /\ c.gateway_settings.slug = c.oidc.slug
    <3>1. /\ DevGatewaySettings(s).audience = Oidc(s).client_id
          /\ DevGatewaySettings(s).slug = Oidc(s).slug
      BY DEF DevGatewaySettings
    <3>2. /\ ProdGatewaySettings(s, o).audience = Oidc(s).client_id
          /\ ProdGatewaySettings(s, o).slug = Oidc(s).slug
      BY DEF ProdGatewaySettings
    <3> QED
      BY <2>3, <3>1, <3>2
  <2>5. e = "dev" => c.ingress.enabled = FALSE
    <3>1. IngressContext(o, "dev").enabled = FALSE
      BY DEF IngressContext
    <3> QED
      BY <2>3, <3>1
  <2>6. /\ Content("k8s", c) = K8sManifests(c) /\ Content("deploy.env", c) = DeployEnv(c)
        /\ Content("apply-order.txt", c) = ApplyOrder(c)
        /\ Content("preflight-checklist.md", c) = Preflight(c)
        /\ Content("usage-report", c) = UsageReportTools(c)
        /\ Content("bentoml-config.yaml", c) = BentomlConfig(c)
        /\ Content("secrets.yaml.example", c) = SecretsExample(c)
        /\ Content("gateway-settings.json", c) = c.gateway_settings
    BY DEF Content
  <2>7. /\ K8sManifests(c).namespace = c.namespace /\ DeployEnv(c).namespace = c.namespace
        /\ ApplyOrder(c).namespace = c.namespace /\ Preflight(c).namespace = c.namespace
        /\ UsageReportTools(c).namespace = c.namespace
        /\ DeployEnv(c).oidc = c.oidc /\ DeployEnv(c).model = c.model
        /\ BentomlConfig(c).revision = c.model.revision
        /\ SecretsExample(c).oidc_client_id = c.oidc.client_id
    BY DEF K8sManifests, DeployEnv, ApplyOrder, Preflight, UsageReportTools, BentomlConfig,
           SecretsExample
  <2>8. ApplyOrder(c).names \subseteq K8sManifests(c).names
    <3>1. /\ K8sManifests(c).names = {"01", "02", "03", "04", "07"}
               \cup {IF c.env = "dev" THEN "05-ingress.dev" ELSE "05-ingress"}
          /\ ApplyOrder(c).names = {"01", "02", "03", "04", "07"}
               \cup (IF c.ingress.enabled THEN {"05-ingress"} ELSE {})
      BY DEF K8sManifests, ApplyOrder
    <3>2. CASE e = "dev"
      BY <3>1, <3>2, <2>3, <2>5
    <3>3. CASE e # "dev"
      BY <3>1, <3>3, <2>3
    <3> QED
      BY <3>2, <3>3
  <2>9. ASSUME NEW f \in DOMAIN b \cap {"k8s", "deploy.env", "apply-order.txt",
                                        "preflight-checklist.md", "usage-report"}
        PROVE  b[f].namespace = c.namespace
    <3>1. b[f] = Content(f, c)
      BY <2>2, <2>9 DEF Has
    <3> QED
      BY <3>1, <2>6, <2>7, <2>9
  <2>10. Has(e, "k8s") /\ Has(e, "apply-order.txt") =>
           b["apply-order.txt"].names \subseteq b["k8s"].names
    BY <2>2, <2>6, <2>8
  <2>11. /\ Has(e, "gateway-settings.json") =>
              /\ b["gateway-settings.json"].audience = c.oidc.client_id
              /\ b["gateway-settings.json"].slug = c.oidc.slug
         /\ Has(e, "secrets.yaml.example") =>
              b["secrets.yaml.example"].oidc_client_id = c.oidc.client_id
         /\ Has(e, "deploy.env") => b["deploy.env"].oidc = c.oidc /\ b["deploy.env"].model = c.model
         /\ Has(e, "bentoml-config.yaml") => b["bentoml-config.yaml"].revision = c.model.revision
    BY <2>2, <2>4, <2>6, <2>7
  <2> QED
    BY <2>9, <2>10, <2>11
<1> QED
  BY <1>1, DeployAlways, PTL

(***************************************************************************)
(* A lock that matches the inputs vouches for the bundle (_compute_lock),  *)
(* but for edits during the render and the .example, which is not hashed.  *)
(***************************************************************************)
THEOREM LockVouches == DeploySpec => []LockIdentifiesInputs
<1>1. DeployInv => LockIdentifiesInputs
  <2> SUFFICES ASSUME DeployInv, NEW e \in Envs,
                      Has(e, "service.lock"), ~raced[e],
                      bundle[e]["service.lock"] = Lock(service, overlay, e),
                      e = "prod" => overlay # NoFile
               PROVE  RenderedFrom(e, BuildContext(service,
                                        IF e = "dev" THEN <<>> ELSE overlay, e))
    BY DEF LockIdentifiesInputs, RenderedFrom
  <2>1. bundle[e]["service.lock"][1] = service /\ bundle[e]["service.lock"][2] = overlay
    BY DEF Lock
  <2>2. Recorded(e)
    BY DEF DeployInv, Contents
  <2> QED
    BY <2>1, <2>2 DEF Recorded
<1> QED
  BY <1>1, DeployAlways, PTL

(***************************************************************************)
(* What the platform operator gets is a whole bundle without placeholders, *)
(* that verifies the keys of its identity provider (verify_prod, and the   *)
(* order of the prod-pack target).                                         *)
(***************************************************************************)
THEOREM PackedShips == DeploySpec => []PackedBundleShips
<1>1. DeployInv => PackedBundleShips
  BY DEF DeployInv, Packing, Ships, PackedBundleShips
<1> QED
  BY <1>1, DeployAlways, PTL

(***************************************************************************)
(* After `make deploy` with --rebuild reported that it is done every pod   *)
(* runs the image that was built with the settings that were applied.      *)
(***************************************************************************)
THEOREM RebuiltIsServed == DeploySpec => []RebuildTakesEffect
<1>1. DeployInv => RebuildTakesEffect
  BY DEF DeployInv, Rollout, UpToDate, RebuildTakesEffect
<1> QED
  BY <1>1, DeployAlways, PTL

(***************************************************************************)
(* An image that was pushed starts with the settings it was built for,     *)
(* whichever alias of the source service.yaml has (app.sh, Containerfile,  *)
(* core/model_env.py).                                                     *)
(***************************************************************************)
THEOREM ImagesStart == DeploySpec => BuiltImageStarts
<1>1. DeployInv /\ [DeployNext]_deployVars =>
        [registry' # registry =>
           CanStart(Dev("bentoml-config.yaml"), registry'[Len(registry')])]_deployVars
  <2> SUFFICES ASSUME DeployInv, DeployNext, registry' # registry
               PROVE  CanStart(Dev("bentoml-config.yaml"), registry'[Len(registry')])
    BY DEF deployVars, cluster
  <2>1. Build /\ Builds(Dev("bentoml-config.yaml"))
    <3>1. ClusterStep
      BY DEF DeployNext, BundleStep, ClusterCommand, StartPod, StopPod, cluster
    <3>2. Build
      BY <3>1 DEF ClusterStep, Resolve, NeedRelease, ApplySecrets, ApplyConfig, ApplyGateway,
                  ApplyWorkload, Restart, WaitRollout, Reset, Configure, cluster
    <3> QED
      BY <3>2 DEF Build
  <2> QED
    BY <2>1, BuildSteps DEF DeployInv
<1> QED
  BY <1>1, DeployAlways, PTL DEF DeploySpec, BuiltImageStarts

(***************************************************************************)
(* bootstrap deletes the namespace only once there is an image to put in   *)
(* its place that starts with the bundle (app.sh, RESET SAFETY).           *)
(***************************************************************************)
THEOREM ResetIsSafe == DeploySpec => BootstrapKeepsAWayBack
<1>1. DeployInv /\ [DeployNext]_deployVars =>
        [At("reset") /\ "use release" \in {todo[i] : i \in DOMAIN todo} /\ pods' # pods
           => release # 0 /\ CanStart(Dev("bentoml-config.yaml"), registry[release])]_deployVars
  <2>1. DeployInv /\ At("reset") /\ "use release" \in {todo[i] : i \in DOMAIN todo}
          => release # 0 /\ CanStart(Dev("bentoml-config.yaml"), registry[release])
    <3>1. DeployInv => registry \in Seq(SUBSET ({"r1", "r2"} \cup CachedSnapshots))
      BY DEF DeployInv, Rollout
    <3>2. DeployInv /\ release \in DOMAIN registry => release # 0
      BY <3>1, LenProperties
    <3> QED
      BY <3>2 DEF DeployInv, Ready, WayBack, Left, StepsOf
  <2> QED
    BY <2>1
<1> QED
  BY <1>1, DeployAlways, PTL DEF DeploySpec, BootstrapKeepsAWayBack

(***************************************************************************)
(* After configure the tools get a token that the gateway accepts, as long *)
(* as the Secret and the bundle are those of secrets.local.yaml            *)
(* (configure_authentik.py, devtools/api_client.py).                       *)
(***************************************************************************)
THEOREM TokensAccepted == DeploySpec => []ToolsGetTokens
<1>1. DeployInv => ToolsGetTokens
  <2> DEFINE deploy == Dev("deploy.env")
  <2> SUFFICES ASSUME DeployInv, configured, gateway # NoFile,
                      secrets # NoFile,
                      appSecret = [client |-> secrets.client, secret |-> secrets.secret],
                      Has("dev", "deploy.env"), deploy.oidc.client_id = appSecret.client,
                      gateway.applied = appSecret.client
               PROVE  GetToken(ResolveServiceContext(<<>>, <<>>, deploy, secrets), provider)
                        = gateway.running
    BY DEF ToolsGetTokens
  <2>1. /\ provider = appSecret /\ provider # NoFile /\ gateway.running = gateway.applied
    BY DEF DeployInv, Credentials
  <2>2. deploy # NoFile
    <3>1. bundle["dev"] # NoFile /\ "deploy.env" \in DOMAIN bundle["dev"] /\ "dev" \in Envs
      BY DEF Has, Envs
    <3>2. PICK s, o : RenderedFrom("dev", BuildContext(s, o, "dev"))
      BY <3>1 DEF DeployInv, Contents
    <3>3. \A c : Content("deploy.env", c) = DeployEnv(c)
      BY DEF Content
    <3>4. \A c : "oidc" \in DOMAIN DeployEnv(c)
      BY DEF DeployEnv
    <3>5. "oidc" \notin DOMAIN NoFile
      BY DEF NoFile
    <3> QED
      BY <3>1, <3>2, <3>3, <3>4, <3>5 DEF RenderedFrom, Dev
  <2> HIDE DEF deploy
  <2> DEFINE context == LoadServiceContext(<<>>, deploy, secrets)
             args == Overridden([auth_client_secret |-> Get(<<>>, "AUTH_CLIENT_SECRET", "")], <<>>)
  <2>3. DOMAIN <<>> = {}
    OBVIOUS
  <2>4. \A k, d : Get(<<>>, k, d) = d
    BY <2>3 DEF Get
  <2>5. context.auth_client_id = appSecret.client /\ context.auth_client_secret = secrets.secret
        /\ {"auth_client_id", "auth_client_secret"} \subseteq DOMAIN context
    <3>1. Get(LoadDeployEnv(deploy), "OIDC_CLIENT_ID", ServiceId \o "-api") = deploy.oidc.client_id
      BY <2>2 DEF LoadDeployEnv, Get
    <3>2. LoadOidcSecret(<<>>, secrets) = secrets.secret
      BY <2>4 DEF LoadOidcSecret, GetOr
    <3> QED
      BY <3>1, <3>2 DEF LoadServiceContext
  <2>6. \A field, d : GetOr(args, field, d) = d
    <3> DEFINE given == [auth_client_secret |-> Get(<<>>, "AUTH_CLIENT_SECRET", "")]
    <3>1. DOMAIN given = {"auth_client_secret"} /\ given["auth_client_secret"] = ""
      BY <2>4
    <3> HIDE DEF given
    <3>2. args = [k \in DOMAIN given \cup DOMAIN <<>> |->
                    IF k \in DOMAIN <<>> THEN (<<>>)[k] ELSE given[k]]
      BY DEF Overridden, given
    <3>3. DOMAIN args = {"auth_client_secret"} /\ args["auth_client_secret"] = ""
      BY <2>3, <3>1, <3>2
    <3> HIDE DEF args
    <3> QED
      BY <3>3 DEF GetOr, Get
  <2>7. ResolveServiceContext(<<>>, <<>>, deploy, secrets)
          = [field \in DOMAIN context |-> context[field]]
    BY <2>6 DEF ResolveServiceContext, WithOverrides
  <2> HIDE DEF context
  <2> DEFINE resolved == ResolveServiceContext(<<>>, <<>>, deploy, secrets)
  <2>8. /\ resolved.auth_client_id = appSecret.client
        /\ resolved.auth_client_secret = secrets.secret
    BY <2>5, <2>7
  <2> HIDE DEF resolved
  <2>9. appSecret.client = secrets.client
    OBVIOUS
  <2>10. GetToken(resolved, provider) = resolved.auth_client_id
    BY <2>1, <2>8, <2>9 DEF GetToken
  <2> QED
    BY <2>1, <2>8, <2>10 DEF resolved
<1> QED
  BY <1>1, DeployAlways, PTL
===============================================================================
