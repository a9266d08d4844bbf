----------------------------- MODULE ServiceDeploy ----------------------------
(***************************************************************************)
(* The dev cluster: k8s/app.sh and the make targets around it (deploy,     *)
(* bootstrap, fresh, teardown, build), `infra.sh configure` with           *)
(* configure_authentik.py, and the start of a BentoML pod                  *)
(* (core/model_env.py).  The commands are those of ServiceBundles with     *)
(* more steps, so edits and interrupts fall between these too.  kubectl,   *)
(* podman and Kubernetes are modelled by what the scripts rely on: a pod   *)
(* takes its environment from the ConfigMap, and its image, when it        *)
(* starts; a changed pod template replaces the pods one by one.            *)
(***************************************************************************)
EXTENDS ServiceBundles, DevTools

CONSTANT CachedSnapshots  \* revisions in the private model cache

VARIABLES
  registry,   \* images pushed, oldest first: the model revisions baked into each
  release,    \* releases/release-latest.json: an image, 0 if there is none
  configMap,  \* bentoml-config as applied
  appSecret,  \* app-secrets as applied
  gateway,    \* KrakenD: client whose tokens it accepts, applied and running
  template,   \* pod template of the bentoml Deployment
  pods,       \* kinds of ready BentoML pods
  provider,   \* OAuth2 provider in Authentik
  deployed,   \* history: "yes" or "rebuilt" from the end of a deploy until changed
  configured  \* history: configure succeeded and nothing it read has changed

cluster == <<registry, release, configMap, appSecret, gateway, template, pods, provider,
             deployed, configured>>
deployVars == <<bundleVars, cluster>>

Dev(file) == bundle["dev"][file]

-------------------------------------------------------------------------------
\* core/model_env.py, at the start of a pod with this configuration and image.

\* Variant: only the two names the shell writes are known.
NormalizeNothing(source) == IF source = "" THEN "hugging_face" ELSE source

NormalizeModelSource(source) ==
  CASE source \in {"", "hf_public"} -> "hugging_face"
    [] source \in {"local_dir", "private_cache"} -> "private"
    [] OTHER -> source

StartChecks(config) ==
  LET source == NormalizeModelSource(config.source)
  IN /\ source \in {"hugging_face", "private"}
     /\ config.id # ""
     /\ source = "hugging_face" => config.revision # ""

\* revision_arg: the revision, or the only one baked; "" if it raises.
RevisionArg(config, image) ==
  IF config.revision # "" THEN config.revision
  ELSE IF Cardinality(image) = 1 THEN CHOOSE r \in image : TRUE ELSE ""

\* _load_model_components reads local files only.
CanStart(config, image) == StartChecks(config) /\ RevisionArg(config, image) \in image

-------------------------------------------------------------------------------
\* app.sh and the image.

\* read_yaml_value strips double quotes; an empty value is written as ''.
Shell(value) == IF value = "" THEN "''" ELSE value

\* resolve_dev_environment_files.  The revision checked is never empty.
ShellAccepts ==
  /\ \A f \in {"deploy.env", "k8s", "bentoml-config.yaml"} : Has("dev", f)
  /\ secrets # NoFile \/ Has("dev", "secrets.yaml.example")
  /\ Has("dev", "gateway-settings.json") \/ Has("dev", "gateway-settings.dev-workaround.json")
  /\ LET config == Dev("bentoml-config.yaml")
         source == CASE config.source = "hf_public" -> "hugging_face"
                     [] config.source \in {"local_dir", "private_cache"} -> "private"
                     [] OTHER -> config.source
     IN /\ source \in {"hugging_face", "private"}
        /\ Shell(config.id) # ""
        /\ source = "hugging_face" => Shell(config.revision) # ""
        /\ source = "private" => config.cache_dir = "/cache"

\* What the Containerfile bakes.  The two quotes of an empty revision end up in
\* the Python code of the build, which then fails.
Baked(config) ==
  IF config.source = "hugging_face" THEN {config.revision} ELSE CachedSnapshots

Builds(config) == config.revision \in Baked(config) /\ config.revision # ""

Step(name) == At(name) /\ UNCHANGED <<dir, sources, bundle, packed, used, touched, raced>>

Resolve ==
  /\ Step("resolve")
  /\ PassIf(ShellAccepts)
  /\ UNCHANGED cluster

\* build_and_distribute: build, push, write the release artifact.
Build ==
  /\ Step("build")
  /\ IF Builds(Dev("bentoml-config.yaml"))
     THEN /\ registry' = Append(registry, Baked(Dev("bentoml-config.yaml")))
          /\ release' = Len(registry')
          /\ deployed' = "no"
          /\ Continue(Tail(todo))
     ELSE Continue(<<>>) /\ UNCHANGED <<registry, release, deployed>>
  /\ UNCHANGED <<configMap, appSecret, gateway, template, pods, provider, configured>>

NeedRelease ==
  /\ Step("use release")
  /\ PassIf(release # 0)
  /\ UNCHANGED cluster

-------------------------------------------------------------------------------
\* apply_app_manifests.

\* kubectl refuses a file that is not a manifest, such as the one onboard wrote.
ApplySecrets ==
  LET manifest == IF secrets # NoFile THEN secrets
                  ELSE [kind |-> "manifest", secret |-> "CHANGE_ME",
                        client |-> Dev("secrets.yaml.example").oidc_client_id]
  IN /\ Step("app secrets")
     /\ PassIf(manifest.kind = "manifest")
     /\ appSecret' = IF manifest.kind = "manifest"
                     THEN [client |-> manifest.client, secret |-> manifest.secret]
                     ELSE appSecret
     /\ configured' = (configured /\ appSecret' = appSecret)
     /\ UNCHANGED <<registry, release, configMap, gateway, template, pods, provider, deployed>>

ApplyConfig ==
  /\ Step("config")
  /\ configMap' = Dev("bentoml-config.yaml")
  /\ deployed' = "no"
  /\ Continue(Tail(todo))
  /\ UNCHANGED <<registry, release, appSecret, gateway, template, pods, provider, configured>>

\* The ConfigMaps of KrakenD; only its first start reads them here.
ApplyGateway ==
  LET audience == IF Has("dev", "gateway-settings.dev-workaround.json")
                  THEN Dev("gateway-settings.dev-workaround.json").audience
                  ELSE Dev("gateway-settings.json").audience
  IN /\ Step("gateway")
     /\ gateway' = [applied |-> audience,
                    running |-> IF gateway = NoFile THEN audience ELSE gateway.running]
     /\ configured' = (configured /\ gateway' = gateway)
     /\ Continue(Tail(todo))
     /\ UNCHANGED <<registry, release, configMap, appSecret, template, pods, provider, deployed>>

\* The manifest, `set image` to the release, and after a build a restart, which
\* stamps the template.  Image 0 is the mutable tag.
ApplyWorkload ==
  \E rebuilt \in BOOLEAN :
    /\ Step(IF rebuilt THEN "workload, restart" ELSE "workload")
    /\ template' = [image |-> release,
                    stamp |-> (IF template = NoFile THEN 0 ELSE template.stamp)
                              + (IF rebuilt THEN 1 ELSE 0)]
    /\ Continue(Tail(todo))
    /\ UNCHANGED <<registry, release, configMap, appSecret, gateway, pods, provider,
                   deployed, configured>>

\* `app.sh build` restarts the Deployment as it is.
Restart ==
  /\ Step("restart")
  /\ PassIf(template # NoFile)
  /\ template' = IF template = NoFile THEN NoFile ELSE [template EXCEPT !.stamp = @ + 1]
  /\ UNCHANGED <<registry, release, configMap, appSecret, gateway, pods, provider,
                 deployed, configured>>

RolledOut == pods # {} /\ \A p \in pods : p.template = template

\* rollout_with_retry: until it is done, or for as long as it waits.
WaitRollout ==
  \E kind \in {"yes", "rebuilt", "no"} :
    /\ Step(CASE kind = "yes" -> "rollout" [] kind = "rebuilt" -> "rollout, rebuilt"
              [] OTHER -> "rollout of restart")
    /\ IF RolledOut
       THEN Continue(Tail(todo)) /\ deployed' = kind
       ELSE Continue(<<>>) /\ UNCHANGED deployed
    /\ UNCHANGED <<registry, release, configMap, appSecret, gateway, template, pods, provider,
                   configured>>

Reset ==
  /\ Step("reset")
  /\ configMap' = NoFile /\ appSecret' = NoFile /\ gateway' = NoFile
  /\ template' = NoFile /\ pods' = {}
  /\ deployed' = "no" /\ configured' = FALSE
  /\ Continue(Tail(todo))
  /\ UNCHANGED <<registry, release, provider>>

-------------------------------------------------------------------------------
\* Variant: configure is done once Authentik is.
KrakendKept == gateway

KrakendRestarted ==
  IF gateway = NoFile THEN NoFile ELSE [gateway EXCEPT !.running = gateway.applied]

\* infra.sh configure and configure_authentik.py: without a deployed service
\* nothing happens; without a signing key, a flow or a secret nothing is
\* written; without the bootstrap password it fails after the provider is.
Configure ==
  \E ready, bootstrap \in BOOLEAN :
    LET written == appSecret # NoFile /\ ready
    IN /\ Step("configure")
       /\ PassIf(Has("dev", "deploy.env") /\ (appSecret = NoFile \/ (ready /\ bootstrap)))
       /\ provider' = IF Has("dev", "deploy.env") /\ written THEN appSecret ELSE provider
       /\ IF Has("dev", "deploy.env") /\ written /\ bootstrap
          THEN configured' = TRUE /\ gateway' = KrakendRestarted
          ELSE configured' = FALSE /\ UNCHANGED gateway
       /\ UNCHANGED <<registry, release, configMap, appSecret, template, pods, deployed>>

\* Variant: the ConfigMap is applied after the workload that reads it.
ApplyConfigLast(restart) ==
  <<"app secrets", "gateway", IF restart THEN "workload, restart" ELSE "workload", "config",
    IF restart THEN "rollout, rebuilt" ELSE "rollout">>

Apply(restart) ==
  <<"app secrets", "config", "gateway", IF restart THEN "workload, restart" ELSE "workload",
    IF restart THEN "rollout, rebuilt" ELSE "rollout">>

\* make deploy, with or without --rebuild; without, a release is used if there is one.
DeployCommand == Begin("dev", <<"render", "validate", "resolve">> \o Apply(FALSE))
RebuildCommand == Begin("dev", <<"render", "validate", "resolve", "build">> \o Apply(TRUE))

\* Variant: the order of `make fresh`.
BootstrapResetsFirst ==
  Begin("dev", <<"resolve", "reset", "resolve", "build", "use release">> \o Apply(FALSE))

Bootstrap ==
  Begin("dev", <<"resolve", "build", "reset", "resolve", "use release">> \o Apply(FALSE))

Fresh ==
  Begin("dev", <<"reset", "render", "validate", "resolve", "build">> \o Apply(TRUE)
               \o <<"configure">>)

Teardown == dir /\ Begin("dev", <<"reset">>)
BuildCommand == Begin("dev", <<"resolve", "build", "restart", "rollout of restart">>)
ConfigureCommand == Begin("dev", <<"configure">>)

ClusterCommand ==
  /\ DeployCommand \/ RebuildCommand \/ Bootstrap \/ Fresh \/ Teardown
     \/ BuildCommand \/ ConfigureCommand
  /\ UNCHANGED cluster

ClusterStep ==
  \/ Resolve \/ Build \/ NeedRelease
  \/ ApplySecrets \/ ApplyConfig \/ ApplyGateway \/ ApplyWorkload \/ Restart
  \/ WaitRollout \/ Reset \/ Configure

-------------------------------------------------------------------------------
\* Kubernetes: a rollout, the autoscaler or a lost node starts a pod, with the
\* ConfigMap of that moment; ready pods of the current template replace others.
StartPod ==
  LET image == IF template.image = 0 THEN Len(registry) ELSE template.image
  IN /\ template # NoFile /\ appSecret # NoFile /\ configMap # NoFile /\ image # 0
     /\ CanStart(configMap, registry[image])
     /\ pods' = pods \cup {[template |-> template, config |-> configMap, image |-> image]}
     /\ UNCHANGED <<bundleVars, registry, release, configMap, appSecret, gateway, template,
                    provider, deployed, configured>>

StopPod ==
  /\ \E p \in pods : \E q \in pods \ {p} :
       (p.template = template => q.template = template) /\ pods' = pods \ {p}
  /\ UNCHANGED <<bundleVars, registry, release, configMap, appSecret, gateway, template,
                 provider, deployed, configured>>

BundleStep ==
  /\ BundleNext
  /\ release' = IF dir' THEN release ELSE 0
  /\ UNCHANGED <<registry, configMap, appSecret, gateway, template, pods, provider,
                 deployed, configured>>

DeployNext == BundleStep \/ ClusterCommand \/ ClusterStep \/ StartPod \/ StopPod

\* A service that was onboarded, given a revision and a secret, deployed and
\* configured; either prod.overlay.yaml may be filled in somehow, or
\* secrets.local.yaml is ready for another client.
DeployInit ==
  LET s == [ScaffoldedService EXCEPT !.model.revision = "r1"]
      c == BuildContext(s, <<>>, "dev")
      t == [image |-> 1, stamp |-> 1]
      credentials == [client |-> c.oidc.client_id, secret |-> "s2"]
  IN /\ dir = TRUE /\ service = s /\ example = ScaffoldedExample
     /\ \/ secrets = [kind |-> "manifest", client |-> c.oidc.client_id, secret |-> "s2"]
           /\ overlay \in Overlays \cup {NoFile}
        \/ secrets = [kind |-> "manifest", client |-> "client", secret |-> "s2"] /\ overlay = NoFile
     /\ code = "edited"
     /\ bundle = [e \in Envs |-> IF e = "prod" THEN NoFile ELSE
                    [f \in AllFiles(e) |-> IF f = "service.lock" THEN Lock(s, NoFile, e)
                                           ELSE Content(f, c)]]
     /\ packed = NoFile /\ todo = <<>> /\ env = "dev" /\ ctx = NoFile
     /\ used = [commands |-> 0, edits |-> 0, interrupts |-> 0]
     /\ touched = FALSE /\ raced = [e \in Envs |-> FALSE]
     /\ registry = <<{"r1"}>> /\ release = 1
     /\ configMap = BentomlConfig(c) /\ appSecret = credentials
     /\ gateway = [applied |-> c.oidc.client_id, running |-> c.oidc.client_id]
     /\ template = t /\ pods = {[template |-> t, config |-> BentomlConfig(c), image |-> 1]}
     /\ provider = credentials
     /\ deployed = "rebuilt" /\ configured = TRUE

DeploySpec == DeployInit /\ [][DeployNext]_deployVars

-------------------------------------------------------------------------------
(***************************************************************************)
(* Types, and what the cluster has only together.                          *)
(***************************************************************************)
DeployTypeOK ==
  /\ BundleTypeOK
  /\ registry \in Seq(SUBSET ({"r1", "r2"} \cup CachedSnapshots)) /\ release \in 0..Len(registry)
  /\ deployed \in {"no", "yes", "rebuilt"} /\ configured \in BOOLEAN
  /\ template # NoFile => configMap # NoFile /\ appSecret # NoFile /\ gateway # NoFile
  /\ \A p \in pods : template # NoFile /\ p.image \in 1..Len(registry)

(***************************************************************************)
(* The shell, the Containerfile and model_env.py each check the model      *)
(* settings in their own way: an image that was built starts with the      *)
(* settings it was built for, whichever alias of the source is written.    *)
(***************************************************************************)
BuiltImageStarts ==
  [][registry' # registry =>
       CanStart(Dev("bentoml-config.yaml"), registry'[Len(registry')])]_deployVars

(***************************************************************************)
(* app.sh, RESET SAFETY: bootstrap deletes the namespace only once there   *)
(* is a release, of an image that starts, to put in its place.             *)
(***************************************************************************)
BootstrapKeepsAWayBack ==
  [][At("reset") /\ "use release" \in {todo[i] : i \in DOMAIN todo} /\ pods' # pods
       => release # 0 /\ CanStart(Dev("bentoml-config.yaml"), registry[release])]_deployVars

(***************************************************************************)
(* When `make deploy DEPLOY_ARGS=--rebuild` reports that it is done, every *)
(* pod runs the image it built with the settings it applied, also the pods *)
(* the autoscaler added meanwhile.                                         *)
(***************************************************************************)
RebuildTakesEffect ==
  deployed = "rebuilt" =>
    \A p \in pods : p.config = configMap /\ p.image = Len(registry)

(***************************************************************************)
(* docs/inference-workers.md:24: `make render`, `make deploy` is how a     *)
(* changed setting reaches the workers.  It does not when nothing else     *)
(* changes: the ConfigMap is not part of the pod template, so no pod       *)
(* restarts, and pods the autoscaler adds later differ from the others.    *)
(***************************************************************************)
DeployTakesEffect ==
  deployed # "no" => \A p \in pods : p.config = configMap

(***************************************************************************)
(* After configure succeeded, a script or test gets a token that the       *)
(* gateway accepts, as long as secrets.local.yaml is what was applied and  *)
(* the bundle, which names the client, is the one deployed: four copies of *)
(* the client and secret (file, Secret, Authentik, gateway) agree.         *)
(***************************************************************************)
ToolsGetTokens ==
  /\ configured /\ gateway # NoFile
  /\ secrets # NoFile /\ appSecret = [client |-> secrets.client, secret |-> secrets.secret]
  /\ Has("dev", "deploy.env") /\ Dev("deploy.env").oidc.client_id = appSecret.client
  /\ gateway.applied = appSecret.client
  => GetToken(ResolveServiceContext(<<>>, <<>>, Dev("deploy.env"), secrets), provider)
       = gateway.running
===============================================================================
