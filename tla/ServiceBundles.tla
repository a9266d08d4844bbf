----------------------------- MODULE ServiceBundles ---------------------------
(***************************************************************************)
(* The generator (ml_platform/generator) as make runs it on one service:   *)
(* onboard (scaffold.py), render (render.py), validate.py, verify_prod.py  *)
(* and the packing of a prod bundle.  A command is the list of steps it    *)
(* still has to do, each of them one file written or one check; a step     *)
(* that raises, or an interrupt, ends the command and leaves the files as  *)
(* they are.  Between any two steps the maintainer may edit the files that *)
(* are written by hand.                                                    *)
(***************************************************************************)
EXTENDS ServiceConfig, FiniteSets, FiniteSetsExt

CONSTANTS
  Overlays,      \* what prod.overlay.yaml may be filled with
  MaxCommands,   \* bound on commands run
  MaxEdits,      \* bound on edits by hand
  MaxInterrupts, \* bound on commands cut short
  MaxRemoved     \* bound on files gone when rmtree is cut short

ASSUME BundleAssumption == {MaxCommands, MaxEdits, MaxInterrupts, MaxRemoved} \subseteq Nat

VARIABLES
  dir,      \* whether services/<id> exists
  service,  \* service.yaml
  example,  \* prod.overlay.yaml.example
  overlay,  \* prod.overlay.yaml
  secrets,  \* secrets.local.yaml
  code,     \* src/models/<id>.py
  bundle,   \* generated/<env>, the files that exist by name
  packed,   \* generated/prod-bundle.tar.gz
  todo,     \* steps left of the running command
  env,      \* its --env
  ctx,      \* the context render has built, or NoFile
  used,     \* commands, edits and interrupts so far
  touched,  \* history: inputs edited since ctx was built
  raced     \* history: inputs edited while the bundle was rendered

Has(e, file) == bundle[e] # NoFile /\ file \in DOMAIN bundle[e]

sources == <<service, example, overlay, secrets, code>>
command == <<todo, env, ctx>>
bundleVars == <<dir, sources, bundle, packed, command, used, touched, raced>>

Envs == {"dev", "prod"}

-------------------------------------------------------------------------------
\* What is written into each file of a bundle.

\* Templates of 01-redis, 02-bentoml, 03-postgresql, 04-krakend, 07-hpa, and
\* the ingress of the environment.  The prod one is rendered even if disabled.
K8sManifests(c) ==
  [namespace |-> c.namespace, image |-> c.image, autoscaling |-> c.autoscaling,
   names |-> {"01", "02", "03", "04", "07"}
             \cup {IF c.env = "dev" THEN "05-ingress.dev" ELSE "05-ingress"}]

BentomlConfig(c) ==
  [source |-> c.model.source, id |-> c.model.id, revision |-> c.model.revision,
   cache_dir |-> c.model.cache_dir, worker |-> c.worker]

SecretsExample(c) == [oidc_client_id |-> c.oidc.client_id, oidc_client_secret |-> "CHANGE_ME"]

DeployEnv(c) ==
  [namespace |-> c.namespace, image |-> c.image, model |-> c.model, oidc |-> c.oidc,
   ports |-> c.ports]

ApplyOrder(c) ==
  [namespace |-> c.namespace,
   names |-> {"01", "02", "03", "04", "07"}
             \cup (IF c.ingress.enabled THEN {"05-ingress"} ELSE {})]

Preflight(c) == [namespace |-> c.namespace, image |-> c.image, api_port |-> c.ports.api]

UsageReportTools(c) == [namespace |-> c.namespace]

Content(file, c) ==
  CASE file = "k8s" -> K8sManifests(c)
    [] file = "bentoml-config.yaml" -> BentomlConfig(c)
    [] file = "secrets.yaml.example" -> SecretsExample(c)
    [] file = "deploy.env" -> DeployEnv(c)
    [] file = "apply-order.txt" -> ApplyOrder(c)
    [] file = "preflight-checklist.md" -> Preflight(c)
    [] file = "usage-report" -> UsageReportTools(c)
    [] OTHER -> c.gateway_settings

\* Variant: the lock is written as soon as the inputs are known.
FilesLockFirst(e) ==
  <<"service.lock", "k8s", "gateway-settings.json">>
  \o (IF e = "dev" THEN <<"gateway-settings.dev-workaround.json">> ELSE <<>>)
  \o <<"bentoml-config.yaml", "secrets.yaml.example", "deploy.env", "apply-order.txt",
       "preflight-checklist.md", "usage-report">>

\* render_service, in the order of its writes.
Files(e) ==
  <<"k8s", "gateway-settings.json">>
  \o (IF e = "dev" THEN <<"gateway-settings.dev-workaround.json">> ELSE <<>>)
  \o <<"bentoml-config.yaml", "secrets.yaml.example", "deploy.env", "apply-order.txt",
       "preflight-checklist.md", "usage-report", "service.lock">>

AllFiles(e) == {Files(e)[i] : i \in DOMAIN Files(e)}

\* Variant: the overlay is left out of the hash.
LockWithoutOverlay(s, o, e) == <<s, NoFile, e>>

\* _compute_lock: a hash of service.yaml, of prod.overlay.yaml if it exists, of
\* the environment and of the templates.  Neither the .example nor config.yaml.
Lock(s, o, e) == <<s, o, e>>

-------------------------------------------------------------------------------
\* The checks.

\* validate_service: what must be there, and a module that has the class.
ValidateErrors ==
  IF service = NoFile THEN {"service.yaml"}
  ELSE ({"service_id", "display_name", "model"} \ DOMAIN service)
       \cup (IF Namespace(service, <<>>, "dev") = "" THEN {"namespace"} ELSE {})
       \cup ({"api_port", "authentik_port", "authentik_https_port"}
             \ DOMAIN Section(service, "dev_access"))
       \cup ({"module", "class", "bento_name", "source", "id"} \ DOMAIN Section(service, "model"))
       \cup (IF code \in {"stub", "edited"} THEN {} ELSE {"module"})

Unsafe(auth) ==
  (IF auth.jwk_url \in Https /\ auth.issuer \in Https THEN {} ELSE {"https"})
  \cup (IF auth.disable_jwk_security THEN {"disable_jwk_security"} ELSE {})
  \cup (IF auth.operation_debug THEN {"operation_debug"} ELSE {})

\* _validate_prod_overlay, of the overlay or else of the example.
OverlayErrors ==
  LET file == IF overlay # NoFile THEN overlay ELSE example
      auth == [jwk_url |-> "", issuer |-> "", disable_jwk_security |-> FALSE,
               operation_debug |-> FALSE]
  IN IF file = NoFile THEN {"overlay"}
     ELSE ({"kubernetes", "auth", "ingress", "image", "registry"} \ DOMAIN file)
          \cup Unsafe(Overridden(auth, Section(file, "auth")))

\* The texts verify_prod looks at for a placeholder: .yaml, .json, .txt, .md.
Scanned(file, content) ==
  CASE file \in {"k8s", "apply-order.txt", "preflight-checklist.md"} -> {content.namespace}
    [] file = "gateway-settings.json" -> {content.jwk_url, content.issuer}
    [] OTHER -> {}

\* Variant: only the overlay is looked at for the authentication settings.
VerifyOverlayOnly ==
  LET files == bundle["prod"]
  IN OverlayErrors \cup
     IF files = NoFile THEN {"generated/prod"}
     ELSE {f \in DOMAIN files : Placeholder \in Scanned(f, files[f])}
          \cup ({"service.lock"} \ DOMAIN files)

\* verify_prod.  A gateway-settings.json that is not there is not missed.
VerifyErrors ==
  LET files == bundle["prod"]
  IN OverlayErrors \cup
     IF files = NoFile THEN {"generated/prod"}
     ELSE {f \in DOMAIN files : Placeholder \in Scanned(f, files[f])}
          \cup (IF "gateway-settings.json" \in DOMAIN files
                THEN Unsafe(files["gateway-settings.json"]) ELSE {})
          \cup ({"service.lock"} \ DOMAIN files)

-------------------------------------------------------------------------------
ScaffoldedService ==
  [service_id |-> ServiceId, display_name |-> ServiceId,
   kubernetes |-> [namespace |-> ServiceId],
   model |-> [module |-> ServiceId, class |-> ServiceId, bento_name |-> ServiceId,
              source |-> "hugging_face", id |-> "org/model", revision |-> "", cache_dir |-> ""],
   oidc |-> [application_slug |-> ServiceId, client_id |-> ServiceId \o "-api",
             provider_name |-> ServiceId \o "-provider", app_display_name |-> ServiceId],
   dev_access |-> [api_port |-> 8080, authentik_port |-> 9001, authentik_https_port |-> 9043]]

ScaffoldedExample ==
  [kubernetes |-> [namespace |-> Placeholder],
   auth |-> [jwk_url |-> Placeholder, issuer |-> Placeholder,
             disable_jwk_security |-> FALSE, operation_debug |-> FALSE],
   ingress |-> [enabled |-> TRUE, host |-> Placeholder],
   image |-> [tag |-> "latest", digest |-> ""],
   registry |-> [ghcr_owner |-> "luisfpal"]]

BundleInit ==
  /\ dir = FALSE
  /\ service = NoFile /\ example = NoFile /\ overlay = NoFile
  /\ secrets = NoFile /\ code = "absent"
  /\ bundle = [e \in Envs |-> NoFile]
  /\ packed = NoFile
  /\ todo = <<>> /\ env = "dev" /\ ctx = NoFile
  /\ used = [commands |-> 0, edits |-> 0, interrupts |-> 0]
  /\ touched = FALSE
  /\ raced = [e \in Envs |-> FALSE]

\* The command goes on with these steps; without any, it is over.
Continue(steps) ==
  /\ todo' = steps
  /\ env' = IF steps = <<>> THEN "dev" ELSE env
  /\ ctx' = IF steps = <<>> THEN NoFile ELSE ctx

At(step) == todo # <<>> /\ Head(todo) = step

\* A check passes, or raises and ends the command (and the make target).
PassIf(condition) == Continue(IF condition THEN Tail(todo) ELSE <<>>)

Spend(kind, bound) == used[kind] < bound /\ used' = [used EXCEPT ![kind] = @ + 1]

Begin(e, steps) ==
  /\ todo = <<>>
  /\ Spend("commands", MaxCommands)
  /\ todo' = steps /\ env' = e /\ ctx' = NoFile
  /\ UNCHANGED <<dir, sources, bundle, packed, touched, raced>>

Onboard == Begin("dev", <<"mkdir", "service.yaml", "overlay.example", "stub", "secrets",
                          "render", "validate">>)
RenderCommand == \E e \in Envs : Begin(e, <<"render">>)
ProdPack == Begin("prod", <<"render", "verify", "pack">>)

-------------------------------------------------------------------------------
\* scaffold, refused if the directory exists, whatever it contains.
MakeDirectory ==
  /\ At("mkdir")
  /\ dir' = TRUE
  /\ PassIf(~dir)
  /\ UNCHANGED <<sources, bundle, packed, used, touched, raced>>

Edited(changed) == touched' = (touched \/ (ctx # NoFile /\ changed))

WriteService ==
  /\ At("service.yaml")
  /\ service' = ScaffoldedService
  /\ Continue(Tail(todo))
  /\ UNCHANGED <<dir, example, overlay, secrets, code, bundle, packed, used, touched, raced>>

WriteExample ==
  /\ At("overlay.example")
  /\ example' = ScaffoldedExample
  /\ Continue(Tail(todo))
  /\ UNCHANGED <<dir, service, overlay, secrets, code, bundle, packed, used, touched, raced>>

\* Variant: the stub is written over a module that is there.
WriteStubAlways ==
  /\ At("stub")
  /\ code' = "stub"
  /\ Continue(Tail(todo))
  /\ UNCHANGED <<dir, service, example, overlay, secrets, bundle, packed, used, touched, raced>>

WriteStub ==
  /\ At("stub")
  /\ code' = IF code = "absent" THEN "stub" ELSE code
  /\ Continue(Tail(todo))
  /\ UNCHANGED <<dir, service, example, overlay, secrets, bundle, packed, used, touched, raced>>

WriteSecrets ==
  /\ At("secrets")
  /\ secrets' = IF secrets # NoFile THEN secrets
                ELSE [kind |-> "mapping", client |-> "", secret |-> Placeholder]
  /\ Continue(Tail(todo))
  /\ UNCHANGED <<dir, service, example, overlay, code, bundle, packed, used, touched, raced>>

-------------------------------------------------------------------------------
\* render_service up to build_context: nothing is touched if this raises.
Render ==
  LET file == IF env = "dev" THEN <<>> ELSE IF overlay # NoFile THEN overlay ELSE example
  IN /\ At("render")
     /\ IF service = NoFile \/ file = NoFile \/ ContextErrors(service, file, env) # {}
        THEN Continue(<<>>)
        ELSE /\ todo' = <<"clear">> \o Files(env) \o Tail(todo)
             /\ ctx' = BuildContext(service, file, env)
             /\ env' = env
     /\ touched' = FALSE
     /\ UNCHANGED <<dir, sources, bundle, packed, used, raced>>

\* Variant: the directory is made if need be, and its old files stay.
ClearKeepsFiles ==
  /\ At("clear")
  /\ bundle' = [bundle EXCEPT ![env] = IF @ = NoFile THEN <<>> ELSE @]
  /\ Continue(Tail(todo))
  /\ UNCHANGED <<dir, sources, packed, used, touched, raced>>

\* rmtree and mkdir.
Clear ==
  /\ At("clear")
  /\ bundle' = [bundle EXCEPT ![env] = <<>>]
  /\ Continue(Tail(todo))
  /\ UNCHANGED <<dir, sources, packed, used, touched, raced>>

\* A file is written into the bundle, new or over the old one.
Written(file, content) ==
  bundle' = [bundle EXCEPT ![env] =
               [f \in DOMAIN @ \cup {file} |-> IF f = file THEN content ELSE @[f]]]

WriteFile ==
  /\ todo # <<>> /\ Head(todo) \in AllFiles(env) \ {"service.lock"}
  /\ Written(Head(todo), Content(Head(todo), ctx))
  /\ Continue(Tail(todo))
  /\ UNCHANGED <<dir, sources, packed, used, touched, raced>>

\* The hash is of the files as they are now.
WriteLock ==
  /\ At("service.lock")
  /\ Written("service.lock", Lock(service, overlay, env))
  /\ raced' = [raced EXCEPT ![env] = touched]
  /\ Continue(Tail(todo))
  /\ UNCHANGED <<dir, sources, packed, used, touched>>

Validate ==
  /\ At("validate")
  /\ PassIf(ValidateErrors = {})
  /\ UNCHANGED <<dir, sources, bundle, packed, used, touched, raced>>

Verify ==
  /\ At("verify")
  /\ PassIf(VerifyErrors = {})
  /\ UNCHANGED <<dir, sources, bundle, packed, used, touched, raced>>

Pack ==
  /\ At("pack")
  /\ packed' = bundle["prod"]
  /\ Continue(Tail(todo))
  /\ UNCHANGED <<dir, sources, bundle, used, touched, raced>>

\* The command is killed, or a write fails.  rmtree may have removed some files.
Interrupt ==
  /\ todo # <<>>
  /\ Spend("interrupts", MaxInterrupts)
  /\ Continue(<<>>)
  /\ \/ UNCHANGED bundle
     \/ /\ At("clear") /\ bundle[env] # NoFile
        /\ \E removed \in UNION {kSubset(n, DOMAIN bundle[env]) : n \in 1..MaxRemoved} :
             bundle' = [bundle EXCEPT ![env] = [f \in DOMAIN @ \ removed |-> @[f]]]
  /\ UNCHANGED <<dir, sources, packed, touched, raced>>

GeneratorStep ==
  \/ MakeDirectory \/ WriteService \/ WriteExample \/ WriteStub \/ WriteSecrets
  \/ Render \/ Clear \/ WriteFile \/ WriteLock
  \/ Validate \/ Verify \/ Pack

-------------------------------------------------------------------------------
\* The maintainer.

\* service.yaml: revision, OIDC client, namespace, source of the model, batch size.
ServiceEdits(s) ==
  {[s EXCEPT !.model.revision = r] : r \in {"r1", "r2"}}
  \cup {[s EXCEPT !.oidc.client_id = "client"]}
  \cup {[s EXCEPT !.kubernetes = <<>>]}
  \cup {[s EXCEPT !.model.source = "local_dir", !.model.cache_dir = "/cache"]}
  \cup {Overridden(s, [worker |-> [inference_batch_size |-> 4]])}

EditService ==
  /\ service # NoFile
  /\ service' \in ServiceEdits(service)
  /\ Edited(TRUE)
  /\ UNCHANGED <<example, overlay, secrets, code>>

EditOverlay ==
  /\ example # NoFile
  /\ overlay' \in Overlays
  /\ Edited(env = "prod")
  /\ UNCHANGED <<service, example, secrets, code>>

\* The module is written by hand, loses its class, or no longer parses.
EditCode ==
  /\ code' \in {"edited", "renamed", "broken"}
  /\ UNCHANGED <<service, example, overlay, secrets, touched>>

\* The secret is set in the file there is, or in a copy of secrets.yaml.example.
EditSecrets ==
  /\ \/ secrets # NoFile /\ secrets' = [secrets EXCEPT !.secret = "s1"]
     \/ /\ Has("dev", "secrets.yaml.example")
        /\ secrets' = [kind |-> "manifest", secret |-> "s2",
                       client |-> bundle["dev"]["secrets.yaml.example"].oidc_client_id]
  /\ UNCHANGED <<service, example, overlay, code, touched>>

EditByHand ==
  /\ Spend("edits", MaxEdits)
  /\ EditService \/ EditOverlay \/ EditCode \/ EditSecrets
  /\ UNCHANGED <<dir, bundle, packed, command, raced>>

\* rm -r services/<id>; the model module is elsewhere and stays.
RemoveService ==
  /\ todo = <<>> /\ dir
  /\ Spend("edits", MaxEdits)
  /\ dir' = FALSE
  /\ service' = NoFile /\ example' = NoFile /\ overlay' = NoFile /\ secrets' = NoFile
  /\ bundle' = [e \in Envs |-> NoFile] /\ packed' = NoFile
  /\ UNCHANGED <<code, command, touched, raced>>

BundleNext ==
  \/ Onboard \/ RenderCommand \/ ProdPack
  \/ GeneratorStep \/ Interrupt
  \/ EditByHand \/ RemoveService

BundleSpec == BundleInit /\ [][BundleNext]_bundleVars

-------------------------------------------------------------------------------
(***************************************************************************)
(* Types: every file there is was written by the generator, a command in   *)
(* progress renders a context, and prod-bundle.tar.gz is a bundle.         *)
(***************************************************************************)
BundleTypeOK ==
  /\ {dir, touched} \cup {raced[e] : e \in Envs} \subseteq BOOLEAN
  /\ service # NoFile => dir /\ "service_id" \in DOMAIN service
  /\ overlay # NoFile => dir /\ overlay \in Overlays
  /\ secrets # NoFile => dir /\ secrets.kind \in {"mapping", "manifest"}
  /\ code \in {"absent", "stub", "edited", "renamed", "broken"}
  /\ \A e \in Envs : bundle[e] # NoFile => DOMAIN bundle[e] \subseteq AllFiles(e)
  /\ ctx # NoFile => ctx.env = env
  /\ todo = <<>> => ctx = NoFile

(***************************************************************************)
(* The files of a bundle agree with each other, whatever was edited or cut *)
(* short between two renders: one namespace; the client whose tokens the   *)
(* gateway accepts is the one the secret and the tools use; the model that *)
(* is built is the one that is served; every manifest that apply-order.txt *)
(* names is there.  A mix of two renders would deploy, and answer 401.     *)
(***************************************************************************)
BundleCoherent ==
  \A e \in Envs : bundle[e] # NoFile =>
    LET b == bundle[e]
        named == DOMAIN b \cap {"k8s", "deploy.env", "apply-order.txt",
                                "preflight-checklist.md", "usage-report"}
    IN /\ \A f, g \in named : b[f].namespace = b[g].namespace
       /\ Has(e, "gateway-settings.json") /\ Has(e, "secrets.yaml.example") =>
            b["gateway-settings.json"].audience = b["secrets.yaml.example"].oidc_client_id
       /\ Has(e, "gateway-settings.json") /\ Has(e, "deploy.env") =>
            /\ b["gateway-settings.json"].audience = b["deploy.env"].oidc.client_id
            /\ b["gateway-settings.json"].slug = b["deploy.env"].oidc.slug
       /\ Has(e, "bentoml-config.yaml") /\ Has(e, "deploy.env") =>
            b["bentoml-config.yaml"].revision = b["deploy.env"].model.revision
       /\ Has(e, "k8s") /\ Has(e, "apply-order.txt") =>
            b["apply-order.txt"].names \subseteq b["k8s"].names

(***************************************************************************)
(* service.lock appears only in a directory that has every other file.     *)
(***************************************************************************)
LockComesLast ==
  [][\A e \in Envs :
       Has(e, "service.lock")' /\ ~Has(e, "service.lock")
         => DOMAIN bundle'[e] = AllFiles(e)]_bundleVars

(***************************************************************************)
(* A lock that matches the inputs as they are now vouches for the bundle:  *)
(* its files are what render would write again.  It does not when an input *)
(* was edited during the render (the hash is taken at the end, the context *)
(* at the start) nor for a prod bundle made from the .example, which is    *)
(* not hashed.  config.yaml, not hashed either, does not change here.      *)
(***************************************************************************)
LockIdentifiesInputs ==
  \A e \in Envs :
    /\ Has(e, "service.lock") /\ ~raced[e]
    /\ bundle[e]["service.lock"] = Lock(service, overlay, e)
    /\ e = "prod" => overlay # NoFile
    => \A f \in DOMAIN bundle[e] \ {"service.lock"} :
         bundle[e][f] = Content(f, BuildContext(service, IF e = "dev" THEN <<>> ELSE overlay, e))

(***************************************************************************)
(* The bundle handed to the platform operator is complete, has no          *)
(* placeholder anywhere, reaches its identity provider over https and      *)
(* verifies its keys, although the overlay verify_prod checks may not be   *)
(* the one the bundle was rendered from.                                   *)
(***************************************************************************)
PackedBundleShips ==
  packed # NoFile =>
    /\ DOMAIN packed = AllFiles("prod")
    /\ Placeholder \notin {packed["deploy.env"].namespace, packed["usage-report"].namespace}
    /\ Unsafe(packed["gateway-settings.json"]) = {}

(***************************************************************************)
(* No command of the generator changes a file that is written by hand once *)
(* it is there, in whatever order services are onboarded, removed and      *)
(* onboarded again: README.md:20, "Hand-written files".                     *)
(***************************************************************************)
HandWrittenFilesKept ==
  [][used'.edits = used.edits =>
       /\ service # NoFile => service' = service
       /\ overlay # NoFile => overlay' = overlay
       /\ secrets # NoFile => secrets' = secrets
       /\ code # "absent" => code' = code]_bundleVars
===============================================================================
