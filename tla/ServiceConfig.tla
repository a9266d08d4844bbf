----------------------------- MODULE ServiceConfig ----------------------------
(***************************************************************************)
(* derive.py: how service.yaml, prod.overlay.yaml and config.yaml become   *)
(* the context every generated file is rendered from.  A YAML mapping is a *)
(* function on the keys it has.  A URL, a name or a digest is a string     *)
(* that stands for its kind; numbers are themselves.                       *)
(***************************************************************************)
EXTENDS Integers, Sequences, TLC

CONSTANTS
  ServiceId,  \* name of the directory services/<id>
  Platform    \* ml_platform/config.yaml

NoFile == [NoFile |-> TRUE]       \* stands for a file that is not there

Placeholder == "REPLACE_WITH_"    \* any text that has this in it
Https == {"https://idp"}          \* texts that start with https://
Sha256 == {"sha256:1"}            \* digests that start with sha256:

Get(mapping, key, default) ==     \* mapping.get(key, default)
  IF key \in DOMAIN mapping THEN mapping[key] ELSE default

GetOr(mapping, key, default) ==   \* mapping.get(key) or default
  LET value == Get(mapping, key, "") IN IF value = "" THEN default ELSE value

Section(mapping, key) == Get(mapping, key, <<>>)

\* {**defaults, **overrides}: @@, written out because the provers do not expand it.
Overridden(defaults, overrides) ==
  [k \in DOMAIN overrides \cup DOMAIN defaults |->
     IF k \in DOMAIN overrides THEN overrides[k] ELSE defaults[k]]

Merged(service, section) == Overridden(Section(Platform, section), Section(service, section))

LimitKeys == {"inference_rate_limit", "inference_rate_capacity"}
WorkerKeys == {"inference_batch_size", "inference_batch_max_wait_ms", "worker_poll_interval_ms"}
AutoscalingKeys == {
  "enabled", "min_replicas", "max_replicas", "cpu_target_percent",
  "cpu_request", "cpu_limit", "memory_request", "memory_limit",
  "scale_up_stabilization_seconds", "scale_up_pods_per_period", "scale_up_period_seconds",
  "scale_down_stabilization_seconds", "scale_down_pods_per_period", "scale_down_period_seconds"}

Limits(mapping, default) == [k \in LimitKeys |-> Get(mapping, k, default)]
GatewayContext(service) == Limits(Merged(service, "gateway"), 500)
WorkerContext(service) == [k \in WorkerKeys |-> Merged(service, "worker")[k]]
AutoscalingContext(service) == [k \in AutoscalingKeys |-> Merged(service, "autoscaling")[k]]

Namespace(service, overlay, env) ==
  Get(Section(IF env = "prod" THEN overlay ELSE service, "kubernetes"), "namespace", "")

\* build_context raises for any of these.
ContextErrors(service, overlay, env) ==
  (IF Get(service, "service_id", "") # ServiceId THEN {"service_id"} ELSE {})
  \cup (IF Namespace(service, overlay, env) = "" THEN {"namespace"} ELSE {})
  \cup (WorkerKeys \ DOMAIN Merged(service, "worker"))
  \cup (AutoscalingKeys \ DOMAIN Merged(service, "autoscaling"))

Owner(overlay, env) ==
  LET own == Get(Platform, "ghcr_owner", "luisfpal")
  IN IF env = "prod" THEN GetOr(Section(overlay, "registry"), "ghcr_owner", own) ELSE own

\* A digest counts only when it looks like one; else the tag, latest in dev.
Pin(overlay, env) ==
  LET image == IF env = "prod" THEN Section(overlay, "image") ELSE <<>>
      digest == GetOr(image, "digest", "")
  IN IF digest \in Sha256 THEN digest ELSE GetOr(image, "tag", "latest")

Oidc(service) ==
  LET oidc == Section(service, "oidc")
  IN [slug |-> GetOr(oidc, "application_slug", ServiceId),
      client_id |-> GetOr(oidc, "client_id", ServiceId \o "-api"),
      provider |-> GetOr(oidc, "provider_name", ServiceId \o "-provider"),
      app |-> GetOr(oidc, "app_display_name", GetOr(service, "display_name", ServiceId))]

Model(service) ==
  LET model == Section(service, "model")
  IN [module |-> Get(model, "module", ""), class |-> Get(model, "class", ""),
      source |-> Get(model, "source", "hugging_face"), id |-> Get(model, "id", ""),
      revision |-> Get(model, "revision", ""), cache_dir |-> Get(model, "cache_dir", "")]

Ports(service) ==
  LET access == Section(service, "dev_access")
  IN [api |-> Get(access, "api_port", 8080), authentik |-> Get(access, "authentik_port", 9001),
      https |-> Get(access, "authentik_https_port", 9443)]

IngressContext(overlay, env) ==
  LET ingress == Section(overlay, "ingress")
  IN IF env = "dev" THEN [enabled |-> FALSE, host |-> ""]
     ELSE [enabled |-> Get(ingress, "enabled", TRUE), host |-> Get(ingress, "host", Placeholder)]

\* In dev Authentik is inside the cluster, over plain HTTP.
DevGatewaySettings(service) ==
  [limits |-> GatewayContext(service), jwk_url |-> "http://idp", issuer |-> "http://idp",
   disable_jwk_security |-> TRUE, operation_debug |-> FALSE,
   slug |-> Oidc(service).slug, audience |-> Oidc(service).client_id]

\* The gateway section of the overlay replaces the limits, it is not merged.
ProdGatewaySettings(service, overlay) ==
  LET auth == Section(overlay, "auth")
      gateway == Section(overlay, "gateway")
  IN [limits |-> Limits(IF DOMAIN gateway = {} THEN GatewayContext(service) ELSE gateway, 100),
      jwk_url |-> Get(auth, "jwk_url", Placeholder),
      issuer |-> Get(auth, "issuer", Placeholder),
      disable_jwk_security |-> Get(auth, "disable_jwk_security", FALSE),
      operation_debug |-> Get(auth, "operation_debug", FALSE),
      slug |-> Oidc(service).slug, audience |-> Oidc(service).client_id]

BuildContext(service, overlay, env) ==
  [env |-> env,
   namespace |-> Namespace(service, overlay, env),
   image |-> <<Owner(overlay, env), ServiceId, Pin(overlay, env)>>,
   model |-> Model(service), oidc |-> Oidc(service), ports |-> Ports(service),
   ingress |-> IngressContext(overlay, env),
   worker |-> WorkerContext(service), autoscaling |-> AutoscalingContext(service),
   gateway_settings |-> IF env = "dev" THEN DevGatewaySettings(service)
                        ELSE ProdGatewaySettings(service, overlay)]
===============================================================================
