---------------------------- MODULE MCServiceDeploy ---------------------------
EXTENDS ServiceDeploy

MCPlatform ==
  [infra_namespace |-> "infra", ghcr_owner |-> "luisfpal",
   gateway |-> [inference_rate_limit |-> 500, inference_rate_capacity |-> 500],
   worker |-> [inference_batch_size |-> 16, inference_batch_max_wait_ms |-> 100,
               worker_poll_interval_ms |-> 50],
   autoscaling |-> [k \in AutoscalingKeys |-> 1]]

Filled == [ScaffoldedExample EXCEPT !.kubernetes.namespace = "prod",
                                    !.auth.jwk_url = "https://idp", !.auth.issuer = "https://idp"]

\* Filled in, still a copy of the example, and with the keys unverified.
MCOverlays == {Filled, ScaffoldedExample, [Filled EXCEPT !.auth.disable_jwk_security = TRUE]}
===============================================================================
