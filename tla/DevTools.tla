------------------------------- MODULE DevTools -------------------------------
(***************************************************************************)
(* ml_platform/devtools: where scripts and tests find the service they     *)
(* talk to.  Command line arguments win over the environment, which wins   *)
(* over generated/dev/deploy.env and secrets.local.yaml, which win over    *)
(* the defaults.  environ and args map names to values; a name without a   *)
(* value is not in environ, and empty or not in args.                      *)
(***************************************************************************)
EXTENDS ServiceConfig

LoadDeployEnv(deployEnv) ==
  IF deployEnv = NoFile THEN <<>>
  ELSE [PF_PORT |-> deployEnv.ports.api, AUTHENTIK_PF_PORT |-> deployEnv.ports.authentik,
        NAMESPACE |-> deployEnv.namespace, OIDC_CLIENT_ID |-> deployEnv.oidc.client_id]

\* stringData.oidc-client-secret of a manifest, or oidc_client_secret of a mapping.
LoadOidcSecret(environ, secretsFile) ==
  GetOr(environ, "AUTH_CLIENT_SECRET", IF secretsFile = NoFile THEN "" ELSE secretsFile.secret)

LoadServiceContext(environ, deployEnv, secretsFile) ==
  LET deploy == LoadDeployEnv(deployEnv)
  IN [namespace |-> Get(deploy, "NAMESPACE", ServiceId),
      base_url |-> Get(environ, "BASE_URL", Get(deploy, "PF_PORT", 8080)),
      auth_token_url |-> Get(environ, "AUTH_TOKEN_URL", Get(deploy, "AUTHENTIK_PF_PORT", 9001)),
      auth_client_id |-> Get(deploy, "OIDC_CLIENT_ID", ServiceId \o "-api"),
      auth_client_secret |-> LoadOidcSecret(environ, secretsFile)]

\* ServiceContext.with_overrides, by the arguments of add_service_arguments.
WithOverrides(context, args) == [field \in DOMAIN context |-> GetOr(args, field, context[field])]

\* The secret argument takes its default from the environment once more.
ResolveServiceContext(environ, args, deployEnv, secretsFile) ==
  WithOverrides(LoadServiceContext(environ, deployEnv, secretsFile),
                Overridden([auth_client_secret |-> Get(environ, "AUTH_CLIENT_SECRET", "")], args))

\* get_token: Authentik gives a token to the client and secret it knows, for
\* that audience; anything else raises.
GetToken(context, provider) ==
  IF provider # NoFile /\ provider = [client |-> context.auth_client_id,
                                      secret |-> context.auth_client_secret]
  THEN context.auth_client_id ELSE ""
===============================================================================
