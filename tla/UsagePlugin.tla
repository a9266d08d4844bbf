------------------------------ MODULE UsagePlugin -----------------------------
(***************************************************************************)
(* The gateway: KrakenD with the usage plugin (gateway/plugin/main.go)     *)
(* around it.  The plugin reads a name from the token before KrakenD has   *)
(* verified it, lets KrakenD answer into a recorder, forwards the answer,  *)
(* and leaves one row in api_usage to a goroutine.  KrakenD is modelled by *)
(* what the plugin relies on: it answers for itself when the path, the     *)
(* token or the rate limit is wrong or the backend is slow, and passes the *)
(* backend's answer on otherwise.                                          *)
(***************************************************************************)
EXTENDS Integers, FiniteSets

CONSTANTS
  Requests,
  Tracked,    \* paths in the configuration of the plugin
  Endpoint,   \* the label inferenceEndpoint gives to each path
  Protected,  \* paths KrakenD forwards, to callers it has verified only
  Ticks,      \* lengths of time that may pass, in seconds
  MaxClock,   \* bound on the clock
  MaxFaults   \* bound on outages of the database and of the gateway

ASSUME UsageAssumption ==
  /\ Ticks \subseteq Nat \ {0} /\ {MaxClock, MaxFaults} \subseteq Nat

VARIABLES
  ask,      \* what each request brings: its token and path
  stage,    \* how far it is
  answer,   \* status code KrakenD, or the backend, gave it
  api_usage,\* rows of the table
  database, \* whether PostgreSQL answers
  handle,   \* whether the plugin's db is set
  faults,   \* outages so far
  struck,   \* history: requests a fault may have taken the row from
  clock     \* seconds

usageVars == <<ask, stage, answer, api_usage, database, handle, faults, struck, clock>>

\* A token: claims is the name in it, "" if it does not decode; verified is
\* what KrakenD finds about its signature, issuer and audience.
Tokens == {t \in [claims : STRING, verified : BOOLEAN] : t.verified => t.claims # ""}

-------------------------------------------------------------------------------
\* decodeJWTUsername(extractBearerToken(req)): nothing is verified here.
DecodeJWTUsername(token) == token.claims

MatchPath(path) == path \in Tracked

\* Variant: the database counts as there once it has answered.
InitDatabaseAfterPing(up) == up

\* initDatabase sets db before the ping; if that fails the pool reconnects.
InitDatabase(up) == TRUE

UsageInit ==
  /\ stage = [r \in Requests |-> "new"]
  /\ answer = [r \in Requests |-> 0]
  /\ api_usage = {}
  /\ database \in BOOLEAN
  /\ handle = InitDatabase(database)
  /\ faults = 0 /\ struck = {} /\ clock = 0

\* KrakenD has answered into the recorder: the answer is forwarded, and if there
\* is a name a goroutine is started.
Answer(r, status) ==
  /\ answer' = [answer EXCEPT ![r] = status]
  /\ stage' = [stage EXCEPT ![r] =
                 IF MatchPath(ask[r].path) /\ DecodeJWTUsername(ask[r].token) # ""
                 THEN "recording" ELSE "done"]
  /\ UNCHANGED <<ask, api_usage, database, handle, faults, struck, clock>>

\* KrakenD answers itself: no such path, an unverified token, too many requests.
Refuse(r) ==
  /\ stage[r] = "new"
  /\ IF ask[r].path \notin Protected THEN Answer(r, 404)
     ELSE Answer(r, 503) \/ (~ask[r].token.verified /\ Answer(r, 401))

Proxy(r) ==
  /\ stage[r] = "new"
  /\ ask[r].path \in Protected /\ ask[r].token.verified
  /\ stage' = [stage EXCEPT ![r] = "proxied"]
  /\ UNCHANGED <<ask, answer, api_usage, database, handle, faults, struck, clock>>

\* The backend answers in time; what it does is another module's.
Backend(r, status) == stage[r] = "proxied" /\ Answer(r, status)

\* KrakenD's timeout for the backend is over; the backend goes on.
Timeout(r) == stage[r] = "proxied" /\ Answer(r, 504)

Row(r) ==
  [id |-> r, timestamp |-> clock, username |-> DecodeJWTUsername(ask[r].token),
   endpoint_type |-> Endpoint[ask[r].path], status_code |-> answer[r], url_path |-> ask[r].path]

\* recordUsage.  The time is that of the INSERT.
RecordUsage(r) ==
  /\ stage[r] = "recording" /\ stage' = [stage EXCEPT ![r] = "done"]
  /\ api_usage' = IF handle /\ database THEN api_usage \cup {Row(r)} ELSE api_usage
  /\ struck' = IF database THEN struck ELSE struck \cup {r}
  /\ UNCHANGED <<ask, answer, database, handle, faults, clock>>

-------------------------------------------------------------------------------
Fault == faults < MaxFaults /\ faults' = faults + 1

\* The process ends: callers see no answer, goroutines are gone.
GatewayRestarts ==
  LET inFlight == {r \in Requests : stage[r] \notin {"new", "done"}}
  IN /\ Fault
     /\ stage' = [r \in Requests |-> IF r \in inFlight THEN "done" ELSE stage[r]]
     /\ struck' = struck \cup inFlight
     /\ handle' = InitDatabase(database)
     /\ UNCHANGED <<ask, answer, api_usage, database, clock>>

DatabaseChanges ==
  /\ database => Fault
  /\ ~database => UNCHANGED faults
  /\ database' = ~database
  /\ UNCHANGED <<ask, stage, answer, api_usage, handle, struck, clock>>

Tick ==
  /\ \E t \in Ticks : clock + t <= MaxClock /\ clock' = clock + t
  /\ UNCHANGED <<ask, stage, answer, api_usage, database, handle, faults, struck>>

GatewayNext ==
  \/ \E r \in Requests :
       Refuse(r) \/ Proxy(r) \/ Timeout(r) \/ RecordUsage(r)
  \/ GatewayRestarts \/ DatabaseChanges \/ Tick
===============================================================================
