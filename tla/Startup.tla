------------------------------- MODULE Startup -------------------------------
(***************************************************************************)
(* The life of the process: Config::from_env (src/config.rs), the steps of *)
(* main (src/main.rs) with the engine factory (src/engine/mod.rs) and the  *)
(* mTLS material (src/mtls.rs), the HTTP task beside it, and signals.      *)
(*                                                                         *)
(* An environment is a record of its variables; "" stands for one that is  *)
(* unset or empty, "good" and "bad" for values that are and are not well   *)
(* formed.  The letter case of CUSTODY_PROVIDER is folded already.         *)
(***************************************************************************)
EXTENDS Naturals, TLC

CONSTANT Environment  \* the environments to explore

VARIABLES
    env,      \* the environment of this process
    main,     \* where main is
    http,     \* the HTTP task: none, spawned, listening, draining, down
    service,  \* the MpcService as built so far
    peers     \* whether clients hold gRPC connections open, calls aside

processVars == <<env, main, http, service, peers>>

NoService == [verifier |-> FALSE, wallet |-> FALSE, engine |-> "none",
              sink |-> FALSE, tls |-> FALSE]

-----------------------------------------------------------------------------
(* Configuration.                                                          *)

\* env_parse::<bool>: Rust parses "true" and "false"; all else is the default.
env_flag(value) == value = "true"

\* env_parse::<usize>: what is not a number gives the default.
env_number(value, default) ==
    IF \E n \in 0..9 : ToString(n) = value
    THEN CHOOSE n \in 0..9 : ToString(n) = value ELSE default

\* An unknown provider is no provider, and no provider is the in-house engine.
parse(value) ==
    IF value \in {"fireblocks", "dfns", "turnkey"} THEN value ELSE "in_house"

\* An unreadable file is no key.
load_secret_file(path) == IF path = "unreadable" THEN "" ELSE path

from_env(e) ==
    [policy_engine_pubkey |-> e.POLICY_ENGINE_PUBKEY,
     wallet_management_url |-> e.WALLET_MANAGEMENT_URL,
     custody_provider |-> parse(e.CUSTODY_PROVIDER),
     custody_api_key |-> e.CUSTODY_API_KEY,
     custody_api_secret_key |->
         IF e.CUSTODY_API_SECRET_KEY # "" THEN e.CUSTODY_API_SECRET_KEY
         ELSE load_secret_file(e.CUSTODY_API_SECRET_KEY_PATH),
     custody_organization_id |-> e.CUSTODY_ORGANIZATION_ID,
     custody_api_private_key |-> e.CUSTODY_API_PRIVATE_KEY,
     custody_service_account_key |-> e.CUSTODY_SERVICE_ACCOUNT_KEY,
     custody_service_account_secret |-> e.CUSTODY_SERVICE_ACCOUNT_SECRET,
     kafka_brokers |-> e.KAFKA_BROKERS,
     dev_mode |-> env_flag(e.DEV_MODE),
     node_signing_key |-> e.NODE_SIGNING_KEY,
     threshold_t |-> env_number(e.THRESHOLD_T, 2),
     total_n |-> env_number(e.TOTAL_N, 3)]

FireblocksFromConfig(cfg) ==
    /\ cfg.custody_api_key # ""
    /\ cfg.custody_api_secret_key = "good"

\* The API key has to be the public half of the private key.
TurnkeyFromConfig(cfg) ==
    /\ cfg.custody_organization_id # ""
    /\ cfg.custody_api_private_key = "good"
    /\ cfg.custody_api_key = "good"

DfnsFromConfig(cfg) ==
    /\ cfg.custody_api_key # ""
    /\ cfg.custody_service_account_key # ""
    /\ cfg.custody_service_account_secret = "good"

\* ThresholdEngine::new, which is Cluster::new for both curves.
ThresholdEngineNew(cfg) ==
    cfg.threshold_t # 0 /\ cfg.threshold_t <= cfg.total_n

\* Whether the engine of the chosen provider can be built.
build_engine(cfg) ==
    CASE cfg.custody_provider = "in_house" -> ThresholdEngineNew(cfg)
      [] cfg.custody_provider = "fireblocks" -> FireblocksFromConfig(cfg)
      [] cfg.custody_provider = "dfns" -> DfnsFromConfig(cfg)
      [] cfg.custody_provider = "turnkey" -> TurnkeyFromConfig(cfg)

\* No brokers, or none to be reached, is for development only.
AuditSinkOf(cfg) ==
    IF cfg.kafka_brokers = "good" THEN "sink"
    ELSE IF cfg.dev_mode THEN "none" ELSE "error"

OrElse(first, second) == IF first # "" THEN first ELSE second

\* MtlsMaterial::from_env, which reads DEV_MODE its own way: all three files,
\* or none and DEV_MODE exactly "1".
MtlsFromEnv(e) ==
    LET trio == <<OrElse(e.MTLS_CERT, e.TLS_CERT_FILE),
                  OrElse(e.MTLS_KEY, e.TLS_KEY_FILE),
                  OrElse(e.MTLS_CA, e.TLS_CA_FILE)>>
    IN  CASE \A i \in 1..3 : trio[i] = "good" -> "material"
          [] \A i \in 1..3 : trio[i] = "" ->
                 IF e.DEV_MODE = "1" THEN "none" ELSE "error"
          [] OTHER -> "error"

-----------------------------------------------------------------------------
(* main.                                                                   *)

StartupInit ==
    /\ env \in Environment
    /\ main = "verifier"
    /\ http = "none"
    /\ service = NoService
    /\ peers = FALSE

\* The process ends, and with it every task and all its memory.
End ==
    /\ main' = "exited"
    /\ http' = "none"
    /\ service' = NoService
    /\ peers' = FALSE
    /\ UNCHANGED env

Continue(place, built) ==
    /\ main' = place
    /\ service' = built
    /\ UNCHANGED <<env, http, peers>>

\* A stage of start-up: its result is wired in, or the process ends.
Stage(place, next, succeeds, built) ==
    /\ main = place
    /\ IF succeeds THEN Continue(next, built) ELSE End

BuildVerifier ==
    LET pk == from_env(env).policy_engine_pubkey
    IN  Stage("verifier", "wallet", pk # "bad",
              [service EXCEPT !.verifier = (pk # "")])

\* The channel is lazy: only the URL can be wrong.
BuildWallet ==
    LET url == from_env(env).wallet_management_url
    IN  Stage("wallet", "engine", url # "bad",
              [service EXCEPT !.wallet = (url # "")])

BuildEngine ==
    LET cfg == from_env(env)
    IN  Stage("engine", "audit", build_engine(cfg),
              [service EXCEPT !.engine = cfg.custody_provider])

\* AuditSigner::new, then the sink.
BuildAudit ==
    LET cfg == from_env(env)
    IN  Stage("audit", "http",
              cfg.node_signing_key # "bad" /\ AuditSinkOf(cfg) # "error",
              [service EXCEPT !.sink = (AuditSinkOf(cfg) = "sink")])

\* The port is bound and the HTTP task spawned before mTLS is looked at.
BindHttp ==
    /\ main = "http"
    /\ \/ End
       \/ /\ main' = "tls"
          /\ http' = "spawned"
          /\ UNCHANGED <<env, service, peers>>

LoadTls ==
    Stage("tls", "bind", MtlsFromEnv(env) # "error",
          [service EXCEPT !.tls = (MtlsFromEnv(env) = "material")])

\* serve: bind, and from here on listen for a shutdown signal.
BindGrpc ==
    /\ main = "bind"
    /\ \/ End
       \/ Continue("serving", service)

\* Mutant: main joins the HTTP task.
JoinHttp(inFlight) ==
    /\ main = "draining" /\ inFlight = {} /\ ~peers /\ http = "down"
    /\ End

\* serve_with_shutdown returns when its calls have ended and its connections
\* are closed, for which it sets no limit; the HTTP task is aborted, not joined.
Drained(inFlight) ==
    /\ main = "draining" /\ inFlight = {} /\ ~peers
    /\ End

Main(inFlight) ==
    \/ BuildVerifier \/ BuildWallet \/ BuildEngine \/ BuildAudit
    \/ BindHttp \/ LoadTls \/ BindGrpc \/ Drained(inFlight)

\* The task's first poll installs its handlers of SIGINT and SIGTERM.
HttpTask ==
    /\ \/ http = "spawned" /\ http' = "listening"
       \/ http = "draining" /\ http' = "down"
    /\ UNCHANGED <<env, main, service, peers>>

\* External: clients connect while the listener is open, and close when they
\* like.
Clients ==
    /\ \/ main = "serving" /\ ~peers /\ peers' = TRUE
       \/ peers /\ peers' = FALSE
    /\ UNCHANGED <<env, main, http, service>>

\* SIGTERM or SIGINT.  It ends a process that has no handler yet; otherwise
\* it reaches the listeners there are, and only those.
Signal ==
    IF http \in {"none", "spawned"} /\ main \notin {"serving", "draining"}
    THEN main # "exited" /\ End
    ELSE /\ main' = IF main = "serving" THEN "draining" ELSE main
         /\ http' = IF http = "listening" THEN "draining" ELSE http
         /\ UNCHANGED <<env, service, peers>>

Crash == main # "exited" /\ End

Start ==
    /\ main = "exited"
    /\ env' \in Environment
    /\ main' = "verifier"
    /\ UNCHANGED <<http, service, peers>>
=============================================================================
