------------------------------ MODULE Configuration ------------------------------
(***************************************************************************)
(* How a number of a YAML file reaches a service: the file is read when    *)
(* the service starts, ${VAR:-default} is expanded from the environment,   *)
(* the text is unmarshalled and zero values are replaced.  The five        *)
(* services have loaders of their own, which differ in what an empty       *)
(* variable is, and in whether the built-in value comes before or after    *)
(* the text.  Each service has a file of its own; the environment is one.  *)
(* One number, and the services that read it, at a time.                   *)
(***************************************************************************)
EXTENDS Naturals, FiniteSets

\* The numbers whose zero each loader replaces after it unmarshalled the text.
GatewayDefaults == {"cache_ttl_seconds", "postgres.port", "gateway.max_open_conns",
                    "gateway.max_idle_conns", "gateway.conn_max_lifetime",
                    "gateway.connect_timeout_ms"}
EngineDefaults  == {"engine.metrics.port", "engine.health.port", "worker_pool_size",
                    "max_concurrent_risk_calls", "call_timeout_ms", "failure_threshold",
                    "success_threshold", "open_duration_ms", "fallback_risk_score",
                    "state_ttl_seconds", "failures_ttl_seconds", "approve_below",
                    "decline_above", "redis.port", "risk_service.port"}
PersistenceDefaults == {"postgres.port", "persistence.max_open_conns",
                    "persistence.max_idle_conns", "persistence.conn_max_lifetime",
                    "persistence.connect_timeout_ms", "max_batch_size", "flush_interval_ms",
                    "persistence.max_attempts", "persistence.initial_delay_ms",
                    "persistence.multiplier", "persistence.max_delay_ms",
                    "persistence.metrics.port", "persistence.health.port"}
NotifierDefaults == {"notifier.max_attempts", "notifier.initial_delay_ms",
                    "notifier.multiplier", "notifier.max_delay_ms",
                    "notifier.metrics.port", "notifier.health.port"}

\* The numbers the risk service has before it unmarshals the text.
RiskPresets == {"risk.grpc.port", "max_concurrent_streams", "risk.metrics.port",
                "risk.health.port", "approve_below", "decline_above",
                "contributing_factor_threshold", "request_timeout_ms"}

\* Numbers of the gateway that nothing replaces, and the two secrets it needs.
GatewayBare   == {"requests_per_second", "burst", "idempotency.ttl_seconds",
                  "amount_max_minor", "terminal_id_max_length", "merchant_id_max_length",
                  "gateway.grpc.port", "redis.port"}
GatewaySecrets == {"pan_hashing.secret_env", "admin.secret_env"}

\* The numbers whose text is ${VAR:-default}, as the files are shipped.
Substituted == {"requests_per_second", "burst", "gateway.grpc.port", "redis.port",
                "postgres.port", "gateway.max_open_conns", "gateway.max_idle_conns",
                "engine.metrics.port", "engine.health.port", "worker_pool_size",
                "risk_service.port", "persistence.max_open_conns",
                "persistence.max_idle_conns", "persistence.metrics.port",
                "persistence.health.port", "notifier.metrics.port", "notifier.health.port",
                "risk.grpc.port", "max_concurrent_streams", "risk.metrics.port",
                "risk.health.port"}

Settings == GatewayDefaults \cup GatewayBare \cup GatewaySecrets \cup EngineDefaults
            \cup PersistenceDefaults \cup NotifierDefaults \cup RiskPresets

ReadBy(x) == {s \in {"gateway", "engine", "persistence", "notifier", "risk"} :
                 \/ s = "gateway" /\ x \in GatewayDefaults \cup GatewayBare \cup GatewaySecrets
                 \/ s = "engine" /\ x \in EngineDefaults
                 \/ s = "persistence" /\ x \in PersistenceDefaults
                 \/ s = "notifier" /\ x \in NotifierDefaults
                 \/ s = "risk" /\ x \in RiskPresets}

\* What may stand in a file, or in the variable it names: "builtin" is the
\* number that the code would take without it, "other" any other above zero.
Texts  == {"absent", "empty", "zero", "negative", "builtin", "other", "word"}
EnvTexts == (Texts \ {"absent"}) \cup {"unset"}
Loaded == {"zero", "negative", "builtin", "other"}

VARIABLES setting,    \* the number at hand
          file,       \* file[s]: its text, or its default, in the file of service s
          env,        \* the variable that the files name, the same for all
          launched,   \* launched[s]: "down", "failed", or the value the process has
          fresh       \* the services that loaded the present file and environment

configVars == <<setting, file, env, launched, fresh>>

ConfigTypeOK ==
    /\ setting \in Settings
    /\ file \in [ReadBy(setting) -> Texts] /\ env \in EnvTexts
    /\ launched \in [ReadBy(setting) -> {"down", "failed"} \cup Loaded]
    /\ fresh \subseteq ReadBy(setting)

\* As shipped: every number is what the code has built in, and the file of the
\* engine has no decision_thresholds.
Shipped(s) == IF s = "engine" /\ setting \in {"approve_below", "decline_above"}
              THEN "absent" ELSE "builtin"

ConfigInit ==
    /\ setting \in Settings
    /\ file = [s \in ReadBy(setting) |-> Shipped(s)] /\ env = "unset"
    /\ launched = [s \in ReadBy(setting) |-> "down"] /\ fresh = {}

-------------------------------------------------------------------------------
(* Loading.                                                                *)

Names(s) == setting \in Substituted /\ file[s] # "absent"

\* expandEnv of the gateway: a variable that is set counts, empty or not.
ExpandGateway ==
    IF Names("gateway") /\ env # "unset" THEN env ELSE file["gateway"]

\* expandEnv of the other four: an empty variable does not count.
ExpandOther(s) == IF Names(s) /\ env \notin {"unset", "empty"} THEN env ELSE file[s]

\* yaml.Unmarshal leaves what was there if the key is absent or its value null.
Unmarshal(text, before) == CASE text \in {"absent", "empty"} -> before
                             [] text = "word" -> "failed"
                             [] OTHER -> text

\* applyDefaults.
ReplaceZero(value, here) == IF value = "zero" /\ here THEN "builtin" ELSE value

\* What a bug would do: fill in the defaults before the text is unmarshalled.
LoadEngineDefaultsFirst == Unmarshal(ExpandOther("engine"), "builtin")

LoadEngine ==
    ReplaceZero(Unmarshal(ExpandOther("engine"), "zero"), setting \in EngineDefaults)

LoadPersistence ==
    ReplaceZero(Unmarshal(ExpandOther("persistence"), "zero"), setting \in PersistenceDefaults)

LoadNotifier ==
    ReplaceZero(Unmarshal(ExpandOther("notifier"), "zero"), setting \in NotifierDefaults)

\* The presets come first, and a gRPC port of zero is refused.
LoadRisk == LET value == Unmarshal(ExpandOther("risk"), "builtin") IN
            IF setting = "risk.grpc.port" /\ value = "zero" THEN "failed" ELSE value

\* A secret is named by the file and must be set to something; it is no number,
\* and not read here.
LoadGateway ==
    IF setting \in GatewaySecrets
    THEN IF file["gateway"] \in {"absent", "empty"} \/ env \in {"unset", "empty"}
         THEN "failed" ELSE "other"
    ELSE ReplaceZero(Unmarshal(ExpandGateway, "zero"), setting \in GatewayDefaults)

LoadedBy(s) == CASE s = "gateway"     -> LoadGateway
                 [] s = "engine"      -> LoadEngine
                 [] s = "persistence" -> LoadPersistence
                 [] s = "notifier"    -> LoadNotifier
                 [] s = "risk"        -> LoadRisk

\* make(chan, n) and time.NewTicker panic: the process is gone.
Panics(value) == /\ value = "negative"
                 /\ setting \in {"worker_pool_size", "max_concurrent_risk_calls",
                                 "flush_interval_ms"}

\* A service is started, or started again.
Launch(s) ==
    /\ launched' = [launched EXCEPT ![s] = IF Panics(LoadedBy(s)) THEN "failed"
                                           ELSE LoadedBy(s)]
    /\ fresh' = fresh \cup {s} /\ UNCHANGED <<setting, file, env>>

\* A file or the environment is changed; a process that runs does not notice.
EditFile(s) ==
    /\ \E text \in Texts \ {file[s]} : file' = [file EXCEPT ![s] = text]
    /\ fresh' = fresh \ {s} /\ UNCHANGED <<setting, env, launched>>

SetVariable ==
    /\ setting \in Substituted \cup GatewaySecrets
    /\ env' \in EnvTexts \ {env}
    /\ fresh' = {} /\ UNCHANGED <<setting, file, launched>>

ConfigNext == (\E s \in ReadBy(setting) : Launch(s) \/ EditFile(s)) \/ SetVariable

ConfigSpec == ConfigInit /\ [][ConfigNext]_configVars

-------------------------------------------------------------------------------
(* Properties.                                                             *)

Runs(s) == launched[s] \notin {"down", "failed"}

\* What the operator means: the variable, if it is set to something, before the
\* text, and the built-in number where neither says anything.
Meant(s) == IF ExpandOther(s) \in {"absent", "empty"} THEN "builtin" ELSE ExpandOther(s)

\* A zero is taken for a zero by the risk service, and by the gateway in the
\* numbers that have no default.
KeepsZero(s) == s = "risk" \/ (s = "gateway" /\ setting \in GatewayBare)

\* The gateway is told nothing where the others would know what is meant: its
\* variable is set to nothing, or a number without a default is not given.
Unheard == /\ ExpandGateway \in {"absent", "empty"}
           /\ env = "empty" \/ setting \in GatewayBare

\* However the five files, the environment and the restarts went, no process has
\* a zero but the risk service and the gateway in a number without a default,
\* and what is meant is a zero then, or the gateway was told nothing.  Two
\* services that read the same number, both started since it was last edited,
\* have the same where their files mean the same: the thresholds (engine and
\* risk service), the ports of Redis (gateway and engine) and of Postgres
\* (gateway and persistence); except for an explicit zero, which only one of
\* them keeps, and a gateway that was told nothing (fraud-engine config.go:197,
\* risk-service config.go:118, api-gateway config.go:337).
LoadersAgree ==
    /\ \A s \in ReadBy(setting) : launched[s] = "zero" => KeepsZero(s)
    /\ \A s \in fresh : launched[s] = "zero" =>
           Meant(s) = "zero" \/ (s = "gateway" /\ Unheard)
    /\ \A s, r \in fresh : Runs(s) /\ Runs(r) /\ Meant(s) = Meant(r) =>
           \/ launched[s] = launched[r]
           \/ Meant(s) = "zero" /\ KeepsZero(s) # KeepsZero(r)
           \/ "gateway" \in {s, r} /\ Unheard
==================================================================================
