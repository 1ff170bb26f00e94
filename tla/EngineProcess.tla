--------------------------- MODULE EngineProcess ----------------------------
(***************************************************************************)
(* The engine process (grpc-server/src/main.rs, discovery_integration.rs,  *)
(* tracing_init.rs, the constructors of engine.rs and the metric families  *)
(* of the crates): what main does from start to exit under every           *)
(* environment, the tasks it spawns, and the HTTP server for the metrics.  *)
(* The environment is one record, read once; names of metric families are  *)
(* the code's without their common prefix "aether_".                       *)
(***************************************************************************)
EXTENDS Naturals, Sequences, FiniteSets

CONSTANTS
    Envs,              \* the environments the process may find
    WordLen,           \* bytes of an EVM word: 32
    MaxRestarts        \* bound: starts after the first

EnvAssumption == WordLen \in Nat \ {0} /\ MaxRestarts \in Nat

VARIABLES
    env, pc,
    registry,          \* metric families on the shared prometheus registry
    otel,              \* TracingGuard: the exporter is installed
    engine,            \* the engine's fork provider, simulation target and bytecode cache
    validator,         \* BackrunValidatorConfig of the mempool pipeline
    top_pools,         \* TOP_POOLS_PROVIDER is set
    tasks, shutdown, socket, restarts

vars == <<env, pc, registry, otel, engine, validator, top_pools, tasks, shutdown, socket,
          restarts>>

-----------------------------------------------------------------------------
\* EngineMetrics::new, in three parts.
engineFamilies ==
    {"detection_latency_ms", "simulation_latency_ms", "cycles_detected_total",
     "simulations_run_total", "arbs_published_total", "blocks_processed_total",
     "decode_errors_total", "sim_evm_fallback_total", "cycle_gate_dropped_total",
     "pending_dex_tx_total", "pending_decode_errors_total", "pending_arb_candidates_total",
     "pending_arb_sim_skipped_total", "pending_pipeline_lagged_total"}

mempoolFamilies ==
    {"mempool_filtered_total", "mempool_backrun_validation_latency_ms",
     "mempool_backrun_validated_total", "mempool_backrun_rejected_total",
     "mempool_backrun_sim_concurrent", "mempool_first_seen_to_inclusion_ms",
     "mempool_first_seen_events_total", "mempool_post_state_replay_total",
     "mempool_post_state_replay_latency_ms", "mempool_prewarm_inject_total",
     "mempool_prewarm_refresh_total", "mempool_prewarm_refresh_duration_ms",
     "mempool_prewarm_warm_pools"}

prewarmFamilies ==
    {"prewarm_bytecode_cache_hits_total", "prewarm_bytecode_rpc_fetches_total",
     "prewarm_v2_reserves_cache_hits_total", "prewarm_v2_reserves_cache_stale_total",
     "prewarm_v2_reserves_cache_missing_total", "prewarm_multicall_batches_total",
     "prewarm_multicall_v2_slots_total", "prewarm_multicall_fallbacks_total"}

\* The fields of EngineMetrics.
EngineMetrics == engineFamilies \union mempoolFamilies \union prewarmFamilies

LedgerMetrics == {"ledger_writes_total", "ledger_drops_total", "ledger_queue_depth",
                  "ledger_write_latency_ms"}

DiscoveryMetrics ==
    {"discovery_events_received", "discovery_pools_validated", "discovery_pools_rejected",
     "discovery_validation_latency_ms", "discovery_revm_validations_total",
     "discovery_volume_fetch_errors_total", "discovery_volume_fetch_duration_ms"}

HotCacheMetrics == {"hot_cache_size", "hot_cache_update_latency_ms",
                    "hot_cache_pools_added_total", "hot_cache_pools_removed_total",
                    "hot_cache_updates_total"}

MempoolIngestMetrics == {"mempool_raw_reencode_mismatch_total"}

MempoolWriterMetrics ==
    {"mempool_predictions_persisted_total", "mempool_writer_drops_total",
     "mempool_writer_queue_depth", "mempool_writer_write_latency_ms"}

\* register: a family that is there already panics the main thread.
register(families, next) ==
    IF registry \intersect families = {}
    THEN registry' = registry \union families /\ pc' = next
    ELSE registry' = registry /\ pc' = "panicked"

-----------------------------------------------------------------------------
\* ETH_RPC_URL serves the subscriptions too; the fork speaks HTTP only.
normalize_to_http_scheme(url) ==
    CASE url = "wss" -> "https" [] url = "ws" -> "http" [] OTHER -> url

NoProvider == [scheme |-> "none", timeout_ms |-> 0]

\* A timeout of 0, or a client that cannot be built, leaves requests unbounded.
build_fork_http_provider(url) ==
    [scheme |-> url, timeout_ms |-> IF env.client_builds THEN env.rpc_timeout ELSE 0]

rpc_provider ==
    LET url == normalize_to_http_scheme(env.rpc_url)
    IN  IF url \in {"unset", "invalid"} THEN NoProvider ELSE build_fork_http_provider(url)

\* EngineConfig::default with the url filled in: the executor stays the zero address.
engine_config == [rpc_url |-> env.rpc_url, executor_address |-> "zero"]

\* new_with_metrics_and_ledger
new_engine ==
    [provider |-> rpc_provider, executor_address |-> engine_config.executor_address,
     bytecode_cache |-> env.cache_opens]

NoEngine == [provider |-> NoProvider, executor_address |-> "none", bytecode_cache |-> FALSE]

\* The Aave pool's address, right-aligned in a word.
aaveWord == [i \in 1..WordLen |-> IF i = WordLen THEN "aave" ELSE "0"]

\* The mutation of inBounds: only the start is compared.
startInBounds(code, loc) == loc.length = WordLen /\ loc.start < Len(code)

inBounds(code, loc) == loc.length = WordLen /\ loc.start + loc.length <= Len(code)

\* One immutable is the pool's, and every reference to it gets the address; with
\* more than one the code is left as it is; a bad reference gives up on it.
splice_immutable_aave_pool(code, refs) ==
    IF refs = <<>> \/ Len(refs) > 1 THEN [ok |-> TRUE, code |-> code]
    ELSE [ok |-> \A loc \in refs[1] : inBounds(code, loc),
          code |-> [i \in DOMAIN code |->
                      IF \E loc \in refs[1] : i \in loc.start + 1..loc.start + loc.length
                      THEN LET loc == CHOOSE l \in refs[1] : i \in l.start + 1..l.start + l.length
                           IN  aaveWord[i - loc.start]
                      ELSE code[i]]]

NoCode == <<"none">>

\* The override of the executor's code, for forks where it is not deployed.
load_executor_runtime_bytecode(artifact) ==
    IF artifact.object = <<>> THEN NoCode
    ELSE LET spliced == splice_immutable_aave_pool(artifact.object, artifact.refs)
         IN  IF spliced.ok THEN spliced.code ELSE NoCode

NoValidator == [on |-> FALSE, provider |-> NoProvider, bytecode |-> NoCode]

build_backrun_validator_config(provider) ==
    IF ~env.executor THEN NoValidator
    ELSE [on |-> TRUE, provider |-> provider,
          bytecode |-> load_executor_runtime_bytecode(env.artifact)]

-----------------------------------------------------------------------------
Fresh(s) ==
    /\ registry = {} /\ otel = FALSE /\ engine = NoEngine /\ validator = NoValidator
    /\ top_pools = FALSE /\ tasks = <<>> /\ shutdown = FALSE /\ socket = s

Init == env \in Envs /\ pc = "tracing" /\ restarts = 0 /\ Fresh(FALSE)

spawn(names) == tasks' = [t \in DOMAIN tasks \union names |->
                            IF t \in DOMAIN tasks THEN tasks[t] ELSE "spawned"]

goes(a, b) == pc = a /\ pc' = b

\* An exporter that cannot be built is done without.
init_tracing ==
    /\ goes("tracing", "metrics") /\ otel' = (env.otlp /\ env.collector)
    /\ UNCHANGED <<env, registry, engine, validator, top_pools, tasks, shutdown, socket,
                   restarts>>

\* A port that is taken is only logged.
start_metrics_server == spawn(IF env.metrics_port THEN {"metrics"} ELSE {})

EngineMetricsNew ==
    /\ pc = "metrics"
    /\ register(EngineMetrics, "ledger")
    /\ start_metrics_server
    /\ UNCHANGED <<env, otel, engine, validator, top_pools, shutdown, socket, restarts>>

EngineNew ==
    /\ pc = "ledger" /\ register(LedgerMetrics, "pools") /\ engine' = new_engine
    /\ UNCHANGED <<env, otel, validator, top_pools, tasks, shutdown, socket, restarts>>

\* An explicit configuration without pools stops the process; then the reserves.
BootstrapPools ==
    /\ pc = "pools"
    /\ pc' = IF env.pools_explicit /\ env.pools = 0 THEN "exited" ELSE "discovery"
    /\ UNCHANGED <<env, registry, otel, engine, validator, top_pools, tasks, shutdown, socket,
                   restarts>>

maybe_start_discovery ==
    /\ pc = "discovery"
    /\ IF ~env.discovery THEN pc' = "spawn" /\ UNCHANGED <<registry, top_pools, tasks>>
       ELSE /\ register(DiscoveryMetrics \union HotCacheMetrics, "spawn")
            /\ top_pools' = TRUE /\ spawn({"prune", "listener", "hot_cache_sync"})
    /\ UNCHANGED <<env, otel, engine, validator, shutdown, socket, restarts>>

SpawnEngine ==
    /\ pc = "spawn"
    /\ pc' = IF env.mempool /\ env.ws_url THEN "source" ELSE "bind"
    /\ spawn({"engine", "provider"})
    /\ UNCHANGED <<env, registry, otel, engine, validator, top_pools, shutdown, socket,
                   restarts>>

\* The source runs from here on, before anybody listens to it.
SpawnSource ==
    /\ pc = "source" /\ register(MempoolIngestMetrics, "sink") /\ spawn({"source"})
    /\ UNCHANGED <<env, otel, engine, validator, top_pools, shutdown, socket, restarts>>

\* mempool_writer_from_env is awaited.
PredictionSink ==
    /\ pc = "sink" /\ register(MempoolWriterMetrics, "pipeline")
    /\ UNCHANGED <<env, otel, engine, validator, top_pools, tasks, shutdown, socket, restarts>>

SpawnPipeline ==
    /\ goes("pipeline", "bind")
    /\ validator' = build_backrun_validator_config(engine.provider)
    /\ spawn({"pipeline", "first_seen"}
             \union (IF engine.provider # NoProvider THEN {"prewarm"} ELSE {})
             \union (IF env.refresh_secs > 0 THEN {"pool_states"} ELSE {}))
    /\ UNCHANGED <<env, registry, otel, engine, top_pools, shutdown, socket, restarts>>

\* A stale socket is removed first; what fails here ends main.
BindServer ==
    /\ pc = "bind"
    /\ IF ~env.uds THEN socket' = socket /\ pc' = IF env.resolves THEN "serve" ELSE "exited"
       ELSE IF env.dir_ok /\ (socket => env.removes)
            THEN socket' = TRUE /\ pc' = IF env.chmods THEN "serve" ELSE "exited"
            ELSE socket' = (socket /\ ~env.removes) /\ pc' = "exited"
    /\ UNCHANGED <<env, registry, otel, engine, validator, top_pools, tasks, shutdown,
                   restarts>>

\* The mutation of ServerReturns: the tasks are joined without being told.
ServerReturnsQuietly ==
    /\ goes("serve", "join") /\ socket' = FALSE /\ shutdown' = shutdown
    /\ UNCHANGED <<env, registry, otel, engine, validator, top_pools, tasks, restarts>>

\* serve returns with an error only; the socket goes and the tasks are told.
ServerReturns ==
    /\ goes("serve", "join") /\ socket' = FALSE /\ shutdown' = TRUE
    /\ UNCHANGED <<env, registry, otel, engine, validator, top_pools, tasks, restarts>>

joined == {"engine", "provider", "source", "pipeline", "first_seen"}

\* One after the other; the order does not matter, they all have to end.
JoinTasks ==
    /\ goes("join", "exited")
    /\ \A t \in joined \intersect DOMAIN tasks : tasks[t] \in {"ended", "panicked"}
    /\ otel' = FALSE
    /\ UNCHANGED <<env, registry, engine, validator, top_pools, tasks, shutdown, socket,
                   restarts>>

\* No signal is handled: the process ends where it stands.
Killed ==
    /\ goes("serve", "exited")
    /\ UNCHANGED <<env, registry, otel, engine, validator, top_pools, tasks, shutdown, socket,
                   restarts>>

Restart ==
    /\ goes("exited", "tracing") /\ restarts < MaxRestarts /\ restarts' = restarts + 1
    /\ registry' = {} /\ otel' = FALSE /\ engine' = NoEngine /\ validator' = NoValidator
    /\ top_pools' = FALSE /\ tasks' = <<>> /\ shutdown' = FALSE
    /\ UNCHANGED <<env, socket>>

-----------------------------------------------------------------------------
alive == pc \notin {"exited", "panicked"}

unaffected == <<env, pc, registry, otel, engine, validator, top_pools, shutdown, socket,
                restarts>>

\* The period of the task's ticker; an interval of zero panics the task.
period(t) == CASE t = "hot_cache_sync" -> env.update_secs [] t = "prune" -> env.prune_secs
               [] OTHER -> 1

TaskStarts(t) ==
    /\ alive /\ t \in DOMAIN tasks /\ tasks[t] = "spawned"
    /\ tasks' = [tasks EXCEPT ![t] = IF period(t) = 0 THEN "panicked" ELSE "running"]
    /\ UNCHANGED unaffected

\* The watch channel holds its last value, so a task that starts late sees it too.
TaskStops(t) ==
    /\ alive /\ t \in DOMAIN tasks /\ tasks[t] = "running" /\ shutdown
    /\ tasks' = [tasks EXCEPT ![t] = "ended"]
    /\ UNCHANGED unaffected

\* The provider has no node left to try; the engine goes on without events.
ProviderGivesUp ==
    /\ alive /\ "provider" \in DOMAIN tasks /\ tasks["provider"] = "running"
    /\ tasks' = [tasks EXCEPT !["provider"] = "ended"]
    /\ UNCHANGED unaffected

\* The tasks main waits for and those with a configured ticker; what the others
\* do ends with the process.
TaskNames == joined \union {"prune", "hot_cache_sync"}

Main == \/ init_tracing \/ EngineMetricsNew \/ EngineNew \/ BootstrapPools
        \/ maybe_start_discovery \/ SpawnEngine \/ SpawnSource \/ PredictionSink
        \/ SpawnPipeline \/ BindServer \/ JoinTasks

Next ==
    \/ Main \/ ServerReturns \/ Killed \/ Restart
    \/ \E t \in TaskNames : TaskStarts(t) \/ TaskStops(t)
    \/ ProviderGivesUp

\* The runtime polls the tasks, and each of them waits for the shutdown too.
Fairness == /\ WF_vars(Main)
            /\ \A t \in TaskNames : WF_vars(TaskStarts(t)) /\ WF_vars(TaskStops(t))

Spec == Init /\ [][Next]_vars /\ Fairness

-----------------------------------------------------------------------------
\* The answer of the metrics server to a request: the families registered so
\* far (their samples are left out), the ranked pools once discovery has them.
handle_connection(path) ==
    IF "metrics" \notin DOMAIN tasks THEN <<"refused", {}>>
    ELSE CASE path = "/metrics" -> <<"200", registry>>
           [] path = "/top-pools" -> <<"200", IF top_pools THEN {"pools"} ELSE {}>>
           [] OTHER -> <<"404", {}>>

\* No combination of the optional parts registers a metric family twice, which
\* would panic the process on its way up, and a process that serves shows the
\* families of every part it runs.
BootNeverPanics ==
    /\ pc # "panicked"
    /\ pc = "serve" /\ "metrics" \in DOMAIN tasks =>
        /\ "pipeline" \in DOMAIN tasks =>
               MempoolWriterMetrics \union MempoolIngestMetrics \subseteq handle_connection("/metrics")[2]
        /\ env.discovery => handle_connection("/top-pools")[2] # {}

\* Code injected for the executor has the pool's address at every place the
\* artifact names for its one immutable, and is the artifact's everywhere else;
\* an artifact with a place outside the code is not used at all.
OverrideSound ==
    LET code == validator.bytecode art == env.artifact
    IN  code # NoCode =>
        /\ Len(code) = Len(art.object)
        /\ \A i \in DOMAIN code :
               \/ code[i] = art.object[i]
               \/ /\ Len(art.refs) = 1
                  /\ \E loc \in art.refs[1] : i \in loc.start + 1..loc.start + loc.length
        /\ Len(art.refs) = 1 =>
               \A loc \in art.refs[1] : /\ loc.start + WordLen <= Len(code)
                                        /\ code[loc.start + WordLen] = "aave"

\* Once the gRPC server is gone the process ends: every task main waits for
\* sees the shutdown, however late it started, and no other task is waited for.
StopsAfterServer == pc = "join" ~> pc = "exited"
=============================================================================
