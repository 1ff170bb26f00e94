------------------------------ MODULE MCFeeds -------------------------------
(***************************************************************************)
(* What reaches the engine from outside and the process that takes it in:  *)
(* the node provider, the mempool source with its tracker, the decoders of *)
(* logs and of router calls, the mempool pipeline, and main.               *)
(***************************************************************************)
EXTENDS Parts, Sequences, TLC

\* Provider: no node file, one that does not parse, an empty one, and two with
\* unknown types, unset variables and several priorities.
url(scheme, names) == [scheme |-> scheme, vars |-> names]
nodeConfig(type, u, priority) == [type |-> type, url |-> u, priority |-> priority]
environment(ws, rpc, nodes) == [ws |-> ws, rpc |-> rpc, nodes |-> nodes]
MCNodes ==
    {environment({"ws"}, {"http"}, {}), environment({}, {"http"}, {[error |-> TRUE]}),
     environment({}, {}, {[nodes |-> <<>>]}),
     environment({}, {"http"}, {[nodes |->
         <<nodeConfig("websocket", url("ws", {"KEY"}), 10), nodeConfig("http", url("http", {}), 1)>>]}),
     environment({}, {"http"}, {[nodes |->
         <<nodeConfig("wsocket", url("ws", {}), 1), nodeConfig("ws", url("ws", {"OTHER"}), 1),
           nodeConfig("ipc", url("ipc", {}), 2)>>]})}

Node == INSTANCE Provider WITH
    Envs <- MCNodes, Set <- {"KEY"}, MaxRetries <- 3, MaxAttempts <- 4, MaxHead <- 3,
    pool <- s1, up <- s2, node <- s3, pc <- s4, cur <- s5, attempt <- s6, broken <- s7,
    shutdown <- s8, head <- s9, start <- s10, blockQ <- s11, logQ <- s12, last_block <- s13,
    sentBlock <- s14, handled <- s15, missed <- s16

\* MempoolFeed: a transaction to a router and one to none, and a ring of one.
MCSettings ==
    {[value |-> "on", alchemy |-> TRUE], [value |-> "true", alchemy |-> FALSE],
     [value |-> "2", alchemy |-> TRUE]}
MCSentTo == ("h1" :> "router") @@ ("h2" :> "other")

Pending == INSTANCE MempoolFeed WITH
    Hashes <- {"h1", "h2"}, sentTo <- MCSentTo, Routers <- {"router"},
    CurvePools <- {"curve"}, Settings <- MCSettings, Capacity <- 1, ChannelCap <- 1,
    MaxBackoff <- 1, MaxTime <- 3,
    now <- s1, shutdown <- s2, setting <- s3, reachable <- s4, source <- s5, backoff <- s6,
    pendQ <- s7, blockQ <- s8, tracker <- s9, seen <- s10, order <- s11, told <- s12,
    evicted <- s13

-----------------------------------------------------------------------------
\* RouterDecoder, its logs: two logs of each event that differ in one field.
Log == INSTANCE EventDecoder WITH FeeUnit <- 10
address(n) == <<n, n + 1, n + 2, n + 3, n + 4>>
MCEmitted ==
    {[tag |-> "ReserveUpdate", pool |-> address(1), protocol |-> "uniswap_v2",
      reserves |-> <<Log!intWord(x), Log!intWord(y)>>] : x, y \in {1, 2}}
    \union {[tag |-> "V2Swap", pool |-> address(2), sender |-> address(3), to |-> address(s),
             in |-> <<Log!intWord(1), Log!intWord(0)>>, out |-> <<Log!intWord(0), Log!intWord(2)>>] :
             s \in {4, 5}}
    \union {[tag |-> "PoolCreated", token0 |-> address(1), token1 |-> address(7),
             pool |-> address(s)] : s \in {4, 5}}
    \union {[tag |-> g, pool |-> address(6), sqrt_price_x96 |-> Log!intWord(3),
             liquidity |-> <<0, 0, 0, 0, 1, 2, 3, 4>>, tick |-> t] : g \in {"V3Update", "SwapV3"}, t \in {-2, 2}}
    \union {[tag |-> "TokenExchange", pool |-> address(8), buyer |-> address(s),
             words |-> [i \in 1..4 |-> Log!intWord(i)]] : s \in {4, 5}}

\* RouterDecoder: every method, with paths of one to three tokens and malformed
\* ones, and one of them to join the others in a batch.
call(method) ==
    [sel |-> method, abi |-> TRUE, to |-> "r", in |-> 7, out |-> 3, fee |-> 5, amount |-> 7,
     limit |-> 3, tokenIn |-> "A", tokenOut |-> "B"]
along(method, path) == call(method) @@ [path |-> path]
coins(method, i, j) == call(method) @@ [i |-> i, j |-> j, dx |-> 7]
packed(a, flag) == [addr |-> a, flag |-> flag]
chain(method, pools) == call(method) @@ [token |-> packed("A", TRUE), pools |-> pools]
op(name, path, abi) == [op |-> name, path |-> path, in |-> 7, out |-> 3, to |-> "r", abi |-> abi]
universal(ops) ==
    call("execute") @@ [commands |-> [i \in 1..Len(ops) |-> [op |-> ops[i].op]], inputs |-> ops]
V2Names ==
    {"swapExactETHForTokens", "swapETHForExactTokens", "swapExactETHForTokensFOT",
     "swapExactTokensForTokens", "swapTokensForExactTokens", "swapExactTokensForETH",
     "swapTokensForExactETH", "swapExactTokensForTokensFOT", "swapExactTokensForETHFOT"}
MCCalls ==
    {along(m, <<"A", "B", "C">>) : m \in V2Names}
    \union {along("swapExactTokensForTokens", <<"A">>), call("unheard"), call(""),
            [along("exactInput", <<>>) EXCEPT !.abi = FALSE]}
    \union {call(m) : m \in {"exactInputSingle", "exactOutputSingle", "balancer swap", "1inch swap",
                             "tradeBySourceAmount", "tradeByTargetAmount", "selfPermit", "addLiquidity"}}
    \union {along(m, q) : m \in {"exactInput", "exactOutput"},
                          q \in {<<"A", 5, "B">>, <<"A", 5, "B", 30, "C">>, <<"A", 5, "B", 30>>}}
    \union {coins(m, i, j) : m \in {"exchange int128", "exchange_underlying"}, i \in {-1, 0}, j \in {1, 256}}
    \union {coins("exchange uint256", i, 1) : i \in {0, 256}}
    \union {chain(m, p) : m \in {"unoswap", "ethUnoswap", "uniswapV3Swap"},
                          p \in {<<packed("p", TRUE)>>,
                                 <<packed("p", FALSE), packed("q", TRUE), packed("s", FALSE)>>}}
    \union {chain("uniswapV3Swap", <<>>), universal(<<op("WRAP_ETH", <<>>, TRUE)>>),
            universal(<<op("V3_SWAP_EXACT_OUT", <<"A", 5, "B">>, TRUE), op("V4_SWAP", <<>>, TRUE),
                        op("V2_SWAP_EXACT_IN", <<"B", "C">>, TRUE)>>),
            universal(<<op("V3_SWAP_EXACT_IN", <<"A", 5, "B">>, TRUE), op("V2_SWAP_EXACT_OUT", <<"A">>, TRUE)>>),
            universal(<<op("V3_SWAP_EXACT_IN", <<"A", 5, "B">>, FALSE)>>),
            [universal(<<op("V3_SWAP_EXACT_IN", <<"A", 5, "B">>, TRUE)>>) EXCEPT !.commands = <<>>]}
Calls == INSTANCE RouterDecoder WITH
    Calls <- MCCalls, Extras <- {along("exactOutput", <<"A", 5, "B", 30, "C">>)},
    Routers <- {"uni", "sushi", "crv"}, Sushi <- {"sushi"}, CurveRouters <- {"crv"},
    WETH <- "WETH", ZERO <- "0", MaxDepth <- 2, MaxWraps <- 3, MaxBatch <- 2,
    tx <- s1, wraps <- s2, sent <- s3,
    FeeUnit <- 10, Emitted <- MCEmitted, Truncated <- TRUE, MaxLogs <- 3,
    emitted <- s1, dispatched <- s2, errors <- s3

-----------------------------------------------------------------------------
\* MempoolPipeline: a V2, a Sushi, a V3 and three Bancor pools; an empty call, a
\* V2 and V3 batch with value, Bancor trades and 1inch chains.
Math == INSTANCE PoolMath WITH Q96 <- 64, TickBase <- 2, NewtonSteps <- 24
meta(protocol, t0, t1, fee) == [protocol |-> protocol, token0 |-> t0, token1 |-> t1, fee_bps |-> fee]
MCMeta ==
    [a |-> meta("v2", "W", "T", 30), s |-> meta("sushi", "W", "T", 30), c |-> meta("v3", "W", "T", 30),
     x |-> meta("bancor", "T", "BNT", 30), y |-> meta("bancor", "W", "BNT", 3000),
     z |-> meta("bancor", "W", "T", 30)]
MCChain ==
    [h \in 0..1 |->
       [a |-> Math!UniswapV2Pool(<<100, 110>>, 30), s |-> Math!UniswapV2Pool(<<100, 100 + 5 * h>>, 30),
        c |-> Math!UniswapV3Pool(30, 2, 64, 200), x |-> Math!BancorPool(<<100, 100>>, 30),
        y |-> Math!BancorPool(<<100, 100>>, 30), z |-> Math!BancorPool(<<100, 100>>, 30)]]
swap(protocol, in, out, amount, pool) ==
    [protocol |-> protocol, token_in |-> in, token_out |-> out, amount_in |-> amount,
     pool |-> pool, zero_for_one |-> TRUE, path_extra |-> FALSE]
event(swaps, value) == [to |-> TRUE, decoded |-> swaps # <<>>, swaps |-> swaps, value |-> value]
MCEvents ==
    {event(<<>>, 0),
     event(<<swap("v2", "W", "T", 0, "none"), swap("v3", "T", "W", 200, "none")>>, 30),
     event(<<swap("bancor", "W", "T", 20, "none")>>, 0),
     event(<<swap("1inch", "W", "zero", 20, "c"), swap("1inch", "zero", "zero", 0, "s")>>, 0),
     event(<<swap("1inch", "E", "zero", 20, "c")>>, 0), event(<<swap("1inch", "T", "zero", 20, "c")>>, 0),
     event(<<swap("1inch", "W", "T", 20, "none")>>, 0)}
config(backrun, replay, provider, skip, latest) ==
    [backrun |-> backrun, replay |-> replay, provider |-> provider, skip_victim |-> skip,
     fork_latest |-> latest]
MCConfigs ==
    {config(TRUE, TRUE, TRUE, FALSE, FALSE), config(TRUE, FALSE, TRUE, TRUE, TRUE),
     config(TRUE, FALSE, FALSE, FALSE, FALSE), config(FALSE, FALSE, TRUE, FALSE, FALSE)}

Pipe == INSTANCE MempoolPipeline WITH
    MinReserve <- 5, Impossible <- 100, Quantum <- 10, MinCluster <- 3, Mismatch <- 50,
    Q96 <- 64, TickBase <- 2, NewtonSteps <- 24, Meta <- MCMeta, Chain <- MCChain, BNT <- "BNT",
    ProfitToken <- "W", InputDefault <- 10, MinInput <- 5, MaxInput <- 6, HopGas <- 0,
    MinProfit <- 1, PremiumBps <- 5, GasWei <- 1, Gains <- {0, 4}, Holding <- 3,
    Events <- MCEvents, Settings <- MCConfigs, Permits <- 1, MaxRetries <- 1,
    Pointers <- {"p1", "p2"}, FirstRegistry <- {"a", "c", "x", "y", "z"}, Churn <- {"s", "z"},
    MaxEvents <- 1, MaxTasks <- 2, MaxHead <- 1, MaxChanges <- 1,
    cfg <- s1, head <- s2, snap <- s3, registry <- s4, ptr <- s5, cache <- s6, pool_states <- s7,
    known <- s8, changes <- s9, listening <- s10, handled <- s11, lagged <- s12, counts <- s13,
    task <- s14, permits <- s15, published <- s16

\* EngineProcess: environments around a full and a minimal one, and artifacts
\* with no, sound and unsound references to their immutable.
at(start, length) == [start |-> start, length |-> length]
artifact(n, refs) == [object |-> [i \in 1..n |-> "c"], refs |-> refs]
MCArtifacts ==
    {artifact(0, <<>>), artifact(4, <<>>), artifact(4, <<{at(0, 2), at(2, 2)}>>),
     artifact(4, <<{at(1, 2)}, {at(0, 2)}>>), artifact(4, <<{at(0, 2), at(3, 2)}>>),
     artifact(4, <<{at(0, 1)}>>)}
Full ==
    [rpc_url |-> "wss", client_builds |-> TRUE, rpc_timeout |-> 1, cache_opens |-> TRUE,
     otlp |-> TRUE, collector |-> TRUE, pools_explicit |-> TRUE, pools |-> 1, discovery |-> TRUE,
     update_secs |-> 1, prune_secs |-> 1, mempool |-> TRUE, ws_url |-> TRUE, refresh_secs |-> 1,
     executor |-> TRUE, artifact |-> artifact(0, <<>>), uds |-> TRUE, dir_ok |-> TRUE,
     removes |-> TRUE, resolves |-> TRUE, chmods |-> TRUE, metrics_port |-> TRUE]
Least == [Full EXCEPT !.discovery = FALSE, !.refresh_secs = 0]
MCEnvs ==
    {Full, [Least EXCEPT !.rpc_url = "unset"], [Least EXCEPT !.ws_url = FALSE, !.chmods = FALSE]}
    \union {[Least EXCEPT !.artifact = a] : a \in MCArtifacts}
    \union {[Full EXCEPT !.mempool = FALSE, !.pools = n, !.pools_explicit = x, !.update_secs = 0] :
                n \in 0..1, x \in BOOLEAN}
    \union {[Least EXCEPT !.ws_url = FALSE, !.uds = u, !.dir_ok = d, !.removes = r, !.resolves = d,
                          !.executor = r, !.chmods = d, !.metrics_port = r] : u, d, r \in BOOLEAN}

Main == INSTANCE EngineProcess WITH
    Envs <- MCEnvs, WordLen <- 2, MaxRestarts <- 1,
    env <- s1, pc <- s2, registry <- s3, otel <- s4, engine <- s5, validator <- s6,
    top_pools <- s7, tasks <- s8, shutdown <- s9, socket <- s10, restarts <- s11

ASSUME Node!ProviderAssumption
ASSUME Pending!FeedAssumption
ASSUME Calls!DecodingAssumption
ASSUME Calls!RouterDecoderAssumption
ASSUME Pipe!PipelineAssumption
ASSUME Main!EnvAssumption

-----------------------------------------------------------------------------
MCInit ==
    \/ part = "provider" /\ Node!Init
    \/ part = "pending" /\ Pending!Init /\ Rest(13)
    \/ part = "logs" /\ Calls!LogInit /\ Rest(3)
    \/ part = "calls" /\ Calls!Init /\ Rest(3)
    \/ part = "pipeline" /\ Pipe!Init
    \/ part = "main" /\ Main!Init /\ Rest(11)

MCNext ==
    \/ part = "provider" /\ Node!Next /\ Still(16)
    \/ part = "pending" /\ Pending!Next /\ Still(13)
    \/ part = "logs" /\ Calls!LogNext /\ Still(3)
    \/ part = "calls" /\ Calls!Next /\ Still(3)
    \/ part = "pipeline" /\ Pipe!Next /\ Still(16)
    \/ part = "main" /\ Main!Next /\ Still(11)

\* The fairness of each part, which asks nothing of the others.
nodeVars == Node!vars
pendingVars == Pending!vars
mainVars == Main!vars
MCSpec ==
    /\ MCInit /\ [][MCNext]_slots
    /\ WF_nodeVars(part = "provider" /\ (Node!Connect \/ Node!AllUnhealthy))
    /\ WF_nodeVars(part = "provider" /\ Node!Subscribe)
    /\ WF_nodeVars(part = "provider" /\ Node!Retry)
    /\ WF_nodeVars(part = "provider" /\ Node!Stop)
    /\ WF_nodeVars(part = "provider" /\ Node!SubBlock)
    /\ WF_nodeVars(part = "provider" /\ Node!SubLog)
    /\ WF_nodeVars(part = "provider" /\ Node!StreamEnd)
    /\ WF_nodeVars(part = "provider" /\ Node!Poll("ok"))
    /\ WF_pendingVars(part = "pending" /\ Pending!Begin)
    /\ WF_pendingVars(part = "pending" /\ Pending!Connect)
    /\ WF_pendingVars(part = "pending" /\ Pending!StreamClosed)
    /\ WF_pendingVars(part = "pending" /\ Pending!Wake)
    /\ WF_pendingVars(part = "pending" /\ Pending!StreamShutdown)
    /\ WF_pendingVars(part = "pending" /\ Pending!TrackerShutdown)
    /\ WF_mainVars(part = "main" /\ Main!Main)
    /\ \A t \in Main!TaskNames : /\ WF_mainVars(part = "main" /\ Main!TaskStarts(t))
                                 /\ WF_mainVars(part = "main" /\ Main!TaskStops(t))

-----------------------------------------------------------------------------
\* Every log of a connection is handled once, or the node did not deliver it, or it
\* was mined before the connection had subscribed; and the time a pending transaction
\* was first seen is the one kept.
FeedsExact ==
    /\ part = "provider" => Node!LogsOnce
    /\ part = "pending" => Pending!FirstSeenKept

\* A provider whose nodes answer, and a mempool source whose endpoint does, end
\* up on a live connection, and a shutdown ends the source and its tracker.
FeedsRecover ==
    /\ <>[](part = "provider" /\ Node!AllUp) =>
           \/ <>(part = "provider" /\ Node!Stopped)
           \/ <>[](part = "provider" /\ Node!Live)
    /\ <>[](part = "pending" /\ s4) => []<>(part = "pending" /\ Pending!Streams)
    /\ (part = "pending" /\ s2) ~> (part = "pending" /\ Pending!Ended)

\* What the decoders pass on was emitted, but for the reserves of a Curve exchange, or is
\* traded by the call, in its direction, and no swap of a well-formed batch is lost.
SwapsDecoded ==
    /\ part = "logs" => Calls!DispatchedTrue
    /\ part = "calls" => Calls!RecordsReal /\ Calls!SwapsSeen

\* What the mempool pipeline publishes was simulated as it says, and no way a
\* simulation ends loses its permit.
BackrunsSound == part = "pipeline" => Pipe!PublishedSound /\ Pipe!PermitsReturned

\* No environment makes main register a metric twice, and the code it injects
\* for the executor has the pool's address in every place of its immutable.
BootSound == part = "main" => Main!BootNeverPanics /\ Main!OverrideSound

\* Once the gRPC server is gone the process ends.
StopsAfterServer == (part = "main" /\ s2 = "join") ~> (part = "main" /\ s2 = "exited")

\* The feeds come back after every outage, and the engine's process ends once its
\* server has returned.
FeedsProgress == FeedsRecover /\ StopsAfterServer

\* Every event a watched contract emits whole reaches the event channel, the
\* "Uniswap V3 Swap event" (event_decoder.rs:29) included.
SwapsReachEngine == part = "logs" => Calls!SwapsReachEngine
=============================================================================
