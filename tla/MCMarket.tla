------------------------------ MODULE MCMarket ------------------------------
(***************************************************************************)
(* How the engine learns of pools and finds arbs in them: discovery, pool  *)
(* metrics and admission, the registry, seeding and the snapshots, the     *)
(* detector with its top list and its search for the input amount, and a   *)
(* detection cycle from its candidates to the stream and the ledger.       *)
(***************************************************************************)
EXTENDS Optimizer, Parts, Sequences, TLC

\* Single-peaked curves of every peak and four shapes, and a flat one.
MCCurves ==
    {[x \in Inputs |-> IF x <= k THEN a * x ELSE a * k - b * (x - k)] :
        k \in Inputs, a \in {1, 3}, b \in {1, 3}} \union {[x \in Inputs |-> 0]}

-----------------------------------------------------------------------------
\* Detector and its collector: three tokens, two pools between the first two, one of them possibly
\* under the liquidity floor (weight 9), every other hop with or without a pool (8).
Hops == <<<<0, 1>>, <<0, 1>>, <<1, 2>>, <<2, 0>>, <<1, 0>>>>
edgeOf(h, w) ==
    [to |-> Hops[h][2], weight |-> IF w = 9 THEN -3 ELSE w, filtered |-> w = 9]
graphOf(f) ==
    [u \in 0..2 |->
        LET out == SelectSeq(<<1, 2, 3, 4, 5>>, LAMBDA h : Hops[h][1] = u /\ f[h] # 8)
        IN  [i \in DOMAIN out |-> edgeOf(out[i], f[out[i]])]]
MCGraphs == {graphOf(f) : f \in {g \in [1..5 -> {-2, -1, 2, 8, 9}] : 9 \notin {g[3], g[4], g[5]}}}

\* One pool between every two of the three tokens, with both its directions and a fee.
poolsOf(a, b, c) ==
    LET to(v, w) == [to |-> v, weight |-> w, filtered |-> FALSE]
    IN  [u \in 0..2 |-> CASE u = 0 -> <<to(1, a), to(2, b)>>
                          [] u = 1 -> <<to(0, 1 - a), to(2, c)>>
                          [] u = 2 -> <<to(0, 1 - b), to(1, 1 - c)>>]
Triangles == {poolsOf(a, b, c) : a, b, c \in {-3, 3, 4}}

Scan == INSTANCE Detector WITH
    N <- 3, Graphs <- MCGraphs \union Triangles, MaxHops <- 3, Infinity <- 100, MaxDegree <- 3,
    graph <- s1, affected <- s2, queue <- s3, dist <- s4, predecessor <- s5,
    relaxation_count <- s6, visited_cycle_nodes <- s7, cycles <- s8, scan <- s9, stalled <- s10,
    K <- 2, Nets <- {0, 1, 3}, Gas <- {0, 1, 2}, MaxInserts <- 4,
    opportunities <- s1, offered <- s2

-----------------------------------------------------------------------------
\* Detection and the snapshots: candidates with a parallel edge under the floor, without measured
\* depth, without WETH, with no finite profit factor and with a shallow pool.
edge(p, in, out, w, f) ==
    [protocol |-> p, reserve_in |-> in, reserve_out |-> out, weight |-> w, filtered |-> f,
     liquidity |-> IF p = "v2" THEN in ELSE 0, fee_bps |-> 30, rate |-> 200]
candidate(n, factor, hops, token) ==
    [path |-> n, pf |-> factor, profitable |-> TRUE, hops |-> hops, token |-> token]
deep(w) == edge("v2", 8, 24, w, FALSE)
Gates == INSTANCE CycleGating WITH
    MinReserve <- 5, Impossible <- 100, Quantum <- 10, MinCluster <- 3, Mismatch <- 50
MCCycles ==
    {candidate(1, 50, <<<<deep(-2), edge("v2", 9, 9, 1, TRUE)>>, <<edge("v3", 8, 24, -1, FALSE)>>>>, "WETH"),
     candidate(2, 51, <<<<deep(-2)>>, <<edge("v3", 0, 0, -1, FALSE), deep(-1)>>>>, "WETH"),
     candidate(3, 80, <<<<deep(-2)>>, <<deep(-1)>>>>, "WBTC"),
     candidate(4, Gates!NotFinite, <<<<deep(-2)>>>>, "WBTC"),
     candidate(5, 50, <<<<edge("v2", 2, 20, -2, FALSE)>>>>, "WBTC")}

Cycle == INSTANCE Detection WITH
    MinReserve <- 5, Impossible <- 100, Quantum <- 10, MinCluster <- 3, Mismatch <- 50,
    Cycles <- MCCycles, MaxBatch <- 3, MinInput <- 1, MaxTrade <- 2, GasBase <- 0,
    SwapGas <- 1, Threshold <- 1, MaxParallel <- 2, Measured <- {0, 1, 5},
    ChannelCap <- 1, MaxInflight <- 1, MaxBlock <- 1,
    rpc <- s1, current_block <- s2, phase <- s3, snapshot <- s4, sim_inputs <- s5, task <- s6,
    permits <- s7, collected <- s8, subscribed <- s9, stream <- s10, queue <- s11,
    holding <- s12, inflight <- s13, arbs <- s14, drops <- s15, write_errors <- s16,
    Pools <- {"p", "q"}, LastBlock <- 2, MaxCycles <- 2, MaxCalls <- 2,
    graph <- s1, lock <- s2, number <- s3, hot <- s4, version_counter <- s5, current <- s6,
    pub <- s7, read <- s8, calls <- s9, gone <- s10, registered <- s11, cycle <- s12

-----------------------------------------------------------------------------
\* PoolSeeding and the registry by pair: one pool of each kind, the first with its tokens configured in the
\* wrong order, the second and the last not configured at all.
byPool(a, b, c, d) == ("a" :> a) @@ ("b" :> b) @@ ("c" :> c) @@ ("d" :> d)
MCProtocol == byPool("UniswapV2", "SushiSwap", "UniswapV3", "Curve")
MCDeclared == byPool(<<"W", "U">>, <<"U", "W">>, <<"W", "U">>, <<"W", "U">>)
MCActual == byPool(<<"U", "W">>, <<"U", "W">>, <<"W", "U">>, <<"W", "U">>)
MCFirst == byPool(<<3, 4>>, <<3, 4>>, <<3, 4>>, <<3, 4>>)
MCDecimals == ("W" :> 0) @@ ("U" :> 1)

Seed == INSTANCE PoolSeeding WITH
    Pools <- {"a", "b", "c", "d"}, protocol <- MCProtocol, declared <- MCDeclared,
    actual <- MCActual, Configured <- {"a", "c"}, Decimals <- MCDecimals,
    Static <- ("W" :> 0), Weth <- "W", Floor <- 4, First <- MCFirst,
    Values <- {<<3, 0>>, <<3, 4>>, <<5, 6>>}, MaxTrades <- 2, MaxSeeds <- 1,
    registry <- s1, decimals <- s2, edges <- s3, pool_states <- s4, chain <- s5, phase <- s6,
    collected <- s7, quarantined <- s8, answers <- s9, task <- s10, astray <- s11,
    trades <- s12, seeds <- s13,
    Ids <- {"p", "q"}, TokenLists <- {<<"A", "B">>, <<"B", "C">>, <<"A", "B", "C">>}, MaxCalls <- 4,
    pools <- s1, pair_index <- s2, tiers <- s3, calls <- s4

-----------------------------------------------------------------------------
\* Discovery: a factory of each protocol and one of none the code knows, two
\* blocks of their logs (one pool twice), and at the new addresses a deep pool, a
\* shallow one and an empty one.
Log == INSTANCE EventDecoder WITH FeeUnit <- 10
Math == INSTANCE PoolMath WITH Q96 <- 64, TickBase <- 2, NewtonSteps <- 24
address(n) == <<n, n + 1, n + 2, n + 3, n + 4>>
factory(n, protocol) == [address |-> address(n), protocol |-> protocol, fee_bps |-> 4, event |-> "PairCreated"]
MCFactories ==
    {[address |-> address(10), protocol |-> "uniswap_v2"],
     [factory(11, "uniswap_v3") EXCEPT !.event = "PoolCreated"],
     [factory(12, "curve") EXCEPT !.event = "PlainPoolDeployed"],
     factory(14, "balancer_v2"), factory(15, "unheard")}
MCTomls ==
    {{}, {<<>>}, {[validation_mode |-> "analytical", poll_when_ws_healthy |-> TRUE]},
     {[listener_mode |-> "poll", validation_mode |-> "revm"]}, {[enabled |-> FALSE]}}
MCEnvs ==
    {[rpc |-> "handle", http |-> TRUE, ws_url |-> TRUE]}
pair(f, pool) == Log!mock_pair_created_log(address(f), address(1), address(2), address(pool), 1)
v3Pool(pool) ==
    [address |-> address(11), topic0 |-> Log!pool_created_v3_topic,
     indexed |-> <<Log!addressWord(address(1)), Log!addressWord(address(2)), Log!intWord(3000)>>,
     data |-> Log!intWord(60) \o Log!addressWord(address(pool)), abi |-> Log!NoAbi]
MCBlocks ==
    << <<>>,
       <<pair(10, 20), pair(15, 21), pair(10, 21)>>,
       <<Log!mock_plain_pool_deployed_log(address(12), address(22), address(1), address(2), 4000000),
         v3Pool(23), pair(14, 24),
         Log!mock_pool_registered_log(address(13), address(25), address(3), address(2), address(1), 30)>> >>
account(b0, b1, w) ==
    [code |-> TRUE, ordered |-> TRUE, routable |-> TRUE, sells |-> TRUE, dust |-> 0]
        @@ Math!PoolOf("p", <<b0, b1>>, 30, <<w, 1>>, <<0, 0, 0>>)
MCNothing == [account(0, 0, 1) EXCEPT !.code = FALSE]
MCAccounts ==
    (address(20) :> account(100, 120, 1)) @@ (address(21) :> account(4, 120, 1)) @@
    (address(22) :> account(100, 100, 10)) @@ (address(23) :> account(100, 50, 1)) @@
    (address(24) :> account(0, 0, 1)) @@ (address(25) :> account(100, 100, 1))

Found == INSTANCE Discovery WITH
    FeeUnit <- 10, Q96 <- 64, TickBase <- 2, NewtonSteps <- 24,
    Weth <- address(1), MinWeth <- 10, Swap <- 10,
    Factories <- MCFactories, Vault <- {[fee_bps |-> 10]}, DefaultVault <- address(13),
    Tomls <- MCTomls, Envs <- MCEnvs, Blocks <- MCBlocks, Accounts <- MCAccounts,
    Nothing <- MCNothing, Outages <- {{}, {"getCode", "getBlock"}, {"token1", "balanceOf"}},
    MaxPools <- 2, MaxAge <- 0, MinScore <- 1, DefaultSlip <- 1, MaxTime <- 0, MaxDrops <- 1,
    cfg <- s1, head <- s2, ws <- s3, healthy <- s4, poll <- s5, job <- s6, cache <- s7,
    checked <- s8, now <- s9, drops <- s10, stopping <- s11, mirror <- s12, last <- s13,
    unread <- s14, crossed <- s15

\* The same without a provider and with both listeners at once: two tasks store, and
\* the cache has room for one of two pools.
Stores == INSTANCE Discovery WITH
    FeeUnit <- 10, Q96 <- 64, TickBase <- 2, NewtonSteps <- 24,
    Weth <- address(1), MinWeth <- 10, Swap <- 10,
    Factories <- MCFactories, Vault <- {}, DefaultVault <- address(13),
    Tomls <- {{[poll_when_ws_healthy |-> TRUE]}},
    Envs <- {[rpc |-> "down", http |-> TRUE, ws_url |-> TRUE]},
    Blocks <- << <<pair(10, 20)>>, <<pair(10, 21)>> >>, Accounts <- <<>>, Nothing <- MCNothing,
    Outages <- {{}}, MaxPools <- 1, MaxAge <- 0, MinScore <- 1, DefaultSlip <- 1, MaxTime <- 1,
    MaxDrops <- 0,
    cfg <- s1, head <- s2, ws <- s3, healthy <- s4, poll <- s5, job <- s6, cache <- s7,
    checked <- s8, now <- s9, drops <- s10, stopping <- s11, mirror <- s12, last <- s13,
    unread <- s14, crossed <- s15

Metrics == INSTANCE PoolMetrics WITH
    Reserves <- {0, 9}, Swap <- 1, DefaultSlip <- 50, Volumes <- {7}, Pools <- {"p"},
    Ttl <- 1, MaxTime <- 2,
    source <- s1, cache <- s2, now <- s3, errors <- s4, answer <- s5

\* TokenScreen: a token without and one with a tax, over venues deep, shallow
\* and empty.
tokenWith(tax, slot) ==
    [in_tax |-> tax, out_tax |-> 0, sells |-> TRUE, buys |-> TRUE, slot |-> slot, decoy |-> -1]
venue(a, t, rt, rb, l) == [address |-> a, token |-> t, rt |-> rt, rb |-> rb, liquidity |-> l]
MCTokens == ("good" :> tokenWith(0, 1)) @@ ("bad" :> tokenWith(20, 0))
MCVenues ==
    {venue("a", "good", 200, 200, 9), venue("b", "good", 100, 300, 9), venue("c", "good", 100, 0, 1),
     venue("d", "bad", 200, 100, 9), venue("e", "bad", 100, 100, 9)}

Screen == INSTANCE TokenScreen WITH
    Tokens <- MCTokens, Venues <- MCVenues, Whole <- 100, Fee <- 1, Fraction <- 10, MaxTax <- 5,
    MaxLoss <- 30, MaxSlotProbe <- 2, MinVenues <- 2, MinLiquidity <- 5, HotVenues <- 1,
    RequireClean <- TRUE, Floor <- 2, Written <- <<"a">>, MaxTime <- 2, MaxRuns <- 1,
    now <- s1, stats <- s2, hits <- s3, pc <- s4, token <- s5, venues <- s6, verdict <- s7,
    trip <- s8, file <- s9, admitted <- s10, pools <- s11, runs <- s12

ASSUME Scan!DetectorAssumption
ASSUME Scan!CollectorAssumption
ASSUME Cycle!DetectionAssumption
ASSUME Cycle!SnapshotAssumption
ASSUME Seed!SeedingAssumption
ASSUME Seed!RegistryAssumption
ASSUME Found!DiscoveryAssumption
ASSUME Stores!DiscoveryAssumption
ASSUME Metrics!MetricsAssumption
ASSUME Screen!ScreenAssumption

-----------------------------------------------------------------------------
Resting == part # "optimizer" /\ profit_fn = [x \in Inputs |-> 0] /\ lo = MinInput
               /\ hi = MaxInput /\ left = Iterations /\ optimal = Searching

MCInit ==
    \/ part = "optimizer" /\ Init /\ Rest(0)
    \/ part = "detector" /\ Scan!Init /\ Rest(10) /\ Resting
    \/ part = "top" /\ Scan!TopInit /\ Rest(2) /\ Resting
    \/ part = "detection" /\ Cycle!Init /\ Rest(16) /\ Resting
    \/ part = "snapshots" /\ Cycle!SnapshotInit /\ Rest(12) /\ Resting
    \/ part = "seeding" /\ Seed!Init /\ Rest(13) /\ Resting
    \/ part = "registry" /\ Seed!RegistryInit /\ Rest(4) /\ Resting
    \/ part = "discovery" /\ Found!Init /\ Rest(15) /\ Resting
    \/ part = "stores" /\ Stores!Init /\ Rest(15) /\ Resting
    \/ part = "metrics" /\ Metrics!Init /\ Rest(5) /\ Resting
    \/ part = "screen" /\ Screen!Init /\ Rest(12) /\ Resting

MCNext ==
    \/ part = "optimizer" /\ Next /\ Still(0)
    \/ part = "detector" /\ Scan!Next /\ Still(10) /\ UNCHANGED vars
    \/ part = "top" /\ Scan!TopNext /\ Still(2) /\ UNCHANGED vars
    \/ part = "detection" /\ Cycle!Next /\ UNCHANGED <<part, vars>>
    \/ part = "snapshots" /\ Cycle!SnapshotNext /\ Still(12) /\ UNCHANGED vars
    \/ part = "seeding" /\ Seed!Next /\ Still(13) /\ UNCHANGED vars
    \/ part = "registry" /\ Seed!RegistryNext /\ Still(4) /\ UNCHANGED vars
    \/ part = "discovery" /\ Found!Next /\ Still(15) /\ UNCHANGED vars
    \/ part = "stores" /\ Stores!Next /\ Still(15) /\ UNCHANGED vars
    \/ part = "metrics" /\ Metrics!Next /\ Still(5) /\ UNCHANGED vars
    \/ part = "screen" /\ Screen!Next /\ Still(12) /\ UNCHANGED vars

\* The fairness of Detection, which asks nothing of the other parts.
cycleVars == Cycle!vars
MCSpec ==
    /\ MCInit /\ [][MCNext]_<<slots, vars>>
    /\ \A i \in 1..3 : /\ WF_cycleVars(part = "detection" /\ Cycle!Spawn(i))
                       /\ WF_cycleVars(part = "detection" /\ Cycle!SimulationEnds(i))
    /\ WF_cycleVars(part = "detection" /\ Cycle!Collect)

-----------------------------------------------------------------------------
\* Every cycle the scan reports is a closed route of pools above the floor whose
\* weight is negative and computed from its best edges, it comes back with nothing
\* where there is one only after a vertex ran out of relaxations, and of what is
\* offered the collector keeps the K best.
ScanSound ==
    /\ part = "detector" => Scan!CyclesReal /\ Scan!FindsUnlessStalled
    /\ part = "top" => Scan!HoldsTheBest

\* The scans of the triangles of pools.
TriangleSpec == MCInit /\ part = "detector" /\ s1 \in Triangles /\ [][MCNext]_<<slots, vars>>

\* "Detect all negative cycles reachable from any source vertex"
\* (bellman_ford.rs:37): a full scan of three pools in a triangle reports a cycle if
\* there is a profitable one.
TrianglesFound == part = "detector" => Scan!FindsACycle

\* What the engine streams was measured on a fork, is worth the threshold and
\* for the next block, and is in the ledger, on its way there, or counted.
ArbsSound == part = "detection" => Cycle!PublishedMeasured /\ Cycle!ArbsLogged

\* A detection cycle ends whatever becomes of its simulations.
CycleCompletes ==
    (part = "detection" /\ s3 = "simulate") ~> (part = "detection" /\ s3 = "idle")

\* The pipeline never goes back to an earlier block, and a removed pool is out of
\* the graph once the cycle of a later block has published.
SnapshotsAdvance == [][part = "snapshots" => Cycle!Advances]_<<slots, vars>>

\* The views of the pools agree: the predictor's states with the reserves on the
\* edges of the graph, and the index by pair with the pools registered.
ViewsAgree ==
    /\ part = "seeding" => Seed!Lockstep
    /\ part = "registry" => Seed!PairsFound

\* What is taken into the universe deserves it: a validated pool has the WETH
\* floor, a score does not depend on the order of the tokens and does not fall
\* with depth, and a pool the token gate admits passes on what it is sent.
PoolsAdmitted ==
    /\ part = "discovery" => Found!FloorHeld
    /\ part = "metrics" => Metrics!DepthPays
    /\ part = "screen" => Screen!AdmittedSound /\ Screen!RoundTripSound /\ Screen!ScoreIsDecayedSum

\* The polling listener leaves no hole behind it but the ranges the node refused,
\* and a subscriber of the cache misses no cached pool but one dropped by another
\* task while it was stored.
DiscoveryCovers == part \in {"discovery", "stores"} => Found!PollCovers /\ Found!MirrorCovers
=============================================================================
