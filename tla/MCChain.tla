------------------------------ MODULE MCChain -------------------------------
(***************************************************************************)
(* What an arb is built from, what it does on chain and what is recorded   *)
(* of it: the tip and the nonce of a bundle, the two sides of the          *)
(* contract, swap calls and pool arithmetic, the simulator with its        *)
(* caches, the replay, and the ledgers of arbs and of predictions.         *)
(***************************************************************************)
EXTENDS TipShare, NonceManager, FlashArb, RouterGovernance, Parts, TLC

\* FlashArb: round trips of two steps over two tokens, one for each way of paying.
CONSTANTS W, T

leg(p, in, out, n) ==
    [protocol |-> p, tokenIn |-> in, tokenOut |-> out, amountIn |-> n, minAmountOut |-> 1]
MCRequests ==
    {[steps |-> <<leg(p, W, T, 2), leg(q, T, W, 2)>>, token |-> W, amount |-> 2,
      minProfitOut |-> 1, tipBps |-> 9000] : p \in {1, 2}, q \in {1, 2, 4}}

-----------------------------------------------------------------------------
\* Simulation: three blocks that differ in code and balances, a job of each kind, on
\* cold forks and on forks warmed with older reserves; and one pool over four blocks
\* in front of the caches.
only(a, x, rest) == [b \in {"me", "ex", "pool"} |-> IF b = a THEN x ELSE rest]
worldOf(b, code, mine, pooled) ==
    [bal |-> only("me", b, 0), code |-> only("ex", code, "none"),
     tok |-> [only("me", mine, 0) EXCEPT !["pool"] = pooled], own |-> only("ex", "me", "nobody")]
MCBlocks == <<worldOf(3, "arb", 1, 5), worldOf(1, "spend", 3, 3), worldOf(5, "arb", 5, 1)>>
jobOf(kind, block, latest, init) ==
    [kind |-> kind, block |-> block, latest |-> latest, init |-> init,
     from |-> "me", to |-> "ex", recipient |-> "me", warm |-> -1]
MCJobs ==
    {jobOf(k, b, FALSE, "none") : k \in {"local", "rpc", "erc20"}, b \in 1..3}
    \union {jobOf("deploy", b, FALSE, c) : b \in 1..2, c \in {"arb", "spend", "reverts", "loop"}}
    \union {jobOf("erc20", 1, TRUE, "none")}
    \union {[jobOf(k, 3, FALSE, "none") EXCEPT !.warm = n] : k \in {"rpc", "erc20"}, n \in 0..2}

Sim == INSTANCE Simulation WITH
    Chain <- MCBlocks, Jobs <- MCJobs, GasCost <- 2, Gain <- 4, Loss <- 2, Funding <- 50,
    head <- s1, job <- s2, phase <- s3, db <- s4, loaded <- s5, pre_balance <- s6, result <- s7,
    MaxLag <- 1, Interval <- 2, MaxHead <- 4, MaxSwaps <- 2,
    tip <- s1, swaps <- s2, syncs <- s3, current <- s4, delivered <- s5, entry <- s6, slot8 <- s7,
    late <- s8, hasCache <- s9, mem <- s10, disk <- s11, hot <- s12, snapshot <- s13,
    last_refresh <- s14, seen <- s15

\* SwapCalls: cycles over a pool of three kinds and one of every kind.
Math == INSTANCE PoolMath WITH Q96 <- 64, TickBase <- 2, NewtonSteps <- 24
hopAt(a, p, t) == [addr |-> a, pool |-> p, t |-> t]
MCFirst ==
    {hopAt("a", Math!UniswapV2Pool(<<60, 120>>, 30), 1),
     hopAt("b", Math!UniswapV3Pool(30, 2, 96, 200), 1),
     hopAt("c", Math!CurvePool(<<120, 80>>, 100, 10), 1)}
MCSecond ==
    {hopAt("a", Math!UniswapV2Pool(<<60, 120>>, 30), 2),
     hopAt("d", Math!SushiSwapPool(<<90, 80>>, 30), 2),
     hopAt("e", Math!UniswapV2Pool(<<80, 90>>, 30), 1),
     hopAt("f", Math!UniswapV3Pool(30, 2, 64, 300), 2),
     hopAt("g", Math!BancorPool(<<90, 80>>, 30), 2),
     hopAt("h", Math!BalancerPool(<<90, 80>>, 30, <<1, 1>>), 2),
     hopAt("i", Math!BalancerV3Pool(<<90, 80>>, 30, <<1, 1>>), 2)}

\* The trader: a pool of every kind, with a fee that shows.
MCTraded ==
    {Math!UniswapV2Pool(<<60, 120>>, 300), Math!SushiSwapPool(<<60, 120>>, 300),
     Math!BalancerPool(<<60, 120>>, 300, <<1, 1>>), Math!BalancerPool(<<60, 120>>, 300, <<4, 1>>),
     Math!BalancerV3Pool(<<60, 120>>, 300, <<1, 1>>), Math!BancorPool(<<60, 120>>, 300),
     Math!CurvePool(<<120, 80>>, 1000, 10), Math!UniswapV3Pool(300, 2, 96, 200)}
Calls == INSTANCE SwapCalls WITH
    Cycles <- {<<x, y>> : x \in MCFirst, y \in MCSecond}, Inputs <- {5, 10, 20}, SlippageBps <- 50,
    Q96 <- 64, TickBase <- 2, NewtonSteps <- 24,
    pools <- s1, plan <- s2, hop <- s3, held <- s4, outcome <- s5, moved <- s6,
    Pools <- MCTraded, Purse <- 40, Amounts <- {10, 15, 40}, MaxSwaps <- 4,
    traded <- s1, purse <- s2, swaps <- s3

-----------------------------------------------------------------------------
\* Replay: a default and a listed set of pools, in all three modes.
MCFile ==
    <<<<"uniswap_v2", "USDC", "WETH", 0>>, <<"curve", "USDC", "DAI", 0>>,
      <<"sushiswap", "USDC", "WETH", 0>>, <<"uniswap_v3", "USDC", "WETH", 1000>>>>
planOf(mode, blocks, file, seed, optimizer, sim, attach) ==
    [mode |-> mode, blocks |-> blocks, file |-> file, seed |-> seed, optimizer |-> optimizer,
     sim |-> sim, attach |-> attach]
MCPlans ==
    {planOf("single", <<1>>, <<>>, TRUE, TRUE, FALSE, FALSE),
     planOf("single", <<1>>, MCFile, TRUE, TRUE, FALSE, FALSE),
     planOf("full", <<1>>, MCFile, TRUE, FALSE, TRUE, TRUE),
     planOf("batch", <<1, 2>>, MCFile, TRUE, TRUE, TRUE, FALSE),
     planOf("batch", <<2, 1>>, MCFile, FALSE, TRUE, FALSE, TRUE)}
txOf(blob, from, spends, to, moves) ==
    [blob |-> blob, from |-> from, spends |-> spends, to |-> to, moves |-> moves]
MCTxs ==
    <<<<txOf(FALSE, "A", 1, "B", 1 :> <<20, 10>>),
        txOf(FALSE, "B", 2, "A", (2 :> <<12, 10>>) @@ (3 :> <<6, 12>>))>>,
      <<txOf(TRUE, "A", 0, "B", 1 :> <<10, 10>>),
        txOf(FALSE, "A", 1, "B", (1 :> <<9, 18>>) @@ (9 :> <<9, 18>>))>>>>
priced(one) == (1 :> one) @@ (2 :> <<10, 10>>) @@ (3 :> <<8, 20>>)

Rerun == INSTANCE Replay WITH
    FeeUnit <- 10, Scale <- 8, LeastInput <- 1, HardMax <- 6, HopGas <- 0, Plans <- MCPlans,
    Txs <- MCTxs, Chain <- priced(<<10, 10>>), Elsewhere <- priced(<<10, 12>>),
    Archive <- [a \in {"A", "B"} |-> 1], Flaky <- {3}, BaseFee <- 1, SimInput <- 3, Premium <- 0,
    args <- s1, pc <- s2, left <- s3, server <- s4, child <- s5, fork <- s6, bal <- s7,
    running_states <- s8, seeded_senders <- s9, executor <- s10, next <- s11, stats <- s12,
    verdicts <- s13, missed <- s14, report <- s15

\* TradeLedger: two arbs of the block path and one of the mempool path, and a
\* pool that is registered with two fees.
stepOf(p, in, out, protocol) ==
    [pool |-> p, token_in |-> in, token_out |-> out, protocol |-> protocol]
arbOf(id, source, hops, sim_gas, sim_profit) ==
    [id |-> id, source |-> source, hops |-> hops, total_gas |-> 3, sim_gas |-> sim_gas,
     net_profit |-> 5, sim_profit |-> sim_profit, block_number |-> id]
v2Step == stepOf("a", "W", "X", "UniswapV2")
curveStep == stepOf("c", "X", "W", "Curve")
MCArbs ==
    {arbOf(1, "block", <<v2Step, stepOf("b", "X", "W", "UniswapV3")>>, 4, 6),
     arbOf(2, "block", <<stepOf("b", "W", "X", "UniswapV3"), curveStep>>, 0, 0),
     arbOf(3, "mempool", <<v2Step, curveStep>>, 4, 2)}

Ledger == INSTANCE TradeLedger WITH
    Opps <- MCArbs, Pools <- {[address |-> "a", fee_bps |-> f] : f \in {5, 30}}, TipBps <- 9,
    Capacity <- 1, MaxInflight <- 1, MaxRegistrations <- 1,
    pg <- s1, stream <- s2, due <- s3, queue <- s4, uncounted <- s5, depth <- s6, holding <- s7,
    inflight <- s8, arbs <- s9, pool_registry <- s10, bundles <- s11, drops <- s12,
    write_errors <- s13, registrations <- s14, running <- s15, fresh <- s16

\* Predictions: two records of one transaction, one of a pool that cannot be read.
sameTx(r) == IF r = 3 THEN 2 ELSE r
Preds == INSTANCE Predictions WITH
    Records <- {1, 2, 3}, txOf <- sameTx, ConfigPools <- {2}, Supported <- {1, 2}, Failing <- {1},
    WriterCap <- 1, ScoreCap <- 1, BatchLimit <- 2, PoolLimit <- 2, FloorWei <- 1, Gas <- 1,
    Amounts <- {1, 4}, MaxRestarts <- 1,
    sink <- s1, profitSink <- s2, decoded <- s3, queue <- s4, drops_total <- s5, stored <- s6,
    persisted <- s7, failedInsert <- s8, confirmed <- s9, pools <- s10, graphed <- s11,
    batch <- s12, scoreQ <- s13, score <- s14, scored_total <- s15, restarts <- s16

ASSUME Sim!SimulationAssumption
ASSUME Sim!CachesAssumption
ASSUME Calls!CallsAssumption
ASSUME Calls!TradesAssumption
ASSUME Rerun!ReplayAssumption
ASSUME Ledger!LedgerAssumption
ASSUME Preds!PredictionsAssumption

-----------------------------------------------------------------------------
\* Of a part that rests, one initial state is enough.
named == <<tipShareVars, nonceVars, arbVars, govVars>>
NamedInit ==
    /\ TipInit /\ NonceInit /\ Init /\ GovInit
    /\ part # "nonce" => Alone
    /\ part # "arb" => /\ tx = CHOOSE r \in Requests : TRUE
                       /\ minProfitThreshold = CHOOSE f \in Floors : TRUE
    /\ part # "owner" => owner = CHOOSE a \in Accounts : TRUE

MCInit ==
    /\ \/ part \in {"tip", "nonce", "arb", "owner"} /\ Rest(0)
       \/ part = "simulation" /\ Sim!Init /\ Rest(7)
       \/ part = "caches" /\ Sim!CacheInit /\ Rest(15)
       \/ part = "calls" /\ Calls!Init /\ Rest(6)
       \/ part = "trades" /\ Calls!TradeInit /\ Rest(3)
       \/ part = "replay" /\ Rerun!Init /\ Rest(15)
       \/ part = "ledger" /\ Ledger!Init
       \/ part = "predictions" /\ Preds!Init
    /\ NamedInit

\* Every part but the two sides of the contract may come to an end.
MCNext ==
    \/ part = "tip" /\ TipNext /\ UNCHANGED <<slots, nonceVars, arbVars, govVars>>
    \/ part = "nonce" /\ NonceNext /\ UNCHANGED <<slots, tipShareVars, arbVars, govVars>>
    \/ part = "arb" /\ Next /\ UNCHANGED <<slots, tipShareVars, nonceVars, govVars>>
    \/ part = "owner" /\ GovNext /\ UNCHANGED <<slots, tipShareVars, nonceVars, arbVars>>
    \/ part = "simulation" /\ Sim!Next /\ Still(7) /\ UNCHANGED named
    \/ part = "caches" /\ Sim!CacheNext /\ Still(15) /\ UNCHANGED named
    \/ part = "calls" /\ Calls!Next /\ Still(6) /\ UNCHANGED named
    \/ part = "trades" /\ Calls!TradeNext /\ Still(3) /\ UNCHANGED named
    \/ part = "replay" /\ Rerun!Next /\ Still(15) /\ UNCHANGED named
    \/ part = "ledger" /\ Ledger!Next /\ Still(16) /\ UNCHANGED named
    \/ part = "predictions" /\ Preds!Next /\ Still(16) /\ UNCHANGED named
    \/ part \notin {"arb", "owner"} /\ UNCHANGED <<slots, named>>

\* The scorer's ticks come and its task runs; Postgres takes a write now and then.
predictionVars == Preds!vars
MCSpec ==
    /\ MCInit /\ [][MCNext]_<<slots, named>>
    /\ WF_predictionVars(part = "predictions" /\ Preds!Poll)
    /\ WF_predictionVars(part = "predictions" /\ Preds!ScoreNext)
    /\ SF_predictionVars(part = "predictions" /\ Preds!ScoreWriterTask(TRUE))

-----------------------------------------------------------------------------
\* What is computed on a fork is what the chain it stands for gives: a pinned
\* simulation reports the call's effect at its block, however its reads fall, the
\* replay's running states are the fork's, and no block leaves its fork behind.
ForksExact ==
    /\ part = "simulation" => Sim!PinnedExact
    /\ part = "replay" => Rerun!RunningTracksFork /\ Rerun!ForkReaped

\* A plan of the scorer executes on the pools it was made from, its exact walk is
\* what the hops pay, and no sequence of quoted swaps pays for itself.
PlansExecute ==
    /\ part = "calls" => Calls!ExactPlansExecute
    /\ part = "trades" => Calls!QuotesSound

\* The reserves given to a simulation are within the lag, and code once cached
\* stays on disk and in the validator's snapshot.
CachesFresh ==
    [][part = "caches" => Sim!ReservesWithinLag' /\ Sim!StaysWarm]_slots

\* The ledger's gauge does not drift, a bundle's row joins the arb it was built
\* from or the loss of that arb's row is counted, every prediction counted as
\* persisted is accounted for, and a stored score stands.
RecordsAccounted ==
    [][/\ part = "ledger" =>
            Ledger!GaugeTracksQueue' /\ Ledger!RowsJoin' /\ Ledger!OrphansSurface'
       /\ part = "predictions" => Preds!PredictionsAccounted' /\ Preds!Kept]_slots

\* Every confirmed prediction whose pool can be read gets a score.  Records 2 and 3
\* are of one transaction, so at most one of them is ever confirmed.
EveryConfirmedScored ==
    (part = "predictions" /\ s9 \ {1} # {})
        ~> (part = "predictions" /\ \A r \in s9 \ {1} : Preds!Scored(r))

\* The steps the engine publishes carry "Protocol-specific calldata"
\* (AetherExecutor.sol:105): a plan made from the current pools does not fail at a
\* pool nobody else touched.
EngineStepsTrade == part = "calls" => Calls!EngineStepsTrade
=============================================================================
