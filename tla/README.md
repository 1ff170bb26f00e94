# Aether in TLA+

Models, model checks and proofs of the Aether arbitrage engine. Aether is three
programs and a contract: a Rust *engine* keeps a price graph of on-chain pools and
finds profitable cycles; a Go *executor* receives them over gRPC, checks risk limits,
builds and signs bundles and sends them to block builders; a Go *reconciler* (with a
monitor, a signer and a Telegram bot) follows up; the `AetherExecutor` contract runs
the trade with a flash loan.

Paths below are relative to `src/`. `PROJECT.json` has the machine-readable index:
components, runs, hazards, theorems, and the source lines of every definition.

## 1. The system and what is hard about it

### Engine (Rust)

| part | state | what is hard |
|---|---|---|
| price engine `crates/grpc-server/src/engine.rs`, `crates/state` | token index, pool registry (both `ArcSwap`), working graph (mutex), published snapshot, pool states | five tasks share it; load-clone-modify-store without a lock; flags cleared between clone and scan; late RPC answers |
| hot cache `crates/state/src/hot_cache`, `discovery_integration.rs` | the hot set | the sync runs beside the event loop |
| provider, node pool, event channels `provider.rs`, `node_pool.rs`, `subscription.rs` | connections, health, broadcast rings | fail-over, the gap between two subscriptions, lag |
| mempool feed `mempool.rs`, `first_seen_tracker.rs` | subscription, ring, tracker | reconnects, eviction |
| decoders `event_decoder.rs`, `crates/pools/src/router_decoder.rs` | none | nested calls, directions, malformed words |
| pool mathematics `crates/pools` | none | rounding, tick crossing, inverse quotes |
| detector, optimizer `crates/detector` | queue, distances, interval | parallel pools, termination, a single peak |
| detection cycle, gates `engine.rs`, `cycle_gating.rs` | tasks and permits | simulations end in any order |
| mempool pipeline `mempool_pipeline.rs` | snapshot, registry, semaphore | pools move while a scan runs |
| simulator and caches `crates/simulator` | fork, overlays, caches | lazy reads at a moving head, staleness |
| discovery, admission `crates/discovery`, `pool_admission.rs` | listeners, scored cache, mirror | two listeners, outages, eviction |
| arb stream `service.rs` | ring, subscribers | lag, filters, reconnects |
| persistence `db.rs`, `mempool_writer.rs`, `profitability_writer.rs` | bounded queues, tables | losses, row order, retries |
| replay, scorer `bin/aether_replay.rs`, `bin/aether_profit_scorer.rs` | fork, running states | a fork per block, failing reads |
| process `main.rs` | tasks, metric registry | every environment, order of the shutdown |

### Executor and services (Go)

| part | state | what is hard |
|---|---|---|
| risk manager `internal/risk` | system state, revert windows, daily books | long sequences of commands and day changes |
| adaptive tip `tip_strategy.go`, `manager.go` | ring of outcomes, two copies of the tip | ring wrap-around |
| nonce manager `cmd/executor/nonce.go` | an atomic counter | lock-free check-then-act against the chain |
| arb processing `cmd/executor/main.go` | the arb in hand | verdict and books in different critical sections |
| inclusion poller `inclusion_poll.go` | pending queue | copy, poll unlocked, overwrite |
| builder submission `submitter.go`, `internal/strategy/abtest.go` | attempts, inclusions, profit | answers in any order |
| mempool gate `mempool_risk.go` | in-flight map | unsigned ages, lazy reaping |
| ledger `internal/db/ledger_pg.go` | queue, in-flight writes, rows | rows overtake each other; two deadlines in `Close` |
| start and shutdown `run.go`, `startup.go` | contexts, WaitGroup | who cancels what |
| reconciler `cmd/reconciler/main.go` | predictions, queue, sweep | two resolvers, no order |
| admin server, gas oracle, signer, events, monitor, bot | caches, connections | not modelled (section 7) |

### Contract (Solidity)

`AetherExecutor.sol`: `executeArb` with an Aave flash loan, swap steps over several
protocols, callback slots and approvals, settlement; ownership, roles, pause, and a
timelocked router registry. What is hard: other contracts run inside its calls.

## 2. Modules

| module | models | how state and actions correspond |
|---|---|---|
| `RiskManager` | `internal/risk/manager.go`, `state.go` | one variable per field, one atomic action per mutex-holding method; `PreflightCheck` is the ordered list of limits |
| `Executor` | `processArb`, `consumeArbStream`, `resolveInclusion`, admin commands, over `RiskManager` | `pc` walks the critical sections of `processArb`: gate, preflight, build, submit, record |
| `TipShare` | the outcome ring, `CalculateTipShare`, `AdaptiveTipStrategy` | both copies of the tip; the growing index and the ring are separate, as in the code |
| `NonceManager` | `nonce.go` | each atomic access of `Next` and of `Sync` is a step; the chain mines, drops and sees other senders; `raced` records what was taken between `Sync`'s load and its store |
| `InclusionPoll` | `inclusion_poll.go` | copy of the queue, one relay answer per bundle, replacement of the queue |
| `BuilderRouting` | `submitter.go`, `abtest.go` | fan-out goroutines answer one by one; scores and shares are exact fractions |
| `MempoolGate` | `mempool_risk.go` | the five tests in order, with the age in machine words |
| `PgLedger` | `ledger_pg.go`, its migration | producers, channel, dispatcher, concurrent writers, `Close` with its two deadlines; the gauge changes in a step of its own, before the send and after the receive |
| `ExecutorShutdown` | `run.go`, `startup.go` | parent and child context, loops, WaitGroup, signal |
| `Reconciler` | `cmd/reconciler/main.go`, `mempool_reconciliation_pg.go` | header loop, lookup, queue, writer, sweep in two steps, stop and restart |
| `ArbStream` | `service.rs`, the client of `main.go` | broadcast ring with cursors, lag, forwarder, buffer, reconnect |
| `PriceEngine` | `engine.rs`, `crates/state`, `subscription.rs` | every load and store of an `ArcSwap`, every critical section of the graph mutex and every RPC round trip is a step of one of five tasks |
| `PoolSeeding` | `register_pool`, `remove_pool`, the phases of `fetch_initial_reserves_filtered`, `handle_pool_update`; the registry by pair | the data `PriceEngine` leaves out (protocols, decimals, token order, reserves, V3 liquidity); event loop, hot-cache sync and `reload_config` are tasks, cut at each await, beside one refresh; `astray` records the pools two tasks had in hand at once |
| `Detector` | `bellman_ford.rs`, the collector of `opportunity.rs` | one relaxation per step, integer weights for the logarithms |
| `Optimizer` | `optimizer.rs` | one iteration of the ternary search per step; its theorem is in the same module |
| `CycleGating` | `cycle_gating.rs` | operators: a hop is the sequence of its parallel edges |
| `Detection` | the second half of `run_detection_cycle`, `PgLedger` of `common/src/db.rs`; the two publications of a snapshot | gates, sizing, one step per simulation task, stream, queue and writers; for the snapshot the working graph, its lock, the version counter and three publishers |
| `PoolMath` | the adapters of `crates/pools` | quotes, inverse quotes and post-states as exact integer operators |
| `SwapCalls` | `swap_encode.rs`, the scorer's plans, the engine's steps, the contract's swaps; a trader on `PoolMath` | one hop per step |
| `Simulation` | `simulator/src/lib.rs`, `fork.rs`; the bytecode and reserve caches | a read from the node is a step, at the pinned block or at the head of that moment |
| `Replay` | `bin/aether_replay.rs`, `historical.rs` | `pc` walks the tool: spawn, seed, send, refresh, detect, report, reap |
| `TradeLedger` | `common/src/db.rs`, `engine.rs`, `pipeline.rs` and the executor's bundle rows | stream and row are separate steps of two processes, and so are a queue's change and its gauge's |
| `Predictions` | `mempool_writer.rs`, `profitability_writer.rs`, the scorer's loop | queues, writers, batches, restarts |
| `Provider` | `provider.rs`, `node_pool.rs` | connection, the two subscribe calls, blocks and logs, failures, back-off |
| `MempoolFeed` | `mempool.rs`, `first_seen_tracker.rs` | source, ring and tracker |
| `EventDecoder`, `RouterDecoder` | `event_decoder.rs`, `router_decoder.rs` | words of four bytes; a call is the record of its arguments, a wallet wraps and batches calls |
| `MempoolPipeline` | `mempool_pipeline.rs`, `mempool_backrun.rs`, `post_state_replay.rs` | handler, blocking scan and validation as tasks beside the engine; the permit is taken before the sizing and held through it |
| `Discovery`, `PoolMetrics` | `crates/discovery` | a listener holds one log at a time and awaits the validator; inserting, ranking, dropping and announcing are steps, as the pruning timer and the other listener change the map in between |
| `TokenScreen` | `hot_token.rs`, `fee_on_transfer.rs`, `pool_admission.rs` | tracker, probes, gate and file |
| `EngineProcess` | `main.rs`, `discovery_integration.rs`, `tracing_init.rs`, constructors and metric families | `main` from start to exit under one environment record |
| `FlashArb` | `executeArb`, the swap steps, settlement | the called pool may call back, pull, push or yield anything the interface allows, step by step |
| `RouterGovernance` | ownership, roles, timelock | one action per external function |

`Executor` is the composition of the trading path: it extends `RiskManager` and drives it
through the calls `processArb`, the poller and the operator make. Every one of its steps
is a step of `RiskManager` or leaves it alone, which `ExecutorProofs` proves and uses to
carry the breaker over to the running executor (`BreakerGuardsExecutor`).

Parts that share no state are put side by side, so that TLC explores the sum of their
state spaces and each property is about its own part. `Services` does so for the seven
services of the executor. `MCChain`, `MCMarket` and `MCFeeds` do so with `Parts`: a
component is an instance whose variables are the first of sixteen slots. `Executor` and
`PriceEngine` end with the instance their runs use.

`ExecutorProofs`, `ChainProofs`, `PriceEngineProofs`, `QueueProofs`, `LedgerProofs`,
`WindowProofs` and `ServicesProofs` hold the proofs (section 5).

History variables, which the code does not have, serve properties and the bounds of the
model only; they are marked `history` where a module declares them.

## 3. Runs

Twelve runs: six pass, six show a disagreement between the code and what its
comments or documents say. `tlc -config <cfg> <module>` repeats each.

### executor (`Executor`, `Executor.cfg`)

The risk manager under any sequence of its methods, and driven by the executor: trades,
reverts of both types, pauses, resumes, resets and changes of the floor; two arbs of
one block-driven and one mempool shape, two builders, a volume cap that two trades fill.
Bounds: the breaker needs two reverts and the window is two ticks, so a revert leaves
the window while others stay; a day is two ticks of three, so the books roll over once;
three reverts is one more than trips; a loss of two exceeds the limit of one in a single
trade and a gain can bring it back.

- `LossImpliesHalted`, `BreakerTrips`: a loss beyond the limit is only on the books of a
  halted system, and a revert that finds the threshold in its window never leaves the
  system trading.
- `AtMostOneAfterStop`: a stop (operator or breaker) lets at most the one bundle through
  whose verdict was already given.
- `DayWithinCap`: the volume submitted in a day stays within the cap, although check and
  record are separate critical sections and the books roll over lazily.

### chain (`MCChain`, `MCChain.cfg`)

- `MissesRaiseTip`: a ring of three with eight results, so it wraps twice and the tip
  reaches both limits; a ring of misses raises the tip.
- `NoNonceReuse`: three bundles, four nonces on chain, with and without other senders
  on the key, synced and unsynced starts. A nonce is handed out again only if it was
  first taken between a `Sync`'s load and its store; with the key to itself after a good
  start, the executor never takes one there.
- `StepSpendsAtMost`, `Settles`: round trips of two steps over two tokens for each way
  of paying (push, callback, pull) in both orders, balances to four, a premium of 1,
  floors 0 and 2. `RouterTimelocked`: two accounts, the admin role, two routers, five
  days.
- `ForksExact`: jobs of every kind over three blocks that differ in code and balances, on
  cold forks and on forks warmed with the reserves of the block or of one up to two
  blocks older; a pinned simulation reports the call's effect on the state it stands for
  (the block, with the reserves it was warmed with), however its reads fall. The
  replay's running states are the fork's, and no block leaves its fork behind: plans of
  all three modes, with transactions that fail on the fork.
- `PlansExecute`: cycles over a pool of three kinds and one of every kind; a plan of the
  scorer executes on the pools it was made from. No sequence of four quoted swaps pays
  for itself.
- `CachesFresh`: one pool over four blocks; reserves within the lag, code once cached
  stays.
- `RecordsAccounted`, `EveryConfirmedScored`: two arbs of the block path and one of the
  mempool path through a queue of one and one writer, one registration; three
  predictions, the last two of one transaction, the first of a pool that cannot be read.
  At most one of the last two is ever confirmed, so `EveryConfirmedScored` is a single
  leads-to.

The two sides of the contract are checked for deadlock; every other part may end.

### services (`Services`, `Services.cfg`)

Seven parts. Two bundles in the poll with a retry window of two ticks and a clock to
five, so that one is queued while the other is polled; two rounds of submission to two
builders in both routing modes with the default floor and prior; three victims, two
target blocks and a cap of two in the gate, with 4-bit words so that a negative age
wraps. Three arbs through a ring of two and a buffer of one; the rows of one bundle
through a channel of one and two writers, closed at any moment; three loops and the
stream under start, signal and cancellation; two predictions, a queue of one row and
four blocks with a window of one.

- `SubmissionSound`: a bundle is settled once, missed only after its window and lost
  only if it was queued during a poll; a victim is not backrun twice, nor a block beyond
  the cap, before the entry expires; only fresh victims pass; the map stays small.
- `SharesSound`: the shares add up to one, each builder keeps its part of the floor, the
  one ranked first has most, only a builder that accepted a bundle has a profit to its
  name, and the win rate is at most one.
- `BundlesSettle`: a submission ends, and a bundle that was not raced settles.
- `StreamFaithful`: each arb at most once, in order, and none lost silently.
- `LedgerBalanced`: once quiet, the books of the bundles balance with the rows; the
  gauge covers the queue; a clean close drains; no loop sends on the closed channel.
- `OutcomesSound`, `FirstOutcomeStands`: dropped only after the window, a landed
  prediction is confirmed or on its way, and the first outcome is the last.
- `ServicesProgress`: what is published to a live stream arrives, cancellation ends the
  process, every prediction gets an outcome.

### engine (`PriceEngine`, `PriceEngine.cfg`)

A configured V2 pool and a V3 pool created later that share a token; three tokens in a
graph that starts with two vertices, so it must be resized; a channel of two events;
reserves 2 are thin, 0 and 3 give no price. Four workloads: the event loop registering
alone, with a creation, two trades (so the channel overflows) and one reserve refresh;
one trade with one refresh of the hot cache; one trade with a ReloadConfig or a reserve
refresh; two refreshes of the hot cache, so that pools are also removed.
`ScannedOrDirty`: no price change escapes the detector. `RegistrationSafe`:
`register_pool` is right where the premise of its comment holds, that is, where only
main and then the event loop register; where others do it is not (`registry_race`).
`PricesCatchUp`: there, the published graph returns again and again to the prices of the
chain, of every pool that has one and none of whose updates was lost or overwritten.
Deadlock is not checked: the event loop really stops when it panics.

### market (`MCMarket`, `MCMarket.cfg`)

- `ScanSound`: all graphs of three tokens with two parallel pools between the first two,
  one of them possibly under the floor, and triangles of pools with both directions and
  a fee. Every cycle reported is a closed route of pools above the floor with a negative
  weight; the scan comes back with nothing where there is one only after a vertex ran
  out of relaxations; the collector keeps the best two of four.
- `PeakBracketed`: single-peaked curves of every peak and four shapes on nine inputs.
- `ArbsSound`, `CycleCompletes`: batches of three out of five candidates (a parallel
  edge under the floor, no measured depth, no WETH, no finite factor, a shallow pool)
  with two permits; what is streamed was measured, is worth the threshold and is in the
  ledger, on its way or counted; a cycle ends whatever becomes of its simulations.
- `SnapshotsAdvance`: two pools, two cycles, two calls of the sync and of the refresh,
  blocks that may go back. The pipeline never returns to the graph of an earlier cycle,
  and a removed pool is out of the published graph once a later cycle has published,
  unless its edges were added again.
- `ViewsAgree`: four pools, one of each kind, one with its tokens in the wrong order and
  two not configured; one refresh beside two of: a trade, a creation, an addition, a
  reload, a removal. Detector and predictor hold the same reserves of a V2 pool unless
  two tasks had it in hand at once. Two identifiers and four calls in the registry by
  pair: a registered pool is found under every pair of its tokens.
- `PoolsAdmitted`: two blocks of the logs of five factories, at their addresses a deep, a
  shallow and an empty pool; five configurations, outages of single RPC calls. A pool
  with WETH that the analytical checks pass has the floor, unless the call that failed
  is one whose failure its protocol takes for a pass (`waived`). In mode "both" the
  floor says nothing: the revm round trip drops the state of its first swap, so no pool
  with WETH is ever valid there. Two tokens, with and without a tax, over
  five venues.
- `DiscoveryCovers`: the same, and both listeners storing into a cache with room for one
  of two pools while the timer prunes. The polling listener leaves no hole but the
  ranges the node refused, and a subscriber misses no cached pool but one that another
  task dropped while it was stored.

### feeds (`MCFeeds`, `MCFeeds.cfg`)

- `FeedsExact`: five node files (absent, unparsable, empty, unknown types, unset
  variables), three blocks; every log of a connection is handled once, or is one the node
  did not deliver, or was mined before `subscribe_logs` answered. A tracker of one
  entry; the first time seen is the one kept.
- `SwapsDecoded`: two logs of each event that differ in one field, whole and truncated;
  what is dispatched was emitted (of a Curve exchange the pool only: its event has no
  reserves), and what is malformed is counted. Every router method with paths of one to
  three tokens, malformed ones, and batches: each record is a trade of the call in its
  direction, and no swap of a well-formed batch is lost.
- `BackrunsSound`: what the pipeline publishes was simulated as it says, and no way a
  simulation ends loses its permit.
- `BootSound`: every environment of `main`: no metric is registered twice, and the code
  injected for the executor has the pool's address in every place of its immutable.
- `FeedsProgress`: provider and mempool source come back after outages, and the process
  ends once its server has returned.

Deadlock is off where parts end by themselves (`services`, `market`, `feeds`) or the code
does (`engine`).

### Violations

| run | property | what the run shows |
|---|---|---|
| `gas_loss` | `RealizedLossHalts` | backruns mined reverted cost gas, are booked as profit, and nothing halts |
| `registry_race` | `IndexAgrees` | two concurrent `register_pool` calls leave a pool with the indices of other tokens |
| `engine_steps` | `EngineStepsTrade` | the steps the engine publishes carry no calldata, so the contract reverts at the first pool |
| `swaps_reach` | `SwapsReachEngine` | the V3 event is declared as `SwapV3`, so its topic is not the one V3 pools emit |
| `cooldown` | `CooldownEnds` | without an operator, what the revert breaker paused stays paused; there is no automatic end after ten minutes |
| `cycle_missed` | `TrianglesFound` | a full scan of one pool between every two of three tokens ends with nothing although a round trip gains |

## 4. Fairness

Safety properties assume none. Liveness assumes what the runtime and the deadlines in
the code give:

- `InclusionPoll`: the ticker fires, `GetBundleStats` returns (its request has a
  deadline), time passes. Weak fairness.
- `BuilderRouting`: every goroutine runs and every builder request ends (HTTP timeout).
- `ArbStream`: the forwarder task and the receiving loop run. Nothing makes a client
  connect or the engine publish.
- `PgLedger`: the dispatcher and the timers of `Close` run; a statement need never
  return until its context is cancelled.
- `ExecutorShutdown`: main and the loops run; a round ends; `select` picks at random
  among ready cases, so a loop that can return again and again does (strong fairness).
- `Reconciler`: blocks come, the sweep's ticker fires, and Postgres answers again and
  again (strong fairness, as it may fail in between).
- `PriceEngine`: main boots, the event loop runs and blocks come (weak); `select!`
  picks at random among ready channels, so an event waiting beside the blocks is taken
  (strong). The RPC calls of the boot have timeouts and may fail. The conditions are on
  `alone`, as only `PricesCatchUp` uses them and it is about that deployment.
- `Detection`: the tasks are spawned, end and are collected (weak): each simulation runs
  under a gas limit on a blocking thread.
- `Predictions`: the scorer's tick comes and its task runs (weak); Postgres takes a
  write again and again (strong).
- `Provider`, `MempoolFeed`: the tasks, their timers and their select loops run (weak);
  nothing makes a node answer: the property assumes it from some moment on.
- `EngineProcess`: `main` and its tasks run (weak).

In the sum runs the fairness of a part that does not move asks nothing: its actions are
disabled in its initial state, or the condition is on `part`.

## 5. Proofs

`tlapm <module>` checks every proof from nothing. The assumptions are the named
`ASSUME`s on the constants (types, non-zero sizes, `MinTip <= MaxTip` as the loader
enforces), which TLC evaluates in every run.

| module | inductive invariant | theorems |
|---|---|---|
| `ExecutorProofs`, risk manager | `TypeOK` with `LossImpliesHalted`, `ObserverAgrees`, `RevertWindowSound` | `TypeCorrect`, `LossHalts`, `ObserverInStep`, `WindowAlwaysSound`, `BreakerAlwaysTrips`, `OnlyOperatorsRecover` |
| `ExecutorProofs`, executor | `ExecInv` | `BreakerGuardsExecutor`, `VolumeCapAlwaysHolds`, `StopIsEffective`, `BooksAlwaysCoverDay`, `DayAlwaysWithinCap`, `LossBreakerNeverTrips` |
| `QueueProofs`, tip | `TipInv` | `TipTypeCorrect`, `TipAlwaysUsable`, `StrategyAlwaysInStep`, `OneStepPerResultAlways`, `RingAlwaysRecent`, `MissesAlwaysRaiseTip` |
| `ChainProofs`, nonce | `NonceInv`, `RaceInv` | `NonceTypeCorrect`, `AloneNeverBehind`, `NoReuseOutsideSync`, `SyncAlwaysCatchesUp` |
| `ChainProofs`, contract | `ArbInv`, `GovInv` | `SpendTheorem`, `OpenTheorem`, `SettlesTheorem`, `NominationTheorem`, `HandOverTheorem`, `TimelockTheorem` |
| `PriceEngineProofs` | `ScanInv`; `TypeInv` with `AloneInv` | `NoEscape`; `RegistrationIsSafe` |
| `Optimizer` | `IInv` | `SearchKeepsPeak` |
| `QueueProofs`, queues | `StreamInv`, `PollInv` | `StreamAlwaysFaithful`, `PollAlwaysSound` |
| `LedgerProofs` | `LedgerInv` | `LedgerAlwaysBalanced` |
| `WindowProofs` | `GateInv`, `ReconInv`, `LifeInv` | `GateAlwaysSound`, `OutcomesAlwaysSound`, `FirstOutcomeAlwaysStands`, `JoinedBeforeClose` |
| `ServicesProofs` | those of the seven parts | `SubmissionTheorem`, `StreamTheorem`, `LedgerTheorem`, `OutcomesTheorem`, `FirstOutcomeTheorem` |

Why the strengthenings are needed:

- **Risk manager.** `BreakerTrips` counts the reverts inside the window; the code counts
  the length of a pruned slice. They agree because times are appended in clock order, so
  what `prune` drops is a prefix (`RevertWindowSound`).
- **Executor.** The cap survives because an approval stays good until its trade is
  recorded (`ApprovedFits`): only `processArb` adds volume, and midnight only lowers
  it. `StopInv` says where in `processArb` the one late bundle may be. `DayInv`
  relates the day of the history to the lazily rolled books. `CountInv` keeps the
  bounds of `RiskManager` from refusing a step of the executor, so that every step of the
  executor is one of the risk manager's or leaves it alone (`RiskStep`), and the breaker's
  theorem carries over to the executor.
- **Tip.** The gate compares an index that never stops growing, so `TipInv` ties it to
  the number of outcomes; the ring theorem says which outcomes a slot holds after any
  number of wraps. That a ring of misses raises the tip then needs that slots and recent
  results correspond one to one (`SlotsOfRecent`), so that the rate read off the ring is
  that of the last `WindowSize` results, for every ring size.
- **Nonce.** `NoNonceReuse` is not inductive: a sync that read the counter earlier may
  store later. `RaceInv` bounds every nonce that was not taken between a load and a store
  by the lower of the counter and what the running sync loaded, so that no later store
  reaches below it; this needs no assumption on who else sends. `NonceInv`, for the
  deployment with the key to itself and a synced start, adds that the counter is exactly
  as far as the nonces issued and that no answer of the node is ahead of it, so that no
  sync ever stores.
- **Contract.** `Budget`: what the pool of a step has taken and may still take is
  within the plan and can be taken in one way only. `UnderWay`: the request passed its
  tests under the configuration that still stands. `WindowFixed`: the window of an
  announced router is fixed at the announcement.
- **Engine.** Every operation on the graph raises the flag of what it writes
  (`Flagged`, one lemma per operation); detection is the only step that lowers flags,
  and it scans what it lowers or puts it in `outside`.
- **Registration.** `RegistrationSafe` has two halves. The types hold in every
  deployment; `TypeInv` adds that a task which builds metadata has its pool's tokens in
  its own copy of the index, without which the vertex numbers would be undefined. The
  rest is for the deployment of `register_pool`'s comment, where main and then the event
  loop register. `AloneInv`: only one of the two registers at a time, its copies are the
  shared values, its pool is nobody else's, and each created pool is in the channel at
  most once (`Once`); the graph has a vertex for every token except between the store of
  the index and the growth of the graph (`GraphCovers`), and while the event loop holds
  an update it is not in between, so it never panics. A refresh may be, and may. TLC
  checked the invariant on the instance of the run (456,177 states) before the proof.
- **Optimizer.** While the search runs a peak is inside the interval or the best of the
  two probes is as good (`Bracketed`); for every single-peaked profit function.
- **Stream.** `NoSilentLoss` and the order speak of what was received; the invariant
  orders the whole way: the cursor is past everything buffered, and what is buffered is
  ascending and past everything received. What lies behind the cursor and passed the
  filter is buffered, received, skipped by a counted lag, or lost to a broken stream.
- **Inclusion poll.** The poll copies the queue and later replaces it, so a bundle is in
  up to three places. `PollInv`: the copy still to ask, the ones to keep and the queue
  are each free of repetitions, apart from each other but for the copied prefix, and
  hold nothing settled; what was not raced is settled or in one of them.
- **Ledger.** `BooksBalance` speaks of a quiet system. `LedgerInv` follows each row from
  its producer through channel, dispatcher and writers: it is in one place at a time
  (`OnePlace`), and the counters are the bundles whose roll-up row is no longer due
  (`Accounted`); the gauge counts the channel, the producers that announced a row and the
  row the dispatcher received and has not counted yet. TLC checked the invariant on two
  bundles, a channel of two and two writers (5.1 million states) before the proof.
- **Mempool gate.** The tracker forgets a block once its entry expires, and reaps
  lazily. `GateInv`: an entry holds the whole history of its block's approvals until the
  first of them expires, which gives the absence of duplicates, the cap and the bound on
  the map at once.
- **Reconciler.** Header loop, writer and sweep each hold a part of a prediction.
  `ReconInv`: a landed prediction without an outcome is being looked up, queued or being
  written unless a fault is on record, and the head the sweep read is not ahead of the
  one the loop has.
- **Process.** `LifeInv`: the WaitGroup's counter is the number of running loops, so
  that `wg.Wait` returns only when no loop can send any more.
- **Composition.** A step of `Services` is a step of one part and leaves the others
  alone (`StepsOfParts`); each part's invariant is thus one of the composition.

Only model-checked: every liveness property (the prover has no fairness or `ENABLED`);
`SharesSound` (sums over the builders need induction over data); and the parts of
`chain`, `market` and `feeds` that the table does not name (`ForksExact`,
`PlansExecute`, `CachesFresh`, `RecordsAccounted`; `ScanSound`, `ArbsSound`,
`ViewsAgree`, `PoolsAdmitted`, `DiscoveryCovers`; `FeedsExact`, `SwapsDecoded`,
`BackrunsSound`, `BootSound`). Most of these (`Detector`, `Discovery`, `RouterDecoder`,
`PoolMath`, `Replay` and others) are built on recursive operators or folds over data.

A line `USE ZenonT(20), SMTT(20)` at the head of a proof module tries Zenon on a leaf and
then the SMT solver, with twenty seconds for each; most leaves take well under one. A leaf
that needs arithmetic or sequences names `SMTT(20)` and goes to the SMT solver at once.
`TipShare` is proved beside the queues because its ring needs the same library of finite
sets and intervals, which `ChainProofs` does without.

## 6. Divergences

Shown by a run: see the violations above and `findings` in `PROJECT.json`.

Met while modelling, and in the models, without a run of their own:

- *Risk.* After a pause and a resume a competitive revert pauses again: the breaker test
  runs after every revert on the bug reverts still in the window, which `Resume` does
  not clear (`manager.go:326`, against `manager.go:291`). `PreflightCheck` does not roll
  the day over; after midnight a full cap of yesterday refuses trades until something is
  recorded. Gas above 300 gwei and a balance below 0.1 ETH are documented to halt and
  only reject; nothing enters `Degraded`; counters are lost on restart.
- *Shutdown.* SIGTERM cancels a child context (`run.go:257`) while the loops watch the
  parent, so `wg.Wait` blocks (against `docs/runbook/graceful-shutdown.md:7`).
- *Nonces.* With another sender on the key, or when the first sync fails, a bundle built
  between `Sync`'s load and its store loses its nonce to a later one (`nonce.go:51-53`);
  after a failed first sync the counter starts at zero. A nonce is consumed before
  signing and submission; a bundle that fails or misses leaves a gap, and `Sync` only
  moves forward.
- *Inclusion poll.* A bundle queued while a poll is under way is overwritten by the
  poll's replacement of the queue.
- *Shadow mode.* `AETHER_SHADOW` is not consulted for mempool arbs (`main.go:430`).
- *Mempool gate.* A victim can be backrun again after its entry expired; a slot taken
  for an arb that then fails to build is not given back.
- *Ledgers.* Both upserts overwrite unconditionally on different writers, so a delayed
  submit-time write can turn `included` back to false (`ledger_pg.go:277`). An inclusion
  row that overtakes its bundle row fails the foreign key and is lost. Bundles of
  backruns never get an `arbs` row, and nothing counts that (migration 0002 says orphans
  surface). The engine's gauge can be transiently -1. The ledger's `target_block` is the
  block, the stream's the next.
- *Reconciler.* A sweep can mark a landed prediction dropped when its header is handled
  late; the process does not end when its header loop does; reorganised blocks keep
  their confirmed rows.
- *A/B selector.* One landed bundle is recorded by the submission and by the poller. The
  comment of `main.go:764-771` credits each builder that acknowledged a bundle; the code
  and the comment beside it credit the first only.
- *Stream.* A paused engine still streams what it publishes; a changed profit floor
  applies after the next reconnect.
- *Contract.* Flash tokens the contract already held count as profit; the admin role
  can be held apart from ownership; approvals set ahead are overwritten by each swap.
- *Engine.* A pool is in the registry before the graph has room for it, so a task that
  prices it in between panics (`engine.rs:857-866`). An update or fetch that read the
  metadata before `remove_pool` puts the edges back. An RPC answer overwrites a newer
  event (`engine.rs:1640`). Fetches and removals publish graphs no scan has seen,
  although `engine.rs:2336` says readers only see evaluated ones. `PoolCreated`
  registers everything as UniswapV2 at 30 bps. Events sent before the loop subscribes
  are lost. Flags of edges outside the hot set are cleared unscanned.
- *Seeding.* A quarantined pool is repriced by its next event; pools without liquidity
  keep an unfiltered placeholder of rate 1; Curve, Balancer and Bancor pools get no
  edges (`engine.rs:880-921`, against `:887-889`).
- *Detector.* A negative cycle can be missed also where no pair of tokens has two pools
  (run `cycle_missed`). `cycle_gating.rs:16-19` speaks of every hop; the gate asks for
  any parallel edge.
- *Pool mathematics.* `get_amount_in` of Balancer, Bancor and V3 does not undo the
  margins of `get_amount_out`; Curve's quote lacks the "-1" of `curve.rs:10-11`.
- *Provider.* `attempt` is never reset on success; a failed `get_logs` loses its range
  for good; logs mined before `subscribe_logs` answers are never fetched; an unknown
  node type becomes HTTP, and an unset variable leaves its placeholder in the URL.
- *Decoders.* The amount in of an exact-output call is its limit; the swap kind of
  Balancer is ignored; later hops of 1inch have no tokens and are dropped. A Curve
  exchange is dispatched with reserves of zero, which the engine's guard on both
  reserves ignores, so events never refresh a Curve pool.
- *Mempool pipeline.* A pool without state is skipped uncounted
  (`mempool_pipeline.rs:904`, against `:863-870`); the index by pointer can be stale; a
  1inch swap is predicted with the call's token while the edge it changes follows the
  pool's direction flag; an accepted backrun may lose (`mempool_backrun.rs:97-98`,
  against `:284-291`).
- *Simulator.* A fork of the latest block can mix two blocks; a failed prewarm leaves
  its pool unregistered; a refresh replaces a warm snapshot by whatever it got.
- *Replay.* The net profit is called a lower bound (`aether_replay.rs:1023-1025`) but is
  computed without tick crossings, which only add gas; a server that
  already listens is taken for the fork; a missing receipt is not counted; an error
  of the simulation is reported as a revert.
- *Predictions.* Two records of one transaction share a key, so the second is lost; rows
  that fail again and again can fill every batch.
- *Scorer.* An infrastructure error is stored as a revert; some protocols are planned
  although the contract cannot execute them.
- *Discovery and admission.* The health flag stays up until the listener, busy with a
  log, reads the end of its stream; a block range the node refused is passed over for
  good (`events.rs:472`); in mode "both" no pool with WETH is ever valid, as the round
  trip drops the state of its first swap; a pool dropped by one task while another
  stores it stays in the cache without its subscribers knowing; "returns defaults on
  missing file" (`config.rs:296`) but it fails; the venues of a pair are not
  deduplicated; a tax on the buying side is not seen; the round trip is not consulted;
  no binary calls the admission gate.
- *Process.* `main` leaves the executor's address of the engine's configuration zero
  (`main.rs:62`), so the simulations of block-driven arbs call nobody and show no
  profit, although "the executor consumes both block-driven and mempool-backrun arbs"
  (`main.rs:217-219`). An interval of zero panics its task silently
  (`discovery_integration.rs:145`, `discovery/service.rs:433`, `events.rs:437`).

## 7. What is not modelled

`components` in `PROJECT.json` lists every part with its reason. In short: the admin
server, the gas oracle, the signer, the event bus, the monitor and the bot (requests and
answers around operations that are modelled, or presentation), generated code,
deployment. Within modelled parts: the EVM and the wrap-around of 256-bit arithmetic;
floating point (weights are integers, rates fractions); metrics, labels, logging and
reports; the parsing of arguments and files; the half of an edge pair written before a
panic; the standing approvals, Curve calldata patching and rescue functions of the
contract; forensic dumps of the executor; `grid_search_optimal_input` and
`decode_revert_reason`, which only tests and logs use. In `PoolSeeding` one refresh runs
at a time; in `PriceEngine` which reserves give no price is a constant (`Void`).

## 8. Plan

1. Proofs: the provider's `LogsOnce`; the gauge and the rows of `TradeLedger`; the
   permits and the ledger of `Detection`.
2. `AdminPlane`: the handlers of `admin_server.go` over the risk manager, the engine
   state and the snapshot, interleaved; when do the three agree again?
3. The provider composed with the events of `PriceEngine`.
4. The signer pool and server, the gas oracle.
