------------------------------- MODULE Replay -------------------------------
(***************************************************************************)
(* The historical replay, bin/aether_replay.rs: a fork of the chain before *)
(* a block is spawned, the transactions of the block are sent to it one by *)
(* one, and the detector runs after each that touches a tracked pool.  A   *)
(* batch does so for a list of blocks.                                     *)
(*                                                                         *)
(* A transaction is [blob, from, spends, to, moves]: it succeeds on the    *)
(* fork when its sender holds what it spends, which it then gives to `to`, *)
(* and sets the pools in the domain of moves to those states.  All of them *)
(* succeeded on the chain.                                                 *)
(*                                                                         *)
(* The first part is what the tools compute (historical.rs and the pure    *)
(* parts of the binary): the pools they load, the states they read, the    *)
(* price graph, the input of a cycle, the steps of a trade.  A state is    *)
(* <<r0, r1>> of a V2 pool and <<sqrt, liquidity>> of a V3 pool; a rate is *)
(* a fraction <<out, in>>, where the code has its logarithm as a weight.   *)
(***************************************************************************)
EXTENDS Integers, Sequences, SequencesExt, FiniteSets, FiniteSetsExt

CONSTANTS
    FeeUnit,              \* the whole in which fees are counted (10,000)
    Scale,                \* one in the fixed-point format of sqrtPriceX96 (2^96)
    LeastInput, HardMax,  \* range of the optimizer: 0.01 ETH to 50 ETH
    HopGas                \* gas cost of a hop at a base fee of one

HistoricalAssumption ==
    /\ FeeUnit \in Nat \ {0} /\ Scale \in Nat \ {0}
    /\ LeastInput \in Nat \ {0} /\ HardMax \in Nat /\ HopGas \in Nat

None == <<>>

Pool(t0, t1, protocol, fee_bps) ==
    [token0 |-> t0, token1 |-> t1, protocol |-> protocol, fee_bps |-> fee_bps]

WETHpair(t0, t1) == <<Pool(t0, t1, "v2", 30), Pool(t0, t1, "sushi", 30)>>
V3(t0, t1, fee) == <<Pool(t0, t1, "v3", fee)>>

\* The pools used when no file is named; their addresses are their positions.
default_pool_set ==
    FlattenSeq(<<WETHpair("USDC", "WETH"), WETHpair("WETH", "USDT"), WETHpair("DAI", "WETH"),
                 <<Pool("USDC", "USDT", "v2", 30)>>,
                 V3("USDC", "WETH", 5), V3("USDC", "WETH", 30), V3("WETH", "USDT", 5),
                 V3("WETH", "USDT", 30), V3("DAI", "WETH", 30), V3("DAI", "WETH", 5),
                 V3("USDC", "USDT", 1), WETHpair("WBTC", "WETH"),
                 V3("WBTC", "WETH", 5), V3("WBTC", "WETH", 30),
                 WETHpair("AAVE", "WETH"), V3("AAVE", "WETH", 30)>>)

\* The names of protocols in the pool file; any other is none.
parse_protocol(name) ==
    CASE name = "uniswap_v2" -> "v2" [] name = "sushiswap" -> "sushi"
      [] name = "uniswap_v3" -> "v3" [] name = "curve" -> "curve"
      [] name = "balancer_v2" -> "balancer" [] name = "bancor_v3" -> "bancor"
      [] OTHER -> "none"

\* The pools of the file that the tools can price.  An entry is <<name, t0, t1, fee>>.
load_pools(file) ==
    LET Entry(e) == Pool(e[2], e[3], parse_protocol(e[1]), e[4])
    IN  SelectSeq([i \in DOMAIN file |-> Entry(file[i])],
                  LAMBDA p : p.protocol \in {"v2", "sushi", "v3"})

isV2(p) == p.protocol \in {"v2", "sushi"}

\* What a read of the pool may answer: its state, nothing, or, for a V3 pool
\* whose second call fails, its price without its liquidity.
fetched(p, state, reliable) ==
    {state} \union (IF reliable THEN {} ELSE {None})
            \union (IF ~reliable /\ p.protocol = "v3" THEN {<<state[1], 0>>} ELSE {})

\* The reserves an edge is priced with: the real ones, or the virtual ones of
\* a V3 pool; none for a pool that is left unpriced.
reserves(p, state) ==
    IF isV2(p) THEN IF state[1] = 0 \/ state[2] = 0 THEN None ELSE state
    ELSE IF state[1] = 0 \/ state[2] = 0 THEN None
    ELSE <<(state[2] * Scale) \div state[1], (state[2] * state[1]) \div Scale>>

fee(p) == FeeUnit - (p.fee_bps * FeeUnit) \div 10000

\* Both edges of every priced pool: [pool, from, to, out, in], fee included.
build_graph(pools, states) ==
    UNION {LET p == pools[i] r == reserves(p, states[i])
               Edge(a, b, in, out) == [pool |-> i, from |-> a, to |-> b,
                                       out |-> out * fee(p), in |-> in * FeeUnit]
           IN  IF r = None THEN {}
               ELSE {Edge(p.token0, p.token1, r[1], r[2]), Edge(p.token1, p.token0, r[2], r[1])}
           : i \in DOMAIN states}

better(e, f) == e.out * f.in > f.out * e.in

\* The best edges of every hop: the lowest weight.  The order of ties follows a
\* hash map, so any of them may be the one chosen.
bestEdges(graph) == {e \in graph : \A f \in graph :
                        f.from = e.from /\ f.to = e.to => ~better(f, e)}

\* The cycles of two and three hops that end with more than they began with.
\* Detector.tla and CycleGating.tla model how they are found and gated.
detect_negative_cycles(graph) ==
    LET best == bestEdges(graph)
        from(a) == {e \in best : e.from = a}
        two == UNION {{<<e, f>> : f \in {f \in from(e.to) : f.to = e.from}} : e \in best}
        three == UNION {UNION {{<<e, f, g>> : g \in {g \in from(f.to) : g.to = e.from}}
                               : f \in {f \in from(e.to) : f.to # e.from}} : e \in best}
    IN  {c \in two \union three : FoldLeft(LAMBDA q, e : e.out * q, 1, c)
                                    > FoldLeft(LAMBDA q, e : e.in * q, 1, c)}

\* The gas of a trade: the same for every hop, as no tick is crossed.
gas_cost(c, base_fee) == Len(c) * HopGas * base_fee

\* One hop of the optimizer's profit function, and of the trade itself.
constantProduct(p, r, in) == (in * fee(p) * r[2]) \div (r[1] * FeeUnit + in * fee(p))

oriented(p, token, state) == IF token = p.token0 THEN state ELSE <<state[2], state[1]>>

\* V2 hops by their reserves, the others by the rate of their edge.
hopOutput(pools, states, e, in) ==
    LET p == pools[e.pool]
    IN  IF isV2(p) /\ e.pool \in DOMAIN states
        THEN constantProduct(p, oriented(p, e.from, states[e.pool]), in)
        ELSE (in * e.out) \div e.in

profit_fn(pools, states, c, base_fee, in) ==
    FoldLeft(LAMBDA amount, e : hopOutput(pools, states, e, amount), in, c)
      - in - gas_cost(c, base_fee)

\* The least input-side reserve of the V2 hops bounds the input, in raw units.
max_input(pools, states, c) ==
    LET ins == {oriented(pools[c[h].pool], c[h].from, states[c[h].pool])[1] :
                h \in {h \in DOMAIN c : isV2(pools[c[h].pool])}}
    IN  IF ins = {} \/ Min(ins) >= HardMax THEN HardMax ELSE Min(ins)

\* The best input of the range; the least one when the range is empty.
\* Optimizer.tla models the search.
optimize_cycle_input(pools, states, c, base_fee) ==
    LET most == max_input(pools, states, c)
        profit(in) == profit_fn(pools, states, c, base_fee, in)
    IN  IF LeastInput >= most THEN LeastInput
        ELSE CHOOSE in \in LeastInput..most : \A k \in LeastInput..most : profit(k) <= profit(in)

\* The estimate of the report: the rate of the cycle on the whole input.
gross_profit(c, in) ==
    (in * FoldLeft(LAMBDA q, e : e.out * q, 1, c))
      \div FoldLeft(LAMBDA q, e : e.in * q, 1, c) - in

net_profit(c, base_fee, in) == gross_profit(c, in) - gas_cost(c, base_fee)

\* None of zero reserves or of a zero input.
uniswap_v2_get_amount_out(p, r, in) ==
    IF r[1] = 0 \/ r[2] = 0 \/ in = 0 THEN 0 ELSE constantProduct(p, r, in)

\* The steps of the trade, each with the output of the one before as its input;
\* empty as soon as a pool cannot be read or a hop gives nothing.  A read of V3
\* only has to answer.
build_steps_from_cycle(pools, read, c, loan) ==
    LET Add(built, e) ==
          LET p == pools[e.pool]
              out == IF built.amount = 0 \/ read[e.pool] = None THEN 0
                     ELSE IF isV2(p)
                     THEN uniswap_v2_get_amount_out(p, oriented(p, e.from, read[e.pool]), built.amount)
                     ELSE (built.amount * e.out) \div e.in
          IN  [amount |-> out,
               steps |-> IF out = 0 THEN <<>>
                         ELSE Append(built.steps, [pool |-> e.pool, token_in |-> e.from,
                                                   token_out |-> e.to, in |-> built.amount])]
    IN  FoldLeft(Add, [amount |-> loan, steps |-> <<>>], c).steps

-----------------------------------------------------------------------------
CONSTANTS
    Plans,        \* the command lines: [mode, blocks, file, seed, optimizer, sim, attach]
    Txs,          \* block -> its transactions
    Chain,        \* pool -> its state before the block, the same for every block
    Elsewhere,    \* pool -> its state on another node that may listen on the port
    Archive,      \* account -> its tokens before the block
    Flaky,        \* the pools whose reads may fail
    BaseFee, SimInput, Premium

\* The states of the pools fit the pools, and the blocks of a plan exist.
ReplayAssumption ==
    /\ HistoricalAssumption
    /\ \A plan \in Plans : \A k \in DOMAIN plan.blocks : plan.blocks[k] \in DOMAIN Txs

VARIABLES
    args, pc,
    left,         \* the blocks still to replay, the current one first
    server,       \* what listens on the port: "none", "own", "other"
    child,        \* the spawned Anvil process runs
    fork, bal,    \* the pools and balances on the fork
    running_states, seeded_senders, executor,
    next,         \* index of the next transaction
    stats,        \* skipped, reverted, opp_events, success, revert, skip, rows
    verdicts,     \* blocks of a batch that succeeded and failed
    missed,       \* pools a transaction changed whose new state was not read
    report        \* the last event: estimated and measured net profit

session == <<server, child, fork, bal, running_states, seeded_senders, executor, next>>
vars == <<args, pc, left, session, stats, verdicts, missed, report>>

pools == IF args.file = <<>> THEN default_pool_set ELSE load_pools(args.file)
txs == Txs[left[1]]
NoStats == [skipped |-> 0, reverted |-> 0, events |-> 0,
            success |-> 0, revert |-> 0, skip |-> 0, rows |-> 0]
NoReport == [estimate |-> 0, measured |-> 0]
Holders == DOMAIN Archive
Tracked == {i \in DOMAIN pools : i \in DOMAIN Chain}
bump(counter) == [stats EXCEPT ![counter] = @ + 1]

\* A port where nothing listens, or where some other node does.
Init ==
    /\ args \in Plans /\ pc = "start" /\ left = args.blocks
    /\ server \in {"none", "other"} /\ child = FALSE
    /\ fork = (IF server = "other" THEN Elsewhere ELSE Chain)
    /\ bal \in [Holders -> {0}] \union {Archive}
    /\ running_states = <<>> /\ seeded_senders = {} /\ executor = FALSE /\ next = 1
    /\ stats = NoStats /\ verdicts = [ok |-> 0, failed |-> 0]
    /\ missed = {} /\ report = NoReport

\* The block ends with success or an error: the handle of a spawned node is
\* dropped either way, which kills it.  A batch goes on with its next block.
finish(good) ==
    /\ child' = FALSE /\ server' = IF child /\ server = "own" THEN "none" ELSE server
    /\ verdicts' = IF good THEN [verdicts EXCEPT !.ok = @ + 1] ELSE [verdicts EXCEPT !.failed = @ + 1]
    /\ left' = Tail(left)
    /\ pc' = IF args.mode = "batch" /\ Len(left) > 1 THEN "start" ELSE "exit"

\* One block without a fork: the states are read from the archive, and the
\* cycles of their graph are printed; fewer than three states are an error.
Single ==
    /\ pc = "start" /\ args.mode = "single"
    /\ \E got \in {S \in SUBSET Tracked : Tracked \ Flaky \subseteq S} :
         LET cycles == detect_negative_cycles(build_graph(pools, [i \in got |-> Chain[i]]))
         IN  IF Cardinality(got) < 3 THEN finish(FALSE) /\ stats' = stats
             ELSE finish(TRUE) /\ stats' = [stats EXCEPT !.events = Cardinality(cycles)]
    /\ UNCHANGED <<args, fork, bal, running_states, seeded_senders, executor, next, missed, report>>

\* The block cannot be read from the archive, before anything is spawned.
BlockMissing ==
    /\ pc = "start" /\ args.mode # "single" /\ finish(FALSE)
    /\ UNCHANGED <<args, fork, bal, running_states, seeded_senders, executor, next,
                   stats, missed, report>>

\* Anvil at the block before: spawned, or attached to.  A spawned node has a new
\* fork; where another node has the port, it ends, and the other one answers.
spawn_anvil ==
    /\ pc = "start" /\ args.mode # "single" /\ pc' = "wait"
    /\ IF args.attach THEN UNCHANGED <<server, child, fork, bal>>
       ELSE child' = TRUE /\ IF server = "other" THEN UNCHANGED <<server, fork, bal>>
            ELSE server' = "own" /\ fork' = Chain /\ bal' \in [Holders -> {0}] \union {Archive}
    /\ UNCHANGED <<args, left, running_states, seeded_senders, executor, next,
                   stats, verdicts, missed, report>>

\* The pools whose states are read: all but some of those whose reads may fail.
fetch_all_states_latest == {S \in SUBSET Tracked : Tracked \ Flaky \subseteq S}

\* The executor contract is on the fork; a step of its deployment may fail, which
\* turns the simulation off.
deploy_executor_on_anvil == IF args.sim THEN BOOLEAN ELSE {FALSE}

\* The port answers: the states of all pools are read, the executor is deployed.
Ready ==
    /\ pc = "wait" /\ server # "none" /\ pc' = "txs"
    /\ \E got \in fetch_all_states_latest :
         /\ running_states' = [i \in got |-> fork[i]]
         /\ missed' = Tracked \ got
    /\ executor' \in deploy_executor_on_anvil
    /\ seeded_senders' = {} /\ next' = 1 /\ stats' = [NoStats EXCEPT !.rows = stats.rows]
    /\ report' = NoReport
    /\ UNCHANGED <<args, left, server, child, fork, bal, verdicts>>

\* The port does not answer in time.
wait_for_anvil ==
    /\ pc = "wait" /\ finish(FALSE)
    /\ UNCHANGED <<args, fork, bal, running_states, seeded_senders, executor, next,
                   stats, missed, report>>

\* Blob transactions are not replayed.
SkipBlob ==
    /\ pc = "txs" /\ next <= Len(txs) /\ txs[next].blob
    /\ stats' = bump("skipped") /\ next' = next + 1
    /\ UNCHANGED <<args, pc, left, server, child, fork, bal, running_states, seeded_senders,
                   executor, verdicts, missed, report>>

\* The tokens a sender held before the block are written over what it holds on
\* the fork, unless that was nothing or its read failed.
seed_sender_state(sender, b) ==
    IF ~args.seed \/ sender \in seeded_senders \/ Archive[sender] = 0 THEN {b}
    ELSE {b, [b EXCEPT ![sender] = Archive[sender]]}

seededAfter(sender) == IF args.seed THEN seeded_senders \union {sender} ELSE seeded_senders

\* The node refuses the transaction.
SendFails ==
    /\ pc = "txs" /\ next <= Len(txs) /\ ~txs[next].blob
    /\ bal' \in seed_sender_state(txs[next].from, bal)
    /\ seeded_senders' = seededAfter(txs[next].from)
    /\ stats' = bump("skipped") /\ next' = next + 1
    /\ UNCHANGED <<args, pc, left, server, child, fork, running_states, executor,
                   verdicts, missed, report>>

\* What the transaction does on a fork with the balances b.
succeeds(tx, b) == b[tx.from] >= tx.spends
paid(tx, b) == IF succeeds(tx, b)
               THEN [a \in Holders |-> b[a] + (IF a = tx.to THEN tx.spends ELSE 0)
                                             - (IF a = tx.from THEN tx.spends ELSE 0)]
               ELSE b
touched(tx, b) == IF succeeds(tx, b) THEN DOMAIN tx.moves \intersect Tracked ELSE {}

\* The transaction is mined.  Its receipt may be lost, which skips the rest; the
\* pools its logs name are read again, and a failed read keeps the old state.
Mined ==
    /\ pc = "txs" /\ next <= Len(txs) /\ ~txs[next].blob
    /\ \E b \in seed_sender_state(txs[next].from, bal), receipt \in BOOLEAN :
         LET tx == txs[next] hit == touched(tx, b) after == [i \in DOMAIN fork |->
                                        IF i \in hit THEN tx.moves[i] ELSE fork[i]]
         IN  /\ bal' = paid(tx, b) /\ fork' = after
             /\ stats' = IF receipt /\ ~succeeds(tx, b) THEN bump("reverted") ELSE stats
             /\ \E got \in [hit -> UNION {fetched(pools[i], after[i], i \notin Flaky) : i \in hit}] :
                  /\ \A i \in hit : got[i] \in fetched(pools[i], after[i], i \notin Flaky)
                  /\ LET read == IF receipt THEN {i \in hit : got[i] # None} ELSE {}
                     IN  /\ running_states' = [i \in DOMAIN running_states \union read |->
                               IF i \in read THEN got[i] ELSE running_states[i]]
                         /\ missed' = (missed \ {i \in read : got[i] = after[i]})
                                      \union (IF receipt THEN {i \in hit : got[i] # after[i]} ELSE hit)
             /\ pc' = IF receipt /\ hit # {} THEN "detect" ELSE "txs"
    /\ seeded_senders' = seededAfter(txs[next].from) /\ next' = next + 1
    /\ UNCHANGED <<args, left, server, child, executor, verdicts, report>>

\* The detector reports nothing that is profitable.
NoCycle ==
    /\ pc = "detect" /\ pc' = "txs"
    /\ UNCHANGED <<args, left, session, stats, verdicts, missed, report>>

\* What the steps are worth to the owner on the fork, on a loan of WETH: None
\* when a step does not hold its token, or the loan cannot be repaid.  What a V3
\* pool pays is at most its constant-product output.
executeArb(steps, loan) ==
    LET Swap(held, s) ==
          LET p == pools[s.pool] r == reserves(p, fork[s.pool])
          IN  IF held.token # s.token_in \/ r = None THEN [token |-> "none", amount |-> 0]
              ELSE [token |-> s.token_out,
                    amount |-> constantProduct(p, oriented(p, s.token_in, r), held.amount)]
        end == FoldLeft(Swap, [token |-> "WETH", amount |-> loan], steps)
    IN  IF end.token # "WETH" \/ end.amount < loan + Premium THEN -1
        ELSE end.amount - loan - Premium

\* What the run on the fork comes to; a fork that cannot be made, or a simulation
\* that panics, is reported as a revert.
SimOutcome(steps, loan) ==
    {"revert", IF executeArb(steps, loan) = -1 THEN "revert" ELSE "success"}

\* The verdicts of the simulation: skipped without calldata, or its outcomes.
sim_arb_with_evm_simulator(steps, loan) ==
    IF steps = <<>> THEN {"skip", "revert"} ELSE SimOutcome(steps, loan)

\* The counters after the event is printed and its row is in the file.
written(verdict) ==
    [stats EXCEPT !.events = @ + 1, !.rows = @ + 1,
                  !.success = @ + (IF verdict = "success" THEN 1 ELSE 0),
                  !.revert = @ + (IF verdict = "revert" THEN 1 ELSE 0),
                  !.skip = @ + (IF verdict = "skip" THEN 1 ELSE 0)]

\* The best profitable cycle is sized, estimated, simulated and written down.
Detect ==
    /\ pc = "detect" /\ pc' = "txs"
    /\ \E c \in detect_negative_cycles(build_graph(pools, running_states)) :
       \E in \in {IF args.optimizer THEN optimize_cycle_input(pools, running_states, c, BaseFee)
                  ELSE SimInput} :
       \E steps \in {build_steps_from_cycle(pools, fork, c, in)} :
       \E verdict \in IF executor THEN sim_arb_with_evm_simulator(steps, in) ELSE {"off"} :
         /\ stats' = written(verdict)
         /\ report' = IF verdict # "success" THEN NoReport
                      ELSE [estimate |-> net_profit(c, BaseFee, in),
                            measured |-> executeArb(steps, in) - gas_cost(c, BaseFee)]
    /\ UNCHANGED <<args, left, session, verdicts, missed>>

\* All transactions are replayed; or a row cannot be written.
EndBlock ==
    /\ \/ pc = "txs" /\ next > Len(txs) /\ finish(TRUE)
       \/ pc = "detect" /\ finish(FALSE)
    /\ UNCHANGED <<args, fork, bal, running_states, seeded_senders, executor, next,
                   stats, missed, report>>

Next ==
    \/ Single \/ BlockMissing \/ spawn_anvil \/ Ready \/ wait_for_anvil
    \/ SkipBlob \/ SendFails \/ Mined \/ NoCycle \/ Detect \/ EndBlock

Spec == Init /\ [][Next]_vars

-----------------------------------------------------------------------------
\* A pool the detector prices differently from the fork is one whose change
\* could not be read: refreshing only the touched pools loses nothing else.
RunningTracksFork ==
    pc \in {"txs", "detect"} =>
      \A i \in Tracked \ missed : i \in DOMAIN running_states /\ running_states[i] = fork[i]

\* A node that was spawned is gone when its block is done, on every error path,
\* so that the next block of the batch finds its port free.
ForkReaped == pc \in {"start", "exit"} => ~child /\ server # "own"
=============================================================================
