------------------------------ MODULE Discovery ------------------------------
(***************************************************************************)
(* The pool discovery service, crates/discovery/src, as                    *)
(* discovery_integration.rs starts it: a WebSocket and a polling listener  *)
(* decode factory logs, validate the pools they announce and put them into *)
(* a ranked cache, a timer prunes it.                                      *)
(*                                                                         *)
(* A listener is a task: it holds one log at a time and awaits the         *)
(* validator; the cache is a DashMap other tasks change meanwhile.  Scores *)
(* are in percent of the best raw score.                                   *)
(*                                                                         *)
(* The first part is the validation of a pool, validator.rs: analytical    *)
(* checks on the balances an RPC node reports, then a round trip on a revm *)
(* fork.  A candidate is a PoolMath record extended with what the chain    *)
(* holds about it: protocol, its two tokens, whether there is code,        *)
(* whether token0/token1 are in the order the event gave, whether the      *)
(* protocol's router reaches it, whether its token can be sold, and the    *)
(* tokens the probe account already owns.  down is the set of RPC calls    *)
(* that fail.  A verdict is "valid", "low_liquidity" or the reason of an   *)
(* Invalid.                                                                *)
(***************************************************************************)
EXTENDS EventDecoder, PoolMath, SequencesExt, FiniteSetsExt

CONSTANTS
    Weth,            \* the address of WETH
    MinWeth,         \* MIN_WETH_RESERVE_ETH
    Swap             \* validation_swap_eth

ValidatorAssumption == MinWeth \in Nat /\ Swap \in Nat

\* The reasons whose text contains "token" or "getReserves".
TokenReasons == {"token0() call failed", "token1() call failed", "token ordering mismatch",
                 "getReserves() failed", "ETH->token swap failed", "token->ETH swap failed"}

\* The side of the pair that is WETH, 0 when neither is.
wethSide(p) == IF p.tokens[1] = Weth THEN 1 ELSE IF p.tokens[2] = Weth THEN 2 ELSE 0

minOf(a, b) == IF a < b THEN a ELSE b

\* The WETH reserve, or the smaller balance of a pair without WETH.
yardstick(p) ==
    IF wethSide(p) = 0 THEN minOf(p.bal[1], p.bal[2]) ELSE p.bal[wethSide(p)]

eth_to_u256 == Swap

\* What comes back of the swap amount sent through the pool and returned.
thereAndBack(quote(_, _, _), p, t) ==
    LET out == quote(p, t, Swap)
    IN  IF out \in {None, 0} THEN [out |-> 0, back |-> 0]
        ELSE [out |-> out, back |-> quote(p, other(t), out)]

-----------------------------------------------------------------------------
(* Uniswap V2 and SushiSwap.                                               *)

simulate_round_trip(p, t) ==
    LET trip == thereAndBack(v2_amount_out, p, t)
    IN  IF trip.out = 0 THEN "ETH->token swap failed"
        ELSE IF trip.back = 0 THEN "token->ETH swap failed"
        ELSE IF trip.back > Swap \div 100 THEN "valid" ELSE "round-trip output near zero"

\* Mutant: the floor is checked on the side that is not WETH.
validate_v2_reservesOtherSide(p) ==
    LET side == IF wethSide(p) = 2 THEN 2 ELSE 1
    IN  IF p.bal[1] = 0 \/ p.bal[2] = 0 THEN "low_liquidity"
        ELSE IF p.bal[other(side)] < MinWeth THEN "low_liquidity"
        ELSE simulate_round_trip(p, side)

validate_v2_reserves(p) ==
    LET trip == thereAndBack(v2_amount_out, p, 1)
    IN  IF p.protocol \notin {"uniswap_v2", "sushiswap"} THEN "unsupported protocol"
        ELSE IF p.bal[1] = 0 \/ p.bal[2] = 0 THEN "low_liquidity"
        ELSE IF yardstick(p) < MinWeth THEN "low_liquidity"
        ELSE IF eth_to_u256 = 0 THEN "swap amount too small"
        ELSE IF wethSide(p) # 0 THEN simulate_round_trip(p, wethSide(p))
        ELSE IF trip.out = 0 THEN "forward swap failed"
        ELSE IF trip.back > Swap \div 2 THEN "valid" ELSE "round-trip swap unprofitable"

validate_v2_pool_rpc(p, down) ==
    IF "token0" \in down \/ ~p.code THEN "token0() call failed"
    ELSE IF "token1" \in down THEN "token1() call failed"
    ELSE IF ~p.ordered THEN "token ordering mismatch"
    ELSE IF "getReserves" \in down THEN "getReserves() failed"
    ELSE validate_v2_reserves(p)

-----------------------------------------------------------------------------
(* The round trip on a revm fork.  The fork holds what the probe account   *)
(* owns and has approved.                                                  *)

fork(p) == [weth |-> 0, wethAllowed |-> 0, token |-> p.dust, tokenAllowed |-> 0]

\* What a transaction does to the fork, and whether it succeeds (revm and the
\* contracts it runs).
execute(p, f, tx) ==
    CASE tx = "deposit" -> [ok |-> TRUE, after |-> [f EXCEPT !.weth = Swap]]
      [] tx = "approve weth" -> [ok |-> TRUE, after |-> [f EXCEPT !.wethAllowed = Swap]]
      [] tx = "buy with eth" -> [ok |-> p.routable, after |-> [f EXCEPT !.token = @ + 1]]
      [] tx = "buy" -> [ok |-> p.routable /\ f.weth >= Swap /\ f.wethAllowed >= Swap,
                        after |-> [f EXCEPT !.weth = 0, !.token = @ + 1]]
      [] tx = "balance" -> [ok |-> f.token > 0, after |-> f]
      [] tx = "approve token" -> [ok |-> TRUE, after |-> [f EXCEPT !.tokenAllowed = @ + 1]]
      [] tx = "sell" -> [ok |-> p.routable /\ p.sells /\ f.token > 0 /\ f.tokenAllowed > 0,
                         after |-> [f EXCEPT !.weth = Swap]]

\* transact hands the new state back to the caller, which reads the result
\* and drops it: the fork of the next transaction is the one before.
transact(p, f, tx) == [ok |-> execute(p, f, tx).ok, fork |-> f]

\* The verdict of a list of transactions: the first that fails, or "valid".
roundTrip(p, txs) ==
    LET run[i \in 0..Len(txs)] ==
          IF i = 0 THEN [fork |-> fork(p), verdict |-> "valid"]
          ELSE LET before == run[i - 1] now == transact(p, before.fork, txs[i])
               IN  IF before.verdict # "valid" THEN before
                   ELSE [fork |-> now.fork,
                         verdict |-> IF now.ok THEN "valid" ELSE "reverted: " \o txs[i]]
    IN  run[Len(txs)].verdict

run_revm_round_trip(p) == roundTrip(p, <<"buy with eth", "balance", "approve token", "sell">>)
run_curve_exchange_round_trip(p) ==
    roundTrip(p, <<"deposit", "approve weth", "buy", "balance", "approve token", "sell">>)

\* Balancer V3: into the token through the vault, and what it gave back out.
balancer_v3_reverse_swap == <<"balance", "approve token", "sell">>
run_balancer_v3_round_trip(p) ==
    roundTrip(p, <<"deposit", "approve weth", "buy">> \o balancer_v3_reverse_swap)

run_v3_round_trip(p) ==
    roundTrip(p, <<"deposit", "approve weth", "buy", "balance", "approve token", "sell">>)

\* A probe needs a WETH side, a swap amount, the latest block and a fork of it;
\* without the last two it answers otherwise.
probe(p, down, trip, otherwise) ==
    IF wethSide(p) = 0 THEN "valid"
    ELSE IF eth_to_u256 = 0 THEN "swap amount too small"
    ELSE IF {"getBlock", "fork"} \cap down # {} THEN otherwise ELSE trip

validate_v2_pool_revm(p, down) ==
    IF p.protocol \notin {"uniswap_v2", "sushiswap"} THEN "no router for protocol"
    ELSE probe(p, down, run_revm_round_trip(p),
               IF "getBlock" \in down THEN "failed to fetch latest block" ELSE "revm fork init failed")

\* "revm" stops only at an Invalid that names tokens or reserves; every mode
\* but "analytical" and "revm" is "both".
validate_v2_pool_full(p, mode, down) ==
    LET analytical == validate_v2_pool_rpc(p, down)
    IN  IF mode = "analytical" THEN analytical
        ELSE IF mode = "revm"
          THEN IF analytical \in TokenReasons THEN analytical ELSE validate_v2_pool_revm(p, down)
        ELSE IF analytical # "valid" THEN analytical ELSE validate_v2_pool_revm(p, down)

-----------------------------------------------------------------------------
(* Uniswap V3.                                                             *)

erc20_balance_of(p, t, down) == IF "balanceOf" \in down THEN None ELSE p.bal[t]

validate_v3_pool_revm(p, down) == probe(p, down, run_v3_round_trip(p), "valid")

validate_v3_pool_full(p, mode, down) ==
    IF /\ wethSide(p) # 0
       /\ erc20_balance_of(p, wethSide(p), down) \in 0..(MinWeth - 1) THEN "low_liquidity"
    ELSE IF mode = "analytical" THEN "valid"
    ELSE validate_v3_pool_revm(p, down)

-----------------------------------------------------------------------------
(* Curve and Balancer V3: balances, then a round trip from token0.         *)

\* Curve checks the swap amount before the floor, Balancer V3 after it.
validate_curve_balances(p) ==
    LET trip == thereAndBack(curve_amount_out, [p EXCEPT !.weight = <<IF @[1] = 0 THEN 1 ELSE @[1], @[2]>>], 1)
    IN  IF p.bal[1] = 0 \/ p.bal[2] = 0 THEN "low_liquidity"
        ELSE IF eth_to_u256 = 0 THEN "swap amount too small"
        ELSE IF yardstick(p) < MinWeth THEN "low_liquidity"
        ELSE IF trip.out = 0 THEN "Curve forward swap failed"
        ELSE IF trip.back \in {None, 0} THEN "Curve reverse swap failed"
        ELSE IF trip.back > Swap \div 100 THEN "valid" ELSE "Curve round-trip output near zero"

validate_curve_pool_rpc(p, down) ==
    IF "A" \in down \/ ~p.code THEN "Curve A() call failed"
    ELSE IF "balances" \in down THEN "Curve balances() call failed"
    ELSE validate_curve_balances(p)

\* The probe repeats the analytical check.
validate_curve_pool_revm(p, down) ==
    IF validate_curve_pool_rpc(p, down) # "valid" THEN validate_curve_pool_rpc(p, down)
    ELSE probe(p, down, run_curve_exchange_round_trip(p), "valid")

\* Every mode but "revm" and "both" is analytical.
validate_curve_pool_full(p, mode, down) ==
    IF mode \in {"revm", "both"} THEN validate_curve_pool_revm(p, down)
    ELSE validate_curve_pool_rpc(p, down)

validate_balancer_v3_balances(p) ==
    LET trip == thereAndBack(balancer_amount_out, [p EXCEPT !.weight = <<50, 50>>], 1)
    IN  IF p.bal[1] = 0 \/ p.bal[2] = 0 THEN "low_liquidity"
        ELSE IF yardstick(p) < MinWeth THEN "low_liquidity"
        ELSE IF eth_to_u256 = 0 THEN "swap amount too small"
        ELSE IF trip.out = 0 THEN "Balancer V3 forward swap failed"
        ELSE IF trip.back = 0 THEN "Balancer V3 reverse swap failed"
        ELSE IF trip.back > Swap \div 100 THEN "valid" ELSE "Balancer V3 round-trip output near zero"

validate_balancer_v3_pool_rpc(p, down) ==
    IF "getCode" \in down THEN "valid"
    ELSE IF ~p.code THEN "pool address has no bytecode"
    ELSE IF "balanceOf" \in down THEN "valid"
    ELSE validate_balancer_v3_balances(p)

validate_balancer_v3_pool_revm(p, down) ==
    IF validate_balancer_v3_pool_rpc(p, down) # "valid" THEN validate_balancer_v3_pool_rpc(p, down)
    ELSE probe(p, down, run_balancer_v3_round_trip(p), "valid")

validate_balancer_v3_pool_full(p, mode, down) ==
    IF mode \in {"revm", "both"} THEN validate_balancer_v3_pool_revm(p, down)
    ELSE validate_balancer_v3_pool_rpc(p, down)

-----------------------------------------------------------------------------
(* Balancer V2 and Bancor V3: the address must hold code.                  *)

validate_custodial_pool(p, down) ==
    IF "getCode" \in down \/ p.code THEN "valid" ELSE "pool address has no bytecode"

\* cached: the address was found good less than a day ago.
validate_custodial_swap(p, down, cached) ==
    IF cached THEN "valid"
    ELSE IF Swap = 0 THEN "custodial swap amount must be positive"
    ELSE validate_custodial_pool(p, down)

validate_custodial_pool_full(p, down, cached) ==
    LET base == validate_custodial_pool(p, down)
    IN  IF base # "valid" THEN base ELSE validate_custodial_swap(p, down, cached)

-----------------------------------------------------------------------------
\* The entry point of the discovery service.
validate_pool_revm(p, mode, down, cached) ==
    CASE p.protocol \in {"uniswap_v2", "sushiswap"} -> validate_v2_pool_full(p, mode, down)
      [] p.protocol = "uniswap_v3" -> validate_v3_pool_full(p, mode, down)
      [] p.protocol = "curve" -> validate_curve_pool_full(p, mode, down)
      [] p.protocol = "balancer_v3" -> validate_balancer_v3_pool_full(p, mode, down)
      [] p.protocol \in {"balancer_v2", "bancor_v3"} -> validate_custodial_pool_full(p, down, cached)

-----------------------------------------------------------------------------
CONSTANTS
    Factories,       \* tables [[factories]]: address, protocol, maybe fee_bps and event
    Vault,           \* at most one table [balancer_v3], the settings it names
    DefaultVault,    \* the address of the vault
    Tomls,           \* discovery.toml: at most one table [discovery], the settings it names
    Envs,            \* the environment: rpc, http, ws_url
    Blocks,          \* Blocks[n]: the factory logs of block n
    Accounts,        \* address |-> what the chain holds there
    Nothing,         \* what it holds at every other address
    Outages,         \* the sets of RPC calls that may fail together
    MaxPools,        \* max_pools
    MaxAge,          \* prune_max_age_secs
    MinScore,        \* the score below which a pool is pruned
    DefaultSlip,     \* slippage_estimate_bps, in percent
    MaxTime, MaxDrops    \* bounds of the model

VARIABLES
    cfg,             \* the configuration
    head,            \* the latest block
    ws,              \* the WebSocket task: state, attempt, logs not yet read
    healthy,         \* WsHealth
    poll,            \* the polling task: state, last_block, the block it polls to
    job,             \* task |-> the log a listener works on, the pools the timer prunes
    cache,           \* DiscoveryCache.pools
    checked,         \* the static cache of validate_custodial_swap
    now, drops,      \* bounded clock, connections lost
    stopping,        \* the shutdown watch
    mirror,          \* the pools a subscriber of the events believes cached
    last,            \* history: the last verdict got from a node, its pool, the failed calls
    unread,          \* history: blocks whose logs get_logs failed to return
    crossed          \* history: pools dropped by one task while another stored them

vars == <<cfg, head, ws, healthy, poll, job, cache, checked, now, drops, stopping, mirror,
          last, unread, crossed>>

Listeners == {"ws", "poll"}
Idle == [at |-> "idle"]
account(a) == IF a \in DOMAIN Accounts THEN Accounts[a] ELSE Nothing

-----------------------------------------------------------------------------
(* config.rs: the settings and the factories listened to.                  *)

\* DiscoverySettings, but for the numbers that are CONSTANTS and for the fields
\* nothing reads (volume_source, the custodial ones, the score refresh).
DiscoverySettings ==
    [enabled : BOOLEAN, listener_mode : {"websocket", "poll", "auto"},
     ws_fallback_poll : BOOLEAN, poll_when_ws_healthy : BOOLEAN,
     validation_mode : {"revm", "analytical", "both"}]

default_settings ==
    [enabled |-> TRUE, listener_mode |-> "auto", ws_fallback_poll |-> TRUE,
     poll_when_ws_healthy |-> FALSE, validation_mode |-> "both"]

\* What the file leaves out takes its default; a missing or malformed file gives
\* no configuration.
load(file) == {toml @@ default_settings : toml \in file}

\* maybe_start_discovery: without a configuration discovery is off.
started(file) ==
    IF load(file) = {} THEN [default_settings EXCEPT !.enabled = FALSE] ELSE CHOOSE c \in load(file) : TRUE

\* A table that does not say otherwise switches the vault on, no table leaves it off.
BalancerV3DiscoverySettings ==
    LET named == [enabled |-> TRUE, address |-> DefaultVault, fee_bps |-> 10]
    IN  IF Vault = {} THEN [named EXCEPT !.enabled = FALSE] ELSE (CHOOSE t \in Vault : TRUE) @@ named

\* The service has the engine's provider, or one for ETH_RPC_URL if that connects;
\* otherwise it runs without.
connect_rpc_provider(rpc) == rpc = "url"
DiscoveryService(c, env) ==
    c @@ [provider |-> env.rpc = "handle" \/ connect_rpc_provider(env.rpc), http |-> env.http, ws_url |-> env.ws_url]

DiscoveryAssumption ==
    /\ DecoderAssumption /\ MathAssumption /\ ValidatorAssumption
    /\ \A t \in Tomls : Cardinality(t) <= 1 /\ load(t) \subseteq DiscoverySettings
    /\ Cardinality(Vault) <= 1
    /\ \A e \in Envs : e.rpc \in {"handle", "url", "down", "unset"} /\ {e.http, e.ws_url} \subseteq BOOLEAN
    /\ {MaxPools, MaxAge, MinScore, DefaultSlip, MaxTime, MaxDrops} \subseteq Nat

Protocols == {"uniswap_v2", "uniswap_v3", "sushiswap", "curve", "balancer_v2", "balancer_v3", "bancor_v3"}

from_config_str(event) ==
    CASE event \in {"PoolCreated", "pool_created", "PoolCreatedV3"} -> pool_created_v3_topic
      [] event \in {"PlainPoolDeployed", "plain_pool_deployed"} -> plain_pool_deployed_topic
      [] event \in {"PoolRegistered", "pool_registered"} -> pool_registered_v3_topic
      [] OTHER -> pair_created_topic

\* A table [[factories]] may leave out the fee and the event.
FactoryConfig(table) == table @@ [fee_bps |-> 30, event |-> "PairCreated"]

FactoryEntry(address, protocol, fee_bps, topic) ==
    [address |-> address, protocol |-> protocol, fee_bps |-> fee_bps, topic |-> topic]

\* An entry with an unknown protocol is left out.
factory_entries ==
    {FactoryEntry(f.address, f.protocol, f.fee_bps, from_config_str(f.event)) :
        f \in {FactoryConfig(t) : t \in {g \in Factories : g.protocol \in Protocols}}}
    \union {FactoryEntry(v.address, "balancer_v3", v.fee_bps, pool_registered_v3_topic) : v \in {w \in {BalancerV3DiscoverySettings} : w.enabled}}

build_factory_filter(log) ==
    /\ \E e \in factory_entries : e.address = log.address
    /\ \E e \in factory_entries : e.topic = log.topic0

\* The pool a factory log announces: a set of at most one.
decode_factory_log(entry, log) ==
    LET found(d) == [pool |-> d[1], tokens |-> <<d[2], d[3]>>, protocol |-> entry.protocol,
                     fee_bps |-> IF d[4] > 0 THEN d[4] ELSE entry.fee_bps]
        event == decode_log(log, entry.protocol)
    IN  IF log.topic0 # entry.topic THEN {}
        ELSE CASE entry.topic = plain_pool_deployed_topic ->
                    {found(d) : d \in decode_plain_pool_deployed(log)}
               [] entry.topic = pool_registered_v3_topic ->
                    {found(d) : d \in decode_pool_registered_v3(log)}
               [] OTHER ->
                    IF event.tag # "PoolCreated" THEN {}
                    ELSE {[pool |-> event.pool, tokens |-> <<event.token0, event.token1>>,
                           protocol |-> entry.protocol,
                           fee_bps |-> IF entry.topic = pool_created_v3_topic
                                         THEN v3_fee_bps_from_topic(log.indexed[3])
                                         ELSE entry.fee_bps]}

-----------------------------------------------------------------------------
(* scorer.rs and the metrics source of service.rs.                         *)

root(n) == CHOOSE r \in 0..n : r * r <= n /\ n < (r + 1) * (r + 1)

ScoringSettings == [tvl_weight |-> 1, volume_weight |-> 1, slippage_estimate |-> DefaultSlip]

raw_score(in) ==
    IF in.tvl <= 0 \/ in.volume <= 0 THEN 0
    ELSE (root(in.tvl) * ScoringSettings.tvl_weight * in.volume * ScoringSettings.volume_weight * (100 - in.fee_bps \div 100) * (100 - in.slip)) \div 100

normalise_score(raw, max_raw) ==
    IF raw <= 0 \/ max_raw <= 0 THEN 0 ELSE minOf((raw * 100) \div max_raw, 100)

\* Without a provider the inputs are assumed; with one they are fetched by
\* Handle::block_on, which panics on a thread that drives asynchronous tasks,
\* as the one a listener runs on.
fetch_metrics(provider) ==
    IF provider THEN {} ELSE {[tvl |-> 100, volume |-> 10, slip |-> ScoringSettings.slippage_estimate]}

\* Assumed reserves of one ether, or a fee that is at most the whole.
offline_validate(event) ==
    IF event.protocol \in {"uniswap_v2", "sushiswap", "curve", "balancer_v3"}
      THEN validate_v2_reserves([protocol |-> "uniswap_v2", fee_bps |-> event.fee_bps,
                                 bal |-> <<10 * MinWeth, 10 * MinWeth>>,
                                 tokens |-> event.tokens])
    ELSE IF event.fee_bps <= 10000 THEN "valid" ELSE "invalid fee"

\* The pool as the event describes it, on top of what the chain holds.
candidate(event) ==
    [tokens |-> event.tokens, protocol |-> event.protocol, fee_bps |-> event.fee_bps]
      @@ account(event.pool)

validate_pool(event, down) ==
    IF ~cfg.provider THEN offline_validate(event)
    ELSE validate_pool_revm(candidate(event), cfg.validation_mode, down,
                            event.pool \in DOMAIN checked /\ now - checked[event.pool] < 24)

-----------------------------------------------------------------------------
(* cache.rs.                                                               *)

rawOf(entry) == raw_score([tvl |-> entry.tvl, volume |-> entry.volume,
                           fee_bps |-> entry.fee_bps, slip |-> entry.slip])
max_raw_score(c) == Max({rawOf(c[a]) : a \in DOMAIN c} \union {0})
renormalise_all(c) ==
    [a \in DOMAIN c |-> [c[a] EXCEPT !.score = normalise_score(rawOf(c[a]), max_raw_score(c))]]
without(c, S) == [a \in DOMAIN c \ S |-> c[a]]

\* The pools beyond the capacity are those of the lowest scores: ties fall either way.
enforce_capacity(c) ==
    LET excess == Cardinality(DOMAIN c) - MaxPools
    IN  IF excess <= 0 THEN {{}}
        ELSE {T \in kSubset(excess, DOMAIN c) :
                \A a \in T, b \in DOMAIN c \ T : c[a].score <= c[b].score}

PoolInfo(event, in) ==
    [fee_bps |-> event.fee_bps, tvl |-> in.tvl, volume |-> in.volume, slip |-> in.slip,
     score |-> 0]

\* A PoolInfo and its bookkeeping, by address.
CachedPool(event, in) == PoolInfo(event, in) @@ [inserted_at |-> now]

\* A subscriber hears which pool was pruned and which one was added.
DiscoveryEvent(pruned, added) == mirror' = (mirror \ pruned) \union added

\* The first half of upsert: the score against the cache as it is.
scored(event, in) ==
    LET entry == CachedPool(event, in)
        best == Max({max_raw_score(cache), rawOf(entry)})
    IN  [entry |-> [entry EXCEPT !.score = normalise_score(rawOf(entry), best)],
         best |-> rawOf(entry) >= best, is_new |-> event.pool \notin DOMAIN cache]

-----------------------------------------------------------------------------
(* Starting: the listeners the configuration asks for.                     *)

want_ws(c) == c.enabled /\ c.listener_mode \in {"websocket", "auto"} /\ c.ws_url
want_poll(c) ==
    /\ c.enabled /\ c.http
    /\ c.listener_mode = "poll" \/ (c.listener_mode \in {"websocket", "auto"} /\ c.ws_fallback_poll)

\* An empty cache that has sent no event; max_pools, the age and the weights are
\* those of the configuration.
DiscoveryCache == cache = <<>> /\ mirror = {}

Init ==
    /\ cfg \in {DiscoveryService(started(t), e) : t \in Tomls, e \in Envs}
    /\ head = 1
    /\ ws = [at |-> IF want_ws(cfg) THEN "connecting" ELSE "off", queue |-> <<>>]
    /\ healthy = FALSE
    /\ poll = [at |-> IF want_poll(cfg) THEN "starting" ELSE "off", first |-> 1, last_block |-> 0,
               to |-> 0, queue |-> <<>>, read |-> {}]
    /\ job = [t \in Listeners \union {"prune"} |-> Idle]
    /\ DiscoveryCache /\ checked = <<>>
    /\ now = 0 /\ drops = 0 /\ stopping = FALSE
    /\ last = {} /\ unread = {} /\ crossed = {}

shared == <<cache, checked, mirror, last, crossed>>
clock == <<now, drops>>

matching(n) == SelectSeq(Blocks[n], build_factory_filter)

\* A block; a live subscription receives its factory logs.
NewBlock ==
    /\ head < Len(Blocks)
    /\ head' = head + 1
    /\ ws' = IF ws.at = "up" THEN [ws EXCEPT !.queue = @ \o matching(head + 1)] ELSE ws
    /\ UNCHANGED <<cfg, healthy, poll, job, clock, stopping, unread, shared>>

Tick == now < MaxTime /\ now' = now + 1
        /\ UNCHANGED <<cfg, head, ws, healthy, poll, job, drops, stopping, unread, shared>>

Shutdown == ~stopping /\ stopping' = TRUE
            /\ UNCHANGED <<cfg, head, ws, healthy, poll, job, clock, unread, shared>>

-----------------------------------------------------------------------------
(* The WebSocket listener: spawn_ws_listener and run_ws_subscription.      *)

wsOnly == <<cfg, head, poll, job, clock, stopping, unread, shared>>

WsSubscribed ==
    /\ ws.at = "connecting" /\ ~stopping
    /\ ws' = [ws EXCEPT !.at = "up"] /\ healthy' = TRUE
    /\ UNCHANGED wsOnly

\* Connecting failed or the stream ended: back off.  What was not read is lost.
WsFailed ==
    /\ drops < MaxDrops /\ drops' = drops + 1
    /\ \/ ws.at = "connecting" /\ ~stopping
       \/ ws.at = "up" /\ job["ws"] = Idle
    /\ ws' = [at |-> "backoff", queue |-> <<>>] /\ healthy' = FALSE
    /\ UNCHANGED <<cfg, head, poll, job, now, stopping, unread, shared>>

\* The sleep ends, by time or by shutdown, and the loop begins again.
WsRetry ==
    /\ ws.at = "backoff"
    /\ ws' = [ws EXCEPT !.at = IF stopping THEN "stopped" ELSE "connecting"]
    /\ UNCHANGED <<healthy, wsOnly>>

WsStop ==
    /\ stopping /\ ws.at \in {"connecting", "up"} /\ job["ws"] = Idle
    /\ ws' = [at |-> "stopped", queue |-> <<>>] /\ healthy' = FALSE
    /\ UNCHANGED wsOnly

-----------------------------------------------------------------------------
(* The polling listener: spawn_polling_listener and poll_factory_logs.     *)

pollOnly == <<cfg, head, ws, healthy, job, clock, stopping, shared>>

\* The first block number, 0 when the node does not answer.
PollStart ==
    /\ poll.at = "starting"
    /\ \E n \in {head - 1, 0} :
         poll' = [poll EXCEPT !.at = "waiting", !.first = n + 1, !.last_block = n]
    /\ UNCHANGED <<unread, pollOnly>>

pollSkipped == healthy /\ ~cfg.poll_when_ws_healthy
range == (poll.last_block + 1)..head

\* Mutant: a tick skipped because the WebSocket is healthy moves the cursor too.
PollTickMoves ==
    /\ poll.at = "waiting" /\ ~stopping /\ head > poll.last_block
    /\ IF pollSkipped THEN poll' = [poll EXCEPT !.last_block = head]
       ELSE poll' = [poll EXCEPT !.at = "polling", !.to = head, !.read = @ \union range,
                                 !.queue = FlattenSeq([i \in 1..Cardinality(range) |->
                                                         matching(poll.last_block + i)])]
    /\ UNCHANGED <<unread, pollOnly>>

\* A tick: nothing while the WebSocket is healthy; otherwise the logs since the
\* last block, and on to the next ones even when they could not be fetched.
PollTick ==
    /\ poll.at = "waiting" /\ ~stopping /\ ~pollSkipped /\ head > poll.last_block
    /\ \/ /\ poll' = [poll EXCEPT !.at = "polling", !.to = head, !.read = @ \union range,
                                   !.queue = FlattenSeq([i \in 1..Cardinality(range) |->
                                                           matching(poll.last_block + i)])]
          /\ UNCHANGED unread
       \/ /\ poll' = [poll EXCEPT !.last_block = head]
          /\ unread' = unread \union range
    /\ UNCHANGED pollOnly

PollDone ==
    /\ poll.at = "polling" /\ poll.queue = <<>> /\ job["poll"] = Idle
    /\ poll' = [poll EXCEPT !.at = "waiting", !.last_block = poll.to]
    /\ UNCHANGED <<unread, pollOnly>>

PollStop ==
    /\ stopping /\ poll.at = "waiting"
    /\ poll' = [poll EXCEPT !.at = "stopped"]
    /\ UNCHANGED <<unread, pollOnly>>

-----------------------------------------------------------------------------
(* process_logs and ingest_pool_created, by listener l.                    *)

outside == <<cfg, head, healthy, clock, stopping, unread>>
tasks == <<ws, poll>>
queueOf(l) == IF l = "ws" THEN ws.queue ELSE poll.queue
running(l) == IF l = "ws" THEN ws.at = "up" ELSE poll.at = "polling"
Goto(l, j) == job' = [job EXCEPT ![l] = j]

\* The next log: of a configured factory, well formed and not in the cache, or
\* passed over.
ReadLog(l) ==
    /\ running(l) /\ job[l] = Idle /\ queueOf(l) # <<>>
    /\ LET log == Head(queueOf(l))
           entry == CHOOSE e \in factory_entries : e.address = log.address
           found == {d \in decode_factory_log(entry, log) : d.pool \notin DOMAIN cache}
       IN  Goto(l, IF found = {} THEN Idle ELSE [at |-> "validating", event |-> CHOOSE d \in found : TRUE])
    /\ IF l = "ws" THEN ws' = [ws EXCEPT !.queue = Tail(@)] /\ UNCHANGED poll
       ELSE poll' = [poll EXCEPT !.queue = Tail(@)] /\ UNCHANGED ws
    /\ UNCHANGED <<outside, shared>>

\* A custodial pool found to have code is remembered for a day.
remember(event, down) ==
    IF /\ cfg.provider /\ event.protocol \in {"balancer_v2", "bancor_v3"} /\ Swap > 0
       /\ "getCode" \notin down /\ account(event.pool).code
      THEN checked' = (event.pool :> now) @@ checked ELSE UNCHANGED checked

\* The validator answers.  A valid pool is scored; fetching its metrics with a
\* provider ends the task where it stands.
Validated(l) ==
    /\ job[l].at = "validating"
    /\ \E down \in (IF cfg.provider THEN Outages ELSE {{}}) :
         \E verdict \in {validate_pool(job[l].event, down)} :
           /\ last' = {[pool |-> candidate(job[l].event), down |-> d, verdict |-> verdict] :
                         d \in IF cfg.provider THEN {down} ELSE {}}
           /\ remember(job[l].event, down)
           /\ IF verdict # "valid" THEN Goto(l, Idle) /\ UNCHANGED tasks
              ELSE IF fetch_metrics(cfg.provider) = {}
                THEN /\ Goto(l, Idle)
                     /\ IF l = "ws" THEN ws' = [at |-> "panicked", queue |-> <<>>] /\ UNCHANGED poll
                        ELSE poll' = [poll EXCEPT !.at = "panicked", !.queue = <<>>] /\ UNCHANGED ws
                ELSE /\ \E in \in fetch_metrics(cfg.provider) :
                          Goto(l, [at |-> "storing", event |-> job[l].event, in |-> scored(job[l].event, in)])
                     /\ UNCHANGED tasks
    /\ UNCHANGED <<outside, cache, mirror, crossed>>

is_new(p, in) == in.is_new

\* upsert goes on: insert ...
Inserted(l) ==
    /\ job[l].at = "storing"
    /\ LET p == job[l].event.pool
       IN  /\ cache' = (p :> job[l].in.entry) @@ cache
           /\ crossed' = crossed \union
                {p : t \in {u \in DOMAIN job : job[u].at = "dropped" /\ job[u].pool = p}}
    /\ Goto(l, [job[l] EXCEPT !.at = "inserted"])
    /\ UNCHANGED <<outside, tasks, checked, mirror, last>>

\* ... see who is beyond the capacity ...
Ranked(l) ==
    /\ job[l].at = "inserted"
    /\ \E victims \in enforce_capacity(cache) :
         Goto(l, [at |-> "dropping", event |-> job[l].event, in |-> job[l].in, victims |-> victims])
    /\ UNCHANGED <<outside, tasks, shared>>

\* ... drop them one by one, each from the map and then from the subscribers; the
\* timer says nothing of a pool that is gone already ...
Dropped(t) ==
    /\ job[t].at = "dropping"
    /\ \E a \in job[t].victims :
         LET left == [job[t] EXCEPT !.victims = @ \ {a}]
         IN  /\ cache' = without(cache, {a})
             /\ Goto(t, IF t = "prune" /\ a \notin DOMAIN cache THEN left
                        ELSE [left EXCEPT !.at = "dropped"] @@ [pool |-> a])
             /\ crossed' = crossed \union
                  {a : l \in {k \in Listeners : job[k].at = "storing" /\ job[k].event.pool = a}}
    /\ UNCHANGED <<outside, tasks, checked, mirror, last>>

Announced(t) ==
    /\ job[t].at = "dropped"
    /\ DiscoveryEvent({job[t].pool}, {})
    /\ Goto(t, [f \in DOMAIN job[t] \ {"pool"} |-> IF f = "at" THEN "dropping" ELSE job[t][f]])
    /\ UNCHANGED <<outside, tasks, cache, checked, last, crossed>>

\* ... announce the pool itself, rescale on a new best.
Stored(l) ==
    /\ job[l].at = "dropping" /\ job[l].victims = {}
    /\ DiscoveryEvent({}, IF is_new(job[l].event.pool, job[l].in) THEN {job[l].event.pool} ELSE {})
    /\ cache' = IF job[l].in.best THEN renormalise_all(cache) ELSE cache
    /\ Goto(l, Idle)
    /\ UNCHANGED <<outside, tasks, checked, last, crossed>>

\* The old pools and the ones of a low score.
prune(min_score) ==
    {a \in DOMAIN cache : now - cache[a].inserted_at > MaxAge \/ cache[a].score < min_score}

\* A tick of spawn_prune_task, and its end; a tick that drops nothing is left out.
PruneTick ==
    /\ ~stopping /\ job["prune"] = Idle /\ prune(MinScore) # {}
    /\ Goto("prune", [at |-> "dropping", victims |-> prune(MinScore)])
    /\ UNCHANGED <<outside, tasks, shared>>

PruneEnd ==
    /\ job["prune"].at = "dropping" /\ job["prune"].victims = {}
    /\ cache' = renormalise_all(cache)
    /\ Goto("prune", Idle)
    /\ UNCHANGED <<outside, tasks, checked, mirror, last, crossed>>

-----------------------------------------------------------------------------
Next ==
    \/ NewBlock \/ Tick \/ Shutdown
    \/ WsSubscribed \/ WsFailed \/ WsRetry \/ WsStop
    \/ PollStart \/ PollTick \/ PollDone \/ PollStop
    \/ \E l \in Listeners : ReadLog(l) \/ Validated(l) \/ Inserted(l) \/ Ranked(l) \/ Stored(l)
    \/ \E t \in DOMAIN job : Dropped(t) \/ Announced(t)
    \/ PruneTick \/ PruneEnd

Spec == Init /\ [][Next]_vars

-----------------------------------------------------------------------------
\* The calls whose failure a protocol's validation takes for a pass.
waived(protocol) ==
    CASE protocol = "uniswap_v3" -> {"balanceOf"}
      [] protocol = "balancer_v3" -> {"getCode", "balanceOf"}
      [] OTHER -> {}

\* A pool with a WETH side that passes has at least the WETH floor, whatever its
\* protocol and whatever calls failed, but for the calls its protocol waives
\* (validate_pool_revm in the modes "analytical" and "both"; the custodial protocols
\* only ask for code).
FloorHeld ==
    \A v \in last :
      (/\ cfg.provider /\ cfg.validation_mode \in {"analytical", "both"}
       /\ v.verdict = "valid" /\ wethSide(v.pool) # 0
       /\ v.down \intersect waived(v.pool.protocol) = {}
       /\ v.pool.protocol \notin {"balancer_v2", "bancor_v3"})
      => v.pool.bal[wethSide(v.pool)] >= MinWeth

\* The polling listener is the safety net of the WebSocket: every block from its
\* first to last_block was read by it, but for the ranges get_logs refused, which
\* it passes over for good.  The ticks it skips while the WebSocket is healthy
\* leave no hole.
PollCovers == poll.first..poll.last_block \subseteq poll.read \union unread

\* A subscriber of the cache's events misses a cached pool only while the pool's
\* upsert has not announced it, or when another task dropped that pool during the
\* upsert: map and channel change one after the other and under no common lock.
MirrorCovers ==
    \A p \in DOMAIN cache \ (mirror \union crossed) :
      \E l \in Listeners : job[l].at \in {"inserted", "dropping", "dropped"} /\ job[l].event.pool = p

=============================================================================
