---------------------------- MODULE PoolMetrics -----------------------------
(***************************************************************************)
(* The scoring inputs of a discovered pool: OnChainMetricsSource of        *)
(* discovery/src/service.rs over the reserves of the pool, the slippage    *)
(* estimates of scorer.rs and the volume sources of volume.rs with the     *)
(* cache of the subgraph.  Prices and amounts are whole units; a slippage  *)
(* is in parts of Unit.                                                    *)
(***************************************************************************)
EXTENDS Integers, FiniteSets

CONSTANTS
    Reserves,          \* reserves considered
    Swap,              \* swap_eth of the source
    DefaultSlip,       \* slippage_estimate_bps, in parts of Unit
    Volumes,           \* volumes injected into the cache
    Pools,
    Ttl,               \* cache_ttl
    MaxTime            \* bound of the model

Unit == 10000

MetricsAssumption ==
    /\ Reserves \subseteq Nat /\ Volumes \subseteq Nat /\ Swap \in Nat
    /\ DefaultSlip \in 0..Unit /\ Ttl \in Nat \ {0} /\ MaxTime \in Nat

VARIABLES
    source,            \* kind, "subgraph" or "proxy", and whether it has an endpoint
    cache,             \* of the subgraph: pool |-> volume and time of the insertion
    now,
    errors,            \* volume_fetch_errors
    answer             \* history: the last pool read, its inputs and the volume given

vars == <<source, cache, now, errors, answer>>

Protocols == {"v2", "curve", "balancer_v3"}
ETH_USD == 3000
None == [r0 |-> 0, r1 |-> 0, fee_bps |-> 30, ok |-> FALSE]

-----------------------------------------------------------------------------
(* scorer.rs and the reads of service.rs.                                  *)

least(a, b) == IF a < b THEN a ELSE b

\* (spot - effective) / spot of a constant product, which is the share the swap has
\* of the reserve it ends with; at most 0.99.  The fee is taken off the input.
estimate_v2_slippage(in, out, fee_bps) ==
    IF in <= 0 \/ out <= 0 \/ Swap <= 0 THEN Unit
    ELSE LET net == Swap * (Unit - fee_bps)
         IN  least((Unit * net) \div (in * Unit + net), (99 * Unit) \div 100)

estimate_curve_slippage(in, out, fee_bps) ==
    IF in <= 0 \/ out <= 0 \/ Swap <= 0 THEN Unit ELSE (estimate_v2_slippage(in, out, fee_bps) * 35) \div 100

estimate_balancer_v3_slippage(in, out, fee_bps) ==
    IF in <= 0 \/ out <= 0 \/ Swap <= 0 THEN Unit ELSE (estimate_v2_slippage(in, out, fee_bps) * 85) \div 100

estimate_protocol_slippage(protocol, in, out, fee_bps) ==
    CASE protocol = "curve" -> estimate_curve_slippage(in, out, fee_bps)
      [] protocol = "balancer_v3" -> estimate_balancer_v3_slippage(in, out, fee_bps)
      [] OTHER -> estimate_v2_slippage(in, out, fee_bps)

\* A read of the pool that fails or is short gives nothing; the fee is the protocol's.
read(reserves, down, fee_bps) ==
    IF down THEN None ELSE [r0 |-> reserves[1], r1 |-> reserves[2], fee_bps |-> fee_bps, ok |-> TRUE]
fetch_curve_balances(reserves, down) == read(reserves, down, 4)
fetch_balancer_v3_balances(reserves, down) == read(reserves, down, 10)
fetch_v2_reserves(reserves, down) == read(reserves, down, 30)

estimate_tvl_usd(tokens, r0, r1) ==
    IF tokens[1] = "WETH" THEN r0 * ETH_USD * 2
    ELSE IF tokens[2] = "WETH" THEN r1 * ETH_USD * 2
    ELSE IF "USDC" \in {tokens[1], tokens[2]} THEN (r0 + r1) * 2
    ELSE IF r0 + r1 > 1 THEN r0 + r1 ELSE 1

-----------------------------------------------------------------------------
(* volume.rs.                                                              *)

\* TVL * 0.05.
ProxyVolumeProvider(tvl) == tvl \div 20

\* Whether the cache answers for the pool, and what.
hit(p) == p \in DOMAIN cache /\ now - cache[p].at < Ttl

\* The query of the subgraph is a placeholder that fails, counted when there is an
\* endpoint to ask; without one nothing is asked.
fetch_subgraph == errors' = IF source.endpoint THEN least(errors + 1, MaxTime) ELSE errors

SubgraphVolumeProvider(p, tvl) == IF hit(p) THEN cache[p].volume ELSE ProxyVolumeProvider(tvl)

\* VolumeSource, by the configured name.
from_config(name, endpoint) == [kind |-> IF name = "subgraph" THEN "subgraph" ELSE "proxy", endpoint |-> endpoint]
volume_24h_usd(p, tvl) ==
    IF source.kind = "subgraph" THEN SubgraphVolumeProvider(p, tvl) ELSE ProxyVolumeProvider(tvl)

-----------------------------------------------------------------------------

\* The WETH side is what a swap of swap_eth goes into.
balances(tokens, r) == IF tokens[2] = "WETH" /\ tokens[1] # "WETH" THEN <<r.r1, r.r0>> ELSE <<r.r0, r.r1>>

\* fetch_metrics with a provider.  The volume is the proxy's, whatever is configured.
PoolScoreInputs(protocol, tokens, reserves, down) ==
    LET r == CASE protocol = "curve" -> fetch_curve_balances(reserves, down)
               [] protocol = "balancer_v3" -> fetch_balancer_v3_balances(reserves, down)
               [] OTHER -> fetch_v2_reserves(reserves, down)
        tvl == estimate_tvl_usd(tokens, r.r0, r.r1)
        side == balances(tokens, r)
        slip == estimate_protocol_slippage(protocol, side[1], side[2], r.fee_bps)
    IN  IF r.ok
          THEN [tvl_usd |-> tvl, volume |-> ProxyVolumeProvider(tvl), fee_bps |-> r.fee_bps,
                slippage |-> IF slip > DefaultSlip THEN slip ELSE DefaultSlip]
          ELSE [tvl_usd |-> 0, volume |-> 0, fee_bps |-> 30, slippage |-> DefaultSlip]

Pairs == {<<"WETH", "T">>, <<"T", "WETH">>, <<"USDC", "T">>, <<"T", "S">>}
Unread == PoolScoreInputs("v2", <<"T", "S">>, <<0, 0>>, TRUE)
Nothing == [volume |-> 0, pool |-> CHOOSE p \in Pools : TRUE, protocol |-> "v2", tokens |-> <<"T", "S">>,
            reserves |-> <<0, 0>>, down |-> TRUE, inputs |-> Unread]

Init ==
    /\ source \in {from_config(n, e) : n \in {"subgraph", "proxy"}, e \in BOOLEAN}
    /\ cache = <<>> /\ now = 0 /\ errors = 0 /\ answer = Nothing

inject_cache(p, v) ==
    /\ source.kind = "subgraph"
    /\ cache' = [q \in DOMAIN cache \union {p} |-> IF q = p THEN [volume |-> v, at |-> now] ELSE cache[q]]
    /\ UNCHANGED <<source, now, errors, answer>>

\* A pool is read, and its volume asked of the configured source.
Ask(p, protocol, tokens, reserves, down) ==
    LET inputs == PoolScoreInputs(protocol, tokens, reserves, down)
    IN  /\ answer' = [volume |-> volume_24h_usd(p, inputs.tvl_usd), pool |-> p, protocol |-> protocol,
                      tokens |-> tokens, reserves |-> reserves, down |-> down, inputs |-> inputs]
        /\ IF source.kind = "subgraph" /\ ~hit(p) THEN fetch_subgraph ELSE UNCHANGED errors
        /\ UNCHANGED <<source, cache, now>>

Tick == now < MaxTime /\ now' = now + 1 /\ UNCHANGED <<source, cache, errors, answer>>

Next ==
    \/ Tick
    \/ \E p \in Pools : \E v \in Volumes : inject_cache(p, v)
    \/ \E p \in Pools, protocol \in Protocols, tokens \in Pairs, r0, r1 \in Reserves, down \in BOOLEAN :
         Ask(p, protocol, tokens, <<r0, r1>>, down)

Spec == Init /\ [][Next]_vars

-----------------------------------------------------------------------------
\* A pool is scored the same whichever of its tokens comes first; no pool of the same
\* pair with more WETH has a smaller TVL or a larger slippage, and a pool that cannot
\* be read has no TVL at all (fetch_metrics).
DepthPays ==
    LET a == answer
        flip(q) == <<q[2], q[1]>>
        weth == CHOOSE i \in 1..2 : a.tokens[i] = "WETH"
    IN  "WETH" \in {a.tokens[1], a.tokens[2]} =>
          IF a.down THEN a.inputs.tvl_usd = 0
          ELSE /\ a.inputs = PoolScoreInputs(a.protocol, flip(a.tokens), flip(a.reserves), FALSE)
               /\ \A r \in Reserves :
                    LET other == PoolScoreInputs(a.protocol, a.tokens, [a.reserves EXCEPT ![weth] = r], FALSE)
                    IN  r >= a.reserves[weth] =>
                          other.tvl_usd >= a.inputs.tvl_usd /\ other.slippage <= a.inputs.slippage
====
