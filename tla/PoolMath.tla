------------------------------ MODULE PoolMath ------------------------------
(***************************************************************************)
(* The quoting and post-state arithmetic of the pool adapters, crates/     *)
(* pools/src.  Amounts are exact integers; the tick base and the fixed-    *)
(* point unit of Uniswap V3 are constants, so that small numbers cross     *)
(* ticks.                                                                  *)
(***************************************************************************)
EXTENDS Integers, Sequences, FiniteSets

CONSTANTS
    Q96,             \* one in the fixed-point format of sqrt_price_x96
    TickBase,        \* price step of a tick (1.0001 in the code)
    NewtonSteps      \* Newton iterations (256 in the code)

MathAssumption == Q96 \in Nat \ {0} /\ TickBase \in Nat \ {0, 1} /\ NewtonSteps \in Nat

None == -1

\* A pool: kind, the balances of its two tokens, fee, weights or amplification,
\* and, for V3, price, liquidity and tick spacing.  The adapters' constructors:
PoolOf(kind, bal, fee, weight, v3) ==
    [kind |-> kind, bal |-> bal, fee_bps |-> fee, weight |-> weight,
     sqrt |-> v3[1], liquidity |-> v3[2], tick_spacing |-> v3[3]]
UniswapV2Pool(bal, fee) == PoolOf("v2", bal, fee, <<1, 1>>, <<0, 0, 0>>)
SushiSwapPool(bal, fee) == [UniswapV2Pool(bal, fee) EXCEPT !.kind = "sushi"]
BalancerPool(bal, fee, weight) == PoolOf("balancer", bal, fee, weight, <<0, 0, 0>>)
BalancerV3Pool(bal, fee, weight) == [BalancerPool(bal, fee, weight) EXCEPT !.kind = "balancer_v3"]
BancorPool(bal, fee) == PoolOf("bancor", bal, fee, <<1, 1>>, <<0, 0, 0>>)
CurvePool(bal, fee, amplification) == PoolOf("curve", bal, fee, <<amplification, 1>>, <<0, 0, 0>>)
UniswapV3Pool(fee, spacing, sqrt, liq) == PoolOf("v3", <<0, 0>>, fee, <<1, 1>>, <<sqrt, liq, spacing>>)

other(t) == 3 - t
margin(amount, bps) == (amount * (10000 - bps)) \div 10000
after_fee(pool, amount) == (amount * (10000 - pool.fee_bps)) \div 10000
checked_sub(a, b) == IF b = None \/ b > a THEN None ELSE a - b

-----------------------------------------------------------------------------

\* Constant product, the fee inside the quotient: Uniswap V2 and SushiSwap.
v2_amount_out(pool, t, dx) ==
    LET net == dx * (10000 - pool.fee_bps)
    IN  (net * pool.bal[other(t)]) \div (pool.bal[t] * 10000 + net)

v2_amount_in(pool, t, dy) ==
    LET in == other(t)
    IN  IF dy >= pool.bal[t] THEN None
        ELSE (pool.bal[in] * dy * 10000) \div ((pool.bal[t] - dy) * (10000 - pool.fee_bps)) + 1

\* Balancer: exact for equal weights, first order with a margin of 2% otherwise.
balancer_amount_out(pool, t, dx) ==
    LET o == other(t) net == after_fee(pool, dx) win == pool.weight[t] wout == pool.weight[o]
    IN  IF win = wout THEN (pool.bal[o] * net) \div (pool.bal[t] + net)
        ELSE margin((pool.bal[o] * net * win) \div (pool.bal[t] * wout + net * win), 200)

balancer_amount_in(pool, t, dy) ==
    LET in == other(t) num == pool.bal[in] * dy den == pool.bal[t] - dy
        before == IF pool.weight[1] = pool.weight[2] THEN num \div den + 1
                  ELSE (num * pool.weight[t]) \div (den * pool.weight[in]) + 1
    IN  IF dy >= pool.bal[t] THEN None ELSE (before * 10000) \div (10000 - pool.fee_bps)

\* Balancer V3: the V2 quote less 5%.
balancer_v3_amount_out(pool, t, dx) == margin(balancer_amount_out(pool, t, dx), 500)

\* Bancor: constant product less 2%.
bancor_amount_out(pool, t, dx) ==
    LET net == after_fee(pool, dx)
    IN  margin((pool.bal[other(t)] * net) \div (pool.bal[t] + net), 200)

bancor_amount_in(pool, t, dy) ==
    LET in == other(t)
    IN  IF dy >= pool.bal[t] THEN None
        ELSE (((pool.bal[in] * dy) \div (pool.bal[t] - dy) + 1) * 10000) \div (10000 - pool.fee_bps)

-----------------------------------------------------------------------------
\* Newton's iteration from x, to within one unit.
newton(step(_), x) ==
    LET it[k \in 0..NewtonSteps] ==
          IF k = 0 THEN [v |-> x, done |-> FALSE]
          ELSE LET p == it[k - 1] v == step(p.v)
               IN  IF p.done THEN p ELSE [v |-> v, done |-> v - p.v \in -1..1]
    IN  it[NewtonSteps].v

\* The StableSwap invariant of the two balances.
get_d(pool) ==
    LET s == pool.bal[1] + pool.bal[2]
        ann == pool.weight[1] * 2
        step(d) ==
          LET d_p == (((d * d) \div (pool.bal[1] * 2)) * d) \div (pool.bal[2] * 2)
          IN  ((ann * s + d_p * 2) * d) \div ((ann - 1) * d + 3 * d_p)
    IN  IF pool.bal[1] = 0 \/ pool.bal[2] = 0 THEN 0 ELSE newton(step, s)

\* The balance of one coin that keeps the invariant when the other is x.
balanceAt(d, ann, x) ==
    LET c == (((d * d) \div (x * 2)) * d) \div (ann * 2)
        b == x + d \div ann
        step(y) == (y * y + c) \div (2 * y + b - d)
    IN  IF d = 0 THEN None ELSE newton(step, d)

get_y(pool, x) == balanceAt(get_d(pool), pool.weight[1] * 2, x)

\* The fee of Curve is taken from the output.
less_fee(dy, fee_bps) == IF dy \in {None, 0} THEN None ELSE dy - (dy * fee_bps) \div 10000

curve_amount_out(pool, t, dx) ==
    less_fee(checked_sub(pool.bal[other(t)], get_y(pool, pool.bal[t] + dx)), pool.fee_bps)

curve_amount_in(pool, t, dy) ==
    LET y == checked_sub(pool.bal[t], (dy * 10000) \div (10000 - pool.fee_bps))
        dx == IF y \in {None, 0} THEN None ELSE checked_sub(get_y(pool, y), pool.bal[other(t)])
    IN  IF dx = None THEN None ELSE dx + 1

-----------------------------------------------------------------------------
\* The tick of a price: floor of its logarithm.
sqrt_price_x96_to_tick(sqrt) ==
    LET pow(n) == TickBase ^ n
    IN  CHOOSE t \in -12..12 :
          IF t >= 0 THEN /\ pow(t) * Q96 * Q96 <= sqrt * sqrt
                         /\ sqrt * sqrt < pow(t + 1) * Q96 * Q96
          ELSE /\ Q96 * Q96 <= sqrt * sqrt * pow(-t)
               /\ sqrt * sqrt * pow(-t - 1) < Q96 * Q96

\* The price stays in the tick-spacing bucket of the current tick.
is_within_active_tick_bucket(pool, sqrt) ==
    LET low == (sqrt_price_x96_to_tick(pool.sqrt) \div pool.tick_spacing) * pool.tick_spacing
        new == sqrt_price_x96_to_tick(sqrt)
    IN  pool.tick_spacing <= 0 \/ (low <= new /\ new < low + pool.tick_spacing)

\* The price after a swap inside one tick: down for token0 in, up for token1 in.
v3_new_sqrt(pool, t, dx) ==
    LET net == after_fee(pool, dx)
    IN  IF t = 1
          THEN (pool.liquidity * pool.sqrt * Q96) \div (pool.liquidity * Q96 + net * pool.sqrt)
          ELSE pool.sqrt + (net * Q96) \div pool.liquidity

compute_swap_within_tick(pool, t, dx) ==
    LET new == v3_new_sqrt(pool, t, dx) l == pool.liquidity
    IN  IF t = 1 THEN (l * (pool.sqrt - new)) \div Q96
        ELSE (l * Q96 * (new - pool.sqrt)) \div (pool.sqrt * new)

v3_amount_out(pool, t, dx) == margin(compute_swap_within_tick(pool, t, dx), 200)

\* Binary search below twice the amount out.
v3_amount_in(pool, t, dy) ==
    LET search[i \in 0..16] ==
          IF i = 0 THEN [low |-> 1, high |-> 2 * dy]
          ELSE LET p == search[i - 1] mid == (p.low + p.high) \div 2
               IN  IF p.low >= p.high THEN p
                   ELSE IF v3_amount_out(pool, other(t), mid) >= dy THEN [p EXCEPT !.high = mid]
                   ELSE [p EXCEPT !.low = mid + 1]
    IN  search[16].high

\* Constant-product reserves that quote like the V3 pool inside its tick.
virtual_reserves(sqrt, liquidity) ==
    IF sqrt = 0 \/ liquidity = 0 THEN <<0, 0>>
    ELSE <<(liquidity * Q96) \div sqrt, (liquidity * sqrt) \div Q96>>

-----------------------------------------------------------------------------
empty(pool) == IF pool.kind = "v3" THEN pool.sqrt = 0 \/ pool.liquidity = 0
               ELSE pool.bal[1] = 0 \/ pool.bal[2] = 0

\* get_amount_out of the Pool trait, token t in.
get_amount_out(pool, t, dx) ==
    IF dx = 0 \/ empty(pool) THEN None
    ELSE CASE pool.kind \in {"v2", "sushi"} -> v2_amount_out(pool, t, dx)
           [] pool.kind = "v3"          -> v3_amount_out(pool, t, dx)
           [] pool.kind = "curve"       -> curve_amount_out(pool, t, dx)
           [] pool.kind = "balancer"    -> balancer_amount_out(pool, t, dx)
           [] pool.kind = "balancer_v3" -> balancer_v3_amount_out(pool, t, dx)
           [] pool.kind = "bancor"      -> bancor_amount_out(pool, t, dx)

\* get_amount_in of the Pool trait, token t out.
get_amount_in(pool, t, dy) ==
    IF dy = 0 \/ empty(pool) THEN None
    ELSE CASE pool.kind \in {"v2", "sushi"} -> v2_amount_in(pool, t, dy)
           [] pool.kind = "v3"     -> v3_amount_in(pool, t, dy)
           [] pool.kind = "curve"  -> curve_amount_in(pool, t, dy)
           [] pool.kind = "bancor" -> bancor_amount_in(pool, t, dy)
           [] OTHER                -> balancer_amount_in(pool, t, dy)

\* update_state: V3 ignores reserves.
update_state(pool, b0, b1) == IF pool.kind = "v3" THEN pool ELSE [pool EXCEPT !.bal = <<b0, b1>>]

\* A post-state of a two-balance pool: all of the input stays.
settled(pool, t, dx, dy) == [pool EXCEPT !.bal[t] = @ + dx, !.bal[other(t)] = @ - dy]

\* predict_post_state of the adapters: the pool after the swap and whether the
\* analytic answer can be trusted; unknown when there is no answer.
NoPost == [known |-> FALSE, sure |-> FALSE]
foreseen(p, sure) == [known |-> TRUE, sure |-> sure, pool |-> p]

predict_v3(pool, t, dx) ==
    LET new == v3_new_sqrt(pool, t, dx)
    IN  IF t = 1 /\ new >= pool.sqrt THEN NoPost
        ELSE foreseen([pool EXCEPT !.sqrt = new], is_within_active_tick_bucket(pool, new))

paid(pool, t, dx, dy) == IF dy = None THEN NoPost ELSE foreseen(settled(pool, t, dx, dy), TRUE)
predict_curve(pool, t, dx) == paid(pool, t, dx, curve_amount_out(pool, t, dx))

\* Also of the V3 adapter, without its margin.
predict_balancer(pool, t, dx) ==
    LET dy == balancer_amount_out(pool, t, dx)
    IN  IF dy > pool.bal[other(t)] THEN NoPost
        ELSE foreseen(settled(pool, t, dx, dy), pool.weight[1] = pool.weight[2])

predict_bancor(pool, t, dx) ==
    LET dy == bancor_amount_out(pool, t, dx)
    IN  IF dy = 0 \/ dy >= pool.bal[other(t)] THEN NoPost ELSE foreseen(settled(pool, t, dx, dy), TRUE)

predict_post_state(pool, t, dx) ==
    IF dx = 0 \/ empty(pool) THEN NoPost
    ELSE CASE pool.kind = "v3" -> predict_v3(pool, t, dx)
           [] pool.kind = "curve" -> predict_curve(pool, t, dx)
           [] pool.kind = "bancor" -> predict_bancor(pool, t, dx)
           [] pool.kind \in {"balancer", "balancer_v3"} -> predict_balancer(pool, t, dx)
           [] OTHER -> NoPost

\* predict_post_state_with_fallback, and with_replay given what the replay found:
\* an untrusted answer is replaced by the replay's; V2 is predicted elsewhere.
trusted(p, replayed) == IF p.known /\ ~p.sure THEN replayed ELSE p

\* Two Bancor pools through BNT (token 2 of both): both posts or neither.
bothKnown(first, second) ==
    IF first.known /\ second.known THEN <<first, second>> ELSE <<NoPost, NoPost>>
predict_post_state_multihop(a, dx, b) ==
    bothKnown(predict_post_state(a, 1, dx), predict_post_state(b, 2, get_amount_out(a, 1, dx)))
=============================================================================
