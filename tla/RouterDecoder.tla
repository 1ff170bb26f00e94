---------------------------- MODULE RouterDecoder ----------------------------
(***************************************************************************)
(* The decoder of pending router calls, crates/pools/src/router_decoder.rs,*)
(* against what the calls trade on chain.                                  *)
(*                                                                         *)
(* Calldata is a record: the method, whether its arguments decode (abi)    *)
(* and the arguments.  A packed V3 path is the sequence of its fields,     *)
(* token, fee, token, fee, ..., possibly cut short.  A uint256 that packs  *)
(* an address is [addr, flag].  A wallet assembles a call, wrapping and    *)
(* batching it in multicalls, and submits it.                              *)
(***************************************************************************)
EXTENDS EventDecoder, Integers, Sequences, SequencesExt, FiniteSets

CONSTANTS
    Calls,           \* the calls a wallet starts from
    Extras,          \* the calls it adds to a batch
    Routers,         \* the addresses it may send them to
    Sushi,           \* SUSHISWAP_ROUTERS
    CurveRouters,    \* CURVE_ROUTERS
    WETH, ZERO,      \* WETH_ADDRESS and Address::ZERO
    MaxDepth,        \* MAX_MULTICALL_DEPTH
    MaxWraps, MaxBatch   \* bounds of the model

RouterDecoderAssumption == MaxDepth = 2 /\ {MaxWraps, MaxBatch} \subseteq Nat /\ ZERO # WETH

VARIABLES
    tx,              \* the call being assembled
    wraps,           \* multicalls around it
    sent             \* {} or {[to, result]} once submitted

vars == <<tx, wraps, sent>>

-----------------------------------------------------------------------------
Fail(reason) == [err |-> reason, swaps |-> <<>>]
Swaps(s) == [err |-> "", swaps |-> s]
NotMine == Fail("not mine")      \* Ok(None) of a family

Shell(protocol, router) ==
    [protocol |-> protocol, router |-> router, token_in |-> ZERO, token_out |-> ZERO,
     amount_in |-> 0, amount_out_min |-> 0, recipient |-> ZERO, fee |-> 0, path_extra |-> <<>>,
     curve_indices |-> <<>>, pool_address |-> ZERO, zero_for_one |-> FALSE]

Pair(shell, in, out, amount, least, recipient) ==
    [shell EXCEPT !.token_in = in, !.token_out = out, !.amount_in = amount,
                  !.amount_out_min = least, !.recipient = recipient]

router_to_v2_protocol(router) == IF router \in Sushi THEN "SushiSwap" ELSE "UniswapV2"

-----------------------------------------------------------------------------
(* The Uniswap V2 family.  in is amountIn or amountInMax, absent from the  *)
(* payable methods; out is amountOutMin or amountOut.                      *)

V2Payable == {"swapExactETHForTokens", "swapETHForExactTokens", "swapExactETHForTokensFOT"}
V2Methods == V2Payable \union
    {"swapExactTokensForTokens", "swapTokensForExactTokens", "swapExactTokensForETH",
     "swapTokensForExactETH", "swapExactTokensForTokensFOT", "swapExactTokensForETHFOT"}

decode_v2_call(protocol, router, path, in, out, to) ==
    IF Len(path) < 2 THEN Fail("EmptyPath")
    ELSE Swaps(<<[Pair(Shell(protocol, router), path[1], path[2], in, out, to)
                    EXCEPT !.path_extra = SubSeq(path, 3, Len(path))]>>)

try_uni_v2_family(c, router) ==
    IF c.sel \notin V2Methods THEN NotMine
    ELSE IF ~c.abi THEN Fail("AbiDecode")
    ELSE decode_v2_call(router_to_v2_protocol(router), router, c.path,
                        IF c.sel \in V2Payable THEN 0 ELSE c.in, c.out, c.to)

-----------------------------------------------------------------------------
(* The Uniswap V3 family.  The exact-output methods report amountOut as    *)
(* the amount in, and the ceiling of the input as the minimum out.         *)

parse_v3_path(path) ==
    IF Len(path) < 3 THEN <<>>
    ELSE <<path[1], path[3], path[2], [i \in 1..((Len(path) - 3) \div 2) |-> path[2 * i + 3]]>>

swap_path_first_hop_for_exact_output(first, second) == <<second, first>>

decode_v3_path(router, path, amount, least, to, reversed) ==
    LET p == parse_v3_path(path)
        hop == IF reversed THEN swap_path_first_hop_for_exact_output(p[1], p[2]) ELSE <<p[1], p[2]>>
    IN  IF p = <<>> THEN Fail("EmptyPath")
        ELSE Swaps(<<[Pair(Shell("UniswapV3", router), hop[1], hop[2], amount, least, to)
                        EXCEPT !.fee = p[3], !.path_extra = p[4]]>>)

V3Methods == {"exactInputSingle", "exactInput", "exactOutputSingle", "exactOutput"}

exactInput(c, router) ==
    IF c.sel = "exactInput" THEN decode_v3_path(router, c.path, c.in, c.out, c.to, FALSE)
    ELSE Swaps(<<[Pair(Shell("UniswapV3", router), c.tokenIn, c.tokenOut, c.in, c.out, c.to)
                    EXCEPT !.fee = c.fee]>>)

exactOutput(c, router) ==
    IF c.sel = "exactOutput" THEN decode_v3_path(router, c.path, c.out, c.in, c.to, TRUE)
    ELSE Swaps(<<[Pair(Shell("UniswapV3", router), c.tokenIn, c.tokenOut, c.out, c.in, c.to)
                    EXCEPT !.fee = c.fee]>>)

try_uni_v3_family(c, router) ==
    IF c.sel \notin V3Methods THEN NotMine
    ELSE IF ~c.abi THEN Fail("AbiDecode")
    ELSE IF c.sel \in {"exactInput", "exactInputSingle"} THEN exactInput(c, router) ELSE exactOutput(c, router)

-----------------------------------------------------------------------------
(* Balancer, Curve and Bancor.                                             *)

try_balancer(c, router) ==
    IF c.sel # "balancer swap" THEN NotMine
    ELSE IF ~c.abi THEN Fail("AbiDecode")
    ELSE Swaps(<<Pair(Shell("BalancerV2", router), c.tokenIn, c.tokenOut, c.amount, c.limit, c.to)>>)

CurveMethods == {"exchange int128", "exchange_underlying", "exchange uint256"}
BancorMethods == {"tradeBySourceAmount", "tradeByTargetAmount"}

\* Indices outside a byte are refused, of either width.
curve_indices(i, j) == IF {i, j} \subseteq 0..255 THEN <<i, j>> ELSE <<>>

curve_decoded_swap(pool, indices, dx) ==
    [Shell("Curve", pool) EXCEPT !.amount_in = dx, !.curve_indices = indices]

try_curve(c, pool) ==
    IF c.sel \notin CurveMethods THEN NotMine
    ELSE IF ~c.abi \/ curve_indices(c.i, c.j) = <<>> THEN Fail("AbiDecode")
    ELSE Swaps(<<curve_decoded_swap(pool, curve_indices(c.i, c.j), c.dx)>>)

try_bancor(c, router) ==
    IF c.sel \notin BancorMethods THEN NotMine
    ELSE IF ~c.abi THEN Fail("AbiDecode")
    ELSE Swaps(<<Pair(Shell("BancorV3", router), c.tokenIn, c.tokenOut, c.amount, c.limit, c.to)>>)

-----------------------------------------------------------------------------
(* The 1inch v6 router.                                                    *)

u256_low_address(word) == word.addr
pool_zero_for_one(word) == <<word.addr, word.flag>>

one_inch_unresolved_swap(router, c) ==
    Pair(Shell("OneInchV6", router), c.tokenIn, c.tokenOut, c.amount, c.limit, c.to)

\* One record per pool: the first has the token and the amount, the last the minimum.
one_inch_chain(router, token_in, amount, least, pools, to) ==
    [i \in 1..Len(pools) |->
      LET p == pool_zero_for_one(pools[i])
      IN  [Shell("OneInchV6", router) EXCEPT
             !.token_in = IF i = 1 THEN token_in ELSE ZERO,
             !.amount_in = IF i = 1 THEN amount ELSE 0,
             !.amount_out_min = IF i = Len(pools) THEN least ELSE 0,
             !.recipient = to, !.pool_address = p[1], !.zero_for_one = p[2]]]

\* The variants with and without a recipient, and of one to three pools, differ
\* in their arguments only: no recipient is ZERO.
OneInchMethods == {"1inch swap", "unoswap", "ethUnoswap", "uniswapV3Swap"}

unoswap(c, router) ==
    Swaps(one_inch_chain(router, u256_low_address(c.token), c.amount, c.limit, c.pools, c.to))

ethUnoswap(c, router) == Swaps(one_inch_chain(router, WETH, 0, c.limit, c.pools, c.to))

uniswapV3Swap(c, router) ==
    IF c.pools = <<>> THEN Fail("EmptyPath")
    ELSE Swaps(one_inch_chain(router, ZERO, c.amount, c.limit, c.pools, c.to))

try_one_inch_v6(c, router) ==
    IF c.sel \notin OneInchMethods THEN NotMine
    ELSE IF ~c.abi THEN Fail("AbiDecode")
    ELSE CASE c.sel = "1inch swap" -> Swaps(<<one_inch_unresolved_swap(router, c)>>)
           [] c.sel = "unoswap" -> unoswap(c, router)
           [] c.sel = "ethUnoswap" -> ethUnoswap(c, router)
           [] c.sel = "uniswapV3Swap" -> uniswapV3Swap(c, router)

-----------------------------------------------------------------------------
(* The Universal Router: one opcode per input, its two flag bits masked.   *)

ur_commands == {"V3_SWAP_EXACT_IN", "V3_SWAP_EXACT_OUT", "V2_SWAP_EXACT_IN", "V2_SWAP_EXACT_OUT"}

decode_ur_opcode(op, input, router) ==
    IF op \notin ur_commands THEN Swaps(<<>>)
    ELSE IF ~input.abi THEN Fail("AbiDecode")
    ELSE CASE op = "V3_SWAP_EXACT_IN" ->
                decode_v3_path(router, input.path, input.in, input.out, input.to, FALSE)
           [] op = "V3_SWAP_EXACT_OUT" ->
                decode_v3_path(router, input.path, input.out, input.in, input.to, TRUE)
           [] op = "V2_SWAP_EXACT_IN" ->
                decode_v2_call("UniswapV2", router, input.path, input.in, input.out, input.to)
           [] op = "V2_SWAP_EXACT_OUT" ->
                decode_v2_call("UniswapV2", router, input.path, input.out, input.in, input.to)

\* The first malformed swap fails the whole call.
allOrFirstBad(each) ==
    LET bad == {i \in DOMAIN each : each[i].err # ""}
    IN  IF bad # {} THEN each[CHOOSE i \in bad : \A j \in bad : i <= j]
        ELSE Swaps(FlattenSeq([i \in DOMAIN each |-> each[i].swaps]))

try_universal_router(c, router) ==
    IF c.sel # "execute" THEN NotMine
    ELSE IF ~c.abi \/ Len(c.commands) # Len(c.inputs) THEN Fail("AbiDecode")
    ELSE allOrFirstBad([i \in 1..Len(c.commands) |-> decode_ur_opcode(c.commands[i].op, c.inputs[i], router)])

-----------------------------------------------------------------------------
Helpers == {"selfPermit", "unwrapWETH9", "refundETH", "sweepToken", "addLiquidity",
            "removeLiquidity", "cancelOrder", "fillContractOrder"}

try_is_known_non_swap_helper(c) == c.sel \in Helpers

\* What a decoder does not take is left to the next one.
orElse(result, next) == IF result # NotMine THEN result ELSE next

try_decode_single(c, to) ==
    orElse(try_uni_v2_family(c, to),
      orElse(try_uni_v3_family(c, to),
        orElse(try_balancer(c, to), orElse(try_curve(c, to), try_bancor(c, to)))))

\* decode_at_depth of a call that is not a multicall, or of one too deep.
decodeFlat(to, c) ==
    IF c.sel = "" THEN Fail("TooShort")
    ELSE orElse(try_one_inch_v6(c, to),
           orElse(try_universal_router(c, to),
             orElse(try_decode_single(c, to),
               IF try_is_known_non_swap_helper(c) THEN Swaps(<<>>) ELSE Fail("UnknownSelector"))))

try_extract_multicall(c) == c.sel \in {"multicall", "multicall deadline"}

\* A multicall is the records of its inner calls; what does not decode is skipped.
peel(to, c, inner(_, _)) ==
    IF ~try_extract_multicall(c) THEN decodeFlat(to, c)
    ELSE IF ~c.abi THEN Fail("AbiDecode")
    ELSE Swaps(FlattenSeq([i \in 1..Len(c.data) |-> inner(to, c.data[i]).swaps]))

\* Mutant: only the outermost multicall is peeled.
decode_once(to, c) == peel(to, c, decodeFlat)

decode_at_depth(to, c) ==
    LET one(t, d) == peel(t, d, decodeFlat) IN peel(to, c, one)

decode_pending_many(to, c) ==
    IF c.sel = "" THEN Fail("TooShort")
    ELSE IF to \in CurveRouters THEN Fail("CurveUnsupported")
    ELSE decode_at_depth(to, c)

-----------------------------------------------------------------------------
(* The wallet.                                                             *)

Init == tx \in Calls /\ wraps = 0 /\ sent = {}

Wrap ==
    /\ sent = {} /\ wraps < MaxWraps
    /\ \E sel \in {"multicall", "multicall deadline"}, abi \in BOOLEAN :
         tx' = [sel |-> sel, abi |-> abi, data |-> <<tx>>]
    /\ wraps' = wraps + 1 /\ UNCHANGED sent

Batch ==
    /\ sent = {} /\ wraps > 0 /\ Len(tx.data) < MaxBatch
    /\ \E c \in Extras : tx' = [tx EXCEPT !.data = Append(@, c)]
    /\ UNCHANGED <<wraps, sent>>

Submit ==
    /\ sent = {}
    /\ \E to \in Routers : sent' = {[to |-> to, result |-> decode_pending_many(to, tx)]}
    /\ UNCHANGED <<tx, wraps>>

Next == Wrap \/ Batch \/ Submit

Spec == Init /\ [][Next]_vars

-----------------------------------------------------------------------------
(* What a call trades: its hops, as tokens, coin indices or pool.          *)

V2Hops(path) == {<<"tokens", path[i], path[i + 1]>> : i \in 1..(Len(path) - 1)}
V3Tokens(path) == [i \in 1..((Len(path) + 1) \div 2) |-> path[2 * i - 1]]
Reversed(path) == V2Hops(Reverse(V3Tokens(path)))

swapHops(c) ==
    CASE c.sel \in V2Methods -> V2Hops(c.path)
      [] c.sel \in {"exactInputSingle", "exactOutputSingle", "balancer swap", "1inch swap",
                    "tradeBySourceAmount", "tradeByTargetAmount"} -> {<<"tokens", c.tokenIn, c.tokenOut>>}
      [] c.sel = "exactInput" -> V2Hops(V3Tokens(c.path))
      [] c.sel = "exactOutput" -> Reversed(c.path)
      [] c.sel \in CurveMethods -> {<<"coins", c.i, c.j>>}
      [] c.sel \in {"unoswap", "ethUnoswap", "uniswapV3Swap"} ->
           {<<"pool", c.pools[i].addr, c.pools[i].flag>> : i \in 1..Len(c.pools)}
      [] c.sel = "execute" ->
           UNION {IF c.commands[i].op = "V3_SWAP_EXACT_OUT" THEN Reversed(c.inputs[i].path)
                  ELSE IF c.commands[i].op = "V3_SWAP_EXACT_IN" THEN V2Hops(V3Tokens(c.inputs[i].path))
                  ELSE IF c.commands[i].op \in {"V2_SWAP_EXACT_IN", "V2_SWAP_EXACT_OUT"}
                    THEN V2Hops(c.inputs[i].path) ELSE {} : i \in 1..Len(c.commands)}
      [] OTHER -> {}

\* The calls inside a call, multicalls opened down to MaxDepth.
leaves(c) ==
    LET open(d) == IF try_extract_multicall(d) THEN d.data ELSE <<d>>
        once == open(c)
    IN  FlattenSeq([i \in 1..Len(once) |-> open(once[i])])

recordHop(r) ==
    IF r.curve_indices # <<>> THEN <<"coins">> \o r.curve_indices
    ELSE IF r.pool_address # ZERO THEN <<"pool", r.pool_address, r.zero_for_one>>
    ELSE <<"tokens", r.token_in, r.token_out>>

\* Every record of a decoded call is a hop one of the calls inside it trades, in
\* its direction (decode_pending_many), however calls are nested and batched.
RecordsReal ==
    \A s \in sent : \A i \in 1..Len(s.result.swaps) :
      \E j \in 1..Len(leaves(tx)) : recordHop(s.result.swaps[i]) \in swapHops(leaves(tx)[j])

\* A batch of well-formed calls loses none: every swap at a depth the decoder
\* opens has a record, whatever else is in the batch.
SwapsSeen ==
    \A s \in sent : \A j \in 1..Len(leaves(tx)) :
      (/\ s.to \notin CurveRouters /\ s.result.err = ""
       /\ \A k \in 1..Len(leaves(tx)) : leaves(tx)[k].abi
       /\ (try_extract_multicall(tx) => \A k \in 1..Len(tx.data) : tx.data[k].abi)
       /\ decodeFlat(s.to, leaves(tx)[j]).swaps # <<>>)
      => \E i \in 1..Len(s.result.swaps) : recordHop(s.result.swaps[i]) \in swapHops(leaves(tx)[j])

-----------------------------------------------------------------------------
\* Logs on their way from the contracts that emit them to the event channel, a
\* machine of its own: the chain encodes an event, the node's filter selects by
\* topic0, the provider decodes and dispatches it or counts the failure
\* (crates/grpc-server/src/provider.rs over EventDecoder).

CONSTANTS
    Emitted,         \* events a contract may emit
    Truncated,       \* whether a node may cut the data of a log short
    MaxLogs          \* bound of the model

DecodingAssumption == DecoderAssumption /\ MaxLogs \in Nat

VARIABLES
    emitted,         \* events emitted so far, with whether the log was cut
    dispatched,      \* the events dispatch_pool_update sent
    errors           \* aether_decode_errors_total by reason, and the panics of the task

logVars == <<emitted, dispatched, errors>>

\* topic0 of the events on chain.  Uniswap V3 names its event Swap; a contract may have
\* one named as the decoder's.
chainTopic(e) ==
    CASE e.tag = "ReserveUpdate" -> sync_topic
      [] e.tag = "V2Swap" -> swap_v2_topic
      [] e.tag = "V3Update" -> "Swap(address,address,int256,int256,uint160,uint128,int24)"
      [] e.tag = "SwapV3" -> swap_v3_topic
      [] e.tag = "TokenExchange" -> token_exchange_topic
      [] e.tag = "PoolCreated" -> pair_created_topic

\* The log of an event.
chainLog(e) ==
    LET two(a, b) == <<addressWord(a), addressWord(b)>>
        body ==
          CASE e.tag = "ReserveUpdate" -> [indexed |-> <<>>, data |-> e.reserves[1] \o e.reserves[2]]
            [] e.tag = "V2Swap" -> [indexed |-> two(e.sender, e.to),
                                    data |-> e.in[1] \o e.in[2] \o e.out[1] \o e.out[2]]
            [] e.tag \in {"V3Update", "SwapV3"} ->
                 [indexed |-> two(e.pool, e.pool),
                  data |-> intWord(1) \o intWord(2) \o e.sqrt_price_x96 \o e.liquidity \o intWord(e.tick)]
            [] e.tag = "TokenExchange" -> [indexed |-> <<addressWord(e.buyer)>>,
                                           data |-> FlattenSeq(e.words)]
            [] e.tag = "PoolCreated" -> [indexed |-> two(e.token0, e.token1),
                                         data |-> addressWord(e.pool) \o intWord(1)]
    IN  [address |-> IF e.tag = "PoolCreated" THEN <<9, 9, 9, 9, 9>> ELSE e.pool,
         topic0 |-> chainTopic(e), indexed |-> body.indexed, data |-> body.data]

\* Without the last word of its data.
cut(log) == [log EXCEPT !.data = SubSeq(@, 1, Len(@) - 8)]

\* The PoolEvent of an event: that of a Curve exchange has no reserves.
announced(e) ==
    CASE e.tag = "SwapV3" -> [e EXCEPT !.tag = "V3Update"]
      [] e.tag = "TokenExchange" -> [tag |-> "ReserveUpdate", pool |-> e.pool, protocol |-> "curve",
                                     reserves |-> <<intWord(0), intWord(0)>>]
      [] OTHER -> e

event_topics == {sync_topic, swap_v2_topic, swap_v3_topic, token_exchange_topic, pair_created_topic}

LogInit ==
    /\ emitted = {} /\ dispatched = {}
    /\ errors = [unknown_topic |-> 0, malformed_payload |-> 0, insufficient_topics |-> 0, panic |-> 0]

\* A log of the filter is decoded and dispatched, or counted, or ends the task with a
\* panic; a log outside it never arrives.
process_log(e, short) ==
    LET log == IF short THEN cut(chainLog(e)) ELSE chainLog(e)
        result == decode_log(log, "uniswap_v2")
    IN  /\ emitted' = emitted \union {<<e, short>>}
        /\ IF log.topic0 \notin event_topics THEN UNCHANGED <<dispatched, errors>>
           ELSE IF result.tag = "panic"
             THEN errors' = [errors EXCEPT !.panic = 1] /\ UNCHANGED dispatched
           ELSE IF result.tag = "err"
             THEN errors' = [errors EXCEPT ![result.reason] = @ + 1] /\ UNCHANGED dispatched
             ELSE dispatched' = dispatched \union {result} /\ UNCHANGED errors

LogNext ==
    \E e \in Emitted, short \in (IF Truncated THEN BOOLEAN ELSE {FALSE}) :
      errors.panic = 0 /\ Cardinality(emitted) < MaxLogs /\ <<e, short>> \notin emitted /\ process_log(e, short)

LogSpec == LogInit /\ [][LogNext]_logVars

-----------------------------------------------------------------------------
\* What is dispatched was emitted, whole: the decoder's slices are the ABI's, a log a
\* node cut short is counted as malformed and never dispatched as an event with other
\* numbers (decode_log and the length checks of its arms), and no event of the ABI's
\* types panics.  Curve's exchanges are the exception: they are dispatched with zero
\* reserves, which no pool has, cut short or not.
DispatchedTrue ==
    /\ \A d \in dispatched :
         \E x \in emitted : d = announced(x[1]) /\ (x[2] => x[1].tag = "TokenExchange")
    /\ errors.malformed_payload =
         Cardinality({x \in emitted : /\ x[2] /\ x[1].tag # "TokenExchange"
                                      /\ chainTopic(x[1]) \in event_topics})
    /\ errors.panic = 0

\* Every event a watched contract emits whole reaches the event channel: the
\* "Uniswap V3 Swap event" (event_decoder.rs:28) is one of those
\* event_topics asks the node for.
SwapsReachEngine == \A x \in emitted : ~x[2] => announced(x[1]) \in dispatched
=============================================================================
