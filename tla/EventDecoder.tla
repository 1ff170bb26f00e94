---------------------------- MODULE EventDecoder ----------------------------
(***************************************************************************)
(* The log decoder, crates/ingestion/src/event_decoder.rs.  Bytes are      *)
(* modelled four at a time: an address is five limbs, a topic or a data    *)
(* word eight, so that every byte range the decoder slices is a range of   *)
(* limbs.                                                                  *)
(***************************************************************************)
EXTENDS Integers, Sequences

CONSTANT FeeUnit     \* balancer's 1e18 fixed point divided by 10000

DecoderAssumption == FeeUnit \in Nat \ {0}

\* The ABI encoding of an address and of a small integer as one word.
addressWord(a) == <<0, 0, 0>> \o a
intWord(i) == <<0, 0, 0, 0, 0, 0, 0, i>>

\* data[from..to], in bytes.
bytes(data, from, to) == SubSeq(data, from \div 4 + 1, to \div 4)
wordAt(data, n) == bytes(data, 32 * n, 32 * n + 32)
size(data) == 4 * Len(data)
low(word) == word[8]
topicAddress(topic) == bytes(topic, 12, 32)

\* topic0 is the hash of the name and the types of the event.
sync_topic == "Sync(uint112,uint112)"
swap_v2_topic == "Swap(address,uint256,uint256,uint256,uint256,address)"
swap_v3_topic == "SwapV3(address,address,int256,int256,uint160,uint128,int24)"
token_exchange_topic == "TokenExchange(address,int128,uint256,int128,uint256)"
pair_created_topic == "PairCreated(address,address,address,uint256)"
pool_created_v3_topic == "PoolCreated(address,address,uint24,int24,address)"
plain_pool_deployed_topic == "PlainPoolDeployed(address,address[],uint256,uint256,address)"
pool_registered_v3_topic ==
    "PoolRegistered(address,address,(address,uint8,address,bool)[],uint256,uint32,(address,address,address),(bool,bool,bool,bool,bool,bool,bool,bool,bool,bool,address),(bool,bool,bool,bool))"

Err(reason) == [tag |-> "err", reason |-> reason]

-----------------------------------------------------------------------------
\* A log: the contract it comes from, topic0 ("" without topics), the indexed
\* topics and the data.
decode_swap_v2(log) ==
    IF Len(log.indexed) < 2 THEN Err("insufficient_topics")
    ELSE IF size(log.data) < 128 THEN Err("malformed_payload")
    ELSE [tag |-> "V2Swap", pool |-> log.address, sender |-> topicAddress(log.indexed[1]),
          to |-> topicAddress(log.indexed[2]), in |-> <<wordAt(log.data, 0), wordAt(log.data, 1)>>,
          out |-> <<wordAt(log.data, 2), wordAt(log.data, 3)>>]

decode_sync(log, protocol) ==
    IF size(log.data) < 64 THEN Err("malformed_payload")
    ELSE [tag |-> "ReserveUpdate", pool |-> log.address, protocol |-> protocol,
          reserves |-> <<wordAt(log.data, 0), wordAt(log.data, 1)>>]

\* The last four bytes of the word as a 24-bit two's complement number.
sign_extend(limb) ==
    LET m == limb % (2 ^ 24) IN IF m >= 2 ^ 23 THEN m - 2 ^ 24 ELSE m

\* A liquidity beyond 128 bits panics in the conversion.
decode_swap_v3(log) ==
    IF size(log.data) < 160 THEN Err("malformed_payload")
    ELSE IF bytes(wordAt(log.data, 3), 0, 16) # <<0, 0, 0, 0>> THEN [tag |-> "panic"]
    ELSE [tag |-> "V3Update", pool |-> log.address, sqrt_price_x96 |-> wordAt(log.data, 2),
          liquidity |-> wordAt(log.data, 3), tick |-> sign_extend(low(wordAt(log.data, 4)))]

\* The reserves are to be read from the chain; nothing does.  The data is not looked at.
decode_token_exchange(log) ==
    [tag |-> "ReserveUpdate", pool |-> log.address, protocol |-> "curve",
     reserves |-> <<intWord(0), intWord(0)>>]

PoolCreatedEvent(log, pool) ==
    [tag |-> "PoolCreated", token0 |-> topicAddress(log.indexed[1]),
     token1 |-> topicAddress(log.indexed[2]), pool |-> pool]

decode_pair_created(log) ==
    IF Len(log.indexed) < 2 THEN Err("insufficient_topics")
    ELSE IF size(log.data) < 64 THEN Err("malformed_payload")
    ELSE PoolCreatedEvent(log, bytes(log.data, 12, 32))

\* The pool is read from the first twenty bytes of the second word.
decode_pool_created_v3(log) ==
    IF Len(log.indexed) < 3 THEN Err("insufficient_topics")
    ELSE IF size(log.data) < 64 THEN Err("malformed_payload")
    ELSE PoolCreatedEvent(log, bytes(log.data, 32, 52))

decode_log(log, protocol) ==
    CASE log.topic0 = sync_topic -> decode_sync(log, protocol)
      [] log.topic0 = swap_v2_topic -> decode_swap_v2(log)
      [] log.topic0 = swap_v3_topic -> decode_swap_v3(log)
      [] log.topic0 = token_exchange_topic -> decode_token_exchange(log)
      [] log.topic0 = pair_created_topic -> decode_pair_created(log)
      [] log.topic0 = pool_created_v3_topic -> decode_pool_created_v3(log)
      [] OTHER -> Err("unknown_topic")

-----------------------------------------------------------------------------
\* Fees, each protocol's unit to basis points.
v3_fee_bps_from_topic(topic) == low(topic) \div 100
curve_fee_to_bps(fee) == fee \div 1000000
balancer_v3_fee_to_bps(fee) == fee \div FeeUnit

\* The events with dynamic payloads go through the ABI decoder, whose result is
\* the log's abi field: pool, coins and fee, no coins when it cannot decode.
decode_plain_pool_deployed(log) ==
    IF log.topic0 # plain_pool_deployed_topic \/ Len(log.abi.coins) < 2 THEN {}
    ELSE {<<log.abi.pool, log.abi.coins[1], log.abi.coins[2], curve_fee_to_bps(log.abi.fee)>>}

decode_pool_registered_v3(log) ==
    IF \/ log.topic0 # pool_registered_v3_topic \/ Len(log.indexed) < 2
       \/ Len(log.abi.coins) < 2 THEN {}
    ELSE {<<log.abi.pool, log.abi.coins[1], log.abi.coins[2], balancer_v3_fee_to_bps(log.abi.fee)>>}

\* The logs of the events as they are encoded, which the listeners' tests build too:
\* the indexed arguments, and the data word by word or as the ABI decodes it.
NoAbi == [pool |-> <<>>, coins |-> <<>>, fee |-> 0]

mock_pair_created_log(factory, token0, token1, pair, length) ==
    [address |-> factory, topic0 |-> pair_created_topic,
     indexed |-> <<addressWord(token0), addressWord(token1)>>,
     data |-> addressWord(pair) \o intWord(length), abi |-> NoAbi]

mock_plain_pool_deployed_log(factory, pool, token0, token1, fee) ==
    [address |-> factory, topic0 |-> plain_pool_deployed_topic, indexed |-> <<>>, data |-> <<>>,
     abi |-> [pool |-> pool, coins |-> <<token0, token1>>, fee |-> fee]]

mock_pool_registered_log(vault, pool, factory, token0, token1, fee) ==
    [address |-> vault, topic0 |-> pool_registered_v3_topic,
     indexed |-> <<addressWord(pool), addressWord(factory)>>, data |-> <<>>,
     abi |-> [pool |-> pool, coins |-> <<token0, token1>>, fee |-> fee]]
=============================================================================
