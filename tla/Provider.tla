------------------------------ MODULE Provider ------------------------------
(***************************************************************************)
(* crates/grpc-server/src/provider.rs over ingestion/src/node_pool.rs: the *)
(* provider connects to the best healthy node, by subscription (WebSocket, *)
(* IPC) or by polling (HTTP), and dispatches the blocks and the event logs *)
(* it sees; when the connection ends it marks the node and looks for the   *)
(* next one.  Block b carries one log, also called b.                      *)
(***************************************************************************)
EXTENDS Integers, Sequences, FiniteSets

CONSTANTS
    Envs,             \* [ws, rpc, nodes]: the schemes of ETH_WS_URL and ETH_RPC_URL, the file
                      \* of AETHER_NODES_CONFIG; each a set of at most one
    Set,              \* the variables of the environment that URLs may name
    MaxRetries,       \* NodeConfig.max_retries
    MaxAttempts,      \* max_reconnect_attempts
    MaxHead           \* bound of the model

ProviderAssumption ==
    /\ \A e \in Envs : Cardinality(e.ws) <= 1 /\ Cardinality(e.rpc) <= 1 /\ Cardinality(e.nodes) <= 1
    /\ MaxRetries \in Nat \ {0} /\ MaxAttempts \in Nat \ {0} /\ MaxHead \in Nat

VARIABLES
    pool,             \* the NodeConfigs, in order
    up,               \* which nodes answer; the environment decides
    node,             \* state and consecutive_failures of each node
    pc,               \* "select", "blocks", "logs", "push", "http", "backoff", "stopped"
    cur,              \* the node of the connection
    attempt,          \* never reset; only attempt >= MaxAttempts is looked at
    broken,           \* the streams of the connection have ended
    shutdown,
    head,             \* of the chain
    start,            \* initial_block of the connection
    blockQ, logQ,     \* the two subscription streams
    last_block,
    sentBlock,        \* last block dispatched in this connection
    handled,          \* times the log was dispatched or counted as a decode error
    missed            \* history: logs a failed poll, or the time it took to subscribe, left behind

conn == <<cur, broken, start, blockQ, logQ, last_block, sentBlock, handled, missed>>
vars == <<pool, up, node, pc, attempt, shutdown, head, conn>>

Blocks == 1..MaxHead

\* The streaming URL before the other one, a local node without either.
ProviderConfig(env) ==
    [rpc_url |-> IF env.ws # {} THEN CHOOSE s \in env.ws : TRUE
                 ELSE IF env.rpc # {} THEN CHOOSE s \in env.rpc : TRUE ELSE "http",
     nodes_config |-> env.nodes]

\* By the scheme of the URL.
infer_node_type(scheme) == IF scheme \in {"ws", "wss", "ipc"} THEN "push" ELSE "http"

\* By the type an entry states; an unknown one is http.
parse_node_type(type) == IF type \in {"websocket", "ws", "wss", "ipc"} THEN "push" ELSE "http"

\* A variable that is not set leaves its placeholder, which is no URL.
expand_env_vars(url) == IF url.vars \subseteq Set THEN url.scheme ELSE "none"

NodeConfig(kind, scheme, priority) ==
    [kind |-> kind, priority |-> priority, live |-> kind = infer_node_type(scheme) /\ scheme # "none"]

\* load_nodes_config: a set of at most one list, none when it is not well-formed.
load_nodes_config(file) ==
    IF "error" \in DOMAIN file THEN {}
    ELSE {[i \in DOMAIN file.nodes |->
             LET e == file.nodes[i]
             IN  NodeConfig(parse_node_type(e.type), expand_env_vars(e.url), e.priority)]}

single_node_pool(scheme) == <<NodeConfig(infer_node_type(scheme), scheme, 0)>>

\* RpcProvider::new: the nodes of the file, else the one of rpc_url.
node_pool(c) ==
    LET loaded == UNION {load_nodes_config(f) : f \in c.nodes_config}
    IN  IF loaded = {} THEN single_node_pool(c.rpc_url) ELSE CHOOSE l \in loaded : TRUE

Nodes == DOMAIN pool
NodeConnection == [state |-> "Connected", failures |-> 0]

Init ==
    /\ pool \in {node_pool(ProviderConfig(e)) : e \in Envs}
    /\ up = [n \in Nodes |-> pool[n].live]
    /\ node = [n \in Nodes |-> NodeConnection]
    /\ pc = "select" /\ cur = 0 /\ attempt = 0 /\ broken = FALSE
    /\ shutdown = FALSE /\ head = 0 /\ start = 0
    /\ blockQ = <<>> /\ logQ = <<>> /\ last_block = 0 /\ sentBlock = 0
    /\ handled = [b \in Blocks |-> 0] /\ missed = {}

-----------------------------------------------------------------------------
\* The environment: blocks are mined, nodes come and go, the process is told to
\* stop.  A node that goes away takes the streams of its connection with it.
Mine ==
    /\ head < MaxHead /\ head' = head + 1
    /\ blockQ' = IF pc \in {"logs", "push"} /\ ~broken THEN Append(blockQ, head + 1) ELSE blockQ
    /\ logQ' = IF pc = "push" /\ ~broken THEN Append(logQ, head + 1) ELSE logQ
    /\ missed' = IF pc \in {"blocks", "logs"} THEN missed \union {head + 1} ELSE missed
    /\ UNCHANGED <<pool, up, node, pc, cur, attempt, broken, shutdown, start, last_block,
                   sentBlock, handled>>

Toggle(n) ==
    /\ pool[n].live
    /\ up' = [up EXCEPT ![n] = ~@]
    /\ broken' = (broken \/ (pc \in {"blocks", "logs", "push"} /\ cur = n /\ up[n]))
    /\ UNCHANGED <<pool, node, pc, cur, attempt, shutdown, head, start, blockQ, logQ,
                   last_block, sentBlock, handled, missed>>

RequestShutdown ==
    /\ ~shutdown /\ shutdown' = TRUE
    /\ UNCHANGED <<pool, up, node, pc, attempt, head, conn>>

-----------------------------------------------------------------------------
record_success(n) == [node EXCEPT ![n] = [state |-> "Healthy", failures |-> 0]]

record_failure(n) ==
    LET f == node[n].failures + 1
    IN [node EXCEPT ![n] = [failures |-> f,
            state |-> CASE f >= MaxRetries -> "Failed"
                        [] f < MaxRetries /\ f >= 2 -> "Degraded"
                        [] OTHER -> node[n].state]]

is_healthy(n) == node[n].state \in {"Healthy", "Connected"}

Healthy == {n \in Nodes : is_healthy(n)}

\* The lowest priority, the first of equals.
best_node ==
    CHOOSE n \in Healthy : \A m \in Healthy \ {n} :
        \/ pool[n].priority < pool[m].priority
        \/ pool[n].priority = pool[m].priority /\ n < m

NextAttempt == IF attempt < MaxAttempts THEN attempt + 1 ELSE attempt

\* Err(e) of a connection.
ConnectionFailed ==
    /\ node' = record_failure(cur') /\ attempt' = NextAttempt /\ pc' = "backoff"

\* connect_ws, connect_ipc and connect_http up to the answer of get_block_number.
connected(n) ==
    /\ node' = record_success(n) /\ pc' = IF pool[n].kind = "http" THEN "http" ELSE "blocks"
    /\ start' = head /\ last_block' = head /\ sentBlock' = head
    /\ broken' = FALSE /\ blockQ' = <<>> /\ logQ' = <<>>
    /\ handled' = [b \in Blocks |-> 0] /\ missed' = {}

Connect ==
    /\ pc = "select" /\ ~shutdown /\ Healthy # {} /\ cur' = best_node
    /\ IF up[best_node]
         THEN connected(best_node) /\ UNCHANGED attempt
         ELSE /\ ConnectionFailed
              /\ UNCHANGED <<broken, start, blockQ, logQ, last_block, sentBlock, handled, missed>>
    /\ UNCHANGED <<pool, up, shutdown, head>>

\* run_subscription_loop up to its loop: the subscription to blocks, then the one to
\* logs, each an await that fails with the connection and ignores a shutdown.
Subscribe ==
    /\ pc \in {"blocks", "logs"} /\ cur' = cur
    /\ IF broken THEN ConnectionFailed
       ELSE pc' = (IF pc = "blocks" THEN "logs" ELSE "push") /\ UNCHANGED <<node, attempt>>
    /\ UNCHANGED <<pool, up, shutdown, head, broken, start, blockQ, logQ, last_block, sentBlock,
                   handled, missed>>

\* No node is healthy: give up, or make every node eligible again.
AllUnhealthy ==
    /\ pc = "select" /\ ~shutdown /\ Healthy = {} /\ attempt' = NextAttempt
    /\ IF attempt' >= MaxAttempts
         THEN pc' = "stopped" /\ UNCHANGED node
         ELSE /\ pc' = "backoff"
              /\ node' = [n \in Nodes |-> [state |-> "Connected", failures |-> 0]]
    /\ UNCHANGED <<pool, up, shutdown, head, conn>>

\* The sleep of backoff_delay is over.
Retry ==
    /\ pc = "backoff" /\ pc' = "select"
    /\ UNCHANGED <<pool, up, node, attempt, shutdown, head, conn>>

\* run before a connection, and the shutdown branch of every select!.
Stop ==
    /\ shutdown /\ pc \notin {"blocks", "logs", "stopped"} /\ pc' = "stopped"
    /\ UNCHANGED <<pool, up, node, attempt, shutdown, head, conn>>

-----------------------------------------------------------------------------
\* A log is dispatched or counted in aether_decode_errors_total.
process_logs(bs) == handled' = [b \in Blocks |-> handled[b] + (IF b \in bs THEN 1 ELSE 0)]

SubBlock ==
    /\ pc = "push" /\ blockQ # <<>>
    /\ sentBlock' = Head(blockQ) /\ blockQ' = Tail(blockQ)
    /\ node' = record_success(cur)
    /\ UNCHANGED <<pool, up, pc, cur, attempt, broken, shutdown, head, start, logQ,
                   last_block, handled, missed>>

SubLog ==
    /\ pc = "push" /\ logQ # <<>>
    /\ process_logs({Head(logQ)}) /\ logQ' = Tail(logQ)
    /\ UNCHANGED <<pool, up, node, pc, cur, attempt, broken, shutdown, head, start, blockQ,
                   last_block, sentBlock, missed>>

\* Mutant: the loop goes on when a stream has ended.
StreamEndIgnored ==
    /\ pc = "push" /\ broken /\ (blockQ = <<>> \/ logQ = <<>>)
    /\ UNCHANGED vars

\* Either stream has nothing left: the connection fails, whatever the other holds.
StreamEnd ==
    /\ pc = "push" /\ broken /\ (blockQ = <<>> \/ logQ = <<>>)
    /\ cur' = cur /\ ConnectionFailed
    /\ UNCHANGED <<pool, up, shutdown, head, broken, start, blockQ, logQ, last_block,
                   sentBlock, handled, missed>>

\* Mutant: only the logs of the block just dispatched are asked for.
LogRangeNewest == {head}

LogRange == (last_block + 1)..head

\* One poll: the answers the code distinguishes are a failed eth_blockNumber or
\* eth_getBlockByNumber, a block the node does not have, and a failed eth_getLogs.
Poll(answer) ==
    /\ pc = "http" /\ head > last_block
    /\ answer # "error" => up[cur]
    /\ IF answer = "error"
         THEN UNCHANGED <<node, last_block, sentBlock, handled, missed>>
         ELSE /\ last_block' = head
              /\ sentBlock' = IF answer = "no_block" THEN sentBlock ELSE head
              /\ node' = IF answer = "no_block" THEN node ELSE record_success(cur)
              /\ IF answer = "ok"
                   THEN process_logs(LogRange) /\ UNCHANGED missed
                   ELSE missed' = missed \union ((last_block + 1)..head) /\ UNCHANGED handled
    /\ UNCHANGED <<pool, up, pc, cur, attempt, broken, shutdown, head, start, blockQ, logQ>>

Next ==
    \/ Mine \/ RequestShutdown \/ \E n \in Nodes : Toggle(n)
    \/ Connect \/ Subscribe \/ AllUnhealthy \/ Retry \/ Stop
    \/ SubBlock \/ SubLog \/ StreamEnd
    \/ \E a \in {"ok", "no_logs", "no_block", "error"} : Poll(a)

\* The task runs, select! serves every ready branch, and a node that answers
\* answers a poll eventually.
Fairness ==
    /\ WF_vars(Connect \/ AllUnhealthy) /\ WF_vars(Subscribe) /\ WF_vars(Retry) /\ WF_vars(Stop)
    /\ WF_vars(SubBlock) /\ WF_vars(SubLog) /\ WF_vars(StreamEnd) /\ WF_vars(Poll("ok"))

Spec == Init /\ [][Next]_vars /\ Fairness

-----------------------------------------------------------------------------
\* In one connection every log after its first block number is handled exactly once,
\* whichever transport and however many blocks a poll spans, or still waits in the
\* stream, or was left behind: by a poll whose block or logs the node did not deliver,
\* as connect_http moves last_block on without them, or before subscribe_logs had
\* answered, as nothing fetches what was mined meanwhile.  No block is dispatched
\* before it is mined or out of order.
LogsOnce ==
    /\ pc = "http" =>
        \A b \in (start + 1)..head :
            handled[b] + (IF b \in missed THEN 1 ELSE 0) = IF b <= last_block THEN 1 ELSE 0
    /\ pc = "push" =>
        \A b \in (start + 1)..head :
            \/ handled[b] + Cardinality({i \in DOMAIN logQ : logQ[i] = b})
                 = IF b \in missed THEN 0 ELSE 1
            \/ broken /\ handled[b] = 0
    /\ sentBlock >= start /\ sentBlock <= head
    /\ \A i \in DOMAIN blockQ : blockQ[i] > sentBlock

\* When every node with a usable URL answers from some time on, the provider ends up on a live
\* connection and stays there, unless it was told to stop or had used up its
\* reconnect attempts: no sequence of failures and resets leaves it waiting.
AllUp == \A n \in Nodes : up[n] \/ ~pool[n].live
Live == pc \in {"push", "http"} /\ ~broken
Stopped == pc = "stopped"

=============================================================================
