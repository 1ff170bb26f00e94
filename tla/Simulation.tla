----------------------------- MODULE Simulation -----------------------------
(***************************************************************************)
(* One simulation on a forked state (simulator/src/lib.rs, fork.rs): the   *)
(* fork reads accounts and slots from the node when the EVM first needs    *)
(* them, at the pinned block or at whatever is the latest one by then,     *)
(* and keeps them; overrides, the reserves the engine warmed the fork      *)
(* with, and what an earlier transaction committed come first.  A contract *)
(* is one of a few programs; a token is one slot per holder.               *)
(***************************************************************************)
EXTENDS Integers, Sequences, FiniteSets

CONSTANTS
    Chain,             \* the world at each block: records of functions over Addresses
    Jobs,              \* the simulations asked for
    GasCost,           \* gas_limit * base_fee
    Gain, Loss,        \* what the programs move
    Funding            \* the deployer's balance: 100 ETH

Addresses == DOMAIN Chain[1].bal
Fields == {"bal", "code", "tok", "own"}

SimulationAssumption ==
    /\ {GasCost, Gain, Loss, Funding} \subseteq Nat /\ Len(Chain) > 0
    /\ \A j \in Jobs : /\ {j.from, j.to, j.recipient} \subseteq Addresses
                       /\ j.kind \in {"local", "rpc", "erc20", "deploy"}
                       /\ j.block \in DOMAIN Chain
                       /\ j.warm \in -1..j.block - 1 /\ (j.warm >= 0 => j.kind \in {"rpc", "erc20"})

VARIABLES
    head,              \* the node's latest block
    job, phase,
    db,                \* CacheDB: what was read or written, as a world
    loaded,            \* the entries of db that are there
    pre_balance, result

vars == <<head, job, phase, db, loaded, pre_balance, result>>

-----------------------------------------------------------------------------
SimulationResult(s, profit, why) == [success |-> s, profit_wei |-> profit, revert_reason |-> why]
NoResult == SimulationResult(FALSE, 0, "pending")

\* saturating_sub
gained(post, pre) == IF post > pre THEN post - pre ELSE 0

\* What the EVM makes of a call: code that is not there succeeds and does nothing.
execute(w, from, to) ==
    CASE w.code[to] = "none" -> [kind |-> "success", w |-> w]
      [] w.code[to] = "loop" -> [kind |-> "halt", w |-> w]
      [] w.own[to] # from    -> [kind |-> "revert", w |-> w]
      [] w.code[to] = "arb"  ->
           IF w.tok["pool"] < Gain THEN [kind |-> "revert", w |-> w]
           ELSE [kind |-> "success",
                 w |-> [w EXCEPT !.tok["pool"] = @ - Gain, !.tok[from] = @ + Gain,
                                 !.bal[from] = @ + Gain]]
      [] w.code[to] = "spend" ->
           IF w.tok[from] < Loss THEN [kind |-> "revert", w |-> w]
           ELSE [kind |-> "success", w |-> [w EXCEPT !.tok["pool"] = @ + Loss, !.tok[from] = @ - Loss]]

\* cfg: the simulations of an ERC20 profit switch the check of the balance off.
checked(j) == j.kind \notin {"erc20", "deploy"}

transact(w, j, to) ==
    IF checked(j) /\ w.bal[j.from] < GasCost THEN [kind |-> "funds", w |-> w]
    ELSE LET paid == [w EXCEPT !.bal[j.from] = IF @ < GasCost THEN 0 ELSE @ - GasCost]
         IN  execute(paid, j.from, to)

\* The balance the profit is read from: ether, or the token's slot.
holding(w, j) == IF j.kind = "local" THEN w.bal[j.recipient] ELSE w.tok[j.recipient]

\* The same for every simulation; a plain one leaves the profit to its caller.
measure(done, j, pre) ==
    CASE done.kind = "success" ->
           SimulationResult(TRUE, IF j.kind = "rpc" THEN 0 ELSE gained(holding(done.w, j), pre), "none")
      [] OTHER -> SimulationResult(FALSE, 0, done.kind)

-----------------------------------------------------------------------------
\* A fork starts empty; what a job overrides is there from the start.
insert_account_balance(w, a, v) == [w EXCEPT !.bal[a] = v, !.code[a] = "none"]

\* ForkedState: the accounts and slots inserted are all there is.
ForkedState(b) == [db |-> Chain[b], loaded |-> Fields \X Addresses]

\* inject_into: the engine's reserves of the pool, which may be j.warm blocks old;
\* -1 where nothing was warmed.
inject_into(w, j) ==
    IF j.warm = -1 THEN w
    ELSE [w EXCEPT !.tok["pool"] = Chain[j.block - j.warm].tok["pool"]]

\* On an RpcForkedState nothing is there but the overrides and what was injected.
Start(j) ==
    /\ phase = "idle" /\ job' = j /\ result' = NoResult /\ pre_balance' = -1
    /\ IF j.kind = "deploy"
       THEN /\ db' = insert_account_balance(Chain[1], j.from, Funding)
            /\ loaded' = {"bal", "code"} \X {j.from} /\ phase' = "create"
       ELSE IF j.kind = "local"
       THEN db' = ForkedState(j.block).db /\ loaded' = ForkedState(j.block).loaded /\ phase' = "pre"
       ELSE /\ db' = inject_into(Chain[1], j) /\ phase' = "pre"
            /\ loaded' = IF j.warm = -1 THEN {} ELSE {<<"tok", "pool">>}
    /\ UNCHANGED head

\* RpcForkedState::new pins the block, new_at_latest does not.
forkBlock(j) == IF j.latest THEN head ELSE j.block

\* What the transaction reads.
touched == {<<"bal", job.from>>, <<"code", job.to>>, <<"own", job.to>>, <<"tok", "pool">>}
           \union ({"tok"} \X {job.from, job.recipient})

\* AlloyDB fetches an entry that is not cached.
Fetch(f, a) ==
    /\ phase = "call" /\ <<f, a>> \in touched \ loaded
    /\ db' = [db EXCEPT ![f][a] = Chain[forkBlock(job)][f][a]]
    /\ loaded' = loaded \union {<<f, a>>}
    /\ UNCHANGED <<head, job, phase, pre_balance, result>>

\* An account of the node's that cannot be fetched ends the transaction.
FetchFails ==
    /\ phase = "call" /\ job.kind # "local"
    /\ result' = SimulationResult(FALSE, 0, "error") /\ phase' = "done"
    /\ UNCHANGED <<head, job, db, loaded, pre_balance>>

\* CREATE: the constructor makes the deployer the owner.  What it wrote is
\* committed, accounts and slots, so that the call sees it.
committed == [code |-> job.init, own |-> job.from]

\* The mutation of Create: the slots of the created account are not committed.
CreateInfoOnly ==
    /\ phase = "create"
    /\ db' = [db EXCEPT !.code[job.to] = committed.code, !.own[job.to] = "nobody"]
    /\ loaded' = loaded \union ({"code", "own"} \X {job.to}) /\ phase' = "pre"
    /\ UNCHANGED <<head, job, pre_balance, result>>

Create ==
    /\ phase = "create" /\ job.init # "reverts"
    /\ db' = [db EXCEPT !.code[job.to] = committed.code, !.own[job.to] = committed.own]
    /\ loaded' = loaded \union ({"code", "own"} \X {job.to}) /\ phase' = "pre"
    /\ UNCHANGED <<head, job, pre_balance, result>>

CreateFails(why) ==
    /\ phase = "create" /\ (job.init = "reverts" \/ why = "error")
    /\ result' = SimulationResult(FALSE, 0, why) /\ phase' = "done"
    /\ UNCHANGED <<head, job, db, loaded, pre_balance>>

\* storage_ref does not keep what it reads, and a failed read counts as zero.
ReadPreBalance(read) ==
    /\ phase = "pre" /\ (job.kind = "local" => read)
    /\ pre_balance' =
           IF ~read THEN 0
           ELSE IF job.kind = "local" THEN db.bal[job.recipient]
           ELSE Chain[forkBlock(job)].tok[job.recipient]
    /\ phase' = "call"
    /\ UNCHANGED <<head, job, db, loaded, result>>

Call ==
    /\ phase = "call" /\ touched \subseteq loaded
    /\ result' = measure(transact(db, job, job.to), job, pre_balance) /\ phase' = "done"
    /\ UNCHANGED <<head, job, db, loaded, pre_balance>>

Mined ==
    /\ head < Len(Chain) /\ head' = head + 1
    /\ UNCHANGED <<job, phase, db, loaded, pre_balance, result>>

\* The state of a job is dropped with it: the next one starts over.
Finish ==
    /\ phase = "done" /\ phase' = "idle"
    /\ UNCHANGED <<head, job, db, loaded, pre_balance, result>>

Init ==
    /\ head = 1 /\ phase = "idle" /\ job \in Jobs /\ db = Chain[1] /\ loaded = {}
    /\ pre_balance = -1 /\ result = NoResult

Next ==
    \/ \E j \in Jobs : j.block <= head /\ Start(j)
    \/ \E f \in Fields, a \in Addresses : Fetch(f, a)
    \/ FetchFails \/ Create \/ (\E why \in {"error", "revert", "halt"} : CreateFails(why))
    \/ \E read \in BOOLEAN : ReadPreBalance(read)
    \/ Call \/ Mined \/ Finish

Spec == Init /\ [][Next]_vars

-----------------------------------------------------------------------------
\* The world a job is about: the chain's at its block, with the reserves it was
\* warmed with, and with the deployer funded and the contract in place where the
\* job deploys it.
world ==
    IF job.kind # "deploy" THEN inject_into(Chain[job.block], job)
    ELSE [insert_account_balance(Chain[job.block], job.from, Funding)
             EXCEPT !.code[job.to] = job.init, !.own[job.to] = job.from]

\* A simulation on a pinned fork reports what the call does to the chain as it
\* was at that block, all at once: blocks that arrive between two of its reads,
\* the order of the reads and the two transactions of a deployment make no
\* difference, and a profit is what the recipient's balance rose by.  The engine's
\* forks (engine.rs:2608-2614) differ from it in the reserves they are warmed with
\* and in nothing else.  Reads that failed are left out: a balance that could not
\* be read counts as zero.
PinnedExact ==
    phase = "done" /\ ~job.latest /\ result.revert_reason # "error" /\ job.init # "reverts"
        => LET w == world
           IN  (pre_balance # 0 \/ holding(w, job) = 0) =>
                   result = measure(transact(w, job, job.to), job, holding(w, job))

-----------------------------------------------------------------------------
\* The caches in front of the simulator, a machine of its own:
\* v2_reserves_cache.rs fed by the engine's Sync events, bytecode_cache.rs (memory
\* over disk), prewarm_state of fork.rs which fills a fork from both, and the
\* mempool prewarm refresher of mempool_pipeline.rs.  One V2 pool: its reserves
\* are the number of its swaps so far, its code never changes.

CONSTANTS
    MaxLag,           \* V2_RESERVES_MAX_LAG_BLOCKS (1)
    Interval,         \* interval_blocks of the refresher
    MaxHead, MaxSwaps \* bounds of the model

CachesAssumption == MaxLag \in Nat /\ Interval \in Nat /\ MaxHead \in Nat /\ MaxSwaps \in Nat

VARIABLES
    tip,             \* of the chain
    swaps,            \* swaps in the pool up to the end of each block
    syncs,            \* Sync events on their way to the engine: block and reserves
    current,          \* current_block of the engine
    delivered,        \* last NewBlockEvent the engine has handled
    entry,            \* V2ReservesCache of the pool: reserves and block_number
    slot8,            \* history: the slot prewarm_state gave the last fork
    late,             \* history: a Sync event was handled after the next block
    hasCache,         \* a bytecode cache is configured
    mem,              \* the memory tier holds the pool's code
    disk,             \* the tables of the disk tier that hold its row
    hot,              \* the pool for sync_hot_cache_pools: absent, registered or skipped
    snapshot,         \* mempool_prewarm: "none", "cold" or "warm"
    last_refresh, seen \* of the refresher: last_refresh_block, last NewBlockEvent

chainVars == <<tip, swaps, syncs>>
codeVars == <<mem, disk>>
refreshVars == <<snapshot, last_refresh, seen>>
cacheVars == <<chainVars, current, delivered, entry, slot8, late, hasCache, hot, codeVars, refreshVars>>

NoEntry == [reserves |-> -1, block |-> -1]
NoSlot == [target |-> 0, reserves |-> 0]
NotStarted == -1

\* The pool is deployed in block 1.
CacheInit ==
    /\ tip = 1 /\ swaps = [b \in 0..MaxHead |-> 0] /\ syncs = <<>>
    /\ current = 0 /\ delivered = 0 /\ entry = NoEntry /\ slot8 = NoSlot /\ late = FALSE
    /\ hasCache \in BOOLEAN /\ hot = "absent" /\ mem = FALSE /\ disk = {}
    /\ snapshot = "none" /\ last_refresh = NotStarted /\ seen = 0

-----------------------------------------------------------------------------
\* A block with k swaps in the pool; each emits a Sync.
Mine(k) ==
    /\ tip < MaxHead /\ swaps[tip] + k <= MaxSwaps
    /\ tip' = tip + 1
    /\ swaps' = [b \in 0..MaxHead |-> IF b > tip THEN swaps[tip] + k ELSE swaps[b]]
    /\ syncs' = syncs \o [i \in 1..k |-> [block |-> tip + 1, reserves |-> swaps[tip] + i]]
    /\ UNCHANGED <<current, delivered, entry, slot8, late, hasCache, hot, codeVars, refreshVars>>

-----------------------------------------------------------------------------
\* Newer or equal blocks win.
record(e, r, b) ==
    IF e = NoEntry \/ b >= e.block THEN [reserves |-> r, block |-> b] ELSE e

\* handle_pool_update stamps the reserves with the engine's current block.
HandleSync ==
    /\ syncs # <<>>
    /\ entry' = record(entry, Head(syncs).reserves, current)
    /\ late' = (late \/ Head(syncs).block < current)
    /\ syncs' = Tail(syncs)
    /\ UNCHANGED <<tip, swaps, current, delivered, slot8, hasCache, hot, codeVars, refreshVars>>

\* The pool-update channel lagged.
LoseSync ==
    /\ syncs # <<>> /\ syncs' = Tail(syncs)
    /\ UNCHANGED <<tip, swaps, current, delivered, entry, slot8, late, hasCache, hot, codeVars, refreshVars>>

-----------------------------------------------------------------------------
\* Mutant: one block more than the lag.
LookupLate(target) ==
    IF entry = NoEntry THEN "missing"
    ELSE IF entry.block + 1 >= target - MaxLag THEN "fresh" ELSE "stale"

\* get_fresh_status.
Lookup(target) ==
    IF entry = NoEntry THEN "missing"
    ELSE IF entry.block >= target - MaxLag THEN "fresh" ELSE "stale"

\* eth_getCode at block b: the pool has none before its deployment.
codeAt(b) == b >= 1

Tables == {"addr_to_hash", "hash_to_code"}

\* Both rows, in one read transaction; one without the other is a miss.
disk_get == disk = Tables

\* Both rows in one write transaction, which the disk commits or not.
disk_put(persisted) == IF persisted THEN Tables ELSE disk

\* get: memory, else disk with promotion.
cached == hasCache /\ (mem \/ disk_get)

\* put: disk first, and memory only when the disk took it.
put(persisted) ==
    IF hasCache /\ ~mem
      THEN disk' = disk_put(persisted) /\ mem' = persisted
      ELSE UNCHANGED codeVars

\* Hit or fetch, at block b: rpc tells whether eth_getCode answers, persisted
\* whether the disk takes the rows.  An address without code is not kept.
get_or_fetch(b, rpc, persisted) ==
    IF cached THEN mem' = TRUE /\ UNCHANGED disk
    ELSE IF rpc /\ codeAt(b) THEN put(persisted)
    ELSE UNCHANGED codeVars

\* The code part of prewarm_state: the hits of the cache, and the misses fetched at
\* the block of the fork and put into it.
fetchCode(b, rpc, persisted) == get_or_fetch(b, rpc, persisted)

\* Whether it returned code.
warmed(b, rpc) == cached \/ (rpc /\ codeAt(b))

\* inject_into: the slot goes into the overlay of the fork of block b.
inject(b, r) == slot8' = [target |-> b, reserves |-> r]

\* batch_v2_reserves drops a pool whose reserves are zero; so does the stream of
\* eth_getStorageAt.
batch_v2_reserves(r) == r > 0

\* The storage part: a fresh entry is served, otherwise the multicall, and where it
\* fails or drops the pool eth_getStorageAt.  Both are pinned to the block and
\* both write back.
fetchReserves(b, rpc) ==
    LET onChain == swaps[b] IN
    IF Lookup(b) = "fresh"
      THEN inject(b, entry.reserves) /\ UNCHANGED entry
    ELSE IF rpc /\ batch_v2_reserves(onChain)
      THEN /\ inject(b, onChain)
           /\ entry' = record(entry, onChain, b)
    ELSE UNCHANGED <<slot8, entry>>

\* handle_new_block and the pre-warm of its detection cycle, all on the engine's
\* task: no Sync event is handled meanwhile.
HandleBlock(rpc, persisted) ==
    /\ delivered < tip /\ delivered' = delivered + 1 /\ current' = delivered'
    /\ fetchReserves(current', rpc) /\ fetchCode(current', rpc, persisted)
    /\ UNCHANGED <<chainVars, late, hasCache, hot, refreshVars>>

\* spawn_mempool_prewarm_refresher: a refresh at block 0, then one per Interval
\* blocks.  run_prewarm_refresh stores what it got, whatever that is.
due(b) == b - last_refresh >= (IF Interval > 1 THEN Interval ELSE 1) \/ last_refresh = 0

Refresh(b, rpc, persisted) ==
    /\ fetchCode(b, rpc, persisted)
    /\ snapshot' = IF warmed(b, rpc) THEN "warm" ELSE "cold"
    /\ last_refresh' = b
    /\ UNCHANGED <<chainVars, current, delivered, entry, slot8, late, hasCache, hot>>

FirstRefresh(rpc, persisted) ==
    last_refresh = NotStarted /\ Refresh(0, rpc, persisted) /\ UNCHANGED seen

BlockRefresh(rpc, persisted) ==
    /\ last_refresh # NotStarted /\ seen < tip /\ seen' = seen + 1
    /\ IF due(seen + 1)
         THEN Refresh(seen + 1, rpc, persisted)
         ELSE UNCHANGED <<chainVars, current, delivered, entry, slot8, late, hasCache, hot, codeVars,
                          snapshot, last_refresh>>

\* prewarm_bytecode, when the hot-cache sync is about to register the pool: at the
\* latest block.  A pool that is not warm is skipped; it is in the hot cache, so no
\* later sync adds it again.
prewarm_bytecode(rpc, persisted) ==
    /\ hasCache /\ hot = "absent"
    /\ get_or_fetch(tip, rpc, persisted)
    /\ hot' = IF warmed(tip, rpc) THEN "registered" ELSE "skipped"
    /\ UNCHANGED <<chainVars, current, delivered, entry, slot8, late, hasCache, refreshVars>>

\* The process starts again: only the disk is left.
Restart ==
    /\ entry' = NoEntry /\ slot8' = NoSlot /\ mem' = FALSE /\ syncs' = <<>>
    /\ late' = FALSE /\ current' = 0 /\ delivered' = tip /\ seen' = tip
    /\ snapshot' = "none" /\ last_refresh' = NotStarted
    /\ hot' = "absent"
    /\ UNCHANGED <<tip, swaps, hasCache, disk>>

CacheNext ==
    \/ \E k \in 0..2 : Mine(k)
    \/ HandleSync \/ LoseSync \/ Restart
    \/ \E rpc, persisted \in BOOLEAN :
        \/ HandleBlock(rpc, persisted) \/ prewarm_bytecode(rpc, persisted)
        \/ FirstRefresh(rpc, persisted) \/ BlockRefresh(rpc, persisted)

CacheSpec == CacheInit /\ [][CacheNext]_cacheVars

-----------------------------------------------------------------------------
\* The reserves a simulation of block b is given are no older than the block before
\* b - MaxLag, however many Sync events are lost, as long as none is handled after
\* the next block has begun: the stamp is the engine's current block and not the
\* block of the event, so handle_pool_update depends on that order.
ReservesWithinLag ==
    ~late /\ slot8.target > MaxLag => slot8.reserves >= swaps[slot8.target - MaxLag - 1]

\* Whatever fails, the disk holds what memory serves, so that a restart loses no
\* code, and once the code is in the bytecode cache no refresh turns the
\* validator's snapshot cold.
StaysWarm ==
    /\ mem' => disk' = Tables
    /\ snapshot = "warm" /\ cached => snapshot' # "cold"
=============================================================================
