---------------------------- MODULE NonceManager ----------------------------
(***************************************************************************)
(* cmd/executor/nonce.go with its two users: the bundle builder, which     *)
(* takes a nonce per arb, and SyncLoop, which raises the counter to the    *)
(* account's on-chain nonce.  The counter is an atomic, not a lock, so     *)
(* Sync's load and store are separate steps.  The chain is external: a     *)
(* bundle is mined only while its nonce is the account's next one, or it   *)
(* misses its target block and is gone.                                    *)
(***************************************************************************)
EXTENDS Integers, Sequences

CONSTANTS
    ChainStart,      \* the account's nonce when the executor starts
    MaxIssued, MaxChain  \* bounds of the model

ASSUME NonceAssumption ==
    ChainStart \in Nat /\ MaxIssued \in Nat /\ MaxChain \in Nat

VARIABLES
    syncedAtStart,       \* run()'s first SyncFromChain succeeded
    otherSenders,        \* another process also sends from the searcher key
    current, pending,    \* the two atomics of NonceManager
    nextStep,            \* Next(): "idle", then "counted" after pending.Add
    issued,              \* history: the nonces handed out, in order
    raced,               \* history: which of them between a Sync's load and store
    syncStep,            \* Sync: "idle", "fetched", "loaded", "stored"
    onChainNonce,        \* PendingNonceAt's answer
    loaded,              \* Sync's current := nm.current.Load()
    chainNonce,          \* the account's next nonce
    inflight             \* nonces of bundles whose target block is ahead

builderVars == <<nextStep, issued, raced>>
syncVars == <<syncStep, onChainNonce, loaded>>
chainVars == <<chainNonce, inflight>>
deployment == <<syncedAtStart, otherSenders>>
nonceVars == <<deployment, current, pending, builderVars, syncVars, chainVars>>

NonceTypeOK ==
    /\ syncedAtStart \in BOOLEAN /\ otherSenders \in BOOLEAN
    /\ current \in Nat /\ pending \in Nat
    /\ nextStep \in {"idle", "counted"}
    /\ issued \in Seq(Nat) /\ raced \subseteq Nat
    /\ syncStep \in {"idle", "fetched", "loaded", "stored"}
    /\ onChainNonce \in Nat /\ loaded \in Nat
    /\ chainNonce \in Nat /\ inflight \subseteq Nat

-----------------------------------------------------------------------------
\* NewNonceManager(0), then run()'s SyncFromChain if the node answers.
NonceInit ==
    /\ syncedAtStart \in BOOLEAN /\ otherSenders \in BOOLEAN
    /\ chainNonce = ChainStart
    /\ current = IF syncedAtStart THEN ChainStart ELSE 0
    /\ pending = 0
    /\ nextStep = "idle" /\ issued = <<>> /\ raced = {}
    /\ syncStep = "idle" /\ onChainNonce = 0 /\ loaded = 0
    /\ inflight = {}

\* Next() counts a pending transaction ...
NextPending ==
    /\ nextStep = "idle" /\ Len(issued) < MaxIssued
    /\ nextStep' = "counted" /\ pending' = pending + 1
    /\ UNCHANGED <<deployment, current, issued, raced, syncVars, chainVars>>

\* ... and takes the nonce with one atomic add.  BuildBundle takes it before
\* signing and submitting; a bundle that fails to sign, runs in shadow mode or
\* is rejected by every builder is one that never makes its block.
NextCurrent ==
    /\ nextStep = "counted"
    /\ nextStep' = "idle"
    /\ issued' = Append(issued, current)
    /\ raced' = IF syncStep = "loaded" THEN raced \union {Len(issued) + 1} ELSE raced
    /\ current' = current + 1
    /\ inflight' = inflight \union {current}
    /\ UNCHANGED <<deployment, pending, syncVars, chainNonce>>

\* SyncLoop's tick: PendingNonceAt answers; an error ends this round.
SyncFetch ==
    /\ syncStep = "idle"
    /\ syncStep' = "fetched" /\ onChainNonce' = chainNonce
    /\ UNCHANGED <<deployment, current, pending, loaded, builderVars, chainVars>>

\* Mutant: the answer is stored without comparing it with the counter.
SyncLoadUnguarded ==
    /\ syncStep = "fetched"
    /\ loaded' = current
    /\ syncStep' = "loaded"
    /\ UNCHANGED <<deployment, current, pending, onChainNonce, builderVars, chainVars>>

SyncLoad ==
    /\ syncStep = "fetched"
    /\ loaded' = current
    /\ syncStep' = IF onChainNonce > current THEN "loaded" ELSE "idle"
    /\ UNCHANGED <<deployment, current, pending, onChainNonce, builderVars, chainVars>>

SyncStore ==
    /\ syncStep = "loaded"
    /\ current' = onChainNonce /\ syncStep' = "stored"
    /\ UNCHANGED <<deployment, pending, onChainNonce, loaded, builderVars, chainVars>>

SyncPending ==
    /\ syncStep = "stored"
    /\ pending' = 0 /\ syncStep' = "idle"
    /\ UNCHANGED <<deployment, current, onChainNonce, loaded, builderVars, chainVars>>

\* The chain mines the bundle whose turn it is ...
Mine ==
    /\ chainNonce \in inflight /\ chainNonce < MaxChain
    /\ chainNonce' = chainNonce + 1
    /\ inflight' = inflight \ {chainNonce}
    /\ UNCHANGED <<deployment, current, pending, builderVars, syncVars>>

\* ... or a bundle's target block passes without it.
Miss(n) ==
    /\ n \in inflight
    /\ inflight' = inflight \ {n}
    /\ UNCHANGED <<deployment, current, pending, builderVars, syncVars, chainNonce>>

OtherSend ==
    /\ otherSenders /\ chainNonce < MaxChain
    /\ chainNonce' = chainNonce + 1
    /\ UNCHANGED <<deployment, current, pending, builderVars, syncVars, inflight>>

NonceNext ==
    \/ NextPending \/ NextCurrent
    \/ SyncFetch \/ SyncLoad \/ SyncStore \/ SyncPending
    \/ Mine \/ OtherSend
    \/ \E n \in inflight : Miss(n)

NonceSpec == NonceInit /\ [][NonceNext]_nonceVars

-----------------------------------------------------------------------------
Alone == syncedAtStart /\ ~otherSenders

\* "Atomic nonce management" (docs/architecture.md): whoever else sends from the
\* key and however the first sync went, a nonce is handed out again only if its
\* first bundle took it between a Sync's load and its store (nonce.go:51-53), and
\* with the key to itself after a good start no bundle is ever built in between.
NoNonceReuse ==
    /\ \A i, j \in 1..Len(issued) : i < j /\ issued[i] = issued[j] => i \in raced
    /\ Alone => raced = {}

\* A bundle's nonce is never one the chain had already consumed when the last
\* completed sync asked: after a sync round the counter has caught up with
\* what the node answered, even when Next ran between its load and its store.
SyncCatchesUp ==
    [][syncStep # "idle" /\ syncStep' = "idle" => current' >= onChainNonce]_nonceVars

\* With the key to itself and a good start the counter never falls behind the
\* chain, so Sync never rewrites it and never races an add.
NeverBehindChain ==
    Alone => chainNonce <= current /\ syncStep \notin {"loaded", "stored"}

=============================================================================
