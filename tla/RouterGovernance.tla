-------------------------- MODULE RouterGovernance --------------------------
(***************************************************************************)
(* contracts/src/AetherExecutor.sol, the owner's side: two-step ownership  *)
(* (OpenZeppelin Ownable2Step), the roles, and the timelock that announces *)
(* a new router of a protocol before arbs may use it.                      *)
(***************************************************************************)
EXTENDS Integers

CONSTANTS
    Accounts, Roles, Registry,   \* addresses, role ids, protocol ids
    Routers, Deployed,           \* router addresses and the one at deployment
    Day,                         \* ROUTER_TIMELOCK_24H
    Zero,                        \* address(0)
    MaxTime                      \* bound of the model

ASSUME GovAssumption ==
    /\ Day \in Nat \ {0} /\ MaxTime \in Nat /\ "ADMIN" \in Roles
    /\ Zero \notin Accounts /\ Zero \notin Routers /\ Deployed \in Routers

VARIABLES
    now, owner, pendingOwner, hasRole, protocolRouter, pendingRouterUpdates,
    routerTimelockDuration,
    nominatedBy,     \* history: who named pendingOwner
    queuedAt         \* history: when the pending update was announced

govOwnership == <<owner, pendingOwner, hasRole, nominatedBy>>
govRouters == <<protocolRouter, pendingRouterUpdates, queuedAt>>
govVars == <<now, govOwnership, govRouters, routerTimelockDuration>>

Durations == {Day, 2 * Day}
PendingRouterUpdate == [router : Routers \union {Zero}, executeAfter : Nat, expiresAt : Nat]
noUpdate == [router |-> Zero, executeAfter |-> 0, expiresAt |-> 0]

GovTypeOK ==
    /\ now \in Nat /\ owner \in Accounts
    /\ pendingOwner \in Accounts \union {Zero} /\ nominatedBy \in Accounts \union {Zero}
    /\ hasRole \in [Roles -> SUBSET Accounts]
    /\ protocolRouter \in [Registry -> Routers]
    /\ pendingRouterUpdates \in [Registry -> PendingRouterUpdate]
    /\ routerTimelockDuration \in Durations
    /\ queuedAt \in [Registry -> Nat]

GovInit ==
    /\ now = 0 /\ owner \in Accounts /\ pendingOwner = Zero /\ nominatedBy = Zero
    /\ hasRole = [r \in Roles |-> IF r \in {"ADMIN", "PAUSER"} THEN {owner} ELSE {}]
    /\ protocolRouter = [p \in Registry |-> Deployed]
    /\ pendingRouterUpdates = [p \in Registry |-> noUpdate]
    /\ routerTimelockDuration = Day
    /\ queuedAt = [p \in Registry |-> 0]

Tick ==
    /\ now < MaxTime /\ now' = now + 1
    /\ UNCHANGED <<govOwnership, govRouters, routerTimelockDuration>>

-----------------------------------------------------------------------------
(* Ownership and roles.                                                    *)

\* Ownable2Step; Zero withdraws the nomination.
transferOwnership(caller, a) ==
    /\ caller = owner
    /\ pendingOwner' = a /\ nominatedBy' = caller
    /\ UNCHANGED <<now, owner, hasRole, govRouters, routerTimelockDuration>>

rolesAfter(a) == [hasRole EXCEPT !["ADMIN"] = (@ \ {owner}) \union {a}]

_transferOwnership(a) ==
    /\ owner' = a /\ pendingOwner' = Zero /\ nominatedBy' = Zero
    /\ hasRole' = rolesAfter(a)

acceptOwnership(caller) ==
    /\ caller = pendingOwner
    /\ _transferOwnership(caller)
    /\ UNCHANGED <<now, govRouters, routerTimelockDuration>>

\* Also grantExecutor and grantPauser.
grantRole(caller, r, a) ==
    /\ caller = owner
    /\ hasRole' = [hasRole EXCEPT ![r] = @ \union {a}]
    /\ UNCHANGED <<now, owner, pendingOwner, nominatedBy, govRouters, routerTimelockDuration>>

\* revokeRole and revokeExecutor by the owner; renounceRole, which
\* AccessControl offers to the holder.
dropRole(caller, r, a) ==
    /\ caller \in {owner, a}
    /\ hasRole' = [hasRole EXCEPT ![r] = @ \ {a}]
    /\ UNCHANGED <<now, owner, pendingOwner, nominatedBy, govRouters, routerTimelockDuration>>

-----------------------------------------------------------------------------
(* The router timelock.                                                    *)

setRouterTimelockDuration(caller, duration) ==
    /\ caller = owner /\ duration \in Durations
    /\ routerTimelockDuration' = duration
    /\ UNCHANGED <<now, govOwnership, govRouters>>

vacant(p) == pendingRouterUpdates[p].router = Zero

queueRouterUpdate(caller, p, router) ==
    /\ caller = owner /\ vacant(p)
    /\ pendingRouterUpdates' = [pendingRouterUpdates EXCEPT ![p] =
         [router |-> router, executeAfter |-> now + routerTimelockDuration,
          expiresAt |-> now + routerTimelockDuration * 2]]
    /\ queuedAt' = [queuedAt EXCEPT ![p] = now]
    /\ UNCHANGED <<now, govOwnership, protocolRouter, routerTimelockDuration>>

\* Mutant: the window has no start.
ripeAtOnce(p) == now <= pendingRouterUpdates[p].expiresAt

ripe(p) ==
    /\ now >= pendingRouterUpdates[p].executeAfter
    /\ now <= pendingRouterUpdates[p].expiresAt

executeRouterUpdate(caller, p) ==
    /\ caller = owner /\ ~vacant(p) /\ ripe(p)
    /\ protocolRouter' = [protocolRouter EXCEPT ![p] = pendingRouterUpdates[p].router]
    /\ pendingRouterUpdates' = [pendingRouterUpdates EXCEPT ![p] = noUpdate]
    /\ UNCHANGED <<now, govOwnership, queuedAt, routerTimelockDuration>>

cancelRouterUpdate(caller, p) ==
    /\ caller = owner /\ ~vacant(p)
    /\ pendingRouterUpdates' = [pendingRouterUpdates EXCEPT ![p] = noUpdate]
    /\ UNCHANGED <<now, govOwnership, protocolRouter, queuedAt, routerTimelockDuration>>

GovNext ==
    \/ Tick
    \/ \E c \in Accounts, a \in Accounts \union {Zero} : transferOwnership(c, a)
    \/ \E c \in Accounts : acceptOwnership(c)
    \/ \E c \in Accounts, r \in Roles, a \in Accounts : grantRole(c, r, a) \/ dropRole(c, r, a)
    \/ \E c \in Accounts, d \in Durations : setRouterTimelockDuration(c, d)
    \/ \E c \in Accounts, p \in Registry :
         \/ \E router \in Routers : queueRouterUpdate(c, p, router)
         \/ executeRouterUpdate(c, p)
         \/ cancelRouterUpdate(c, p)

GovSpec == GovInit /\ [][GovNext]_govVars

-----------------------------------------------------------------------------
\* A nomination stands only while the owner who made it is the owner: nobody
\* becomes owner by the word of a former one.
NominationIsOwners == pendingOwner # Zero => nominatedBy = owner

\* When ownership changes hands, it goes to the account the owner had nominated;
\* the former owner is no longer an admin and the new one is.
OwnershipHandedOver ==
    [][owner' # owner =>
         /\ pendingOwner = owner' /\ nominatedBy = owner
         /\ owner \notin hasRole'["ADMIN"] /\ owner' \in hasRole'["ADMIN"]]_govVars

\* A router in use is replaced only by the one announced for it, at least one day
\* and at most four after the announcement, however the duration is changed and
\* ownership passes in between.
RouterTimelocked ==
    [][\A p \in Registry : protocolRouter'[p] # protocolRouter[p] =>
         /\ protocolRouter'[p] = pendingRouterUpdates[p].router
         /\ now - queuedAt[p] >= Day /\ now - queuedAt[p] <= 4 * Day]_govVars

=============================================================================
