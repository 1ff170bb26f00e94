------------------------------ MODULE Services ------------------------------
(***************************************************************************)
(* Seven parts of the executor that share no state, side by side: on the   *)
(* submission side the inclusion poll, the routing to builders and the     *)
(* mempool gate; around it the arb stream from the engine, the trade       *)
(* ledger, the life of the process and the reconciler.  Init chooses the   *)
(* part that moves, so that TLC explores the sum of their state spaces and *)
(* not the product.                                                        *)
(***************************************************************************)
EXTENDS InclusionPoll, BuilderRouting, MempoolGate, ArbStream, PgLedger,
        ExecutorShutdown, Reconciler

CONSTANT Sides       \* the parts that may move

VARIABLE part

\* The builders of the checked instance, in configured order.
MCOrder == <<"flashbots", "titan">>

submissionVars == <<pollVars, routingVars, gateVars>>
aroundVars == <<streamVars, ledgerVars, lifeVars, reconVars>>
vars == <<part, submissionVars, aroundVars>>

\* A part that does not move has one initial state.
Init ==
    /\ part \in Sides
    /\ PollInit /\ RoutingInit /\ GateInit
    /\ StreamInit /\ LedgerInit /\ LifeInit /\ ReconInit
    /\ part # "routing" => routingMode = "fanout"
    /\ part # "stream" => \A p \in StreamProfits : minProfit <= p

Next ==
    /\ UNCHANGED part
    /\ \/ /\ part = "poll" /\ PollNext
          /\ UNCHANGED <<routingVars, gateVars, aroundVars>>
       \/ /\ part = "routing" /\ RoutingNext
          /\ UNCHANGED <<pollVars, gateVars, aroundVars>>
       \/ /\ part = "gate" /\ GateNext
          /\ UNCHANGED <<pollVars, routingVars, aroundVars>>
       \/ /\ part = "stream" /\ StreamNext
          /\ UNCHANGED <<submissionVars, ledgerVars, lifeVars, reconVars>>
       \/ /\ part = "ledger" /\ LedgerNext
          /\ UNCHANGED <<submissionVars, streamVars, lifeVars, reconVars>>
       \/ /\ part = "life" /\ LifeNext
          /\ UNCHANGED <<submissionVars, streamVars, ledgerVars, reconVars>>
       \/ /\ part = "recon" /\ ReconNext
          /\ UNCHANGED <<submissionVars, streamVars, ledgerVars, lifeVars>>

Spec == Init /\ [][Next]_vars

\* The fairness of the components' own specifications.  In its initial state no
\* fair action of the routing, the stream or the ledger is enabled, so theirs asks
\* nothing while they do not move; the clock of the poll, the process and the
\* reconciler would run, and theirs is asked of the part that moves.
ServicesSpec ==
    /\ Spec /\ RoutingFairness /\ StreamFairness /\ LedgerFairness
    /\ WF_pollVars(part = "poll" /\ PollTick)
    /\ WF_pollVars(part = "poll" /\ PollStart)
    /\ WF_pollVars(part = "poll" /\ \E answer \in Answers : PollAnswer(answer))
    /\ WF_pollVars(part = "poll" /\ PollEnd)
    /\ WF_lifeVars(part = "life" /\ Main)
    /\ \A l \in AllLoops :
          /\ WF_lifeVars(part = "life" /\ LoopEnqueue(l))
          /\ SF_lifeVars(part = "life" /\ LoopReturn(l))
    /\ WF_reconVars(part = "recon" /\ \E txs \in SUBSET Predictions : NewBlock(txs))
    /\ WF_reconVars(part = "recon" /\ SweepReadHead)
    /\ SF_reconVars(part = "recon" /\ MarkStaleAsDropped)

-----------------------------------------------------------------------------
\* pollPendingInclusions resolves a bundle at most once, calls it a miss only
\* after the whole retry window, and loses track only of one queued while a poll
\* was under way; and until its block's entry expires the mempool gate lets no
\* victim be backrun twice in a block and takes at most MaxInflight for it, all
\* of them fresh, while its tracker holds only the blocks of the last Expiry slots.
SubmissionSound ==
    /\ part = "poll" =>
        /\ PollTypeOK
        /\ ResolvedOnce /\ MissOnlyAfterWindow /\ LostOnlyIfRaced
    /\ part = "gate" =>
        /\ GateTypeOK
        /\ NoDuplicateBeforeExpiry /\ CapBeforeExpiry
        /\ OnlyFreshVictims /\ MapStaysSmall

\* The builders' shares add up to one, each keeps its part of the floor and the
\* builder ranked first has the largest; only a builder that accepted a bundle is
\* credited with a profit, and none has more inclusions than attempts.
SharesSound ==
    part = "routing" =>
        /\ RoutingTypeOK
        /\ AllocationIsSplit /\ BestGetsMost
        /\ CreditNeedsAcceptance /\ WinRateBounded

\* A submission returns once every builder answered or timed out, and a bundle
\* queued between polls is resolved or given up in the end.
BundlesSettle == SubmissionEnds /\ SettlesUnlessRaced

\* The executor sees each arb at most once and in the order of publication, and
\* one that passed the filter is received or on its way unless the forwarder
\* lagged a ring behind or the stream broke.
StreamFaithful == part = "stream" => StreamTypeOK /\ InOrderOnce /\ NoSilentLoss

\* With a healthy Postgres and no drop every bundle is counted exactly once, the
\* queue gauge agrees with the rows that wait, and a Close that did not time out
\* leaves no writer and no untried row; and no loop enqueues on the ledger after
\* cleanup has closed its channel.
LedgerBalanced ==
    /\ part = "ledger" =>
        /\ LedgerTypeOK
        /\ BooksBalance /\ GaugeCoversQueue /\ CleanCloseDrains
    /\ part = "life" => LifeTypeOK /\ NoSendOnClosed

\* No prediction is dropped before its window has passed, and unless a call failed
\* one that landed and has no outcome is still on its way to it.
OutcomesSound ==
    part = "recon" =>
        /\ ReconTypeOK
        /\ DroppedOnlyAfterWindow /\ LandedIsOnItsWay

\* Every arb that meets the threshold reaches processArb unless it was lost as
\* StreamFaithful says, cancelling the context given to run ends the process, and
\* every stored prediction gets an outcome while the reconciler runs.
ServicesProgress ==
    Delivered /\ CancelStops /\ EveryPredictionResolves
=============================================================================
