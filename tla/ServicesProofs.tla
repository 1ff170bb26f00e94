--------------------------- MODULE ServicesProofs ---------------------------
(***************************************************************************)
(* What the services around the contract keep in every behaviour of their  *)
(* composition, for every value of the constants: each component keeps its *)
(* own inductive invariant, and a step of the composition is a step of one *)
(* component and of no other.                                              *)
(***************************************************************************)
EXTENDS Services, QueueProofs, LedgerProofs, WindowProofs

\* How long a solver may take for a leaf.
USE SMTT(20), ZenonT(20)

(* The composition (Services).                                             *)

\* A step of the composition is, for each component, a step of it or none.
LEMMA StepsOfParts ==
    [Next]_vars =>
        /\ [PollNext]_pollVars /\ [GateNext]_gateVars
        /\ [StreamNext]_streamVars /\ [LedgerNext]_ledgerVars
        /\ [LifeNext]_lifeVars /\ [ReconNext]_reconVars
BY DEF Next, vars, submissionVars, aroundVars

\* The composition starts each component as it starts alone.
LEMMA StartOfParts ==
    Init => /\ PollInit /\ GateInit
            /\ StreamInit /\ LedgerInit /\ LifeInit /\ ReconInit
BY DEF Init

\* pollPendingInclusions and the mempool gate keep their promises in every behaviour
\* of the services.
THEOREM SubmissionTheorem == Spec => []SubmissionSound
<1>1. Init => PollInv /\ GateInv
  BY StartOfParts, PollInvInit, GateInvInit
<1>2. PollInv /\ GateInv /\ [Next]_vars => (PollInv /\ GateInv)'
  BY StepsOfParts, PollInvStep, GateInvStep
<1>3. PollInv /\ GateInv => SubmissionSound
  BY PollInvSound, GateInvSound DEF SubmissionSound
<1> QED
  BY <1>1, <1>2, <1>3, PTL DEF Spec

\* The arb stream stays faithful in every behaviour of the services.
THEOREM StreamTheorem == Spec => []StreamFaithful
<1>1. Init => StreamInv
  BY StartOfParts, StreamInvInit
<1>2. StreamInv /\ [Next]_vars => StreamInv'
  BY StepsOfParts, StreamInvStep
<1>3. StreamInv => StreamFaithful
  BY StreamInvFaithful DEF StreamFaithful
<1> QED
  BY <1>1, <1>2, <1>3, PTL DEF Spec

\* The ledger's books balance, and cleanup closes it only after the loops are
\* joined, in every behaviour of the services.
THEOREM LedgerTheorem == Spec => []LedgerBalanced
<1>1. Init => LedgerInv /\ LifeInv
  BY StartOfParts, LedgerInvInit, LifeInvInit
<1>2. LedgerInv /\ LifeInv /\ [Next]_vars => (LedgerInv /\ LifeInv)'
  BY StepsOfParts, LedgerInvStep, LifeInvStep
<1>3. LedgerInv /\ LifeInv => LedgerBalanced
  BY LedgerInvBalances, LifeInvJoins DEF LedgerBalanced
<1> QED
  BY <1>1, <1>2, <1>3, PTL DEF Spec

\* The reconciler drops nothing early and loses sight of nothing that landed, in
\* every behaviour of the services.
THEOREM OutcomesTheorem == Spec => []OutcomesSound
<1>1. Init => ReconInv
  BY StartOfParts, ReconInvInit
<1>2. ReconInv /\ [Next]_vars => ReconInv'
  BY StepsOfParts, ReconInvStep
<1>3. ReconInv => OutcomesSound
  BY ReconInvSound DEF OutcomesSound
<1> QED
  BY <1>1, <1>2, <1>3, PTL DEF Spec

\* An outcome, once stored, is never rewritten in any behaviour of the services.
THEOREM FirstOutcomeTheorem == Spec => FirstOutcomeStands
<1>1. Init => ReconInv
  BY StartOfParts, ReconInvInit
<1>2. ReconInv /\ [Next]_vars => ReconInv'
  BY StepsOfParts, ReconInvStep
<1>3. ReconInv /\ [Next]_vars
        => [\A p \in Predictions : outcome[p] # "none" => outcome'[p] = outcome[p]]_reconVars
  BY StepsOfParts, OutcomeKept
<1> QED
  BY <1>1, <1>2, <1>3, PTL DEF Spec, FirstOutcomeStands
=============================================================================
