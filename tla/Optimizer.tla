----------------------------- MODULE Optimizer ------------------------------
(***************************************************************************)
(* The choice of the input amount of a cycle:                              *)
(* ternary_search_optimal_input of crates/detector/src/optimizer.rs, which *)
(* the engine runs on every candidate and the mempool pipeline on every    *)
(* backrun.  A profit curve is a function of the input amount.             *)
(***************************************************************************)
EXTENDS Integers, TLAPS

CONSTANTS
    MinInput, MaxInput,   \* the range of amounts
    Iterations,           \* iterations (80)
    Curves                \* the profit curves

Inputs == MinInput..MaxInput

ASSUME OptimizerAssumption ==
    /\ MinInput \in Nat /\ MaxInput \in Nat /\ MinInput <= MaxInput
    /\ Iterations \in Nat
    /\ Curves \subseteq [Inputs -> Int]

VARIABLES profit_fn, lo, hi, left, optimal

vars == <<profit_fn, lo, hi, left, optimal>>

Searching == -1

\* The profit rises strictly up to the input k and falls strictly after it.
PeakAt(f, k) ==
    /\ \A x, y \in Inputs : x < y /\ y <= k => f[x] < f[y]
    /\ \A x, y \in Inputs : k <= x /\ x < y => f[x] > f[y]

Init ==
    /\ profit_fn \in Curves /\ lo = MinInput /\ hi = MaxInput
    /\ left = Iterations /\ optimal = Searching

third == (hi - lo) \div 3

\* The mutation of Narrow: the comparison the other way.
NarrowWrong ==
    /\ optimal = Searching /\ left > 0 /\ hi > lo + 2
    /\ IF profit_fn[lo + third] > profit_fn[hi - third]
       THEN lo' = lo + third /\ hi' = hi
       ELSE hi' = hi - third /\ lo' = lo
    /\ left' = left - 1 /\ UNCHANGED <<profit_fn, optimal>>

\* One iteration: the third on the side of the smaller of the two probes goes.
Narrow ==
    /\ optimal = Searching /\ left > 0 /\ hi > lo + 2
    /\ IF profit_fn[lo + third] < profit_fn[hi - third]
       THEN lo' = lo + third /\ hi' = hi
       ELSE hi' = hi - third /\ lo' = lo
    /\ left' = left - 1 /\ UNCHANGED <<profit_fn, optimal>>

\* The range is small or the iterations are used up: the midpoint is the answer.
Answer ==
    /\ optimal = Searching /\ (left = 0 \/ hi <= lo + 2)
    /\ optimal' = lo + (hi - lo) \div 2
    /\ UNCHANGED <<profit_fn, lo, hi, left>>

Next == Narrow \/ Answer

Spec == Init /\ [][Next]_vars

-----------------------------------------------------------------------------
\* The input of the best profit never leaves the range that is searched, and
\* the answer is within half of the last range of it, so within one unit when
\* the search converges, on every curve with a single peak.
PeakBracketed ==
    \A k \in Inputs : PeakAt(profit_fn, k) =>
        /\ lo <= k /\ k <= hi
        /\ optimal # Searching =>
             optimal - k <= (hi - lo + 1) \div 2 /\ k - optimal <= (hi - lo + 1) \div 2

-----------------------------------------------------------------------------
\* Proof that the search keeps the best input of every single-peaked profit curve
\* in its range, for every range, number of iterations and curve.

\* The range searched is a range of inputs.
RangeOK ==
    /\ profit_fn \in [Inputs -> Int]
    /\ lo \in Inputs /\ hi \in Inputs /\ lo <= hi
    /\ left \in Nat

\* Where the answer is: the midpoint of the last range.
AnswerOK == optimal # Searching => optimal = lo + (hi - lo) \div 2

Bracketed == \A k \in Inputs : PeakAt(profit_fn, k) => lo <= k /\ k <= hi

IInv == RangeOK /\ AnswerOK /\ Bracketed

\* The two probes of a range of more than two units are inputs, in order.
LEMMA ProbesOrdered ==
    ASSUME NEW a \in Nat, NEW b \in Nat, b > a + 2
    PROVE  LET t == (b - a) \div 3
           IN  t \in Nat /\ t >= 1 /\ a + t < b - t /\ a + t <= b /\ b - t >= a
  OBVIOUS

\* The midpoint of a range is within half of it of every point of the range.
LEMMA MidpointNear ==
    ASSUME NEW a \in Nat, NEW b \in Nat, a <= b, NEW k \in a..b
    PROVE  LET m == a + (b - a) \div 2
           IN  m - k <= (b - a + 1) \div 2 /\ k - m <= (b - a + 1) \div 2
  OBVIOUS

\* Two inputs on one side of the peak are ordered by the curve.
LEMMA PeakSides ==
    ASSUME NEW f, NEW k, PeakAt(f, k), NEW x \in Inputs, NEW y \in Inputs, x < y
    PROVE  (k <= x => f[x] > f[y]) /\ (y <= k => f[x] < f[y])
  BY DEF PeakAt

\* Before its first iteration ternary_search_optimal_input searches the whole
\* range, which holds the peak wherever it is.
THEOREM PeakInvInit == Init => IInv
  BY OptimizerAssumption DEF Init, IInv, RangeOK, AnswerOK, Bracketed, Inputs, Searching

\* An iteration cuts off the third on the lower probe's far side, where the peak
\* cannot be: the curve orders the two probes by the side of the peak they lie on.
THEOREM PeakInvStep == IInv /\ [Next]_vars => IInv'
<1> SUFFICES ASSUME IInv, [Next]_vars PROVE IInv'
    OBVIOUS
<1> USE OptimizerAssumption
<1>1. CASE Narrow
  <2>1. /\ lo \in Nat /\ hi \in Nat /\ hi > lo + 2 /\ left \in Nat /\ left > 0
        /\ profit_fn \in [Inputs -> Int] /\ profit_fn' = profit_fn
        /\ optimal = Searching /\ optimal' = Searching /\ left' = left - 1
    BY <1>1 DEF Narrow, IInv, RangeOK, Inputs
  <2>2. third \in Nat /\ third >= 1 /\ lo + third < hi - third
        /\ lo + third <= hi /\ hi - third >= lo
    BY <2>1, ProbesOrdered DEF third
  <2>3. lo + third \in Inputs /\ hi - third \in Inputs
    BY <2>1, <2>2 DEF IInv, RangeOK, Inputs
  <2>4. RangeOK'
    BY <1>1, <2>1, <2>2, <2>3 DEF Narrow, RangeOK, IInv
  <2>5. AnswerOK'
    BY <2>1 DEF AnswerOK
  <2>6. Bracketed'
    <3> SUFFICES ASSUME NEW k \in Inputs, PeakAt(profit_fn, k)
                 PROVE  lo' <= k /\ k <= hi'
      BY <2>1 DEF Bracketed, PeakAt
    <3>1. lo <= k /\ k <= hi
      BY DEF IInv, Bracketed
    <3>2. k \in Int /\ profit_fn[lo + third] \in Int /\ profit_fn[hi - third] \in Int
      BY <2>1, <2>3 DEF Inputs
    <3>3. CASE profit_fn[lo + third] < profit_fn[hi - third]
      <4>1. lo' = lo + third /\ hi' = hi
        BY <1>1, <3>3 DEF Narrow
      <4>2. k <= lo + third => profit_fn[lo + third] > profit_fn[hi - third]
        BY <2>2, <2>3, PeakSides
      <4>3. ~(k < lo + third)
        BY <2>1, <2>2, <3>2, <3>3, <4>2
      <4> QED BY <2>1, <2>2, <3>1, <3>2, <4>1, <4>3
    <3>4. CASE ~(profit_fn[lo + third] < profit_fn[hi - third])
      <4>1. hi' = hi - third /\ lo' = lo
        BY <1>1, <3>4 DEF Narrow
      <4>2. hi - third <= k => profit_fn[lo + third] < profit_fn[hi - third]
        BY <2>2, <2>3, PeakSides
      <4>3. ~(k > hi - third)
        BY <2>1, <2>2, <3>2, <3>4, <4>2
      <4> QED BY <2>1, <2>2, <3>1, <3>2, <4>1, <4>3
    <3> QED BY <3>3, <3>4
  <2> QED BY <2>4, <2>5, <2>6 DEF IInv
<1>2. CASE Answer
  BY <1>2 DEF Answer, IInv, RangeOK, AnswerOK, Bracketed, PeakAt
<1>3. CASE UNCHANGED vars
  BY <1>3 DEF vars, IInv, RangeOK, AnswerOK, Bracketed, PeakAt
<1> QED BY <1>1, <1>2, <1>3 DEF Next

\* The answer is the midpoint of a range that holds the peak, so it is at most
\* half that range away from it.
LEMMA PeakInvImplies == IInv => PeakBracketed
<1> SUFFICES ASSUME IInv, NEW k \in Inputs, PeakAt(profit_fn, k)
             PROVE  /\ lo <= k /\ k <= hi
                    /\ optimal # Searching =>
                         /\ optimal - k <= (hi - lo + 1) \div 2
                         /\ k - optimal <= (hi - lo + 1) \div 2
    BY DEF PeakBracketed
<1>1. lo <= k /\ k <= hi /\ lo \in Nat /\ hi \in Nat /\ k \in lo..hi
  BY OptimizerAssumption DEF IInv, Bracketed, RangeOK, Inputs
<1>2. ASSUME optimal # Searching
      PROVE  optimal - k <= (hi - lo + 1) \div 2 /\ k - optimal <= (hi - lo + 1) \div 2
  BY <1>1, <1>2, MidpointNear DEF IInv, AnswerOK
<1> QED BY <1>1, <1>2

\* The search of ternary_search_optimal_input never loses the peak, for every
\* range, iteration count and single-peaked curve.
THEOREM SearchKeepsPeak == Spec => []PeakBracketed
<1>1. Init => IInv BY PeakInvInit
<1>2. IInv /\ [Next]_vars => IInv' BY PeakInvStep
<1>3. IInv => PeakBracketed BY PeakInvImplies
<1> QED BY <1>1, <1>2, <1>3, PTL DEF Spec
=============================================================================
