------------------------ MODULE RateSchedulerProofs ------------------------
(***************************************************************************)
(* The gas schedule keeps its promises for every block gas limit of at     *)
(* least 2 and every --size choice, not only the ones MCRateScheduler      *)
(* sweeps.                                                                 *)
(***************************************************************************)
EXTENDS RateScheduler, TLAPS

\* Floor division by a positive divisor: the quotient times the divisor is
\* at most the dividend, and one more times it exceeds the dividend.
LEMMA DivBounds ==
    ASSUME NEW a \in Nat, NEW d \in Nat \ {0}
    PROVE  /\ a \div d \in Nat
           /\ (a \div d) * d <= a
           /\ a < (a \div d + 1) * d
BY SMT

\* The split form of usable_gas is int(block_gas_limit * 0.95).
LEMMA UsableGasExact ==
    ASSUME NEW L \in Nat
    PROVE  UsableGas(L) = (L * 95) \div 100
BY SMT DEF UsableGas

\* 95% of a block is at least its 80% cap, which is positive from 2 gas on.
LEMMA CapWithinUsable ==
    ASSUME NEW L \in Nat \ {0, 1}
    PROVE  /\ 1 <= MaxSafeGas(L)
           /\ MaxSafeGas(L) <= UsableGas(L)
<1>1. UsableGas(L) = (L * 95) \div 100
  BY UsableGasExact
<1>2. QED
  BY <1>1, SMT DEF MaxSafeGas

\* The size-banded estimate is positive.
LEMMA FinalGasPositive ==
    ASSUME NEW b \in SizeChoicesBytes
    PROVE  FinalGas(b) \in Nat /\ 1 <= FinalGas(b)
<1>1. ExecutionBand(b) \in Nat
  BY DEF SizeChoicesBytes, ExecutionBand
<1>2. QED
  BY <1>1, SMT DEF SizeChoicesBytes, FinalGas, BaseGas

\* The gas limit of one deployment is positive and within the 80% cap.
LEMMA GasLimitBounds ==
    ASSUME NEW b \in SizeChoicesBytes, NEW L \in Nat \ {0, 1}
    PROVE  /\ EstimateGasForSize(b, L) \in Nat
           /\ 1 <= EstimateGasForSize(b, L)
           /\ EstimateGasForSize(b, L) <= MaxSafeGas(L)
           /\ EstimateGasForSize(b, L) <= UsableGas(L)
<1>1. MaxSafeGas(L) \in Nat
  BY SMT DEF MaxSafeGas
<1>2. FinalGas(b) \in Nat /\ 1 <= FinalGas(b)
  BY FinalGasPositive
<1>3. 1 <= MaxSafeGas(L) /\ MaxSafeGas(L) <= UsableGas(L)
  BY CapWithinUsable
<1>4. UsableGas(L) \in Nat
  BY SMT DEF UsableGas
<1>5. QED
  BY <1>1, <1>2, <1>3, <1>4, SMT DEF EstimateGasForSize, Minimum

(***************************************************************************)
(* ScheduleSafe, which the MCRateScheduler run checks on its sweep, holds   *)
(* for every block gas limit from 2 on: deploy_contracts never plans an    *)
(* empty batch, never a deployment above 80% of the block, never a batch   *)
(* above 95% of it, and never leaves room for one more deployment.         *)
(***************************************************************************)
THEOREM ScheduleSafeForAllLimits ==
    \A b \in SizeChoicesBytes, L \in Nat \ {0, 1} : ScheduleSafe(b, L)
<1> SUFFICES ASSUME NEW b \in SizeChoicesBytes, NEW L \in Nat \ {0, 1}
             PROVE  ScheduleSafe(b, L)
  OBVIOUS
<1> DEFINE g == EstimateGasForSize(b, L)
           U == UsableGas(L)
           k == U \div g
<1>1. g \in Nat /\ 1 <= g /\ g <= MaxSafeGas(L) /\ g <= U
  BY GasLimitBounds
<1>2. U \in Nat
  BY SMT DEF UsableGas
<1>3. k \in Nat /\ k * g <= U /\ U < (k + 1) * g
  <2>1. g \in Nat \ {0}
    BY <1>1
  <2>2. QED
    BY <1>2, <2>1, DivBounds DEF k
<1>4. 1 <= k
  BY <1>1, <1>2, <1>3, SMT
<1>5. DeploymentsPerBlock(b, L) = k
  BY DEF DeploymentsPerBlock, k, U, g
<1>6. QED
  BY <1>1, <1>3, <1>4, <1>5 DEF ScheduleSafe, g, U, k

\* The batch size deploy_contracts uses is a positive natural number.
COROLLARY BatchSizePositive ==
    ASSUME NEW b \in SizeChoicesBytes, NEW L \in Nat \ {0, 1}
    PROVE  DeploymentsPerBlock(b, L) \in Nat \ {0}
<1>1. EstimateGasForSize(b, L) \in Nat \ {0}
  BY GasLimitBounds
<1>2. UsableGas(L) \in Nat
  BY SMT DEF UsableGas
<1>3. DeploymentsPerBlock(b, L) \in Nat
  BY <1>1, <1>2, DivBounds DEF DeploymentsPerBlock
<1>4. QED
  BY <1>3, ScheduleSafeForAllLimits DEF ScheduleSafe
=============================================================================
