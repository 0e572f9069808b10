--------------------------- MODULE RateScheduler ---------------------------
(***************************************************************************)
(* The gas arithmetic of the deployment scripts: the per-deployment gas    *)
(* limit estimate_gas_for_size and the batch size deploy_contracts derives *)
(* from it (deploy_contracts_multi.py), and the fixed-cost batch sizes of  *)
(* deploy_deep_branches.py.  Python's int(x * 0.8), int(x * 0.95) and      *)
(* int(x * 1.1) are written as exact floor divisions: for every integer    *)
(* below 2^40 the float product truncates to the same value.               *)
(***************************************************************************)
EXTENDS Naturals

\* The argument choices of --size, in bytes (size_bytes = int(size_kb * 1024)).
SizeChoicesBytes == {512, 1024, 2048, 5120, 10240, 24576, 32768, 65536}

Minimum(a, b) == IF a <= b THEN a ELSE b
Maximum(a, b) == IF a >= b THEN a ELSE b

\* The size-banded execution cost of the init code, by size_kb band.
ExecutionBand(b) ==
    CASE b <= 512   -> 30000
      [] b <= 1024  -> 35000
      [] b <= 5120  -> 150000
      [] b <= 10240 -> 300000
      [] b <= 24576 -> 500000
      [] b <= 32768 -> 700000
      [] OTHER      -> 1000000

\* Intrinsic cost, CREATE2 overhead, 200 gas per stored byte, execution.
BaseGas(b) == 21000 + 32000 + b * 200 + ExecutionBand(b)

\* final_gas = int(base_gas * 1.1)
FinalGas(b) == (BaseGas(b) * 11) \div 10

\* max_safe_gas = int(block_gas_limit * 0.8)
MaxSafeGas(L) == (L * 8) \div 10

\* Mutant: the 80% cap left out.
EstimateGasForSizeUncapped(b, L) == FinalGas(b)

EstimateGasForSize(b, L) == Minimum(FinalGas(b), MaxSafeGas(L))

\* usable_gas = int(block_gas_limit * 0.95), that is (L * 95) \div 100,
\* split at L \div 100 so that TLC's 32-bit integers do not overflow.
UsableGas(L) == (L \div 100) * 95 + ((L % 100) * 95) \div 100

\* deployments_per_block = usable_gas // gas_limit: the batch size.
DeploymentsPerBlock(b, L) == UsableGas(L) \div EstimateGasForSize(b, L)

\* deploy_deep_branches.py: fixed gas per transaction and a batch that
\* targets half of the block, at least one transaction.
DEPLOY_GAS_LIMIT == 3000000
FUND_GAS_LIMIT == 21000
FundingBatchSize(L) == Maximum(1, (L \div 2) \div FUND_GAS_LIMIT)
\* Mutant: the deployment batch without the max(1, ...) floor.
DeployBatchSizeNoFloor(L) == (L \div 2) \div DEPLOY_GAS_LIMIT

DeployBatchSize(L) == Maximum(1, (L \div 2) \div DEPLOY_GAS_LIMIT)

(***************************************************************************)
(* What the schedule promises (spec, RateScheduler): the gas limit of one  *)
(* deployment is positive and at most 80% of the block; the batch is not   *)
(* empty, its total gas fits in 95% of the block, and it is the largest    *)
(* batch that does (one more deployment would not fit).                    *)
(***************************************************************************)
ScheduleSafe(b, L) ==
    LET g == EstimateGasForSize(b, L)
        k == DeploymentsPerBlock(b, L)
    IN  /\ 1 <= g
        /\ g <= MaxSafeGas(L)
        /\ 1 <= k
        /\ k * g <= UsableGas(L)
        /\ UsableGas(L) < (k + 1) * g
=============================================================================
