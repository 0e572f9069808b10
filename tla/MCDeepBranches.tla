--------------------------- MODULE MCDeepBranches ---------------------------
EXTENDS DeepBranches

\* One limit of 5,000,000 gas (funding batches of 119, deployment batches
\* of 1 by the max(1, ...) floor) and one of 12,000,000 (funding batches
\* of 285, deployment batches of 2).
MCBlockGasLimits == {5000000, 12000000}
=============================================================================
