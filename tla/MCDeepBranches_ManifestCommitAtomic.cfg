CONSTANTS
    NumAux = 2
    NumContracts = 2
    InitPending = 1
    BlockGasLimits <- MCBlockGasLimits

SPECIFICATION Spec
\* The script exits after saving (or is killed); the chain then has
\* nothing to do.
CHECK_DEADLOCK FALSE

INVARIANT ManifestCommitAtomic
