CONSTANTS
    InitNonce = 0
    InitCounter = 0
    Count = 3
    SizeBytes = 24576
    BlockGasLimits <- MCBlockGasLimits
    MaxFailures = 1
    MaxRuns = 2

SPECIFICATION Spec

\* The script exits after its last run; the chain then has nothing to do.
CHECK_DEADLOCK FALSE


INVARIANT CounterIsAuthoritative
