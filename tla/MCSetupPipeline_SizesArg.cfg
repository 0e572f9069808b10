CONSTANTS
    InitcodeSizes <- MCFloatSizes
    SizeChoices <- MCSizeChoices
    Count = 1
    MaxRuns = 4

SPECIFICATION Spec

\* The operator stops after MaxRuns scripts; nothing moves after that.
CHECK_DEADLOCK FALSE

INVARIANT LookupFindsFactory
