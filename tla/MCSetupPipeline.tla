--------------------------- MODULE MCSetupPipeline ---------------------------
(***************************************************************************)
(* Model-checking instance of SetupPipeline: the default sizes 0.5 (a      *)
(* float literal) and 24 (an int literal) of CONTRACT_SIZES_KB, or the     *)
(* same sizes given as --sizes 0.5 24 (floats), and --size 0.5 or 24.      *)
(***************************************************************************)
EXTENDS SetupPipeline

Half == [tenths |-> 5, isFloat |-> TRUE]
TwentyFourInt == [tenths |-> 240, isFloat |-> FALSE]
TwentyFourFloat == [tenths |-> 240, isFloat |-> TRUE]

\* CONTRACT_SIZES_KB, restricted to 0.5 and 24.
MCDefaultSizes == <<Half, TwentyFourInt>>
\* --sizes 0.5 24
MCFloatSizes == <<Half, TwentyFourFloat>>
\* --size choices 0.5 and 24
MCSizeChoices == {Half, TwentyFourFloat}
=============================================================================
