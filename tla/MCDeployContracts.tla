------------------------- MODULE MCDeployContracts -------------------------
(***************************************************************************)
(* Model-checking instance of DeployContracts: 24 KB contracts, a target   *)
(* of 3, and block gas limits of 14M (batches of 2) and 30M (one batch of  *)
(* 4, cut to 3).                                                           *)
(***************************************************************************)
EXTENDS DeployContracts

MCBlockGasLimits == {14000000, 30000000}
=============================================================================
