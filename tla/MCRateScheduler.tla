-------------------------- MODULE MCRateScheduler --------------------------
(***************************************************************************)
(* Sweeps the inputs of the gas schedule: every --size choice against      *)
(* block gas limits from 2 gas to 60M, the small ones where the 80% cap    *)
(* decides the gas limit and the real ones (14M to 60M) where the size     *)
(* band does.  Each state is one input; a step picks another.              *)
(***************************************************************************)
EXTENDS RateScheduler, RateSchedulerProofs, TLAPS

VARIABLES gasLimit, size

GasLimits ==
    {2, 3, 4, 5, 7, 10, 99, 100, 101, 1000, 10007, 100003}
        \cup {k * 1000000 : k \in 1..60}
        \cup {k * 1000000 + 37 : k \in 1..60}

InitInput == gasLimit \in GasLimits /\ size \in SizeChoicesBytes

PickInput == \E L \in GasLimits, b \in SizeChoicesBytes :
                 gasLimit' = L /\ size' = b

SweepSpec == InitInput /\ [][PickInput]_<<gasLimit, size>>

\* The schedule for the current input keeps its promises.
ScheduleSafeForInput == ScheduleSafe(size, gasLimit)

\* Every swept input is a --size choice and a gas limit of at least 2.
LEMMA SweepInputsInDomain ==
    GasLimits \subseteq Nat \ {0, 1}
BY SMT DEF GasLimits

(***************************************************************************)
(* ScheduleSafeForInput, the invariant of the rate_scheduler_sweep run,     *)
(* holds on every input of the sweep, and not only the ones TLC visits:    *)
(* it is ScheduleSafeForAllLimits at the current --size and gas limit.     *)
(***************************************************************************)
THEOREM SweepScheduleSafe == SweepSpec => []ScheduleSafeForInput
<1> DEFINE InDomain == gasLimit \in Nat \ {0, 1} /\ size \in SizeChoicesBytes
<1>1. InitInput => InDomain
  BY SweepInputsInDomain DEF InitInput
<1>2. InDomain /\ [PickInput]_<<gasLimit, size>> => InDomain'
  BY SweepInputsInDomain DEF PickInput
<1>3. InDomain => ScheduleSafeForInput
  BY ScheduleSafeForAllLimits DEF ScheduleSafeForInput
<1>4. QED
  BY <1>1, <1>2, <1>3, PTL DEF SweepSpec

=============================================================================
