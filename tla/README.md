# TLA+ verification of the statebloat deployment scripts

This directory models the batched deployment scripts under `src/scenarios/statebloat/`. It checks them with TLC and proves their main safety properties with TLAPS.

## The system

| Source | What it does |
|---|---|
| `extcodesize_setup_deployment/deploy_contracts_multi.py` | `deploy_contracts` raises a CREATE2 factory's on-chain counter (slot 0) up to `--count`. It works in batches of factory calls. Each batch is signed from the account's *pending* nonce and fired at once. The script then awaits the batch's receipts one by one and aborts after more than 20 failed receipts. `estimate_gas_for_size` sizes each call, and the batch fills 95% of the block. `verify_contracts`, `get_deployment_status` and `deploy_remaining_contracts` wrap it. |
| `extcodesize_setup_deployment/deploy_factory_multi.py` | Builds and deploys the factories. Their runtime code (`build_factory`) does a CREATE2 with the counter as salt and stores counter + 1. It never looks at the result of the CREATE2. |
| `extcodesize_setup_deployment/deploy_initcode_multi.py` | Deploys the init-code contracts that the factories copy, one transaction at a time, and saves them to `initcode_addresses.json` under a key built from the size (`0_5kb`, `24kb`). |
| `storage_trie_brancher/deploy_deep_branches.py` | First funds auxiliary accounts, then deploys pre-mined salts through Nick's factory. It keeps its own local nonce, seeded from the *latest* count. It writes a JSON manifest at the end. |

How the parts interact:
- The scripts share one sending account with the network.
- The network holds the account's transactions in a pool keyed by nonce and includes them in nonce order, concurrently with the script.
- A script can be killed at any point and run again. Its local state is lost; the pool, the chain and the factory counter are not.
- The setup scripts hand their results on through files: `deploy_initcode_multi` writes `initcode_addresses.json`, `deploy_factory_multi` reads it and writes `stubs.json`, and `deploy_contracts_multi` looks the factory for `--size` up there (or in its mainnet table).

## Modules

| Module | Models | State and actions |
|---|---|---|
| `RateScheduler` | `estimate_gas_for_size`, `usable_gas`, `deployments_per_block` (deploy_contracts), and the fixed-gas batch sizes of deploy_deep_branches | Pure operators. `UsableGas` computes `int(L * 0.95)` in a split form that stays within TLC's 32-bit integers. Python's float results equal exact floor division for every integer below 2^40. |
| `Chain` | The account's pool and chain, and the factory's CREATE2 path | `chainNonce` (latest), `pool`, `receipt`, `counter` (slot 0), `created` (salts holding code), `gasLimit` (latest block; `GasLimitMoves` changes it at any time). `PendingNonce` is `eth_getTransactionCount(pending)`. An included call either creates the contract, or fails its CREATE2 and is still counted, or reverts and leaves the counter alone. |
| `DeployContracts` | `deploy_contracts` | `StartRun` reads `gasLimit` into the code's `gas_limit` and `batch_size` once per run. `pc` runs idle → batch → send → wait → batch … → done. One action per branch of the code: `StartRun` (reads, early return, batch size), `BeginBatch` (pending nonce), `EndLoop`, `SendAccepted`, `SendLostReply` and `SendFailed` (the `break`), `SendDone`, `WaitSuccess`, `WaitReverted`, `WaitError` (timeout or transport), `EndBatchAbort` (`failed > 20`), `EndBatchContinue`. `Crash` kills the process and `StartRun` reruns it, up to `MaxRuns`. |
| `DeepBranches` | `deploy_deep_branches.main` | The local `nonce`, the two phases (`Fund*`, `Deploy*`) and their batch, send, skip and await loops. `DeploySendAccepted` appends to the manifest at send time. It also models `SkipDeploy` (`--skip-contracts`), `ArgsRejected` (both skip flags), the output write as `SaveOpen` (`open(..., 'w')` truncates) then `SaveDump`, the `stubs.json` write (`SaveStubs`), and `Kill`, which may strike between any two of them. `Mine` includes the next pooled transaction: a funding transfer, a deployment (succeeds or reverts), or a transaction of an earlier run (`InitPending`). |
| `SetupPipeline` | `main` of `deploy_initcode_multi` and `deploy_factory_multi`, and the single-size mode of `deploy_contracts_multi.main` | The chain's code by address (`acct`: initcode records with their target size, factories with the initcode they copy and their counter; a creation is `Create(nextAddr, c)`, which adds a contract and keeps the others), the two files, the running script's loop (`pc`, `i`, `results`, `stubs`) and the factory the contracts script settles on. One action per outcome of a loop item (status 1, other status, a raising wait or kill that may or may not leave the creation mined), the save-unless-empty, the three ways the contracts script picks its factory, and `deploy_deep_branches`' write of `./stubs.json` (`DeepBranchesSaveStubs`: a JSON list replaces the dict, recorded in `stubsList`), after which the contracts script fails on `stubs.get` (`ContractsListError`). Python dicts are sequences of key/value entries in insertion order; `str()` of a size is a token sequence (an int prints `24`, a float `24.0`). |
| `MC*` | TLC instances | Constants and small gas-limit sets, described below. |
| `RateSchedulerProofs`, `DeployContractsProofs`, `DeepBranchesProofs`, `SetupPipelineProofs` | TLAPS proofs | Described below. `MCRateScheduler` also holds one corollary. |

No abstract specification is stated. The candidates (the node's nonce queue, the stub registry, the factory counter) come out equivalent to the invariants the runs already check, so they add nothing.

What is abstracted:
- Salts, accounts and transactions are small integers or records.
- Printing, timing, rates and the ETA are left out, because nothing depends on them.
- A receipt wait in deep_branches is a single step, because its outcome is only printed.

## Runs

| Run | cfg | Result | What it shows |
|---|---|---|---|
| deploy_contracts_main | `MCDeployContracts.cfg` | pass, 408,214 states | Two runs with Count = 3, 24 KB contracts and gas limits of 14M and 30M (batches of 2 and 4). They interleave with mining, lost replies, failed sends, timeouts, reverts and kills. Throughout, `IInv` holds, and so do `NoNonceGap` (the pool is one nonce range from the mined count up), `NonceFresh` (every signed nonce is accepted), `WithinRunBound` (a run pools at most count − current calls), and `NoStuckTransactions` (the pool eventually drains). The block gas limit moves between 14M and 30M at any time. |
| rate_scheduler_sweep | `MCRateScheduler.cfg` | pass, 1,056 states | `ScheduleSafe` holds for all 8 size choices and 132 gas limits (2 to 60,000,037): the gas per call is in 1..80% of the block, the batch is ≥ 1, and the batch uses at most 95% of the block with no room for one more call. |
| deploy_contracts_overshoot | `MCDeployContracts_NoOvershoot.cfg` | violation | A killed run leaves calls pending. The rerun reads the old counter and sends count − counter again, so the factory ends above `--count`. |
| deploy_contracts_counter | `MCDeployContracts_CounterIsAuthoritative.cfg` | violation | A failed CREATE2 is still counted, so the counter overstates the contracts that exist. |
| deploy_contracts_abort | `MCDeployContracts_AbortOnSubmissionErrors.cfg` | violation | Send errors never reach `failed`, so the run continues past the threshold. |
| deploy_contracts_gas_limit | `MCDeployContracts_ScheduleFitsBlock.cfg` | violation | `ScheduleFitsBlock` is an action property: every batch after the first needs, when it begins, at most 95% of the current block. A run of `Count = 8` reads 30M and plans batches of 4 calls of about 6M gas. After the first batch the limit drops to 14M, and the second batch is still planned from the 30M read. Spec 4.2 re-plans every batch. The first batch is left out because it starts in the same step as the read, so a script that re-planned would have the same window. |
| deep_branches_main | `MCDeepBranches.cfg` | pass, 4,658 states | Two auxiliary accounts, two contracts, one pending transaction of an earlier run, and every flag combination. The inductive invariant `IInv` holds, the local nonce never opens a gap, everything pooled is eventually included, and batch sizes are ≥ 1. |
| deep_branches_nonce | `MCDeepBranches_SendNonceAdmissible.cfg` | violation | The nonce seeded from "latest", or left behind after a lost reply, is refused. The same nonce is then reused, so the rest of the run is skipped. |
| deep_branches_manifest | `MCDeepBranches_ManifestOnlyCreated.cfg` | violation | A reverted deployment stays in the saved manifest. |
| deep_branches_manifest_atomic | `MCDeepBranches_ManifestCommitAtomic.cfg` | violation | A kill after the truncating open and before the dump completes leaves the manifest truncated; spec 4.6 asks for an atomic commit. |
| setup_pipeline_main | `MCSetupPipeline.cfg` | pass, 47,260 states | The default size list (0.5 as a float, 24 as an int), `--size` 0.5 or 24.0, and four script runs in any order (`deploy_deep_branches`' `stubs.json` write among them) with failed deployments and kills. `LookupFindsFactory`: the contracts script neither exits "Factory not found" while `stubs.json` holds a factory of that size nor settles on one of another size. `StubsFaithful`: every factory `stubs.json` names exists and copies initcode that exists and makes the size its key names, across reruns that rewrite one file and not the other. `SetupInv`, the inductive invariant behind it, holds too. |
| setup_pipeline_sizes_arg | `MCSetupPipeline_SizesArg.cfg` | violation | With `--sizes 0.5 24` the sizes are floats, the key is `24_0kb`, and `--size 24` looks up `bloatnet_factory_24kb`: "Factory not found". |

Every property of a passing run has a mutant in `PROJECT.json`: a plausible bug in the mapped code that TLC then catches. Some of the mutants:
- signing from the latest count (`BeginBatchLatest`);
- formatting `--size` as the setup scripts format a float (`LookupKeyAsFloat`);
- recording a failed initcode creation (`InitcodeFailedRecorded`);
- reserving whole batch ranges locally, as the spec's gap-tolerant NonceSequencer would (`BeginBatchReserveRange`). This leaves transactions stuck behind a gap forever;
- a failed send that still consumes its nonce (`*SendErrorConsumesNonce`);
- an inclusive range end;
- a dropped 80% cap;
- a dropped `max(1, …)` floor.

**Bounds.** The bounds are large enough for every interesting case to occur:
- `Count = 3` with batches of 2 or 4 gives both a full and a partial batch.
- `MaxFailures = 1` lets the abort fire after two failures.
- `MaxRuns = 2` allows a kill followed by a rerun.
- Two block gas limits, 14M and 30M, give different batch sizes. The gas-limit run raises `Count` to 8, so that a run has two batches of 4 and the limit can drop between them.
- In SetupPipeline, two sizes (one fractional, one integral) are enough for both key forms; `MaxRuns = 4` runs initcode, factory and contracts scripts and one rerun or kill.
- In deep_branches, the limit of 5,000,000 gas exercises the `max(1, …)` floor for deployments, and two items per phase give multi-item batches.

The passing runs disable deadlock checking for one reason only: after the script's last run, and once the pool is empty, nothing can move.

**Fairness.**
- Weak fairness on the script's own steps: the script is a single sequential loop, and every wait is bounded by a 60 s timeout.
- Weak fairness on mining: the network keeps including executable transactions.
- Kills and reruns are never forced, and neither are moves of the gas limit.
- SetupPipeline has no fairness: the operator decides which script runs, and only safety is checked.

## Proofs (TLAPS)

`RateSchedulerProofs` proves, for every size choice and every gas limit `L ≥ 2`:
- `ScheduleSafeForAllLimits`: the gas estimate is positive and capped at 80%, `k = usable // gas` is at least 1, and `k * gas ≤ usable < (k + 1) * gas`. The argument: the cap `⌊0.8L⌋` is at least 1 and at most `⌊0.95L⌋`, plus the floor-division bounds (`DivBounds`).
- `BatchSizePositive` follows as a corollary.

`DeployContractsProofs` proves `Spec ⇒ □IInv` for every value of the constants, and from it `TypeCorrect`, `NoNonceGapHolds` and `NonceFreshHolds`. The invariant is

`IInv == TypeOK ∧ PoolIsRange ∧ SendsAtPoolTop`.

`NoNonceGap` is not inductive by itself, because a send may add any admissible nonce. The strengthening adds that while a batch is being sent, `nonce + i` is exactly the top of the pool. The argument, step by step:
- `BeginBatch` sets `nonce` to `PendingNonce`, which is the top of the range (lemma `PendingNonceIsTop`).
- Each send extends the range by one.
- Mining removes its bottom.
- Kills, waits and reruns do not touch the pool.

Helper lemmas: `IntervalCard`, `RangeIff`, `IncludeNextType`. `tlapm` checks every obligation.

`DeployContractsProofs` also proves `RunBoundInvariant` and `WithinRunBoundHolds`: a run pools at most `count − current` calls. The invariant `RunBoundInv` bounds the calls a run has pooled by the items of the earlier batches (`batch_start`), plus the sends of the current batch that returned, or its whole `BatchCount` once it is awaited. A batch is entered only below `remaining`, and `BatchCount = min(batch_start + batch_size, remaining) − batch_start` keeps the last batch inside it.

`MCRateScheduler` proves `SweepScheduleSafe`: the sweep run's invariant holds in every state of the sweep. It is a corollary of `ScheduleSafeForAllLimits`, since every swept gas limit is at least 2 (`SweepInputsInDomain`).

`DeepBranchesProofs` proves `IInvInvariant`, and from it `TypeCorrect` and `NoNonceGapHolds`, for every number of auxiliary accounts and contracts and every batch size. The invariant is

`IInv == TypeOK ∧ LoopBounds ∧ NoNonceGap ∧ NonceBelowPool`.

`NoNonceGap` alone is not inductive, because a send adds the script's local `nonce` to the pool. `NonceBelowPool` (`chainNonce..nonce−1 ⊆ pool`) makes that nonce admissible and adjacent to the pool (`AddAdmissible`), so the range stays gapless. A send error leaves `nonce` where it was, and mining removes the bottom of the range. `LoopBounds` keeps the batch index inside the item list, so each signed item is well typed. Each group of actions of the same shape has its own lemma:
- `BatchHeadStep`, `PhaseEndStep`, `SendErrorStep`, `AwaitStep`, `BatchDoneStep` for the loops;
- `SendAcceptedStep` and `SendLostReplyStep` for sends;
- `MineStep` for mining.

`SetupPipelineProofs` proves, for every list of initcode sizes, every set of `--size` choices, every `--count` and every number of runs:
- `SetupInvInvariant`: `Spec ⇒ □SetupInv`.
- `StubsFaithfulHolds`: `Spec ⇒ □StubsFaithful`.

`StubsFaithful` is not inductive by itself. It speaks only of `stubs.json`, but that file is filled from the in-memory `stubs` dict, whose factories copy addresses from `initcode_addresses.json`, which is filled from `results`. So `SetupInv` states the property for all four:
- every entry of `results` and `initcode_addresses.json` names an initcode contract on chain, built for the entry's size and keyed by it (`InitcodeRecorded`);
- every entry of `stubs` and `stubs.json` names a factory whose initcode has the size its key names (`FactoryRecorded`);
- every address on chain is below `nextAddr`, so a creation never lands on an existing contract;
- a factory is a record with fields `kind`, `initcode` and `counter`, so raising its counter keeps its kind and initcode.

The step proof has one lemma per action. It rests on:
- `KeepsRecords`: no contract disappears or changes what an entry depends on. By `RecordsKept`, this keeps every recorded entry recorded.
- `CreateKeeps`: a creation at `nextAddr` keeps the chain consistent.
- `PutProps`: `d[k] = v` on an insertion-ordered dict adds at most the entry `[key |-> k, val |-> v]`.

`DeepBranchesSaveStubsStep` covers `deploy_deep_branches`' write: it empties the dict of factories, so nothing in it can be unfaithful.

`InitcodeDeployedStep` and `FactoryDeployedStep` show that the new entry is recorded. The factory copies the address of a recorded `initcode_addresses.json` entry, and is keyed by that entry's key.

`tlapm` checks every obligation of the four proof modules. The proof modules extend only `SequenceTheorems`, `TLAPS` and the modelled modules; none reaches a `RECURSIVE` operator (`SequencesExt` declares none).

Some properties stay with TLC only:
- `NoStuckTransactions` (in both deployment scripts) is a liveness property. It needs fairness and ENABLED, and TLAPS cannot reason about those.
- `LookupFindsFactory` depends on what `str()` and `ToString` print: keys are equal exactly when the printed tokens are. The provers cannot evaluate `ToString`. The property is also false for some size lists (run `setup_pipeline_sizes_arg`), so no theorem over every value of the constants could state it. TLC checks it for the default list.
- The properties of the violation runs are false, and their counterexamples are the result; there is nothing to prove.

## Not modelled (yet)
- **AddressOracle** (`calculate_create2_address`, keccak) and `verify_contracts`: pure hashing that TLC cannot evaluate. `verify_contracts` only prints, so `ContractsDeploy` leaves it out.
- **`deploy_remaining_contracts` and `get_deployment_status`**: a loop over the mainnet factories, each calling `deploy_contracts`. Composing `DeployContracts` per size would repeat one module per size with nothing shared but the account's nonces, which `NoNonceGap` already covers.
- **`--factory`, `--status`, `--deploy-remaining`** and the gas printout of `deploy_contracts_multi.main`.
- **Bytecode assembly** (`build_initcode`, `build_factory`): abstracted to the size an initcode makes and the initcode a factory copies. `test_getconfig` only prints.
- **Inclusion gated on gas**: `Mine` includes a pooled call whatever its gas. A call above a lowered block limit would wait in the pool; `ScheduleFitsBlock` flags the schedule instead.
- **What `deploy_deep_branches` puts in `./stubs.json`**: SetupPipeline models only the fact that it is a list (`stubsList`), because the contracts script fails on any list. The clash is reached in `setup_pipeline_main`: `ContractsListError` fires after `DeepBranchesSaveStubs`. No run states it as a property, because the failure is immediate once both writes are in one model.
- **CLI parsing** beyond the flags named above.
- **The factory's `getConfig` path**: never called by the deployment loop.

## Plan for later work
- Pending deploys per size as a composition, if a property across sizes is needed.
