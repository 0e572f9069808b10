---------------------------- MODULE DeepBranches ----------------------------
(***************************************************************************)
(* deploy_deep_branches.py, main: fund the auxiliary accounts with 1 wei   *)
(* each, then deploy the pre-mined salts through Nick's factory, each      *)
(* phase in batches sized from the block gas limit, and write the manifest *)
(* (deployed_info) to the output file at the end.                          *)
(*                                                                         *)
(* Unlike deploy_contracts, the script keeps its own nonce: it is read     *)
(* once, from the "latest" (mined) count, and advanced only when           *)
(* send_raw_transaction returns.  A send that raises is skipped (funding:  *)
(* the except clause falls through; deployment: continue) and the next     *)
(* item is signed with the same nonce.  A deployment is recorded in the    *)
(* manifest as soon as its send returns.                                   *)
(*                                                                         *)
(* The network holds the account's transactions in a pool by nonce and    *)
(* includes them in nonce order; InitPending transactions of an earlier,   *)
(* killed run may still be pending when the script starts.  The --skip-   *)
(* funding and --skip-contracts flags are chosen at start.  Printing, the  *)
(* read-back of code that only feeds a printout, and stubs.json are left   *)
(* out: they decide nothing.                                               *)
(***************************************************************************)
EXTENDS Naturals, Sequences, RateScheduler

CONSTANTS
    NumAux,          \* unique auxiliary accounts of the chosen contracts
    NumContracts,    \* contracts taken from the CREATE2 data file
    BlockGasLimits,  \* the block gas limits the network may report
    InitPending      \* transactions of an earlier run pending at start

ASSUME DeepAssumption ==
    /\ NumAux \in Nat
    /\ NumContracts \in Nat
    /\ BlockGasLimits \subseteq Nat
    /\ BlockGasLimits # {}
    /\ InitPending \in Nat

Aux == 1..NumAux
Salts == 1..NumContracts

\* What a pooled transaction of the account does when it is included.
Items == [kind : {"fund"}, aux : Aux] \cup [kind : {"deploy"}, salt : Salts]
         \cup [kind : {"prior"}]

VARIABLES
    chainNonce,  \* the account's mined transaction count
    pool,        \* nonces of the account's pending transactions
    txOf,        \* what the pending transaction of each pooled nonce does
    code,        \* salts whose CREATE2 address holds code
    funded,      \* auxiliary accounts that exist (hold 1 wei)
    pc,          \* "start", "fund_plan", "fund_batch", "fund_send",
                 \* "deploy_plan", "deploy_batch", "deploy_send", "save",
                 \* "saving" (output file open), "save_stubs",
                 \* "exit" (saved and returned), "killed", "rejected"
                 \* (both phases skipped: sys.exit(1))
    nonce,       \* the script's local nonce
    bsize,       \* funding_batch_size, then batch_size
    idx,         \* the next item of the phase's list (1-based)
    batch_end,   \* the last item of the current batch
    tx_hashes,   \* the batch's returned sends (nonces), awaited in order
    manifest,    \* deployed_info["contracts"] (salts)
    file,        \* the output file's contract list; <<>> until written
    fileValid,   \* the output file is absent or a whole JSON document
    skipFunding,   \* --skip-funding
    skipContracts  \* --skip-contracts

netVars == <<chainNonce, pool, txOf, code, funded>>
args == <<skipFunding, skipContracts>>
vars == <<netVars, pc, nonce, bsize, idx, batch_end, tx_hashes, manifest,
          file, fileValid, args>>

TypeOK ==
    /\ chainNonce \in Nat
    /\ pool \in SUBSET Nat
    /\ txOf \in [pool -> Items]
    /\ code \in SUBSET Salts
    /\ funded \in SUBSET Aux
    /\ pc \in {"start", "fund_plan", "fund_batch", "fund_send", "deploy_plan",
               "deploy_batch", "deploy_send", "save", "saving", "save_stubs",
               "exit", "killed",
               "rejected"}
    /\ nonce \in Nat
    /\ bsize \in Nat \ {0}
    /\ idx \in Nat
    /\ batch_end \in Nat
    /\ tx_hashes \in Seq(Nat)
    /\ manifest \in Seq(Salts)
    /\ file \in Seq(Salts)
    /\ fileValid \in BOOLEAN
    /\ skipFunding \in BOOLEAN
    /\ skipContracts \in BOOLEAN

Init ==
    /\ chainNonce = 0
    /\ pool = 0..(InitPending - 1)
    /\ txOf = [n \in pool |-> [kind |-> "prior"]]
    /\ code = {}
    /\ funded = {}
    /\ pc = "start"
    /\ nonce = 0
    /\ bsize = 1
    /\ idx = 1
    /\ batch_end = 0
    /\ tx_hashes = <<>>
    /\ manifest = <<>>
    /\ file = <<>>
    /\ fileValid = TRUE
    /\ skipFunding \in BOOLEAN
    /\ skipContracts \in BOOLEAN

\* The node takes nonce n unless it is mined or taken by a pooled
\* transaction (same gas price, so no replacement).
Admissible(n) == n >= chainNonce /\ n \notin pool

\* The pending transaction with nonce n doing item it joins the pool.
AddToPool(n, item) ==
    /\ pool' = pool \cup {n}
    /\ txOf' = [m \in pool' |-> IF m = n THEN item ELSE txOf[m]]

FundItem == [kind |-> "fund", aux |-> idx]
DeployItem == [kind |-> "deploy", salt |-> idx]

-----------------------------------------------------------------------------
(***************************************************************************)
(* The steps both phases share, for the phase whose loop head is pc = at   *)
(* and whose send loop is pc = send, over a list of len items.             *)
(***************************************************************************)

\* Loop head: take the next slice of at most bsize items.
BatchHead(at, send, len) ==
    /\ pc = at
    /\ idx <= len
    /\ batch_end' = Minimum(idx + bsize - 1, len)
    /\ tx_hashes' = <<>>
    /\ pc' = send
    /\ UNCHANGED <<args, netVars, nonce, bsize, idx, manifest, file, fileValid>>

\* Loop head: the list is exhausted.
PhaseEnd(at, len, next) ==
    /\ pc = at
    /\ idx > len
    /\ pc' = next
    /\ UNCHANGED <<args, netVars, nonce, bsize, idx, batch_end, tx_hashes,
                   manifest, file, fileValid>>

\* send_raw_transaction returns: keep the hash, advance the local nonce.
SendAccepted(send, item) ==
    /\ pc = send
    /\ idx <= batch_end
    /\ Admissible(nonce)
    /\ AddToPool(nonce, item)
    /\ tx_hashes' = Append(tx_hashes, nonce)
    /\ nonce' = nonce + 1
    /\ idx' = idx + 1
    /\ UNCHANGED <<args, chainNonce, code, funded, pc, bsize, batch_end, file, fileValid>>

\* The transaction reaches the pool but the call raises: the item is
\* skipped and the local nonce is not advanced.
SendLostReply(send, item) ==
    /\ pc = send
    /\ idx <= batch_end
    /\ Admissible(nonce)
    /\ AddToPool(nonce, item)
    /\ idx' = idx + 1
    /\ UNCHANGED <<args, chainNonce, code, funded, pc, nonce, bsize, batch_end,
                   tx_hashes, manifest, file, fileValid>>

\* The send raises without reaching the pool (transport error, or the node
\* refuses the nonce): the item is skipped, the nonce kept.
SendError(send) ==
    /\ pc = send
    /\ idx <= batch_end
    /\ idx' = idx + 1
    /\ UNCHANGED <<args, netVars, pc, nonce, bsize, batch_end, tx_hashes,
                   manifest, file, fileValid>>

\* Wait up to 60 s for the next receipt; success, revert and timeout are
\* only printed (and counted for the printout).
Await(send) ==
    /\ pc = send
    /\ idx > batch_end
    /\ tx_hashes # <<>>
    /\ tx_hashes' = Tail(tx_hashes)
    /\ UNCHANGED <<args, netVars, pc, nonce, bsize, idx, batch_end, manifest, file, fileValid>>

BatchDone(send, at) ==
    /\ pc = send
    /\ idx > batch_end
    /\ tx_hashes = <<>>
    /\ pc' = at
    /\ UNCHANGED <<args, netVars, nonce, bsize, idx, batch_end, tx_hashes,
                   manifest, file, fileValid>>

-----------------------------------------------------------------------------
\* Both phases skipped: nothing to do, exit with an error.
ArgsRejected ==
    /\ pc = "start"
    /\ skipFunding /\ skipContracts
    /\ pc' = "rejected"
    /\ UNCHANGED <<args, netVars, nonce, bsize, idx, batch_end, tx_hashes,
                   manifest, file, fileValid>>

\* Starting nonce: get_transaction_count(address), the "latest" count; then
\* phase 1 unless --skip-funding.
Start ==
    /\ pc = "start"
    /\ ~(skipFunding /\ skipContracts)
    /\ nonce' = chainNonce
    /\ pc' = IF skipFunding THEN "deploy_plan" ELSE "fund_plan"
    /\ UNCHANGED <<args, netVars, bsize, idx, batch_end, tx_hashes, manifest,
                   file, fileValid>>

\* Phase 1: read the block gas limit, size the funding batches.
FundPlan ==
    /\ pc = "fund_plan"
    /\ \E L \in BlockGasLimits : bsize' = FundingBatchSize(L)
    /\ idx' = 1
    /\ pc' = "fund_batch"
    /\ UNCHANGED <<args, netVars, nonce, batch_end, tx_hashes, manifest, file, fileValid>>

FundBatch == BatchHead("fund_batch", "fund_send", NumAux)
FundPhaseEnd == PhaseEnd("fund_batch", NumAux, "deploy_plan")
FundSendAccepted ==
    SendAccepted("fund_send", FundItem) /\ UNCHANGED manifest
FundSendLostReply == SendLostReply("fund_send", FundItem)

\* Mutant: a failed funding send still consumes its nonce.
FundSendErrorConsumesNonce ==
    /\ pc = "fund_send"
    /\ idx <= batch_end
    /\ idx' = idx + 1
    /\ nonce' = nonce + 1
    /\ UNCHANGED <<args, netVars, pc, bsize, batch_end, tx_hashes, manifest, file, fileValid>>

FundSendError == SendError("fund_send")
FundAwait == Await("fund_send")
FundBatchDone == BatchDone("fund_send", "fund_batch")

\* Phase 2: read the block gas limit again, size the deployment batches.
DeployPlan ==
    /\ pc = "deploy_plan"
    /\ ~skipContracts
    /\ \E L \in BlockGasLimits : bsize' = DeployBatchSize(L)
    /\ idx' = 1
    /\ pc' = "deploy_batch"
    /\ UNCHANGED <<args, netVars, nonce, batch_end, tx_hashes, manifest, file, fileValid>>

DeployBatch == BatchHead("deploy_batch", "deploy_send", NumContracts)
DeployPhaseEnd == PhaseEnd("deploy_batch", NumContracts, "save")

\* The contract is recorded in deployed_info as soon as its send returns.
DeploySendAccepted ==
    /\ SendAccepted("deploy_send", DeployItem)
    /\ manifest' = Append(manifest, idx)

DeploySendLostReply == SendLostReply("deploy_send", DeployItem)

\* Mutant: a failed deployment send still consumes its nonce.
DeploySendErrorConsumesNonce ==
    /\ pc = "deploy_send"
    /\ idx <= batch_end
    /\ idx' = idx + 1
    /\ nonce' = nonce + 1
    /\ UNCHANGED <<args, netVars, pc, bsize, batch_end, tx_hashes, manifest, file, fileValid>>

DeploySendError == SendError("deploy_send")
DeployAwait == Await("deploy_send")
DeployBatchDone == BatchDone("deploy_send", "deploy_batch")

\* --skip-contracts: the manifest lists the computed address of every
\* contract, none of them deployed.
SkipDeploy ==
    /\ pc = "deploy_plan"
    /\ skipContracts
    /\ manifest' = manifest \o [i \in 1..NumContracts |-> i]
    /\ pc' = "save"
    /\ UNCHANGED <<args, netVars, nonce, bsize, idx, batch_end, tx_hashes,
                   file, fileValid>>

\* open(output_path, 'w') truncates the output file in place.
SaveOpen ==
    /\ pc = "save"
    /\ file' = <<>>
    /\ fileValid' = FALSE
    /\ pc' = "saving"
    /\ UNCHANGED <<args, netVars, nonce, bsize, idx, batch_end, tx_hashes, manifest>>

\* json.dump of deployed_info into the open file; the with block closes it.
SaveDump ==
    /\ pc = "saving"
    /\ file' = manifest
    /\ fileValid' = TRUE
    /\ pc' = "save_stubs"
    /\ UNCHANGED <<args, netVars, nonce, bsize, idx, batch_end, tx_hashes, manifest>>

\* The contract addresses also go to stubs.json (open 'w', json.dump); no
\* property reads that file, so only the step is kept.
SaveStubs ==
    /\ pc = "save_stubs"
    /\ pc' = "exit"
    /\ UNCHANGED <<args, netVars, nonce, bsize, idx, batch_end, tx_hashes, manifest,
                   file, fileValid>>

\* The script is killed before it has written the whole output file:
\* deployed_info is lost with it.
Kill ==
    /\ pc \notin {"start", "save", "exit", "killed", "rejected"}
    /\ pc' = "killed"
    /\ UNCHANGED <<args, netVars, nonce, bsize, idx, batch_end, tx_hashes,
                   manifest, file, fileValid>>

-----------------------------------------------------------------------------
(***************************************************************************)
(* The network includes the account's transaction with the next nonce.  A  *)
(* funding transfer of 1 wei to an externally owned account succeeds; a    *)
(* deployment through Nick's factory creates the contract, or reverts (out *)
(* of its 3,000,000 gas, or the address is taken); a transaction of the    *)
(* earlier run does nothing this model tracks.                             *)
(***************************************************************************)
IncludeNext ==
    /\ chainNonce \in pool
    /\ chainNonce' = chainNonce + 1
    /\ pool' = pool \ {chainNonce}
    /\ txOf' = [m \in pool' |-> txOf[m]]

MineSucceeded ==
    LET it == txOf[chainNonce] IN
    /\ IncludeNext
    /\ funded' = IF it.kind = "fund" THEN funded \cup {it.aux} ELSE funded
    /\ code' = IF it.kind = "deploy" THEN code \cup {it.salt} ELSE code

MineReverted ==
    /\ IncludeNext
    /\ txOf[chainNonce].kind = "deploy"
    /\ UNCHANGED <<args, code, funded>>

Mine ==
    /\ MineSucceeded \/ MineReverted
    /\ UNCHANGED <<args, pc, nonce, bsize, idx, batch_end, tx_hashes,
                   manifest, file, fileValid>>

-----------------------------------------------------------------------------
Step ==
    \/ ArgsRejected \/ Start \/ FundPlan \/ DeployPlan \/ SkipDeploy
    \/ SaveOpen \/ SaveDump \/ SaveStubs
    \/ FundBatch \/ FundPhaseEnd \/ FundSendAccepted \/ FundSendLostReply
    \/ FundSendError \/ FundAwait \/ FundBatchDone
    \/ DeployBatch \/ DeployPhaseEnd \/ DeploySendAccepted
    \/ DeploySendLostReply \/ DeploySendError \/ DeployAwait \/ DeployBatchDone

Next == Step \/ Kill \/ Mine

\* The script runs to its end unless killed; the network keeps including
\* the account's executable transactions.
Spec == Init /\ [][Next]_vars /\ WF_vars(Step) /\ WF_vars(Mine)

-----------------------------------------------------------------------------
\* The account's pending transactions form one run of nonces from the mined
\* count up, although the script signs with a local nonce that a lost reply
\* or a pending transaction of an earlier run leaves behind the pool: a
\* stale nonce is refused by the node, never used past a gap.
NoNonceGap ==
    \A n \in pool : n >= chainNonce /\ chainNonce..n \subseteq pool

\* Every transaction the script got into the pool is eventually included,
\* even when it was killed part way.
NoStuckTransactions == <>[](pool = {})

\* Every nonce the script signs is one the node will take (the spec's
\* NonceSequencer: seeded from the pending count, a failed send still
\* consumes its slot).
SendNonceAdmissible ==
    (pc \in {"fund_send", "deploy_send"} /\ idx <= batch_end)
        => Admissible(nonce)

\* When the script deploys, the saved manifest claims no address whose
\* deployment reverted: every listed salt holds code or has its deployment
\* still pending (spec 7, RevertedExecution: the address is not claimed as
\* produced).
ManifestOnlyCreated ==
    ~skipContracts =>
    \A i \in 1..Len(file) :
        \/ file[i] \in code
        \/ \E n \in pool : txOf[n] = [kind |-> "deploy", salt |-> file[i]]
\* No kill leaves the output file truncated: outside the write of the
\* script that is saving, the file is a whole JSON document, the one an
\* earlier run left or the complete new manifest (spec 4.6,
\* ProgressLedger: a commit is atomic with respect to crashes, so a crash
\* mid-write never corrupts the previous valid record).  main writes it in
\* place with open(..., 'w') and json.dump.
ManifestCommitAtomic == ~fileValid => pc = "saving"
-----------------------------------------------------------------------------
(***************************************************************************)
(* The inductive invariant behind TypeOK and NoNonceGap.                   *)
(***************************************************************************)
\* The loop index is 1-based, and while a phase sends, its batch ends
\* within the phase's list, so the item signed is an auxiliary account or
\* a salt of the data file.
LoopBounds ==
    /\ idx >= 1
    /\ pc = "fund_send" => batch_end <= NumAux
    /\ pc = "deploy_send" => batch_end <= NumContracts

\* The script's local nonce never runs ahead of the pool: every nonce below
\* it that is not mined is pending, although a raised send does not
\* advance it and a lost reply leaves it on a pooled nonce.  A send that
\* consumed its nonce without reaching the pool would leave the next
\* accepted one behind a gap.
NonceBelowPool == chainNonce..(nonce - 1) \subseteq pool

IInv == TypeOK /\ LoopBounds /\ NoNonceGap /\ NonceBelowPool
=============================================================================
