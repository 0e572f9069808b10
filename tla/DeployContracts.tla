-------------------------- MODULE DeployContracts --------------------------
(***************************************************************************)
(* deploy_contracts (deploy_contracts_multi.py): bring the factory's       *)
(* counter up to a target count by sending factory calls in batches, each  *)
(* batch fired with consecutive nonces starting at the account's pending   *)
(* nonce, then awaited receipt by receipt, stopping once more than         *)
(* MaxFailures receipts failed.                                            *)
(*                                                                         *)
(* The process runs concurrently with the chain (module Chain), which      *)
(* includes pooled transactions whenever it likes.  The process may be     *)
(* killed at any point and run again (also how --deploy-remaining resumes  *)
(* a size): its locals are lost, the pool and the chain are not.  A run    *)
(* reads the factory counter once, at its start, as its record of         *)
(* progress.                                                               *)
(*                                                                         *)
(* Printing, timing, rate and ETA are left out: they decide nothing.  The  *)
(* loop variable i is Len(tx_hashes) while a batch is being sent (a        *)
(* successful send appends, a failed one breaks the loop), and the receipt *)
(* loop consumes tx_hashes from the front.                                 *)
(***************************************************************************)
EXTENDS Chain, RateScheduler, Sequences

CONSTANTS
    Count,           \* --count: the target number of contracts
    SizeBytes,       \* --size, in bytes
    MaxFailures,     \* the abort threshold (the literal 20 in the code)
    MaxRuns          \* how many times the script is started

ASSUME DeployAssumption ==
    /\ Count \in Nat \ {0}
    /\ SizeBytes \in SizeChoicesBytes
    /\ BlockGasLimits \subseteq Nat \ {0, 1}
    /\ BlockGasLimits # {}
    /\ MaxFailures \in Nat
    /\ MaxRuns \in Nat

VARIABLES
    pc,          \* where the process is: "idle" (not running), "batch" (loop
                 \* head), "send", "wait", "done" (returned)
    current,     \* the factory counter read when the run started
    remaining,   \* count - current
    gas_limit,   \* estimate_gas_for_size: the gas of every call of the run
    batch_size,  \* deployments_per_block
    batch_start, \* the for-loop variable over range(0, remaining, batch_size)
    nonce,       \* the pending nonce read at the start of the batch
    tx_hashes,   \* the batch's sent transactions (by nonce)
    failed,      \* failed or timed-out receipts of this run
    runs,        \* runs started so far (environment)
    runSent,     \* transactions this run got into the pool (history)
    sendErrors   \* sends of this run that raised (history)

procVars == <<pc, current, remaining, gas_limit, batch_size, batch_start, nonce,
              tx_hashes, failed>>
histVars == <<runs, runSent, sendErrors>>
vars == <<chainVars, procVars, histVars>>

PCs == {"idle", "batch", "send", "wait", "done"}

TypeOK ==
    /\ ChainTypeOK
    /\ pc \in PCs
    /\ current \in Nat
    /\ remaining \in Nat
    /\ gas_limit \in Nat
    /\ batch_size \in Nat
    /\ batch_start \in Nat
    /\ nonce \in Nat
    /\ tx_hashes \in Seq(Nat)
    /\ failed \in Nat
    /\ runs \in 0..MaxRuns
    /\ runSent \in Nat
    /\ sendErrors \in Nat

Init ==
    /\ ChainInit
    /\ pc = "idle"
    /\ current = 0
    /\ remaining = 0
    /\ gas_limit = 0
    /\ batch_size = 1
    /\ batch_start = 0
    /\ nonce = 0
    /\ tx_hashes = <<>>
    /\ failed = 0
    /\ runs = 0
    /\ runSent = 0
    /\ sendErrors = 0

\* Mutant: the range end taken as inclusive.
BatchCountInclusive ==
    Minimum(batch_start + batch_size, remaining + 1) - batch_start

\* batch_count = min(batch_start + batch_size, remaining) - batch_start
BatchCount == Minimum(batch_start + batch_size, remaining) - batch_start

\* Mutant: the first transaction of a batch signed at pending + 1.
NextNonceOffByOne == nonce + Len(tx_hashes) + 1

\* The nonce of the next transaction of the batch: nonce + i.
NextNonce == nonce + Len(tx_hashes)

-----------------------------------------------------------------------------
(***************************************************************************)
(* A run starts: read the block gas limit and the factory counter; return  *)
(* at once when the counter has reached the target, else compute the gas   *)
(* limit and the batch size and enter the batch loop.                      *)
(***************************************************************************)
\* The run's locals start afresh: deployed = 0, failed = 0 (and the history
\* of this run).
ResetRun ==
    /\ failed' = 0
    /\ tx_hashes' = <<>> /\ runSent' = 0 /\ sendErrors' = 0

StartRun ==
    /\ pc \in {"idle", "done"}
    /\ runs < MaxRuns
    /\ runs' = runs + 1
    /\ current' = counter
    /\ gas_limit' = EstimateGasForSize(SizeBytes, gasLimit)
    /\ batch_size' = DeploymentsPerBlock(SizeBytes, gasLimit)
    /\ IF Count <= counter
         THEN /\ pc' = "done"
              /\ remaining' = 0
         ELSE /\ pc' = "batch"
              /\ remaining' = Count - counter
    /\ batch_start' = 0
    /\ ResetRun
    /\ UNCHANGED <<chainVars, nonce>>

\* Mutant: the batch starts at the mined ("latest") count.
BeginBatchLatest ==
    /\ pc = "batch"
    /\ batch_start < remaining
    /\ nonce' = chainNonce
    /\ tx_hashes' = <<>>
    /\ pc' = "send"
    /\ UNCHANGED <<chainVars, current, remaining, gas_limit, batch_size, batch_start,
                   failed, histVars>>

\* Mutant: nonces reserved locally, a whole batch range at a time, as a
\* sequencer that tolerates gaps from failed sends would.
BeginBatchReserveRange ==
    /\ pc = "batch"
    /\ batch_start < remaining
    /\ nonce' = IF batch_start = 0 THEN PendingNonce ELSE nonce + batch_size
    /\ tx_hashes' = <<>>
    /\ pc' = "send"
    /\ UNCHANGED <<chainVars, current, remaining, gas_limit, batch_size, batch_start,
                   failed, histVars>>

\* Loop head, another batch: fetch the pending nonce.
BeginBatch ==
    /\ pc = "batch"
    /\ batch_start < remaining
    /\ nonce' = PendingNonce
    /\ tx_hashes' = <<>>
    /\ pc' = "send"
    /\ UNCHANGED <<chainVars, current, remaining, gas_limit, batch_size, batch_start,
                   failed, histVars>>

\* Loop head, range exhausted: the final counter read, and return.
EndLoop ==
    /\ pc = "batch"
    /\ batch_start >= remaining
    /\ pc' = "done"
    /\ UNCHANGED <<chainVars, current, remaining, gas_limit, batch_size, batch_start,
                   nonce, tx_hashes, failed, histVars>>

(***************************************************************************)
(* Send the next transaction of the batch.  It is accepted and its hash    *)
(* returned; or it reaches the pool but the call raises (the reply is      *)
(* lost); or it never reaches the pool (a transport error, or the node     *)
(* refuses it).  A raising send breaks the loop: the rest of the batch is  *)
(* not sent.                                                               *)
(***************************************************************************)
SendAccepted ==
    /\ pc = "send"
    /\ Len(tx_hashes) < BatchCount
    /\ Admissible(NextNonce)
    /\ pool' = pool \cup {NextNonce}
    /\ tx_hashes' = Append(tx_hashes, NextNonce)
    /\ runSent' = runSent + 1
    /\ UNCHANGED <<chainNonce, receipt, counter, created, gasLimit, pc, current,
                   remaining, gas_limit, batch_size, batch_start, nonce, failed, runs,
                   sendErrors>>

SendLostReply ==
    /\ pc = "send"
    /\ Len(tx_hashes) < BatchCount
    /\ Admissible(NextNonce)
    /\ pool' = pool \cup {NextNonce}
    /\ pc' = "wait"
    /\ runSent' = runSent + 1
    /\ sendErrors' = sendErrors + 1
    /\ UNCHANGED <<chainNonce, receipt, counter, created, gasLimit, current, remaining,
                   gas_limit, batch_size, batch_start, nonce, tx_hashes, failed, runs>>

SendFailed ==
    /\ pc = "send"
    /\ Len(tx_hashes) < BatchCount
    /\ pc' = "wait"
    /\ sendErrors' = sendErrors + 1
    /\ UNCHANGED <<chainVars, current, remaining, gas_limit, batch_size, batch_start,
                   nonce, tx_hashes, failed, runs, runSent>>

\* Every transaction of the batch has been sent.
SendDone ==
    /\ pc = "send"
    /\ Len(tx_hashes) = BatchCount
    /\ pc' = "wait"
    /\ UNCHANGED <<chainVars, current, remaining, gas_limit, batch_size, batch_start,
                   nonce, tx_hashes, failed, histVars>>

(***************************************************************************)
(* Wait for the receipt of the next sent transaction (timeout 60 s).  A    *)
(* receipt with status 1 counts as deployed (which only feeds the progress *)
(* printout); status 0 counts as failed; a timeout or a transport error    *)
(* raises and counts as failed, whether or not the transaction is later    *)
(* included.                                                               *)
(***************************************************************************)
WaitSuccess ==
    /\ pc = "wait"
    /\ tx_hashes # <<>>
    /\ Head(tx_hashes) \in DOMAIN receipt
    /\ receipt[Head(tx_hashes)] = "success"
    /\ tx_hashes' = Tail(tx_hashes)
    /\ UNCHANGED <<chainVars, pc, current, remaining, gas_limit, batch_size,
                   batch_start, nonce, failed, histVars>>

WaitReverted ==
    /\ pc = "wait"
    /\ tx_hashes # <<>>
    /\ Head(tx_hashes) \in DOMAIN receipt
    /\ receipt[Head(tx_hashes)] = "reverted"
    /\ tx_hashes' = Tail(tx_hashes)
    /\ failed' = failed + 1
    /\ UNCHANGED <<chainVars, pc, current, remaining, gas_limit, batch_size,
                   batch_start, nonce, histVars>>

WaitError ==
    /\ pc = "wait"
    /\ tx_hashes # <<>>
    /\ tx_hashes' = Tail(tx_hashes)
    /\ failed' = failed + 1
    /\ UNCHANGED <<chainVars, pc, current, remaining, gas_limit, batch_size,
                   batch_start, nonce, histVars>>

\* All receipts awaited: stop when failed > 20, else next batch.
EndBatchAbort ==
    /\ pc = "wait"
    /\ tx_hashes = <<>>
    /\ failed > MaxFailures
    /\ pc' = "done"
    /\ UNCHANGED <<chainVars, current, remaining, gas_limit, batch_size, batch_start,
                   nonce, tx_hashes, failed, histVars>>

EndBatchContinue ==
    /\ pc = "wait"
    /\ tx_hashes = <<>>
    /\ failed <= MaxFailures
    /\ batch_start' = batch_start + batch_size
    /\ pc' = "batch"
    /\ UNCHANGED <<chainVars, current, remaining, gas_limit, batch_size, nonce,
                   tx_hashes, failed, histVars>>

\* The process is killed; its locals are lost with it.
Crash ==
    /\ pc \in {"batch", "send", "wait"}
    /\ pc' = "idle"
    /\ UNCHANGED <<chainVars, current, remaining, gas_limit, batch_size, batch_start,
                   nonce, tx_hashes, failed, histVars>>

-----------------------------------------------------------------------------
RunStep ==
    \/ BeginBatch \/ EndLoop
    \/ SendAccepted \/ SendLostReply \/ SendFailed \/ SendDone
    \/ WaitSuccess \/ WaitReverted \/ WaitError
    \/ EndBatchAbort \/ EndBatchContinue

MineStep == Mine /\ UNCHANGED <<procVars, histVars>>

GasLimitStep == GasLimitMoves /\ UNCHANGED <<procVars, histVars>>

\* Once the last run has returned and the pool is empty nothing moves: the
\* script has exited.
Next == StartRun \/ RunStep \/ Crash \/ MineStep \/ GasLimitStep

\* The script's loop runs to its end unless killed, and the network keeps
\* including the account's executable transactions.
Spec == Init /\ [][Next]_vars /\ WF_vars(RunStep) /\ WF_vars(MineStep)
-----------------------------------------------------------------------------
(***************************************************************************)
(* Safety.                                                                 *)
(***************************************************************************)

\* The account's pooled transactions form one run of nonces starting at the
\* mined count: no transaction of the account waits behind a nonce gap.  It
\* rests on the batch starting at the pending nonce and on a failed send
\* breaking the batch off, across batches, crashes and reruns.
NoNonceGap ==
    \A n \in pool : n >= chainNonce /\ chainNonce..n \subseteq pool

\* Every nonce the script is about to sign is one the node will take: not
\* mined yet and not held by an earlier transaction still in the pool
\* (which is why the batch reads the "pending" and not the "latest" count).
NonceFresh ==
    (pc = "send" /\ Len(tx_hashes) < BatchCount) => Admissible(NextNonce)

\* A run gets at most count - current factory calls into the pool: the
\* batches of range(0, remaining, batch_size) never overlap or overrun.
WithinRunBound == runSent <= remaining

\* Every salt below the factory counter holds a contract: the counter read
\* at the start of a run is an exact record of the contracts made.
CounterIsAuthoritative == \A s \in 0..(counter - 1) : s \in created

\* The factory never makes more contracts than the target count, over all
\* runs of the script.
NoOvershoot == counter <= Count

\* No batch starts once more than MaxFailures items of the run failed,
\* submission errors included (the spec's abort rule).
AbortOnSubmissionErrors ==
    [][(pc = "batch" /\ pc' = "send") => failed + sendErrors <= MaxFailures]_vars

\* Every batch after the first is sized for the block it is sent into:
\* when it begins, its calls together need at most 95% of the current
\* block gas limit (spec 4.2: the RateScheduler is re-invoked every batch
\* and never caches stale capacity).  The script reads the limit once, at
\* the start of the run, and keeps using it after minutes of receipt
\* waits; the first batch starts in the same breath as that read.
ScheduleFitsBlock ==
    [][(pc = "batch" /\ pc' = "send" /\ batch_start > 0)
          => BatchCount * gas_limit <= UsableGas(gasLimit)]_vars

(***************************************************************************)
(* Liveness.                                                               *)
(***************************************************************************)

\* Every transaction the script got into the pool is eventually included:
\* none is left queued behind a nonce gap once the script is done.
NoStuckTransactions == <>[](pool = {})

(***************************************************************************)
(* The inductive invariant behind NoNonceGap and NonceFresh: the pool is   *)
(* the range of nonces from the mined count up to some top, and while a    *)
(* batch is being sent the next nonce to sign is exactly that top.         *)
(***************************************************************************)
PoolIsRange ==
    \E t \in chainNonce..(chainNonce + Cardinality(pool)) :
        pool = chainNonce..(t - 1)

SendsAtPoolTop ==
    pc = "send" => /\ NextNonce >= chainNonce
                   /\ pool = chainNonce..(NextNonce - 1)

IInv == TypeOK /\ PoolIsRange /\ SendsAtPoolTop

(***************************************************************************)
(* The inductive invariant behind WithinRunBound: the calls a run has      *)
(* pooled are at most the items of the batches before the current one     *)
(* plus, while sending, the sends of this batch that returned, and, once   *)
(* the batch is awaited, its whole count.  A batch is only ever entered    *)
(* below remaining, and the send loop never passes the batch's count.      *)
(***************************************************************************)
RunBoundInv ==
    /\ runSent <= remaining
    /\ pc \in {"send", "wait"} => batch_start < remaining
    /\ pc = "send" => /\ Len(tx_hashes) <= BatchCount
                      /\ runSent <= batch_start + Len(tx_hashes)
    /\ pc = "wait" => runSent <= batch_start + BatchCount
    /\ pc = "batch" => runSent <= batch_start
=============================================================================
