----------------------- MODULE DeployContractsProofs -----------------------
(***************************************************************************)
(* Proofs about deploy_contracts and the chain it runs against, for every  *)
(* target count, size, set of block gas limits, failure threshold, number  *)
(* of runs and starting nonce and counter.                                 *)
(*                                                                         *)
(* IInv (module DeployContracts) is inductive: the pool stays one range of *)
(* nonces from the mined count up, and while a batch is sent the next      *)
(* nonce is the top of that range.  NoNonceGap and NonceFresh follow.      *)
(***************************************************************************)
EXTENDS DeployContracts, RateSchedulerProofs, FiniteSetTheorems,
        SequenceTheorems, TLAPS

\* The range c..(t-1) has t - c elements.
LEMMA IntervalCard ==
    ASSUME NEW c \in Nat, NEW t \in Nat, t >= c
    PROVE  IsFiniteSet(c..(t - 1)) /\ Cardinality(c..(t - 1)) = t - c
<1>1. c \in Int /\ t - 1 \in Int
  BY SMT
<1>2. /\ IsFiniteSet(c..(t - 1))
      /\ Cardinality(c..(t - 1)) = IF c > t - 1 THEN 0 ELSE (t - 1) - c + 1
  BY <1>1, FS_Interval
<1>3. QED
  BY <1>2, SMT

\* A finite set is a range of naturals from c up exactly when some top
\* above c bounds it; the top is at most c plus the size of the set.
LEMMA RangeIff ==
    ASSUME NEW S, IsFiniteSet(S), NEW c \in Nat
    PROVE  (\E t \in c..(c + Cardinality(S)) : S = c..(t - 1))
           <=> (\E t \in Nat : t >= c /\ S = c..(t - 1))
<1>1. Cardinality(S) \in Nat
  BY FS_CardinalityType
<1>2. ASSUME NEW t \in c..(c + Cardinality(S)), S = c..(t - 1)
      PROVE  t \in Nat /\ t >= c
  BY <1>1, <1>2, SMT
<1>3. ASSUME NEW t \in Nat, t >= c, S = c..(t - 1)
      PROVE  t \in c..(c + Cardinality(S))
  <2>1. Cardinality(c..(t - 1)) = t - c
    BY <1>3, IntervalCard
  <2>2. QED
    BY <1>3, <2>1, SMT
<1>4. QED
  BY <1>2, <1>3

\* Over a range of pooled nonces the pending nonce is the top of the range.
LEMMA PendingNonceIsTop ==
    ASSUME chainNonce \in Nat, NEW t \in Nat, t >= chainNonce,
           pool = chainNonce..(t - 1)
    PROVE  PendingNonce = t
<1> DEFINE P(n) == /\ n \notin pool
                   /\ chainNonce..(n - 1) \subseteq pool
           R == chainNonce..(chainNonce + Cardinality(pool))
<1>1. Cardinality(chainNonce..(t - 1)) = t - chainNonce
  BY IntervalCard
<1>2. t \in R /\ P(t)
  BY <1>1, SMT
<1>3. \A n \in R : P(n) => n = t
  BY <1>1, SMT
<1>4. QED
  BY <1>2, <1>3 DEF PendingNonce

-----------------------------------------------------------------------------
LEMMA IInvInit == Init => IInv
<1> SUFFICES ASSUME Init PROVE IInv
  OBVIOUS
<1>1. TypeOK
  <2>1. ChainTypeOK
    BY ChainAssumption, FS_EmptySet DEF Init, ChainInit, ChainTypeOK
  <2>2. tx_hashes \in Seq(Nat)
    BY DEF Init
  <2>3. runs \in 0..MaxRuns
    BY DeployAssumption, SMT DEF Init
  <2>4. QED
    BY <2>1, <2>2, <2>3, DeployAssumption DEF Init, TypeOK, PCs
<1>2. \E t \in Nat : t >= chainNonce /\ pool = chainNonce..(t - 1)
  BY ChainAssumption, SMT DEF Init, ChainInit
<1>3. PoolIsRange
  BY <1>1, <1>2, RangeIff DEF PoolIsRange, TypeOK, ChainTypeOK
<1>4. SendsAtPoolTop
  BY DEF Init, SendsAtPoolTop
<1>5. QED
  BY <1>1, <1>3, <1>4 DEF IInv

\* Inclusion of the next nonce keeps the chain's part of the type.
LEMMA IncludeNextType ==
    ASSUME ChainTypeOK, NEW st \in Status, IncludeNext(st),
           counter' \in Nat, created' \in SUBSET Nat,
           pool' \in SUBSET Nat, IsFiniteSet(pool')
    PROVE  ChainTypeOK'
<1>1. chainNonce' \in Nat /\ chainNonce' >= InitNonce
  <2>1. chainNonce \in Nat /\ chainNonce >= InitNonce /\ InitNonce \in Nat
    BY ChainAssumption DEF ChainTypeOK
  <2>2. chainNonce' = chainNonce + 1
    BY DEF IncludeNext
  <2>3. QED
    BY <2>1, <2>2, SMT
<1>2. receipt' \in [InitNonce..(chainNonce' - 1) -> Status]
  <2>1. InitNonce..(chainNonce' - 1) = InitNonce..chainNonce
    BY SMT DEF ChainTypeOK, IncludeNext
  <2>2. QED
    BY <2>1 DEF ChainTypeOK, IncludeNext
<1>3. gasLimit' \in BlockGasLimits
  BY DEF ChainTypeOK, IncludeNext
<1>4. QED
  BY <1>1, <1>2, <1>3 DEF ChainTypeOK

\* The strengthened invariant is preserved by every step.
LEMMA IInvStep == IInv /\ [Next]_vars => IInv'
<1> SUFFICES ASSUME IInv, [Next]_vars PROVE IInv'
  OBVIOUS
<1>1. /\ TypeOK /\ SendsAtPoolTop
      /\ chainNonce \in Nat /\ counter \in Nat /\ nonce \in Nat
      /\ tx_hashes \in Seq(Nat) /\ failed \in Nat /\ runSent \in Nat
      /\ sendErrors \in Nat /\ batch_start \in Nat /\ batch_size \in Nat
  BY DEF IInv, TypeOK, ChainTypeOK
<1>2. PICK t \in Nat : t >= chainNonce /\ pool = chainNonce..(t - 1)
  BY <1>1, RangeIff DEF IInv, PoolIsRange, TypeOK, ChainTypeOK
\* A range of naturals from the mined count up is a finite pool.
<1>3. ASSUME NEW u \in Nat, chainNonce' \in Nat, u >= chainNonce',
             pool' = chainNonce'..(u - 1)
      PROVE  pool' \in SUBSET Nat /\ IsFiniteSet(pool')
  <2>1. IsFiniteSet(chainNonce'..(u - 1))
    BY <1>3, IntervalCard
  <2>2. QED
    BY <1>3, <2>1, SMT
\* To re-establish IInv it is enough to exhibit the new top of the pool.
<1>4. ASSUME TypeOK', SendsAtPoolTop', NEW u \in Nat, u >= chainNonce',
             pool' = chainNonce'..(u - 1)
      PROVE  IInv'
  <2>1. chainNonce' \in Nat /\ IsFiniteSet(pool')
    BY <1>4 DEF TypeOK, ChainTypeOK
  <2>2. PoolIsRange'
    BY <1>4, <2>1, RangeIff DEF PoolIsRange
  <2>3. QED
    BY <1>4, <2>2 DEF IInv
<1>5. CASE StartRun
  <2>1. /\ gas_limit' = EstimateGasForSize(SizeBytes, gasLimit)
        /\ batch_size' = DeploymentsPerBlock(SizeBytes, gasLimit)
    BY <1>5 DEF StartRun, ResetRun
  <2>2. batch_size' \in Nat /\ gas_limit' \in Nat
    <3>1. gasLimit \in Nat \ {0, 1} /\ SizeBytes \in SizeChoicesBytes
      BY <1>1, DeployAssumption DEF TypeOK, ChainTypeOK
    <3>2. DeploymentsPerBlock(SizeBytes, gasLimit) \in Nat \ {0}
      BY <3>1, BatchSizePositive
    <3>3. EstimateGasForSize(SizeBytes, gasLimit) \in Nat
      BY <3>1, GasLimitBounds
    <3>4. QED
      BY <2>1, <3>2, <3>3
  <2>3. remaining' \in Nat /\ runs' \in 0..MaxRuns /\ current' \in Nat
    BY <1>1, <1>5, DeployAssumption, SMT DEF StartRun, ResetRun, TypeOK, ChainTypeOK
  <2>4. pc' \in {"batch", "done"}
    BY <1>5 DEF StartRun, ResetRun
  <2>5. TypeOK'
    BY <1>1, <1>5, <2>2, <2>3, <2>4 DEF StartRun, ResetRun, TypeOK, ChainTypeOK, chainVars, PCs
  <2>6. SendsAtPoolTop'
    BY <2>4 DEF SendsAtPoolTop
  <2>7. QED
    BY <1>2, <1>4, <1>5, <2>5, <2>6 DEF StartRun, ResetRun, chainVars
<1>6. CASE BeginBatch
  <2>1. nonce' = t
    BY <1>1, <1>2, <1>6, PendingNonceIsTop DEF BeginBatch, TypeOK, ChainTypeOK
  <2>2. TypeOK'
    BY <1>1, <1>6, <2>1 DEF BeginBatch, TypeOK, ChainTypeOK, chainVars, histVars, PCs
  <2>3. NextNonce' = t
    BY <1>6, <2>1 DEF BeginBatch, NextNonce
  <2>4. SendsAtPoolTop'
    BY <1>2, <1>6, <2>3 DEF BeginBatch, SendsAtPoolTop, chainVars
  <2>5. QED
    BY <1>2, <1>4, <1>6, <2>2, <2>4 DEF BeginBatch, chainVars
<1>7. CASE EndLoop
  <2>1. TypeOK' /\ SendsAtPoolTop'
    BY <1>1, <1>7 DEF EndLoop, TypeOK, ChainTypeOK, chainVars, histVars, PCs, SendsAtPoolTop
  <2>2. QED
    BY <1>2, <1>4, <1>7, <2>1 DEF EndLoop, chainVars
<1>8. CASE SendAccepted \/ SendLostReply
  <2>1. pc = "send" /\ NextNonce \in Nat /\ NextNonce >= chainNonce
        /\ pool = chainNonce..(NextNonce - 1)
    <3>1. pc = "send"
      BY <1>8 DEF SendAccepted, SendLostReply
    <3>2. NextNonce \in Nat
      BY <1>1, LenProperties, SMT DEF NextNonce
    <3>3. QED
      BY <1>1, <3>1, <3>2 DEF SendsAtPoolTop
  <2>2. pool' = chainNonce'..NextNonce /\ chainNonce' = chainNonce
    <3>1. pool' = pool \cup {NextNonce} /\ chainNonce' = chainNonce
      BY <1>8 DEF SendAccepted, SendLostReply
    <3>2. QED
      BY <1>1, <2>1, <3>1, SMT
  \* The new top of the pool is one above the nonce just sent.
  <2>3. /\ NextNonce + 1 \in Nat /\ NextNonce + 1 >= chainNonce'
        /\ pool' = chainNonce'..((NextNonce + 1) - 1)
    <3>0. NextNonce \in Nat /\ NextNonce >= chainNonce /\ chainNonce' = chainNonce
      BY <2>1, <2>2
    <3>1. NextNonce + 1 \in Nat /\ NextNonce + 1 >= chainNonce'
      BY <1>1, <3>0, SMT
    <3>2. (NextNonce + 1) - 1 = NextNonce
      BY <2>1, SMT
    <3>3. QED
      BY <2>2, <3>1, <3>2
  <2>4. pool' \in SUBSET Nat /\ IsFiniteSet(pool')
    <3>1. chainNonce' \in Nat
      BY <1>1, <2>2
    <3>2. QED
      BY <1>3, <2>3, <3>1
  <2>5. runSent' \in Nat
    BY <1>1, <1>8, SMT DEF SendAccepted, SendLostReply
  <2>6. CASE SendAccepted
    <3>1. tx_hashes' \in Seq(Nat) /\ Len(tx_hashes') = Len(tx_hashes) + 1
      BY <1>1, <2>1, <2>6, AppendProperties DEF SendAccepted
    <3>2. TypeOK'
      BY <1>1, <2>4, <2>5, <2>6, <3>1 DEF SendAccepted, TypeOK, ChainTypeOK
    <3>3. NextNonce' = NextNonce + 1
      <4>1. nonce' = nonce
        BY <2>6 DEF SendAccepted
      <4>2. QED
        BY <1>1, <3>1, <4>1, SMT DEF NextNonce
    <3>4. SendsAtPoolTop'
      <4>1. pc' = "send"
        BY <2>1, <2>6 DEF SendAccepted
      <4>2. NextNonce' >= chainNonce' /\ NextNonce' - 1 = NextNonce
        <5>1. NextNonce \in Nat /\ NextNonce >= chainNonce /\ chainNonce' = chainNonce
          BY <2>1, <2>2
        <5>2. QED
          BY <1>1, <3>3, <5>1, SMT
      <4>3. QED
        BY <2>2, <4>1, <4>2 DEF SendsAtPoolTop
    <3>5. QED
      BY <1>4, <2>3, <3>2, <3>4
  <2>7. CASE SendLostReply
    <3>1. sendErrors' \in Nat
      BY <1>1, <2>7, SMT DEF SendLostReply
    <3>2. TypeOK'
      BY <1>1, <2>4, <2>5, <2>7, <3>1 DEF SendLostReply, TypeOK, ChainTypeOK, PCs
    <3>3. SendsAtPoolTop'
      BY <2>7 DEF SendLostReply, SendsAtPoolTop
    <3>4. QED
      BY <1>4, <2>3, <3>2, <3>3
  <2>8. QED
    BY <1>8, <2>6, <2>7
<1>9. CASE SendFailed \/ SendDone
  <2>1. sendErrors' \in Nat
    BY <1>1, <1>9, SMT DEF SendFailed, SendDone, histVars
  <2>2. TypeOK' /\ SendsAtPoolTop'
    BY <1>1, <1>9, <2>1 DEF SendFailed, SendDone, TypeOK, ChainTypeOK, chainVars,
                          histVars, PCs, SendsAtPoolTop
  <2>3. QED
    BY <1>2, <1>4, <1>9, <2>2 DEF SendFailed, SendDone, chainVars
<1>10. CASE WaitSuccess \/ WaitReverted \/ WaitError
  <2>1. tx_hashes # <<>> /\ tx_hashes' = Tail(tx_hashes) /\ pc' = "wait"
    BY <1>10 DEF WaitSuccess, WaitReverted, WaitError
  <2>2. tx_hashes' \in Seq(Nat)
    BY <1>1, <2>1, HeadTailProperties
  <2>3. failed' \in Nat
    BY <1>1, <1>10, SMT DEF WaitSuccess, WaitReverted, WaitError
  <2>4. TypeOK' /\ SendsAtPoolTop'
    BY <1>1, <1>10, <2>1, <2>2, <2>3 DEF WaitSuccess, WaitReverted, WaitError,
       TypeOK, ChainTypeOK, chainVars, histVars, PCs, SendsAtPoolTop
  <2>5. QED
    BY <1>2, <1>4, <1>10, <2>4 DEF WaitSuccess, WaitReverted, WaitError, chainVars
<1>11. CASE EndBatchAbort \/ EndBatchContinue \/ Crash
  <2>1. batch_start' \in Nat
    BY <1>1, <1>11, SMT DEF EndBatchAbort, EndBatchContinue, Crash
  <2>2. TypeOK' /\ SendsAtPoolTop'
    BY <1>1, <1>11, <2>1 DEF EndBatchAbort, EndBatchContinue, Crash, TypeOK,
       ChainTypeOK, chainVars, histVars, PCs, SendsAtPoolTop
  <2>3. QED
    BY <1>2, <1>4, <1>11, <2>2 DEF EndBatchAbort, EndBatchContinue, Crash, chainVars
<1>12. CASE MineStep
  <2>1. PICK st \in Status : IncludeNext(st)
    BY <1>12 DEF MineStep, Mine, MineCreated, MineCreateFailed, MineReverted, Status
  <2>2. counter' \in Nat /\ created' \in SUBSET Nat
    <3>1. \/ counter' = counter + 1 /\ created' = created \cup {counter}
          \/ counter' = counter + 1 /\ created' = created
          \/ counter' = counter /\ created' = created
      BY <1>12 DEF MineStep, Mine, MineCreated, MineCreateFailed, MineReverted
    <3>2. created \in SUBSET Nat
      BY <1>1 DEF TypeOK, ChainTypeOK
    <3>3. counter' \in Nat
      BY <1>1, <3>1, SMT
    <3>4. QED
      BY <1>1, <3>1, <3>2, <3>3
  <2>3. chainNonce \in pool /\ t >= chainNonce + 1
    BY <1>1, <1>2, <2>1, SMT DEF IncludeNext
  <2>4. pool' = chainNonce'..(t - 1) /\ chainNonce' = chainNonce + 1
    <3>1. pool' = pool \ {chainNonce} /\ chainNonce' = chainNonce + 1
      BY <2>1 DEF IncludeNext
    <3>2. QED
      BY <1>1, <1>2, <3>1, SMT
  <2>5. pool' \in SUBSET Nat /\ IsFiniteSet(pool')
    <3>1. chainNonce' \in Nat /\ t >= chainNonce'
      BY <1>1, <2>3, <2>4, SMT
    <3>2. QED
      BY <1>3, <2>4, <3>1
  <2>6. ChainTypeOK'
    BY <1>1, <2>1, <2>2, <2>5, IncludeNextType DEF TypeOK
  <2>7. TypeOK'
    BY <1>1, <1>12, <2>6 DEF MineStep, TypeOK, procVars, histVars
  <2>8. SendsAtPoolTop'
    <3>1. CASE pc = "send"
      <4>1. NextNonce >= chainNonce + 1 /\ pool = chainNonce..(NextNonce - 1)
        BY <1>1, <2>3, <3>1, SMT DEF SendsAtPoolTop, TypeOK, ChainTypeOK, NextNonce
      <4>2. NextNonce' = NextNonce
        BY <1>12 DEF MineStep, procVars, NextNonce
      <4>3. QED
        BY <1>1, <2>1, <2>4, <4>1, <4>2, SMT DEF SendsAtPoolTop, IncludeNext,
           TypeOK, ChainTypeOK
    <3>2. CASE pc # "send"
      BY <1>12, <3>2 DEF MineStep, procVars, SendsAtPoolTop
    <3>3. QED
      BY <3>1, <3>2
  <2>9. QED
    BY <1>4, <2>3, <2>4, <2>7, <2>8, SMT
<1>15. CASE GasLimitStep
  <2>1. TypeOK' /\ SendsAtPoolTop'
    BY <1>1, <1>15 DEF GasLimitStep, GasLimitMoves, procVars, histVars, TypeOK,
       ChainTypeOK, SendsAtPoolTop, NextNonce
  <2>2. QED
    BY <1>2, <1>4, <1>15, <2>1 DEF GasLimitStep, GasLimitMoves
<1>13. CASE UNCHANGED vars
  <2>1. TypeOK' /\ SendsAtPoolTop'
    BY <1>1, <1>13 DEF vars, chainVars, procVars, histVars, TypeOK, ChainTypeOK,
       SendsAtPoolTop, NextNonce
  <2>2. QED
    BY <1>2, <1>4, <1>13, <2>1 DEF vars, chainVars
<1>14. QED
  BY <1>5, <1>6, <1>7, <1>8, <1>9, <1>10, <1>11, <1>12, <1>13, <1>15
     DEF Next, RunStep
-----------------------------------------------------------------------------
\* The strengthened invariant holds in every reachable state.
THEOREM IInvInvariant == Spec => []IInv
<1>1. Init => IInv
  BY IInvInit
<1>2. IInv /\ [Next]_vars => IInv'
  BY IInvStep
<1>3. QED
  BY <1>1, <1>2, PTL DEF Spec

\* Type correctness of deploy_contracts and the chain: the counters, the
\* nonces and the receipts stay in their types, whatever the run.
THEOREM TypeCorrect == Spec => []TypeOK
<1>1. IInv => TypeOK
  BY DEF IInv
<1>2. QED
  BY <1>1, IInvInvariant, PTL

(***************************************************************************)
(* NoNonceGap, which the MCDeployContracts run checks, holds for every      *)
(* constant: the pending-nonce read at each batch and the break of a batch *)
(* on its first failed send never leave a transaction of the account       *)
(* queued behind a missing nonce, across crashes and reruns.               *)
(***************************************************************************)
THEOREM NoNonceGapHolds == Spec => []NoNonceGap
<1>1. IInv => NoNonceGap
  <2> SUFFICES ASSUME IInv PROVE NoNonceGap
    OBVIOUS
  <2>1. chainNonce \in Nat /\ IsFiniteSet(pool)
    BY DEF IInv, TypeOK, ChainTypeOK
  <2>2. PICK t \in Nat : t >= chainNonce /\ pool = chainNonce..(t - 1)
    BY <2>1, RangeIff DEF IInv, PoolIsRange
  <2>3. QED
    BY <2>1, <2>2, SMT DEF NoNonceGap
<1>2. QED
  BY <1>1, IInvInvariant, PTL

(***************************************************************************)
(* NonceFresh, which the MCDeployContracts run checks, holds for every      *)
(* constant: every nonce + i the script signs is neither mined nor held by *)
(* a transaction in the pool, so no send fails as "nonce too low" or       *)
(* "already known".                                                        *)
(***************************************************************************)
THEOREM NonceFreshHolds == Spec => []NonceFresh
<1>1. IInv => NonceFresh
  <2> SUFFICES ASSUME IInv, pc = "send" PROVE Admissible(NextNonce)
    BY DEF NonceFresh
  <2>1. chainNonce \in Nat /\ NextNonce \in Nat
    BY LenProperties, SMT DEF IInv, TypeOK, ChainTypeOK, NextNonce
  <2>2. NextNonce >= chainNonce /\ pool = chainNonce..(NextNonce - 1)
    BY DEF IInv, SendsAtPoolTop
  <2>3. QED
    BY <2>1, <2>2, SMT DEF Admissible
<1>2. QED
  BY <1>1, IInvInvariant, PTL

-----------------------------------------------------------------------------
(***************************************************************************)
(* WithinRunBound.  RunBoundInv bounds the calls a run has pooled by the   *)
(* batches it has entered, each of them cut at remaining; the send loop    *)
(* adds at most one call per send, and only below the batch's count.       *)
(***************************************************************************)
LEMMA RunBoundInit == Init => RunBoundInv
BY DEF Init, RunBoundInv

\* The facts about the run's counters every step of the proof needs.
LEMMA RunCountersType ==
    ASSUME TypeOK
    PROVE  /\ runSent \in Nat /\ remaining \in Nat /\ batch_start \in Nat
           /\ batch_size \in Nat /\ Len(tx_hashes) \in Nat
<1>1. tx_hashes \in Seq(Nat)
  BY DEF TypeOK
<1>2. QED
  BY <1>1, LenProperties DEF TypeOK

LEMMA RunBoundStep == IInv /\ RunBoundInv /\ [Next]_vars => RunBoundInv'
<1> SUFFICES ASSUME IInv, RunBoundInv, [Next]_vars PROVE RunBoundInv'
  OBVIOUS
<1>1. /\ runSent \in Nat /\ remaining \in Nat /\ batch_start \in Nat
      /\ batch_size \in Nat /\ Len(tx_hashes) \in Nat
  BY RunCountersType DEF IInv
<1>2. CASE StartRun
  <2>0. counter \in Nat /\ Count \in Nat
    BY DeployAssumption DEF IInv, TypeOK, ChainTypeOK
  <2>1. runSent' = 0 /\ pc' \in {"batch", "done"} /\ batch_start' = 0
        /\ remaining' \in Nat
    BY <1>2, <2>0, SMT DEF StartRun, ResetRun
  <2>2. QED
    BY <2>1, SMT DEF RunBoundInv
<1>3. CASE BeginBatch
  <2>1. /\ pc = "batch" /\ pc' = "send" /\ batch_start < remaining
        /\ tx_hashes' = <<>>
        /\ UNCHANGED <<runSent, remaining, batch_start, batch_size>>
    BY <1>3 DEF BeginBatch, histVars
  <2>2. Len(tx_hashes') = 0
    BY <2>1
  <2>3. QED
    BY <1>1, <2>1, <2>2, SMT DEF RunBoundInv, BatchCount, Minimum
<1>4. CASE EndLoop
  BY <1>4 DEF EndLoop, histVars, RunBoundInv
<1>5. CASE SendAccepted
  <2>1. /\ pc = "send" /\ pc' = "send"
        /\ Len(tx_hashes) < BatchCount
        /\ Len(tx_hashes') = Len(tx_hashes) + 1 /\ runSent' = runSent + 1
        /\ UNCHANGED <<remaining, batch_start, batch_size>>
    BY <1>5, <1>1, AppendProperties DEF SendAccepted, IInv, TypeOK
  <2>2. QED
    BY <1>1, <2>1, SMT DEF RunBoundInv, BatchCount, Minimum
<1>6. CASE SendLostReply
  <2>1. /\ pc = "send" /\ pc' = "wait"
        /\ Len(tx_hashes) < BatchCount /\ runSent' = runSent + 1
        /\ UNCHANGED <<remaining, batch_start, batch_size>>
    BY <1>6 DEF SendLostReply
  <2>2. QED
    BY <1>1, <2>1, SMT DEF RunBoundInv, BatchCount, Minimum
<1>7. CASE SendFailed \/ SendDone
  <2>1. /\ pc = "send" /\ pc' = "wait"
        /\ UNCHANGED <<runSent, remaining, batch_start, batch_size>>
    BY <1>7 DEF SendFailed, SendDone, histVars
  <2>2. QED
    BY <1>1, <2>1, SMT DEF RunBoundInv, BatchCount, Minimum
<1>8. CASE WaitSuccess \/ WaitReverted \/ WaitError
  <2>1. /\ pc = "wait" /\ pc' = "wait"
        /\ UNCHANGED <<runSent, remaining, batch_start, batch_size>>
    BY <1>8 DEF WaitSuccess, WaitReverted, WaitError, histVars
  <2>2. QED
    BY <2>1 DEF RunBoundInv, BatchCount
<1>9. CASE EndBatchAbort \/ Crash
  <2>1. pc' \in {"done", "idle"} /\ UNCHANGED <<runSent, remaining>>
    BY <1>9 DEF EndBatchAbort, Crash, histVars
  <2>2. QED
    BY <2>1 DEF RunBoundInv
<1>10. CASE EndBatchContinue
  <2>1. /\ pc = "wait" /\ pc' = "batch"
        /\ batch_start' = batch_start + batch_size
        /\ UNCHANGED <<runSent, remaining>>
    BY <1>10 DEF EndBatchContinue, histVars
  <2>2. QED
    BY <1>1, <2>1, SMT DEF RunBoundInv, BatchCount, Minimum
<1>11. CASE MineStep \/ GasLimitStep
  BY <1>11 DEF MineStep, GasLimitStep, procVars, histVars, RunBoundInv,
     BatchCount
<1>12. CASE UNCHANGED vars
  BY <1>12 DEF vars, procVars, histVars, RunBoundInv, BatchCount
<1>13. QED
  BY <1>2, <1>3, <1>4, <1>5, <1>6, <1>7, <1>8, <1>9, <1>10, <1>11, <1>12
     DEF Next, RunStep

\* RunBoundInv holds in every reachable state.
THEOREM RunBoundInvariant == Spec => []RunBoundInv
<1>1. Init => RunBoundInv
  BY RunBoundInit
<1>2. IInv /\ RunBoundInv /\ [Next]_vars => RunBoundInv'
  BY RunBoundStep
<1>3. QED
  BY <1>1, <1>2, IInvInvariant, PTL DEF Spec

(***************************************************************************)
(* WithinRunBound, which the MCDeployContracts run checks, holds for every *)
(* constant: a run of deploy_contracts gets at most count - current calls  *)
(* into the pool, across broken-off batches, lost replies and timeouts.    *)
(***************************************************************************)
THEOREM WithinRunBoundHolds == Spec => []WithinRunBound
<1>1. RunBoundInv => WithinRunBound
  BY DEF RunBoundInv, WithinRunBound
<1>2. QED
  BY <1>1, RunBoundInvariant, PTL
=============================================================================
