------------------------- MODULE DeepBranchesProofs -------------------------
(***************************************************************************)
(* Proofs about deploy_deep_branches and the account's pool, for every     *)
(* number of auxiliary accounts and contracts, every set of block gas      *)
(* limits and every number of transactions pending from an earlier run.    *)
(*                                                                         *)
(* IInv (module DeepBranches) is inductive: the pool has no gap, and the   *)
(* script's local nonce never runs ahead of it.  A send is only accepted   *)
(* at an admissible nonce, which over a gapless pool is the nonce just    *)
(* above its top; so TypeOK and NoNonceGap follow.                       *)
(***************************************************************************)
EXTENDS DeepBranches, SequenceTheorems, TLAPS

\* What a pooled item carries: the account it funds or the salt it deploys.
LEMMA ItemFields ==
    ASSUME NEW it \in Items
    PROVE  /\ it.kind \in {"fund", "deploy", "prior"}
           /\ it.kind = "fund" => it.aux \in Aux
           /\ it.kind = "deploy" => it.salt \in Salts
BY DEF Items

\* The items a send puts in the pool are items, when the loop index is one
\* of the phase's list.
LEMMA SendItems ==
    ASSUME NEW i \in Nat, i >= 1
    PROVE  /\ i <= NumAux => [kind |-> "fund", aux |-> i] \in Items
           /\ i <= NumContracts => [kind |-> "deploy", salt |-> i] \in Items
<1>1. i <= NumAux => i \in Aux
  BY DeepAssumption, SMT DEF Aux
<1>2. i <= NumContracts => i \in Salts
  BY DeepAssumption, SMT DEF Salts
<1>3. QED
  BY <1>1, <1>2 DEF Items

\* The batch sizes main computes from a block gas limit are positive.
LEMMA BatchSizesPositive ==
    ASSUME NEW L \in BlockGasLimits
    PROVE  FundingBatchSize(L) \in Nat \ {0} /\ DeployBatchSize(L) \in Nat \ {0}
<1>1. L \in Nat
  BY DeepAssumption
<1>2. QED
  BY <1>1, SMT DEF FundingBatchSize, DeployBatchSize, Maximum,
     FUND_GAS_LIMIT, DEPLOY_GAS_LIMIT

\* The --skip-contracts manifest lists salts.
LEMMA SkipManifestType ==
    ASSUME NEW s \in Seq(Salts)
    PROVE  s \o [i \in 1..NumContracts |-> i] \in Seq(Salts)
<1>1. [i \in 1..NumContracts |-> i] \in Seq(Salts)
  <2>1. NumContracts \in Nat
    BY DeepAssumption
  <2>2. [i \in 1..NumContracts |-> i] \in [1..NumContracts -> Salts]
    BY DEF Salts
  <2>3. QED
    BY <2>1, <2>2
<1>2. QED
  BY <1>1, ConcatProperties

-----------------------------------------------------------------------------
LEMMA IInvInit == Init => IInv
<1> SUFFICES ASSUME Init PROVE IInv
  OBVIOUS
<1>1. InitPending \in Nat
  BY DeepAssumption
<1>2. [kind |-> "prior"] \in Items
  BY DEF Items
<1>3. TypeOK
  BY <1>1, <1>2, SMT DEF Init, TypeOK
<1>4. LoopBounds
  BY DEF Init, LoopBounds
<1>5. NoNonceGap /\ NonceBelowPool
  BY <1>1, SMT DEF Init, NoNonceGap, NonceBelowPool
<1>6. QED
  BY <1>3, <1>4, <1>5 DEF IInv
\* A step that touches neither the network nor the local nonce keeps the
\* pool gapless and the nonce within it.
LEMMA NonceFrame ==
    ASSUME NoNonceGap, NonceBelowPool, UNCHANGED <<netVars, nonce>>
    PROVE  NoNonceGap' /\ NonceBelowPool'
BY DEF NoNonceGap, NonceBelowPool, netVars

\* Over a gapless pool that the local nonce does not run ahead of, an
\* admissible nonce is the one just above the pool's top: adding it keeps
\* the pool gapless.
LEMMA AddAdmissible ==
    ASSUME TypeOK, NoNonceGap, NonceBelowPool, Admissible(nonce)
    PROVE  /\ \A n \in pool \cup {nonce} :
                 n >= chainNonce /\ chainNonce..n \subseteq pool \cup {nonce}
           /\ chainNonce..nonce \subseteq pool \cup {nonce}
<1>1. chainNonce \in Nat /\ nonce \in Nat /\ pool \subseteq Nat
  BY DEF TypeOK
<1>2. nonce >= chainNonce /\ chainNonce..(nonce - 1) \subseteq pool
  BY DEF Admissible, NonceBelowPool
<1>3. chainNonce..nonce \subseteq pool \cup {nonce}
  BY <1>1, <1>2, SMT
<1>4. \A n \in pool : n >= chainNonce /\ chainNonce..n \subseteq pool
  BY DEF NoNonceGap
<1>5. QED
  BY <1>2, <1>3, <1>4
-----------------------------------------------------------------------------
(***************************************************************************)
(* The step shapes both phases share keep IInv, for the phase's send loop  *)
(* pc = send over its list of len items.                                  *)
(***************************************************************************)
\* The send loop of each phase, and the length of the list it walks.
SendLoops == {<<"fund_send", NumAux>>, <<"deploy_send", NumContracts>>}

LEMMA BatchHeadStep ==
    ASSUME IInv, NEW at, NEW send, NEW len, <<send, len>> \in SendLoops,
           BatchHead(at, send, len)
    PROVE  IInv'
<1>1. /\ pc' = send /\ tx_hashes' = <<>>
      /\ batch_end' = Minimum(idx + bsize - 1, len)
      /\ UNCHANGED <<args, netVars, nonce, bsize, idx, manifest, file, fileValid>>
  BY DEF BatchHead
<1>2. /\ send \in {"fund_send", "deploy_send"} /\ len \in Nat
      /\ send = "fund_send" => len = NumAux
      /\ send = "deploy_send" => len = NumContracts
  BY DeepAssumption DEF SendLoops
<1>3. batch_end' \in Nat /\ batch_end' <= len
  BY <1>1, <1>2, SMT DEF IInv, TypeOK, Minimum
<1>4. TypeOK'
  BY <1>1, <1>2, <1>3 DEF IInv, TypeOK, netVars, args
<1>5. LoopBounds'
  BY <1>1, <1>2, <1>3 DEF IInv, LoopBounds
<1>6. QED
  BY <1>1, <1>4, <1>5, NonceFrame DEF IInv

LEMMA PhaseEndStep ==
    ASSUME IInv, NEW at, NEW len, NEW next \in {"deploy_plan", "save"},
           PhaseEnd(at, len, next)
    PROVE  IInv'
<1>1. /\ pc' = next
      /\ UNCHANGED <<args, netVars, nonce, bsize, idx, batch_end, tx_hashes,
                     manifest, file, fileValid>>
  BY DEF PhaseEnd
<1>2. TypeOK' /\ LoopBounds'
  BY <1>1 DEF IInv, TypeOK, LoopBounds, netVars, args
<1>3. QED
  BY <1>1, <1>2, NonceFrame DEF IInv

LEMMA SendErrorStep ==
    ASSUME IInv, NEW send, SendError(send)
    PROVE  IInv'
<1>1. /\ idx' = idx + 1
      /\ UNCHANGED <<args, netVars, pc, nonce, bsize, batch_end, tx_hashes,
                     manifest, file, fileValid>>
  BY DEF SendError
<1>2. idx' \in Nat /\ idx' >= 1
  BY <1>1, SMT DEF IInv, TypeOK
<1>3. TypeOK' /\ LoopBounds'
  BY <1>1, <1>2 DEF IInv, TypeOK, LoopBounds, netVars, args
<1>4. QED
  BY <1>1, <1>3, NonceFrame DEF IInv

LEMMA AwaitStep ==
    ASSUME IInv, NEW send, Await(send)
    PROVE  IInv'
<1>1. /\ tx_hashes # <<>> /\ tx_hashes' = Tail(tx_hashes)
      /\ UNCHANGED <<args, netVars, pc, nonce, bsize, idx, batch_end,
                     manifest, file, fileValid>>
  BY DEF Await
<1>2. tx_hashes' \in Seq(Nat)
  BY <1>1, HeadTailProperties DEF IInv, TypeOK
<1>3. TypeOK' /\ LoopBounds'
  BY <1>1, <1>2 DEF IInv, TypeOK, LoopBounds, netVars, args
<1>4. QED
  BY <1>1, <1>3, NonceFrame DEF IInv

LEMMA BatchDoneStep ==
    ASSUME IInv, NEW send, NEW at \in {"fund_batch", "deploy_batch"},
           BatchDone(send, at)
    PROVE  IInv'
<1>1. /\ pc' = at
      /\ UNCHANGED <<args, netVars, nonce, bsize, idx, batch_end, tx_hashes,
                     manifest, file, fileValid>>
  BY DEF BatchDone
<1>2. TypeOK' /\ LoopBounds'
  BY <1>1 DEF IInv, TypeOK, LoopBounds, netVars, args
<1>3. QED
  BY <1>1, <1>2, NonceFrame DEF IInv
\* The item a phase signs at a send of its loop is an item of the pool.
LEMMA SignedItem ==
    ASSUME IInv, idx <= batch_end
    PROVE  /\ pc = "fund_send" => FundItem \in Items
           /\ pc = "deploy_send" => DeployItem \in Items /\ idx \in Salts
<1>1. idx \in Nat /\ idx >= 1 /\ batch_end \in Nat
  BY DEF IInv, TypeOK, LoopBounds
<1>2. pc = "fund_send" => idx <= NumAux
  BY <1>1, DeepAssumption, SMT DEF IInv, LoopBounds
<1>3. pc = "deploy_send" => idx <= NumContracts
  BY <1>1, DeepAssumption, SMT DEF IInv, LoopBounds
<1>4. pc = "deploy_send" => idx \in Salts
  BY <1>1, <1>3, DeepAssumption, SMT DEF Salts
<1>5. QED
  BY <1>1, <1>2, <1>3, <1>4, SendItems DEF FundItem, DeployItem

\* A transaction joins the pool at the admissible local nonce: the pool
\* stays gapless and typed.
LEMMA PoolAddStep ==
    ASSUME IInv, NEW item \in Items, Admissible(nonce), AddToPool(nonce, item),
           UNCHANGED chainNonce
    PROVE  /\ pool' \in SUBSET Nat /\ txOf' \in [pool' -> Items]
           /\ NoNonceGap'
           /\ chainNonce'..nonce \subseteq pool'
<1>1. pool' = pool \cup {nonce}
      /\ txOf' = [m \in pool' |-> IF m = nonce THEN item ELSE txOf[m]]
  BY DEF AddToPool
<1>2. pool' \in SUBSET Nat /\ txOf' \in [pool' -> Items]
  BY <1>1 DEF IInv, TypeOK
<1>3. NoNonceGap' /\ chainNonce'..nonce \subseteq pool'
  BY <1>1, AddAdmissible DEF IInv, NoNonceGap
<1>4. QED
  BY <1>2, <1>3

LEMMA SendAcceptedStep ==
    ASSUME IInv, NEW send, NEW item \in Items, SendAccepted(send, item),
           manifest' \in Seq(Salts)
    PROVE  IInv'
<1>1. /\ pc = send /\ idx <= batch_end /\ Admissible(nonce)
      /\ AddToPool(nonce, item)
      /\ tx_hashes' = Append(tx_hashes, nonce)
      /\ nonce' = nonce + 1 /\ idx' = idx + 1
      /\ UNCHANGED <<args, chainNonce, code, funded, pc, bsize, batch_end,
                     file, fileValid>>
  BY DEF SendAccepted
<1>2. /\ pool' \in SUBSET Nat /\ txOf' \in [pool' -> Items] /\ NoNonceGap'
      /\ chainNonce'..nonce \subseteq pool'
  BY <1>1, PoolAddStep
<1>3. tx_hashes' \in Seq(Nat)
  BY <1>1, AppendProperties DEF IInv, TypeOK
<1>4. nonce' \in Nat /\ idx' \in Nat /\ idx' >= 1 /\ nonce' - 1 = nonce
  BY <1>1, SMT DEF IInv, TypeOK, LoopBounds
<1>5. TypeOK'
  BY <1>1, <1>2, <1>3, <1>4 DEF IInv, TypeOK, args
<1>6. LoopBounds'
  BY <1>1, <1>4 DEF IInv, LoopBounds
<1>7. NonceBelowPool'
  BY <1>2, <1>4 DEF NonceBelowPool
<1>8. QED
  BY <1>2, <1>5, <1>6, <1>7 DEF IInv

LEMMA SendLostReplyStep ==
    ASSUME IInv, NEW send, NEW item \in Items, SendLostReply(send, item)
    PROVE  IInv'
<1>1. /\ pc = send /\ idx <= batch_end /\ Admissible(nonce)
      /\ AddToPool(nonce, item) /\ idx' = idx + 1
      /\ UNCHANGED <<args, chainNonce, code, funded, pc, nonce, bsize,
                     batch_end, tx_hashes, manifest, file, fileValid>>
  BY DEF SendLostReply
<1>2. /\ pool' \in SUBSET Nat /\ txOf' \in [pool' -> Items] /\ NoNonceGap'
      /\ chainNonce'..nonce \subseteq pool'
  BY <1>1, PoolAddStep
<1>3. idx' \in Nat /\ idx' >= 1
  BY <1>1, SMT DEF IInv, TypeOK, LoopBounds
<1>4. TypeOK' /\ LoopBounds'
  BY <1>1, <1>2, <1>3 DEF IInv, TypeOK, LoopBounds, args
<1>5. NonceBelowPool'
  <2>1. chainNonce'..(nonce' - 1) \subseteq chainNonce'..nonce
    BY <1>1, SMT DEF IInv, TypeOK
  <2>2. QED
    BY <1>2, <2>1 DEF NonceBelowPool
<1>6. QED
  BY <1>2, <1>4, <1>5 DEF IInv
\* Including the lowest pending transaction keeps the pool gapless and the
\* local nonce within it, and credits only an auxiliary account or a salt.
LEMMA MineStep ==
    ASSUME IInv, Mine
    PROVE  IInv'
<1>1. /\ chainNonce \in pool /\ chainNonce' = chainNonce + 1
      /\ pool' = pool \ {chainNonce} /\ txOf' = [m \in pool' |-> txOf[m]]
      /\ UNCHANGED <<args, pc, nonce, bsize, idx, batch_end, tx_hashes,
                     manifest, file, fileValid>>
  BY DEF Mine, MineSucceeded, MineReverted, IncludeNext
<1>2. txOf[chainNonce] \in Items
  BY <1>1 DEF IInv, TypeOK
<1>3. code' \in SUBSET Salts /\ funded' \in SUBSET Aux
  <2>1. CASE MineSucceeded
    <3>1. /\ funded' = IF txOf[chainNonce].kind = "fund"
                       THEN funded \cup {txOf[chainNonce].aux} ELSE funded
          /\ code' = IF txOf[chainNonce].kind = "deploy"
                     THEN code \cup {txOf[chainNonce].salt} ELSE code
      BY <2>1 DEF MineSucceeded
    <3>2. QED
      BY <1>2, <3>1, ItemFields DEF IInv, TypeOK
  <2>4. CASE MineReverted
    BY <2>4 DEF MineReverted, IInv, TypeOK
  <2>5. QED
    BY <2>1, <2>4 DEF Mine
<1>4. chainNonce' \in Nat /\ pool' \in SUBSET Nat /\ txOf' \in [pool' -> Items]
  BY <1>1, SMT DEF IInv, TypeOK
<1>5. TypeOK' /\ LoopBounds'
  BY <1>1, <1>3, <1>4 DEF IInv, TypeOK, LoopBounds, args
<1>6. NoNonceGap' /\ NonceBelowPool'
  BY <1>1, SMT DEF IInv, TypeOK, NoNonceGap, NonceBelowPool
<1>7. QED
  BY <1>5, <1>6 DEF IInv
-----------------------------------------------------------------------------
LEMMA IInvStep == IInv /\ [Next]_vars => IInv'
<1> SUFFICES ASSUME IInv, [Next]_vars PROVE IInv'
  OBVIOUS
<1>1. CASE Start
  <2>1. /\ nonce' = chainNonce /\ pc' \in {"deploy_plan", "fund_plan"}
        /\ UNCHANGED <<args, netVars, bsize, idx, batch_end, tx_hashes,
                       manifest, file, fileValid>>
    BY <1>1 DEF Start
  <2>2. TypeOK' /\ LoopBounds'
    BY <2>1 DEF IInv, TypeOK, LoopBounds, netVars, args
  <2>3. NoNonceGap' /\ NonceBelowPool'
    BY <2>1, SMT DEF IInv, TypeOK, NoNonceGap, NonceBelowPool, netVars
  <2>4. QED
    BY <2>2, <2>3 DEF IInv
<1>2. CASE FundPlan \/ DeployPlan
  <2>1. /\ \E L \in BlockGasLimits : bsize' \in {FundingBatchSize(L),
                                                DeployBatchSize(L)}
        /\ idx' = 1 /\ pc' \in {"fund_batch", "deploy_batch"}
        /\ UNCHANGED <<args, netVars, nonce, batch_end, tx_hashes, manifest,
                       file, fileValid>>
    BY <1>2 DEF FundPlan, DeployPlan
  <2>2. bsize' \in Nat \ {0}
    BY <2>1, BatchSizesPositive
  <2>3. TypeOK' /\ LoopBounds'
    BY <2>1, <2>2 DEF IInv, TypeOK, LoopBounds, netVars, args
  <2>4. QED
    BY <2>1, <2>3, NonceFrame DEF IInv
<1>3. CASE SkipDeploy
  <2>1. /\ manifest' = manifest \o [i \in 1..NumContracts |-> i]
        /\ pc' = "save"
        /\ UNCHANGED <<args, netVars, nonce, bsize, idx, batch_end, tx_hashes,
                       file, fileValid>>
    BY <1>3 DEF SkipDeploy
  <2>2. manifest' \in Seq(Salts)
    BY <2>1, SkipManifestType DEF IInv, TypeOK
  <2>3. TypeOK' /\ LoopBounds'
    BY <2>1, <2>2 DEF IInv, TypeOK, LoopBounds, netVars, args
  <2>4. QED
    BY <2>1, <2>3, NonceFrame DEF IInv
<1>4. CASE ArgsRejected \/ SaveStubs \/ Kill
  <2>1. /\ pc' \in {"rejected", "exit", "killed"}
        /\ UNCHANGED <<args, netVars, nonce, bsize, idx, batch_end, tx_hashes,
                       manifest, file, fileValid>>
    <3>1. CASE ArgsRejected
      BY <3>1 DEF ArgsRejected
    <3>2. CASE SaveStubs
      BY <3>2 DEF SaveStubs
    <3>3. CASE Kill
      BY <3>3 DEF Kill
    <3>4. QED
      BY <1>4, <3>1, <3>2, <3>3
  <2>2. TypeOK' /\ LoopBounds'
    BY <2>1 DEF IInv, TypeOK, LoopBounds, netVars, args
  <2>3. QED
    BY <2>1, <2>2, NonceFrame DEF IInv
<1>17. CASE SaveOpen \/ SaveDump
  <2>1. /\ pc' \in {"saving", "save_stubs"}
        /\ file' \in {<<>>, manifest} /\ fileValid' \in BOOLEAN
        /\ UNCHANGED <<args, netVars, nonce, bsize, idx, batch_end, tx_hashes,
                       manifest>>
    <3>1. CASE SaveOpen
      BY <3>1 DEF SaveOpen
    <3>2. CASE SaveDump
      BY <3>2 DEF SaveDump
    <3>3. QED
      BY <1>17, <3>1, <3>2
  <2>2. <<>> \in Seq(Salts)
    OBVIOUS
  <2>3. TypeOK' /\ LoopBounds'
    BY <2>1, <2>2 DEF IInv, TypeOK, LoopBounds, netVars, args
  <2>4. QED
    BY <2>1, <2>3, NonceFrame DEF IInv
<1>5. CASE FundBatch \/ DeployBatch
  BY <1>5, BatchHeadStep DEF FundBatch, DeployBatch, SendLoops
<1>6. CASE FundPhaseEnd \/ DeployPhaseEnd
  BY <1>6, PhaseEndStep DEF FundPhaseEnd, DeployPhaseEnd
<1>7. CASE FundSendError \/ DeploySendError
  BY <1>7, SendErrorStep DEF FundSendError, DeploySendError
<1>8. CASE FundAwait \/ DeployAwait
  BY <1>8, AwaitStep DEF FundAwait, DeployAwait
<1>9. CASE FundBatchDone \/ DeployBatchDone
  BY <1>9, BatchDoneStep DEF FundBatchDone, DeployBatchDone
<1>10. CASE FundSendAccepted
  <2>1. pc = "fund_send" /\ idx <= batch_end /\ UNCHANGED manifest
    BY <1>10 DEF FundSendAccepted, SendAccepted
  <2>2. FundItem \in Items
    BY <2>1, SignedItem
  <2>3. QED
    BY <1>10, <2>1, <2>2, SendAcceptedStep DEF FundSendAccepted, IInv, TypeOK
<1>11. CASE DeploySendAccepted
  <2>1. /\ pc = "deploy_send" /\ idx <= batch_end
        /\ manifest' = Append(manifest, idx)
    BY <1>11 DEF DeploySendAccepted, SendAccepted
  <2>2. DeployItem \in Items /\ idx \in Salts
    BY <2>1, SignedItem
  <2>3. manifest' \in Seq(Salts)
    BY <2>1, <2>2, AppendProperties DEF IInv, TypeOK
  <2>4. QED
    BY <1>11, <2>2, <2>3, SendAcceptedStep DEF DeploySendAccepted
<1>12. CASE FundSendLostReply
  <2>1. pc = "fund_send" /\ idx <= batch_end
    BY <1>12 DEF FundSendLostReply, SendLostReply
  <2>2. QED
    BY <1>12, <2>1, SignedItem, SendLostReplyStep DEF FundSendLostReply
<1>16. CASE DeploySendLostReply
  <2>1. pc = "deploy_send" /\ idx <= batch_end
    BY <1>16 DEF DeploySendLostReply, SendLostReply
  <2>2. QED
    BY <1>16, <2>1, SignedItem, SendLostReplyStep DEF DeploySendLostReply
<1>13. CASE Mine
  BY <1>13, MineStep
<1>14. CASE UNCHANGED vars
  BY <1>14 DEF vars, netVars, args, IInv, TypeOK, LoopBounds, NoNonceGap,
     NonceBelowPool
<1>15. QED
  BY <1>1, <1>2, <1>3, <1>4, <1>5, <1>6, <1>7, <1>8, <1>9, <1>10, <1>11,
     <1>12, <1>13, <1>14, <1>16, <1>17 DEF Next, Step
\* The strengthened invariant holds in every reachable state.
THEOREM IInvInvariant == Spec => []IInv
<1>1. Init => IInv
  BY IInvInit
<1>2. IInv /\ [Next]_vars => IInv'
  BY IInvStep
<1>3. QED
  BY <1>1, <1>2, PTL DEF Spec

(***************************************************************************)
(* TypeOK, which the MCDeepBranches run checks, holds for every constant:  *)
(* the pool holds items of the phase's lists, the manifest and the output  *)
(* file list salts of the data file, and every batch size main computes    *)
(* from a block gas limit is positive.                                     *)
(***************************************************************************)
THEOREM TypeCorrect == Spec => []TypeOK
<1>1. IInv => TypeOK
  BY DEF IInv
<1>2. QED
  BY <1>1, IInvInvariant, PTL

(***************************************************************************)
(* NoNonceGap, which the MCDeepBranches run checks, holds for every        *)
(* constant: although main signs from a local nonce read once from the     *)
(* mined count, and a lost reply or a raised send leaves it behind, the    *)
(* node refuses every stale nonce, so no pending transaction of the        *)
(* account ever waits behind a missing nonce.                              *)
(***************************************************************************)
THEOREM NoNonceGapHolds == Spec => []NoNonceGap
<1>1. IInv => NoNonceGap
  BY DEF IInv
<1>2. QED
  BY <1>1, IInvInvariant, PTL

=============================================================================
