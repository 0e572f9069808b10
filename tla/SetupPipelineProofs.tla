------------------------ MODULE SetupPipelineProofs ------------------------
(***************************************************************************)
(* Proofs about the three setup scripts, for every list of initcode sizes, *)
(* every set of --size choices, every --count and every number of runs.    *)
(*                                                                         *)
(* SetupInv (module SetupPipeline) is inductive: a setup script records an *)
(* entry only for a contract it has just created at a fresh address, with  *)
(* the key of the size that contract was built for, and deploy_contracts  *)
(* changes nothing of a contract but a factory's counter.  StubsFaithful   *)
(* follows.  The proofs never evaluate a key: that the key a script writes *)
(* is the key main looks up (LookupFindsFactory) depends on what str()     *)
(* prints, which only TLC computes.                                        *)
(***************************************************************************)
EXTENDS SetupPipeline, SequenceTheorems, TLAPS

\* d[k] = v on a dict in insertion order: the dict stays a sequence of
\* entries, and its only new entry is r = [key |-> k, val |-> v].
LEMMA PutProps ==
    ASSUME NEW S, NEW d \in Seq(S), NEW k, NEW v,
           NEW r \in S, r = [key |-> k, val |-> v]
    PROVE  /\ Put(d, k, v) \in Seq(S)
           /\ ToSet(Put(d, k, v)) \subseteq ToSet(d) \cup {r}
<1>1. CASE Slot(d, k) = 0
  <2>1. Put(d, k, v) = Append(d, r)
    BY <1>1 DEF Put
  <2>2. /\ Append(d, r) \in Seq(S)
        /\ Len(Append(d, r)) = Len(d) + 1
        /\ \A n \in 1..Len(d) : Append(d, r)[n] = d[n]
        /\ Append(d, r)[Len(d) + 1] = r
    BY AppendProperties
  <2>3. Len(d) \in Nat /\ DOMAIN Append(d, r) = 1..(Len(d) + 1)
    BY <2>2, LenProperties
  <2>4. ToSet(Append(d, r)) \subseteq ToSet(d) \cup {r}
    <3> SUFFICES ASSUME NEW n \in 1..(Len(d) + 1)
                 PROVE  Append(d, r)[n] \in ToSet(d) \cup {r}
      BY <2>3 DEF ToSet
    <3>1. CASE n = Len(d) + 1
      BY <2>2, <3>1
    <3>2. CASE n \in 1..Len(d)
      BY <2>2, <3>2, LenProperties DEF ToSet
    <3>3. QED
      BY <2>3, <3>1, <3>2, SMT
  <2>5. QED
    BY <2>1, <2>2, <2>4
<1>2. CASE Slot(d, k) # 0
  <2>1. \E j : Put(d, k, v) = [d EXCEPT ![j] = r]
    BY <1>2 DEF Put, ReplaceAt
  <2>2. PICK j : Put(d, k, v) = [d EXCEPT ![j] = r]
    BY <2>1
  <2>3. Len(d) \in Nat /\ DOMAIN d = 1..Len(d)
        /\ \A n \in 1..Len(d) : d[n] \in S
    BY LenProperties
  <2>4. /\ DOMAIN [d EXCEPT ![j] = r] = 1..Len(d)
        /\ \A n \in 1..Len(d) : [d EXCEPT ![j] = r][n] \in {d[n], r}
    BY <2>3
  <2>5. [d EXCEPT ![j] = r] \in Seq(S)
    <3>1. [d EXCEPT ![j] = r] \in [1..Len(d) -> S]
      BY <2>3, <2>4
    <3>2. QED
      BY <2>3, <3>1
  <2>6. ToSet([d EXCEPT ![j] = r]) \subseteq ToSet(d) \cup {r}
    BY <2>3, <2>4 DEF ToSet
  <2>7. QED
    BY <2>2, <2>5, <2>6
<1>3. QED
  BY <1>1, <1>2
\* What a step must leave of the chain for recorded entries to stay
\* recorded: no contract disappears or changes kind, an initcode contract
\* keeps its size and a factory its initcode address.
KeepsRecords ==
    /\ DOMAIN acct \subseteq DOMAIN acct'
    /\ \A a \in DOMAIN acct :
          /\ acct'[a].kind = acct[a].kind
          /\ acct[a].kind = "initcode" => acct'[a].size = acct[a].size
          /\ acct[a].kind = "factory" => acct'[a].initcode = acct[a].initcode

\* A step that keeps the chain's contracts keeps every recorded entry.
LEMMA RecordsKept ==
    ASSUME KeepsRecords
    PROVE  \A e : /\ InitcodeRecorded(e) => InitcodeRecorded(e)'
                  /\ FactoryRecorded(e) => FactoryRecorded(e)'
<1> SUFFICES ASSUME NEW e
             PROVE  /\ InitcodeRecorded(e) => InitcodeRecorded(e)'
                    /\ FactoryRecorded(e) => FactoryRecorded(e)'
  OBVIOUS
<1>1. InitcodeRecorded(e) => InitcodeRecorded(e)'
  BY DEF KeepsRecords, InitcodeRecorded
<1>2. FactoryRecorded(e) => FactoryRecorded(e)'
  <2> SUFFICES ASSUME FactoryRecorded(e) PROVE FactoryRecorded(e)'
    OBVIOUS
  <2>1. e.val \in DOMAIN acct /\ acct[e.val].kind = "factory"
    BY DEF FactoryRecorded, IsFactory
  <2>2. acct'[e.val].initcode = acct[e.val].initcode
    BY <2>1 DEF KeepsRecords
  <2>3. IsFactory(e.val)'
    BY <2>1 DEF KeepsRecords, IsFactory
  <2>4. QED
    BY <2>2, <2>3 DEF FactoryRecorded, KeepsRecords
<1>3. QED
  BY <1>1, <1>2

\* A step that leaves the chain alone keeps its contracts.
LEMMA ChainUnchanged ==
    ASSUME ChainInv, UNCHANGED <<acct, nextAddr>>
    PROVE  ChainInv' /\ KeepsRecords
BY DEF ChainInv, KeepsRecords

\* A creation at nextAddr of an initcode contract or of a factory record
\* keeps the chain consistent and keeps its contracts.
LEMMA CreateKeeps ==
    ASSUME ChainInv, NEW c,
           acct' = Create(nextAddr, c), nextAddr' = nextAddr + 1,
           \/ c.kind = "initcode"
           \/ c = [kind |-> "factory", initcode |-> c.initcode,
                   counter |-> c.counter]
    PROVE  /\ ChainInv'
           /\ KeepsRecords
           /\ nextAddr \in DOMAIN acct'
           /\ acct'[nextAddr] = c
<1>1. nextAddr \notin DOMAIN acct /\ nextAddr \in Nat
  BY DEF ChainInv
<1>2. /\ DOMAIN acct' = DOMAIN acct \cup {nextAddr}
      /\ acct'[nextAddr] = c
      /\ \A b \in DOMAIN acct : acct'[b] = acct[b]
  <2>1. /\ DOMAIN Create(nextAddr, c) = DOMAIN acct \cup {nextAddr}
        /\ Create(nextAddr, c)[nextAddr] = c
        /\ \A b \in DOMAIN acct : Create(nextAddr, c)[b] = acct[b]
    BY <1>1 DEF Create
  <2>2. QED
    BY <2>1
<1>3. (\A a \in DOMAIN acct : a \in Nat /\ a < nextAddr)'
  BY <1>1, <1>2 DEF ChainInv
<1>4. ChainInv'
  BY <1>1, <1>2, <1>3 DEF ChainInv
<1>5. QED
  BY <1>2, <1>4 DEF KeepsRecords

\* The initial state: an empty chain, no dict, no file.
LEMMA SetupInvInit ==
    Init => SetupInv
BY DEF Init, SetupInv, ChainInv, DictsTyped, DictsRecorded, NoFile, ToSet

\* The steps that only move the loop or start a script.
LEMMA StartInitcodeStep ==
    ASSUME SetupInv, StartInitcode PROVE SetupInv' /\ KeepsRecords
<1>1. ChainInv' /\ KeepsRecords
  BY ChainUnchanged DEF SetupInv, StartInitcode
<1>2. ToSet(results') = {} /\ results' \in Seq(InitEntries)
  BY DEF StartInitcode, ToSet
<1>3. QED
  BY <1>1, <1>2, RecordsKept
     DEF SetupInv, StartInitcode, DictsTyped, DictsRecorded

LEMMA InitcodeFailedStep ==
    ASSUME SetupInv, InitcodeFailed PROVE SetupInv' /\ KeepsRecords
<1>1. ChainInv'
  BY DEF SetupInv, ChainInv, InitcodeFailed
<1>2. KeepsRecords
  BY DEF InitcodeFailed, KeepsRecords
<1>3. QED
  BY <1>1, <1>2, RecordsKept
     DEF SetupInv, InitcodeFailed, DictsTyped, DictsRecorded

LEMMA InitcodeSaveStep ==
    ASSUME SetupInv, InitcodeSave PROVE SetupInv' /\ KeepsRecords
<1>1. ChainInv' /\ KeepsRecords
  BY ChainUnchanged DEF SetupInv, InitcodeSave
<1>2. ToSet(initFile') \subseteq ToSet(results) \cup ToSet(initFile)
      /\ initFile' \in Seq(InitEntries)
  BY DEF InitcodeSave, SetupInv, DictsTyped
<1>3. QED
  BY <1>1, <1>2, RecordsKept
     DEF SetupInv, InitcodeSave, DictsTyped, DictsRecorded
\* The size at the loop index is one of the run's sizes.
LEMMA SizeAtIndex ==
    ASSUME NEW n \in 1..Len(InitcodeSizes)
    PROVE  InitcodeSizes[n] \in ToSet(InitcodeSizes)
BY SetupAssumption DEF ToSet

\* A status-1 receipt: the new initcode contract is recorded under its
\* size's key.
LEMMA InitcodeDeployedStep ==
    ASSUME SetupInv, InitcodeDeployed PROVE SetupInv' /\ KeepsRecords
<1>1. i \in 1..Len(InitcodeSizes)
  BY DEF SetupInv, InitcodeDeployed
<1>2. PICK x : x = InitcodeSizes[i]
  OBVIOUS
<1>3. x \in ToSet(InitcodeSizes)
  BY <1>1, <1>2, SizeAtIndex
<1>4. /\ acct' = Create(nextAddr, Initcode(x))
      /\ nextAddr' = nextAddr + 1
      /\ Initcode(x).kind = "initcode"
  BY <1>2 DEF InitcodeDeployed, Initcode
<1>5. /\ ChainInv'
      /\ KeepsRecords
      /\ nextAddr \in DOMAIN acct'
      /\ acct'[nextAddr] = Initcode(x)
  BY <1>4, CreateKeeps DEF SetupInv
<1>6. PICK r : r = [key |-> InitcodeKey(x), val |-> [size |-> x, addr |-> nextAddr]]
  OBVIOUS
<1>7. r \in InitEntries
  BY <1>3, <1>6 DEF InitEntries, SetupInv, ChainInv
<1>8. results' = Put(results, InitcodeKey(x), [size |-> x, addr |-> nextAddr])
  BY <1>2 DEF InitcodeDeployed
<1>9. /\ results' \in Seq(InitEntries)
      /\ ToSet(results') \subseteq ToSet(results) \cup {r}
  BY <1>6, <1>7, <1>8, PutProps DEF SetupInv, DictsTyped
<1>10. InitcodeRecorded(r)'
  BY <1>5, <1>6 DEF InitcodeRecorded, Initcode
<1>11. DictsTyped'
  BY <1>9 DEF SetupInv, DictsTyped, InitcodeDeployed
<1>12. DictsRecorded'
  BY <1>5, <1>9, <1>10, RecordsKept
     DEF SetupInv, DictsRecorded, InitcodeDeployed
<1>13. QED
  BY <1>5, <1>11, <1>12 DEF SetupInv, InitcodeDeployed

\* A kill: the creation may still be mined, the results are lost.
LEMMA InitcodeDiesStep ==
    ASSUME SetupInv, InitcodeDies PROVE SetupInv' /\ KeepsRecords
<1>1. ChainInv' /\ KeepsRecords
  <2>1. CASE UNCHANGED <<acct, nextAddr>>
    BY <2>1, ChainUnchanged DEF SetupInv
  <2>2. CASE /\ i <= Len(InitcodeSizes)
             /\ acct' = Create(nextAddr, Initcode(InitcodeSizes[i]))
             /\ nextAddr' = nextAddr + 1
    <3>1. Initcode(InitcodeSizes[i]).kind = "initcode"
      BY DEF Initcode
    <3>2. QED
      BY <2>2, <3>1, CreateKeeps DEF SetupInv
  <2>3. QED
    BY <2>1, <2>2 DEF InitcodeDies
<1>2. QED
  BY <1>1, RecordsKept DEF SetupInv, InitcodeDies, DictsTyped, DictsRecorded
LEMMA StartFactoryStep ==
    ASSUME SetupInv, StartFactory PROVE SetupInv' /\ KeepsRecords
<1>1. ChainInv' /\ KeepsRecords
  BY ChainUnchanged DEF SetupInv, StartFactory
<1>2. ToSet(stubs') = {} /\ stubs' \in Seq(StubEntries)
  BY DEF StartFactory, ToSet
<1>3. QED
  BY <1>1, <1>2, RecordsKept
     DEF SetupInv, StartFactory, DictsTyped, DictsRecorded

\* A status-1 receipt: the new factory copies the initcode address of an
\* entry of initcode_addresses.json, which is recorded, and is recorded
\* under that entry's key.
LEMMA FactoryDeployedStep ==
    ASSUME SetupInv, FactoryDeployed PROVE SetupInv' /\ KeepsRecords
<1>1. i \in 1..Len(initFile) /\ initFile \in Seq(InitEntries)
  BY DEF SetupInv, DictsTyped, FactoryDeployed
<1>2. PICK e0 : e0 = initFile[i]
  OBVIOUS
<1>3. e0 \in ToSet(initFile) /\ e0 \in InitEntries
  BY <1>1, <1>2 DEF ToSet
<1>4. InitcodeRecorded(e0)
  BY <1>3 DEF SetupInv, DictsRecorded
<1>5. PICK ic : ic = e0.val.addr
  OBVIOUS
<1>6. /\ ic \in DOMAIN acct
      /\ acct[ic].kind = "initcode"
      /\ e0.key = InitcodeKey(acct[ic].size)
  BY <1>4, <1>5 DEF InitcodeRecorded
<1>7. /\ acct' = Create(nextAddr, Factory(ic))
      /\ nextAddr' = nextAddr + 1
      /\ Factory(ic) = [kind |-> "factory", initcode |-> Factory(ic).initcode,
                        counter |-> Factory(ic).counter]
  BY <1>2, <1>5 DEF FactoryDeployed, Factory
<1>8. /\ ChainInv'
      /\ KeepsRecords
      /\ nextAddr \in DOMAIN acct'
      /\ acct'[nextAddr] = Factory(ic)
  BY <1>7, CreateKeeps DEF SetupInv
<1>9. /\ ic \in DOMAIN acct'
      /\ acct'[ic].kind = "initcode"
      /\ acct'[ic].size = acct[ic].size
  BY <1>6, <1>8 DEF KeepsRecords
<1>10. PICK r : r = [key |-> StubKey(e0.key), val |-> nextAddr]
  OBVIOUS
<1>11. r \in StubEntries
  <2>1. PICK x \in ToSet(InitcodeSizes) : e0.key = InitcodeKey(x)
    BY <1>3 DEF InitEntries
  <2>2. nextAddr \in Nat
    BY DEF SetupInv, ChainInv
  <2>3. QED
    BY <1>10, <2>1, <2>2 DEF StubEntries
<1>12. stubs' = Put(stubs, StubKey(e0.key), nextAddr)
  BY <1>2 DEF FactoryDeployed
<1>13. /\ stubs' \in Seq(StubEntries)
       /\ ToSet(stubs') \subseteq ToSet(stubs) \cup {r}
  BY <1>10, <1>11, <1>12, PutProps DEF SetupInv, DictsTyped
<1>14. FactoryRecorded(r)'
  <2>1. /\ r.val \in DOMAIN acct'
        /\ acct'[r.val].kind = "factory"
        /\ acct'[r.val].initcode = ic
    BY <1>8, <1>10 DEF Factory
  <2>2. QED
    BY <1>6, <1>9, <1>10, <2>1 DEF FactoryRecorded, IsFactory
<1>15. DictsTyped'
  BY <1>13 DEF SetupInv, DictsTyped, FactoryDeployed
<1>16. DictsRecorded'
  BY <1>8, <1>13, <1>14, RecordsKept
     DEF SetupInv, DictsRecorded, FactoryDeployed
<1>17. QED
  BY <1>8, <1>15, <1>16 DEF SetupInv, FactoryDeployed

LEMMA FactoryFailedStep ==
    ASSUME SetupInv, FactoryFailed PROVE SetupInv' /\ KeepsRecords
<1>1. ChainInv'
  BY DEF SetupInv, ChainInv, FactoryFailed
<1>2. KeepsRecords
  BY DEF FactoryFailed, KeepsRecords
<1>3. QED
  BY <1>1, <1>2, RecordsKept
     DEF SetupInv, FactoryFailed, DictsTyped, DictsRecorded

\* A kill: the factory's creation may still be mined, the stubs are lost.
LEMMA FactoryDiesStep ==
    ASSUME SetupInv, FactoryDies PROVE SetupInv' /\ KeepsRecords
<1>1. ChainInv' /\ KeepsRecords
  <2>1. CASE UNCHANGED <<acct, nextAddr>>
    BY <2>1, ChainUnchanged DEF SetupInv
  <2>2. CASE /\ i <= Len(initFile)
             /\ acct' = Create(nextAddr, Factory(initFile[i].val.addr))
             /\ nextAddr' = nextAddr + 1
    <3>1. PICK f : f = Factory(initFile[i].val.addr)
      OBVIOUS
    <3>2. f = [kind |-> "factory", initcode |-> f.initcode, counter |-> f.counter]
      BY <3>1 DEF Factory
    <3>3. QED
      BY <2>2, <3>1, <3>2, CreateKeeps DEF SetupInv
  <2>3. QED
    BY <2>1, <2>2 DEF FactoryDies
<1>2. QED
  BY <1>1, RecordsKept DEF SetupInv, FactoryDies, DictsTyped, DictsRecorded

LEMMA FactorySaveStep ==
    ASSUME SetupInv, FactorySave PROVE SetupInv' /\ KeepsRecords
<1>1. ChainInv' /\ KeepsRecords
  BY ChainUnchanged DEF SetupInv, FactorySave
<1>2. ToSet(stubsFile') \subseteq ToSet(stubs) \cup ToSet(stubsFile)
      /\ stubsFile' \in Seq(StubEntries)
  BY DEF FactorySave, SetupInv, DictsTyped
<1>3. QED
  BY <1>1, <1>2, RecordsKept
     DEF SetupInv, FactorySave, DictsTyped, DictsRecorded
\* Choosing a factory touches neither the chain nor a dict nor a file.
LEMMA StartContractsStep ==
    ASSUME SetupInv, NEW x, StartContracts(x) PROVE SetupInv' /\ KeepsRecords
<1>1. ChainInv' /\ KeepsRecords
  BY ChainUnchanged DEF SetupInv, StartContracts
<1>2. QED
  BY <1>1, RecordsKept
     DEF SetupInv, StartContracts, DictsTyped, DictsRecorded

\* deploy_deep_branches' list replaces stubs.json: the dict of factories is
\* gone, so nothing it held can be unfaithful; the chain is not touched.
LEMMA DeepBranchesSaveStubsStep ==
    ASSUME SetupInv, DeepBranchesSaveStubs PROVE SetupInv' /\ KeepsRecords
<1>1. ChainInv' /\ KeepsRecords
  BY ChainUnchanged DEF SetupInv, DeepBranchesSaveStubs
<1>2. stubsFile' = << >>
  BY DEF DeepBranchesSaveStubs, NoFile
<1>3. ToSet(stubsFile') = {} /\ stubsFile' \in Seq(StubEntries)
  BY <1>2 DEF ToSet
<1>4. QED
  BY <1>1, <1>3, RecordsKept
     DEF SetupInv, DeepBranchesSaveStubs, DictsTyped, DictsRecorded

\* deploy_contracts raises a factory's counter and changes nothing else.
LEMMA ContractsDeployStep ==
    ASSUME SetupInv, ContractsDeploy PROVE SetupInv' /\ KeepsRecords
<1>1. ChainInv' /\ KeepsRecords
  <2>1. CASE ~IsFactory(factory)
    BY <2>1, ChainUnchanged DEF SetupInv, ContractsDeploy
  <2>2. CASE IsFactory(factory)
    <3>1. PICK c : acct' = [acct EXCEPT ![factory].counter = c]
      BY <2>2 DEF ContractsDeploy
    <3>2. PICK f : f = factory
      OBVIOUS
    <3>3. acct[f] = [kind |-> "factory", initcode |-> acct[f].initcode,
                     counter |-> acct[f].counter]
      BY <2>2, <3>2 DEF SetupInv, ChainInv, IsFactory
    <3>4. /\ DOMAIN acct' = DOMAIN acct
          /\ \A a \in DOMAIN acct \ {f} : acct'[a] = acct[a]
          /\ acct'[f] = [kind |-> "factory", initcode |-> acct[f].initcode,
                         counter |-> c]
      BY <2>2, <3>1, <3>2, <3>3 DEF IsFactory
    <3>5. ChainInv'
      BY <3>4, <2>2, <3>2 DEF SetupInv, ChainInv, ContractsDeploy, IsFactory
    <3>6. KeepsRecords
      BY <3>3, <3>4 DEF KeepsRecords
    <3>7. QED
      BY <3>5, <3>6
  <2>3. QED
    BY <2>1, <2>2
<1>2. QED
  BY <1>1, RecordsKept
     DEF SetupInv, ContractsDeploy, DictsTyped, DictsRecorded

\* Every step of the three scripts keeps SetupInv and the chain's contracts.
LEMMA SetupInvStep ==
    SetupInv /\ [Next]_vars => SetupInv' /\ KeepsRecords
<1> SUFFICES ASSUME SetupInv, [Next]_vars PROVE SetupInv' /\ KeepsRecords
  OBVIOUS
<1>1. CASE StartInitcode
  BY <1>1, StartInitcodeStep
<1>2. CASE InitcodeDeployed
  BY <1>2, InitcodeDeployedStep
<1>3. CASE InitcodeFailed
  BY <1>3, InitcodeFailedStep
<1>4. CASE InitcodeDies
  BY <1>4, InitcodeDiesStep
<1>5. CASE InitcodeSave
  BY <1>5, InitcodeSaveStep
<1>6. CASE StartFactory
  BY <1>6, StartFactoryStep
<1>7. CASE FactoryDeployed
  BY <1>7, FactoryDeployedStep
<1>8. CASE FactoryFailed
  BY <1>8, FactoryFailedStep
<1>9. CASE FactoryDies
  BY <1>9, FactoryDiesStep
<1>10. CASE FactorySave
  BY <1>10, FactorySaveStep
<1>11. CASE ContractsMainnet \/ ContractsFromStubs \/ ContractsNotFound
           \/ ContractsListError
  <2>1. PICK x : StartContracts(x)
    BY <1>11 DEF ContractsMainnet, ContractsFromStubs, ContractsNotFound,
                 ContractsListError
  <2>2. QED
    BY <2>1, StartContractsStep
<1>12. CASE ContractsDeploy
  BY <1>12, ContractsDeployStep
<1>13. CASE UNCHANGED vars
  BY <1>13 DEF vars, SetupInv, ChainInv, DictsTyped, DictsRecorded,
                InitcodeRecorded, FactoryRecorded, IsFactory, KeepsRecords
<1>14. CASE DeepBranchesSaveStubs
  BY <1>14, DeepBranchesSaveStubsStep
<1>15. QED
  BY <1>1, <1>2, <1>3, <1>4, <1>5, <1>6, <1>7, <1>8, <1>9, <1>10, <1>11,
     <1>12, <1>13, <1>14 DEF Next

\* SetupInv holds in every state the operator can reach with the three
\* scripts, for every list of sizes, --count and number of runs.
THEOREM SetupInvInvariant == Spec => []SetupInv
<1>1. Init => SetupInv
  BY SetupInvInit
<1>2. SetupInv /\ [Next]_vars => SetupInv'
  BY SetupInvStep
<1>3. QED
  BY <1>1, <1>2, PTL DEF Spec

\* StubsFaithful: every factory stubs.json names exists and copies an
\* initcode contract built for the size its key names, whatever the
\* operator runs, kills or reruns.
THEOREM StubsFaithfulHolds == Spec => []StubsFaithful
<1>1. SetupInv => StubsFaithful
  BY DEF SetupInv, DictsRecorded, FactoryRecorded, StubsFaithful
<1>2. QED
  BY <1>1, SetupInvInvariant, PTL
=============================================================================
