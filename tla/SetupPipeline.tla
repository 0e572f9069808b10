--------------------------- MODULE SetupPipeline ---------------------------
(***************************************************************************)
(* The three extcodesize setup scripts run one after another by an         *)
(* operator, any number of times, against one local chain:                *)
(*                                                                         *)
(*  - deploy_initcode_multi deploys one initcode contract per size and     *)
(*    writes initcode_addresses.json, keyed f"{size_kb}kb" with "." turned *)
(*    into "_";                                                            *)
(*  - deploy_factory_multi reads that file and deploys one CREATE2 factory *)
(*    per entry, copying the entry's initcode address into the factory,   *)
(*    and writes stubs.json, keyed f"bloatnet_factory_{key}";              *)
(*  - deploy_contracts_multi (main, single-size mode) picks the factory    *)
(*    for --size from stubs.json, or from its mainnet table, and runs      *)
(*    deploy_contracts on it.                                              *)
(*                                                                         *)
(* A Python number is a record: its value in tenths and whether it is a    *)
(* float (argparse's type=float) or an int (the CONTRACT_SIZES_KB          *)
(* literals); str() of it is modelled by what it prints.  An address is a  *)
(* number handed out in creation order; 0 stands for the mainnet factory   *)
(* addresses, which hold no code on a local chain.  deploy_contracts       *)
(* itself is module DeployContracts; here one step raises the factory's    *)
(* counter by what a run achieves.  Printing and the getConfig test, whose *)
(* result is only printed, are left out.                                   *)
(***************************************************************************)
EXTENDS Naturals, Sequences, SequencesExt

CONSTANTS
    InitcodeSizes,  \* the sizes deploy_initcode_multi runs over
    SizeChoices,    \* the --size values deploy_contracts_multi may be given
    Count,          \* --count
    MaxRuns         \* how many scripts the operator runs

PyNum == [tenths : Nat, isFloat : BOOLEAN]

ASSUME SetupAssumption ==
    /\ InitcodeSizes \in Seq(PyNum)
    /\ SizeChoices \subseteq [tenths : Nat, isFloat : {TRUE}]
    /\ Count \in Nat \ {0}
    /\ MaxRuns \in Nat

MAX_CONTRACT_SIZE == 24576
MainnetAddr == 0
\* Neither setup script writes an empty dict (both exit instead), so the
\* empty dict stands for a file that is not there.
NoFile == << >>
\* --size before deploy_contracts_multi first runs.
NoSize == [tenths |-> 0, isFloat |-> FALSE]

\* build_initcode: the size of the contracts the initcode makes.
TargetSize(x) == Min({(x.tenths * 1024) \div 10, MAX_CONTRACT_SIZE})

\* str(x), as a sequence of tokens: an int prints its digits, a float with
\* one decimal its integral part, a point and its tenths digit
\* (str(24.0) = "24.0").
PyStr(x) ==
    IF x.isFloat THEN <<ToString(x.tenths \div 10), ".", ToString(x.tenths % 10)>>
                 ELSE <<ToString(x.tenths \div 10)>>

\* deploy_initcode_multi: f"{size_kb}kb".replace(".", "_")
InitcodeKey(x) == ReplaceAll(PyStr(x) \o <<"kb">>, ".", "_")

\* deploy_factory_multi: f"bloatnet_factory_{key}"
StubKey(k) == <<"bloatnet_factory_">> \o k

\* Mutant: --size formatted as the setup scripts format a float.
LookupKeyAsFloat(x) == StubKey(InitcodeKey(x))

\* deploy_contracts_multi: the key looked up for --size.
LookupKey(x) ==
    StubKey(IF x.tenths % 10 = 0 THEN <<ToString(x.tenths \div 10), "kb">>
                                 ELSE InitcodeKey(x))

(***************************************************************************)
(* A Python dict in insertion order: a sequence of [key, val] entries.     *)
(***************************************************************************)
Keys(d) == {e.key : e \in ToSet(d)}
Slot(d, k) == SelectInSeq(d, LAMBDA e : e.key = k)
Get(d, k) == d[Slot(d, k)].val
\* d[k] = v: a new key goes last, an existing one keeps its place.
Put(d, k, v) ==
    IF Slot(d, k) = 0 THEN Append(d, [key |-> k, val |-> v])
                      ELSE ReplaceAt(d, Slot(d, k), [key |-> k, val |-> v])

VARIABLES
    acct,       \* code on chain by address: initcode contracts, factories
    nextAddr,   \* the address the next contract creation gets
    initFile,   \* initcode_addresses.json (key -> [size, addr])
    stubsFile,  \* stubs.json (stub key -> factory address)
    stubsList,  \* ./stubs.json holds deploy_deep_branches' list instead
    pc,         \* "idle", "initcode", "factory" (a setup script's loop),
                \* "contracts" (deploy_contracts_multi, factory chosen),
                \* "not_found" (it exited: no factory for --size)
    i,          \* the running setup script's loop index
    results,    \* deploy_initcode_multi's dict of deployed initcode
    stubs,      \* deploy_factory_multi's dict of deployed factories
    size,       \* --size of the running deploy_contracts_multi
    factory,    \* the factory address deploy_contracts_multi settled on
    runs        \* scripts started so far

vars == <<acct, nextAddr, initFile, stubsFile, stubsList, pc, i, results, stubs,
          size, factory, runs>>

Initcode(x) == [kind |-> "initcode", size |-> x, target |-> TargetSize(x)]
Factory(ic) == [kind |-> "factory", initcode |-> ic, counter |-> 0]
\* send_transaction of a creation: the contract c appears at address a;
\* nothing already on chain is overwritten (acct @@ (a :> c)).
Create(a, c) ==
    [b \in DOMAIN acct \cup {a} |-> IF b \in DOMAIN acct THEN acct[b] ELSE c]

\* A fresh local chain, no file written yet.
Init ==
    /\ acct = << >>
    /\ nextAddr = 1
    /\ initFile = NoFile
    /\ stubsFile = NoFile
    /\ stubsList = FALSE
    /\ pc = "idle"
    /\ i = 1
    /\ results = << >>
    /\ stubs = << >>
    /\ size = NoSize
    /\ factory = MainnetAddr
    /\ runs = 0
Idle == {"idle", "not_found", "list_error"}

-----------------------------------------------------------------------------
(***************************************************************************)
(* deploy_initcode_multi: for each size, deploy_initcode sends the         *)
(* creation transaction and waits for its receipt; a receipt with status 1 *)
(* is recorded under the size's key, any other status is skipped.  A      *)
(* receipt wait that raises (or a kill) ends the script with its results   *)
(* unsaved, whether or not the creation is mined afterwards.  At the end   *)
(* the results are written, unless there are none: sys.exit(1) leaves the  *)
(* file of an earlier run in place.                                        *)
(***************************************************************************)
StartInitcode ==
    /\ pc \in Idle
    /\ runs < MaxRuns
    /\ runs' = runs + 1
    /\ pc' = "initcode"
    /\ i' = 1
    /\ results' = << >>
    /\ UNCHANGED <<stubs, acct, nextAddr, initFile, stubsFile, stubsList, size, factory>>

InitcodeDeployed ==
    /\ pc = "initcode"
    /\ i <= Len(InitcodeSizes)
    /\ LET x == InitcodeSizes[i] IN
       /\ acct' = Create(nextAddr, Initcode(x))
       /\ results' = Put(results, InitcodeKey(x), [size |-> x, addr |-> nextAddr])
    /\ nextAddr' = nextAddr + 1
    /\ i' = i + 1
    /\ UNCHANGED <<stubs, initFile, stubsFile, stubsList, pc, size, factory, runs>>

\* Mutant: a failed creation recorded with the address it would have had.
InitcodeFailedRecorded ==
    /\ pc = "initcode"
    /\ i <= Len(InitcodeSizes)
    /\ results' = Put(results, InitcodeKey(InitcodeSizes[i]),
                      [size |-> InitcodeSizes[i], addr |-> nextAddr])
    /\ nextAddr' = nextAddr + 1
    /\ i' = i + 1
    /\ UNCHANGED <<stubs, acct, initFile, stubsFile, stubsList, pc, size, factory, runs>>

InitcodeFailed ==
    /\ pc = "initcode"
    /\ i <= Len(InitcodeSizes)
    /\ nextAddr' = nextAddr + 1
    /\ i' = i + 1
    /\ UNCHANGED <<stubs, acct, initFile, stubsFile, stubsList, pc, results, size, factory, runs>>

InitcodeDies ==
    /\ pc = "initcode"
    /\ \/ /\ i <= Len(InitcodeSizes)
          /\ acct' = Create(nextAddr, Initcode(InitcodeSizes[i]))
          /\ nextAddr' = nextAddr + 1
       \/ UNCHANGED <<acct, nextAddr>>
    /\ pc' = "idle"
    /\ UNCHANGED <<stubs, initFile, stubsFile, stubsList, i, results, size, factory, runs>>

InitcodeSave ==
    /\ pc = "initcode"
    /\ i > Len(InitcodeSizes)
    /\ initFile' = IF results # NoFile THEN results ELSE initFile
    /\ pc' = "idle"
    /\ UNCHANGED <<stubs, acct, nextAddr, stubsFile, stubsList, i, results, size, factory, runs>>

-----------------------------------------------------------------------------
(***************************************************************************)
(* deploy_factory_multi: exit at once when initcode_addresses.json is      *)
(* missing; else deploy a factory for each entry, in the file's order,     *)
(* whose constructor stores the entry's initcode address, and record it    *)
(* when its receipt has status 1.  The same end as deploy_initcode_multi.  *)
(***************************************************************************)
StartFactory ==
    /\ pc \in Idle
    /\ runs < MaxRuns
    /\ runs' = runs + 1
    /\ IF initFile = NoFile
         THEN pc' = "idle"
         ELSE pc' = "factory"
    /\ i' = 1
    /\ stubs' = << >>
    /\ UNCHANGED <<results, acct, nextAddr, initFile, stubsFile, stubsList, size, factory>>

FactoryDeployed ==
    /\ pc = "factory"
    /\ i <= Len(initFile)
    /\ acct' = Create(nextAddr, Factory(initFile[i].val.addr))
    /\ stubs' = Put(stubs, StubKey(initFile[i].key), nextAddr)
    /\ nextAddr' = nextAddr + 1
    /\ i' = i + 1
    /\ UNCHANGED <<results, initFile, stubsFile, stubsList, pc, size, factory, runs>>

FactoryFailed ==
    /\ pc = "factory"
    /\ i <= Len(initFile)
    /\ nextAddr' = nextAddr + 1
    /\ i' = i + 1
    /\ UNCHANGED <<results, acct, initFile, stubsFile, stubsList, pc, stubs, size, factory, runs>>

FactoryDies ==
    /\ pc = "factory"
    /\ \/ /\ i <= Len(initFile)
          /\ acct' = Create(nextAddr, Factory(initFile[i].val.addr))
          /\ nextAddr' = nextAddr + 1
       \/ UNCHANGED <<acct, nextAddr>>
    /\ pc' = "idle"
    /\ UNCHANGED <<results, initFile, stubsFile, stubsList, i, stubs, size, factory, runs>>

FactorySave ==
    /\ pc = "factory"
    /\ i > Len(initFile)
    /\ stubsFile' = IF stubs # NoFile THEN stubs ELSE stubsFile
    /\ stubsList' = (stubsList /\ stubs = NoFile)
    /\ pc' = "idle"
    /\ UNCHANGED <<results, acct, nextAddr, initFile, i, stubs, size, factory, runs>>
-----------------------------------------------------------------------------
(***************************************************************************)
(* deploy_contracts_multi main, single-size mode (--size and --count       *)
(* given): the factory comes from the mainnet table with                   *)
(* --use-mainnet-factories, else from stubs.json under the key built from *)
(* --size; a missing stubs.json falls back to the mainnet table (every     *)
(* --size choice has an entry there), a missing key exits.                 *)
(***************************************************************************)
StartContracts(x) ==
    /\ pc \in Idle
    /\ runs < MaxRuns
    /\ runs' = runs + 1
    /\ size' = x
    /\ UNCHANGED <<stubs, acct, nextAddr, initFile, stubsFile, stubsList, i, results>>

\* --use-mainnet-factories, or stubs.json missing: the mainnet table.
ContractsMainnet ==
    \E x \in SizeChoices, useMainnet \in BOOLEAN :
        /\ StartContracts(x)
        /\ useMainnet \/ (stubsFile = NoFile /\ ~stubsList)
        /\ factory' = MainnetAddr
        /\ pc' = "contracts"

ContractsFromStubs ==
    \E x \in SizeChoices :
        /\ StartContracts(x)
        /\ stubsFile # NoFile
        /\ LookupKey(x) \in Keys(stubsFile)
        /\ factory' = Get(stubsFile, LookupKey(x))
        /\ pc' = "contracts"

ContractsNotFound ==
    \E x \in SizeChoices :
        /\ StartContracts(x)
        /\ stubsFile # NoFile
        /\ LookupKey(x) \notin Keys(stubsFile)
        /\ pc' = "not_found"
        /\ UNCHANGED factory

\* stubs.json holds a JSON list: json.load returns a list and stubs.get
\* raises AttributeError, ending the script.
ContractsListError ==
    \E x \in SizeChoices :
        /\ StartContracts(x)
        /\ stubsList
        /\ pc' = "list_error"
        /\ UNCHANGED factory

IsFactory(a) == a \in DOMAIN acct /\ acct[a].kind = "factory"

\* deploy_contracts on the chosen address, then verify_contracts and the
\* printout.  A factory's counter rises towards --count (a run may stop
\* short: failures, the abort, a kill); a call of an address without code
\* succeeds and changes nothing.
ContractsDeploy ==
    /\ pc = "contracts"
    /\ IF IsFactory(factory)
         THEN \E c \in acct[factory].counter..Max({acct[factory].counter, Count}) :
                 acct' = [acct EXCEPT ![factory].counter = c]
         ELSE UNCHANGED acct
    /\ pc' = "idle"
    /\ UNCHANGED <<stubs, nextAddr, initFile, stubsFile, stubsList, i, results, size, factory, runs>>

-----------------------------------------------------------------------------
(***************************************************************************)
(* deploy_deep_branches run from the same directory: at its end it writes *)
(* the addresses of its contracts, a JSON list, to ./stubs.json, the      *)
(* default --stubs path of deploy_contracts_multi, replacing the dict of  *)
(* factories.  Its own deployments (module DeepBranches) touch no         *)
(* contract the setup scripts record.                                      *)
(***************************************************************************)
DeepBranchesSaveStubs ==
    /\ pc \in Idle
    /\ runs < MaxRuns
    /\ runs' = runs + 1
    /\ stubsFile' = NoFile
    /\ stubsList' = TRUE
    /\ pc' = "idle"
    /\ UNCHANGED <<acct, nextAddr, initFile, i, results, stubs, size, factory>>

-----------------------------------------------------------------------------
Next ==
    \/ StartInitcode \/ InitcodeDeployed \/ InitcodeFailed \/ InitcodeDies
    \/ InitcodeSave
    \/ StartFactory \/ FactoryDeployed \/ FactoryFailed \/ FactoryDies
    \/ FactorySave
    \/ ContractsMainnet \/ ContractsFromStubs
    \/ ContractsNotFound \/ ContractsListError \/ ContractsDeploy
    \/ DeepBranchesSaveStubs

\* The operator decides which script runs when; nothing is forced.
Spec == Init /\ [][Next]_vars

-----------------------------------------------------------------------------
\* The factory f makes contracts of the size x asks for.
MakesSize(f, x) ==
    /\ IsFactory(f)
    /\ acct[f].initcode \in DOMAIN acct
    /\ acct[acct[f].initcode].kind = "initcode"
    /\ acct[acct[f].initcode].target = TargetSize(x)

StubsFactories == {e.val : e \in ToSet(stubsFile)}

\* deploy_contracts_multi finds, for --size, the factory the setup scripts
\* built for that size and no other: the key deploy_initcode_multi and
\* deploy_factory_multi write for a size is the key main looks up, so it
\* neither exits "Factory not found" while stubs.json holds a factory of
\* that size nor settles on one of another size.
LookupFindsFactory ==
    /\ pc = "not_found" => \A f \in StubsFactories : ~MakesSize(f, size)
    /\ (pc = "contracts" /\ factory \in StubsFactories) => MakesSize(factory, size)

\* Every factory stubs.json names exists on chain and copies an initcode
\* contract that exists and was built for the size its key names:
\* deploy_factory_multi records a factory only after a status-1 receipt and
\* takes its initcode address from initcode_addresses.json, which
\* deploy_initcode_multi fills only from status-1 receipts, across failed
\* deployments, killed scripts and reruns that rewrite one file and not
\* the other.
StubsFaithful ==
    stubsFile # NoFile =>
        \A e \in ToSet(stubsFile) :
            /\ IsFactory(e.val)
            /\ LET ic == acct[e.val].initcode IN
               /\ ic \in DOMAIN acct
               /\ acct[ic].kind = "initcode"
               /\ e.key = StubKey(InitcodeKey(acct[ic].size))
-----------------------------------------------------------------------------
(***************************************************************************)
(* The inductive invariant behind StubsFaithful.                           *)
(***************************************************************************)
\* The entries deploy_initcode_multi and deploy_factory_multi put in their
\* dicts: keys built from the sizes of the run, addresses on the chain.
InitEntries ==
    [key : {InitcodeKey(x) : x \in ToSet(InitcodeSizes)},
     val : [size : ToSet(InitcodeSizes), addr : Nat]]
StubEntries ==
    [key : {StubKey(InitcodeKey(x)) : x \in ToSet(InitcodeSizes)}, val : Nat]

\* An entry of results or initcode_addresses.json names an initcode
\* contract on chain built for the entry's size, under that size's key.
InitcodeRecorded(e) ==
    LET a == e.val.addr IN
    /\ a \in DOMAIN acct
    /\ acct[a].kind = "initcode"
    /\ acct[a].size = e.val.size
    /\ e.key = InitcodeKey(acct[a].size)

\* An entry of stubs or stubs.json names a factory on chain whose initcode
\* contract was built for the size its key names.
FactoryRecorded(e) ==
    /\ IsFactory(e.val)
    /\ LET ic == acct[e.val].initcode IN
       /\ ic \in DOMAIN acct
       /\ acct[ic].kind = "initcode"
       /\ e.key = StubKey(InitcodeKey(acct[ic].size))

\* Every address on chain is below the next one handed out, so a creation
\* never overwrites a contract, and a factory is a factory record, whose
\* fields deploy_contracts only ever changes the counter of.
ChainInv ==
    /\ nextAddr \in Nat
    /\ \A a \in DOMAIN acct : a \in Nat /\ a < nextAddr
    /\ \A a \in DOMAIN acct :
          acct[a].kind = "factory" =>
             acct[a] = [kind |-> "factory", initcode |-> acct[a].initcode,
                        counter |-> acct[a].counter]

\* The dicts and the files hold entries of the right shape.
DictsTyped ==
    /\ results \in Seq(InitEntries) /\ initFile \in Seq(InitEntries)
    /\ stubs \in Seq(StubEntries) /\ stubsFile \in Seq(StubEntries)

\* Both in-memory dicts and both files hold only recorded entries.
DictsRecorded ==
    /\ \A e \in ToSet(results) \cup ToSet(initFile) : InitcodeRecorded(e)
    /\ \A e \in ToSet(stubs) \cup ToSet(stubsFile) : FactoryRecorded(e)

\* The chain, the dicts and the files stay consistent across every run of
\* the three scripts, failed, killed and repeated ones included.
SetupInv == ChainInv /\ i \in Nat \ {0} /\ DictsTyped /\ DictsRecorded
=============================================================================
