------------------------------- MODULE Chain -------------------------------
(***************************************************************************)
(* The network as deploy_contracts sees it: the transactions of the one    *)
(* sending account held in the node's pool, the chain that includes them   *)
(* in nonce order, their receipts, and the CREATE2 factory they call.      *)
(*                                                                         *)
(* Every transaction of the account is a call of the factory with non-     *)
(* empty calldata, so it runs the factory's CREATE2 path                   *)
(* (deploy_factory_multi.py, build_factory): load the counter from slot 0, *)
(* CREATE2 with the counter as salt, store counter + 1 in slot 0.  The     *)
(* runtime never looks at the address CREATE2 returns, so a CREATE2 that   *)
(* fails (its init code runs out of gas) still increments the counter and  *)
(* the transaction still succeeds.                                         *)
(***************************************************************************)
EXTENDS Naturals, FiniteSets

CONSTANTS
    InitNonce,       \* the account's transaction count when the model starts
    InitCounter,     \* the factory's slot 0 when the model starts
    BlockGasLimits   \* the block gas limits the network may report

ASSUME ChainAssumption == InitNonce \in Nat /\ InitCounter \in Nat

VARIABLES
    chainNonce,   \* the account's mined transaction count ("latest")
    pool,         \* nonces of the account's transactions in the node's pool
    receipt,      \* receipt status of each mined transaction, by nonce
    counter,      \* factory storage slot 0: number of CREATE2 calls made
    created,      \* salts at whose CREATE2 address a contract exists
    gasLimit      \* the gas limit of the latest block

chainVars == <<chainNonce, pool, receipt, counter, created, gasLimit>>

Status == {"success", "reverted"}

ChainTypeOK ==
    /\ chainNonce \in Nat
    /\ chainNonce >= InitNonce
    /\ pool \in SUBSET Nat
    /\ IsFiniteSet(pool)
    /\ receipt \in [InitNonce..(chainNonce - 1) -> Status]
    /\ counter \in Nat
    /\ created \in SUBSET Nat
    /\ gasLimit \in BlockGasLimits

\* A factory that has made InitCounter contracts, and no transaction of the
\* account pending.
ChainInit ==
    /\ chainNonce = InitNonce
    /\ pool = {}
    /\ receipt = [n \in InitNonce..(InitNonce - 1) |-> "success"]
    /\ counter = InitCounter
    /\ created = 0..(InitCounter - 1)
    /\ gasLimit \in BlockGasLimits

(***************************************************************************)
(* eth_getTransactionCount(account, "pending"): the first nonce at or      *)
(* above the mined count that has no transaction in the pool.  A           *)
(* transaction behind a nonce gap is queued, not pending, and not counted. *)
(***************************************************************************)
PendingNonce ==
    CHOOSE n \in chainNonce..(chainNonce + Cardinality(pool)) :
        /\ n \notin pool
        /\ chainNonce..(n - 1) \subseteq pool

\* The node admits a transaction with nonce n unless the nonce is already
\* mined ("nonce too low") or already taken in the pool ("already known").
Admissible(n) == n >= chainNonce /\ n \notin pool

(***************************************************************************)
(* Inclusion of the next transaction of the account.  Its outcome is one   *)
(* of three: the CREATE2 creates the contract; the CREATE2 fails and the   *)
(* factory still counts it; the transaction itself reverts (out of gas)    *)
(* and leaves the counter alone.                                           *)
(***************************************************************************)
IncludeNext(status) ==
    /\ chainNonce \in pool
    /\ receipt' = [m \in InitNonce..chainNonce |->
                      IF m = chainNonce THEN status ELSE receipt[m]]
    /\ chainNonce' = chainNonce + 1
    /\ pool' = pool \ {chainNonce}
    /\ UNCHANGED gasLimit

MineCreated ==
    /\ IncludeNext("success")
    /\ counter' = counter + 1
    /\ created' = created \cup {counter}

MineCreateFailed ==
    /\ IncludeNext("success")
    /\ counter' = counter + 1
    /\ UNCHANGED created

MineReverted ==
    /\ IncludeNext("reverted")
    /\ UNCHANGED <<counter, created>>

Mine == MineCreated \/ MineCreateFailed \/ MineReverted

\* The block producers move the block gas limit (a block without a
\* transaction of the account).
GasLimitMoves ==
    /\ gasLimit' \in BlockGasLimits \ {gasLimit}
    /\ UNCHANGED <<chainNonce, pool, receipt, counter, created>>
=============================================================================
