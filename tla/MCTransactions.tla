---------------------------- MODULE MCTransactions ----------------------------
(***************************************************************************)
(* The two halves of the transaction pool, each explored by itself.  The   *)
(* numbers that stand for transactions: a leader and a validator with two  *)
(* transactions (part "flood"), or with one that grows old while the       *)
(* validator restarts (part "numbers").  The lists of go-ethereum: two     *)
(* accounts, one of them local, at the limits of the pool (part "pool").   *)
(***************************************************************************)
EXTENDS TxFlood, TLC

CONSTANTS lead, val, t1, t2, t3, owner, sender

Pair == {lead, val}
Both == {t1, t2}
AtLeader == {lead} \X Both
None == {}
Symmetry == Permutations(Both)

\* The constants of the part "numbers".
Third == {t3}
ThirdAtLeader == {lead} \X Third
Restarted == {val}

\* The constants of the part "pool".
Tx(from, n, price, cost) == [from |-> from, nonce |-> n, price |-> price, cost |-> cost, total |-> cost]
PoolTxs == {Tx(owner, 0, 10, 1), Tx(owner, 1, 10, 2), Tx(owner, 1, 20, 1),
            Tx(sender, 0, 10, 1), Tx(sender, 0, 20, 1), Tx(sender, 1, 20, 2)}
Owners == {owner, sender}
Locals == {owner}
Prices == {10, 20}
Balances == {1, 2}

VARIABLES lists, nonce, balance, gasPrice, locals, part

floodVars == <<pool, nc, ns, high, slist, pkg, counter, op, cur, head, cache, reqs, acq, net, blocks, restarts>>
listVars == <<lists, nonce, balance, gasPrice, locals>>

Old == INSTANCE TxFlood WITH
    Txs <- Third, Arrivals <- ThirdAtLeader, Ageing <- Pair, Restarting <- Restarted

Lists == INSTANCE TxPool WITH
    pool <- lists, Accounts <- Owners, Txs <- PoolTxs, Funds <- Balances, MaxNonce <- 1, GasPrices <- Prices,
    RpcAccounts <- Locals, PriceBump <- 10, AccountSlots <- 1, GlobalSlots <- 3, GlobalQueue <- 1

MCInit ==
    /\ part \in {"flood", "numbers", "pool"}
    /\ IF part = "numbers" THEN Old!Init ELSE Init
    /\ Lists!Init

MCNext ==
    \/ part = "flood" /\ Next /\ UNCHANGED <<listVars, part>>
    \/ part = "numbers" /\ Old!Next /\ UNCHANGED <<listVars, part>>
    \/ part = "pool" /\ Lists!Next /\ UNCHANGED <<floodVars, part>>

MCSpec == MCInit /\ [][MCNext]_<<floodVars, listVars, part>>

(* Every transaction of the pool is in exactly one list, with a nonce of   *)
(* its own, whatever is replaced, dropped, moved or put back (add,         *)
(* promoteExecutables, demoteUnexecutables).                               *)
AllAreListed == Lists!AllAreListed
===============================================================================
