-------------------------------- MODULE PowPool --------------------------------
(***************************************************************************)
(* The pool of mining results of one height (blockgenor/pow_pool.go), as   *)
(* operators on its value.  A result has a key (block hash and difficulty),*)
(* the miner it is from, and ok: whether it will verify.  The pool counts  *)
(* the results of each miner and holds at most CountLimit of them.         *)
(***************************************************************************)
EXTENDS Integers, FiniteSets

CONSTANTS
    Miners,
    CountLimit     \* man.VotePoolCountLimit: 5 in the code

NewPowPool == [results |-> {}, countMap |-> [m \in Miners |-> 0]]

\* addPow: one result per key and miner.
Exists(pool, key, from) == \E r \in pool.results : r.key = key /\ r.from = from

\* AddMinerResult succeeds.
CanAdd(pool, r) == pool.countMap[r.from] < CountLimit /\ ~Exists(pool, r.key, r.from)

AddMinerResult(pool, r) ==
    IF CanAdd(pool, r)
    THEN [results |-> pool.results \cup {r},
          countMap |-> [pool.countMap EXCEPT ![r.from] = @ + 1]]
    ELSE pool

\* DelOneResult for every result of a set in turn.
DelResults(pool, S) ==
    [results |-> pool.results \ S,
     countMap |-> [m \in Miners |->
        pool.countMap[m] - Cardinality({r \in S \cap pool.results : r.from = m})]]

GetMinerResults(pool, key) == {r \in pool.results : r.key = key}
===============================================================================
