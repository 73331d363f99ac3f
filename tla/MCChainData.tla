----------------------------- MODULE MCChainData ------------------------------
(***************************************************************************)
(* What brings blocks into the chain and keeps their states, each explored *)
(* by itself: the fetcher with two peers and two blocks, the second one    *)
(* empty, on top of the first and too far ahead until the first is in      *)
(* (part "fetch"), and the trie database with two states that share m, and *)
(* x below it, where a block may return to an earlier state or leave the   *)
(* state as it is (part "states").                                         *)
(***************************************************************************)
EXTENDS TrieDB, TLC

CONSTANTS A, B, m, x, z, p, q, b1, b2, none

MCHashes == {A, B, m, x, z}
MCRoots == {A, B}
MCChildren == [h \in MCHashes |->
    CASE h = A -> {m}
      [] h = B -> {m, z}
      [] h = m -> {x}
      [] OTHER -> {}]

\* The constants of the part "fetch".
TwoPeers == {p, q}
Symmetry == Permutations(TwoPeers)
TwoBlocks == {b1, b2}
BlockNumber == [h \in TwoBlocks |-> IF h = b1 THEN 1 ELSE 2]
BlockParent == [h \in TwoBlocks |-> IF h = b1 THEN "genesis" ELSE b1]
BlockBody == [h \in TwoBlocks |-> IF h = b1 THEN "txs" ELSE "empty"]

VARIABLES f, inserting, chain, part

fetchVars == <<f, inserting, chain>>
trieVars == <<mem, parents, kids, disk, canon, base, triegc, pc, block, written>>

Fetch == INSTANCE Fetcher WITH
    Peers <- TwoPeers, Hashes <- TwoBlocks, Number <- BlockNumber, Parent <- BlockParent, Body <- BlockBody,
    Genesis <- "genesis", Nil <- none, HashLimit <- 1, BlockLimit <- 1, MaxUncleDist <- 0, MaxQueueDist <- 1,
    MaxSame <- 2, MinCount <- 0

MCInit == Init /\ Fetch!Init /\ part \in {"fetch", "states"}

MCNext ==
    \/ part = "fetch" /\ Fetch!Next /\ UNCHANGED <<trieVars, part>>
    \/ part = "states" /\ Next /\ UNCHANGED <<fetchVars, part>>

MCSpec == MCInit /\ [][MCNext]_<<fetchVars, trieVars, part>>

(* A block in the queue or in an import, and no other, is queued: a block  *)
(* is imported by one goroutine at a time, and none is left behind in the  *)
(* map that dedupes imports (enqueue, insert, forgetBlock).                *)
OneImport == Fetch!OneImport
===============================================================================
