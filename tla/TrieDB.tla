------------------------------- MODULE TrieDB -------------------------------
(***************************************************************************)
(* The memory database of trie nodes (trie/database.go) and the chain that *)
(* uses it (WriteBlockWithState, Stop and the restart in                   *)
(* core/blockchain.go).  A block's state is a graph of nodes named by      *)
(* their hashes.  The nodes of recent states are kept in memory with a     *)
(* count of their parents; from time to time one state is written to disk  *)
(* in batches and taken out of memory, and the states of old blocks are    *)
(* dereferenced.  A crash loses the memory at any step between two writes. *)
(***************************************************************************)
EXTENDS Integers, Sequences, FiniteSets, FiniteSetsExt

CONSTANTS
  Hashes,        \* the hashes of nodes
  Children,      \* Children[h]: the hashes the node h contains
  Roots,         \* the hashes that are the root of a state
  Genesis,       \* the state of block 0, on disk from the start
  TriesInMemory, \* triesInMemory, 128 in the code
  MaxNumber,     \* bound: the highest block
  MaxQueued      \* bound: the entries of triegc with which a fork may begin

Meta == "meta"   \* common.Hash{}, the parent of every root

VARIABLES
  mem,      \* the hashes in Database.nodes, without Meta
  parents,  \* cachedNode.parents
  kids,     \* cachedNode.children, 0 for a hash that is not in the map
  disk,     \* the hashes in diskdb
  canon,    \* canon[n]: the state root of the canonical block n
  base,     \* the head at the last start: older states may be gone
  triegc,   \* BlockChain.triegc: how often <<root, number>> is in the queue
  pc,       \* what the goroutine that holds BlockChain.mu does next
  block,    \* the block it writes: its number, root and fork choice
  written   \* the hashes that the running Commit has written

vars == <<mem, parents, kids, disk, canon, base, triegc, pc, block, written>>

Numbers == 0..MaxNumber
None == [number |-> 0, root |-> Genesis, head |-> FALSE]
Blocks == [number: Numbers, root: Roots, head: BOOLEAN]
NoKids == [h \in Hashes |-> 0]

HeadNumber == Len(canon) - 1
RootOf(n) == canon[n + 1]

(* The hashes that the function F leads to from h, h included. *)
RECURSIVE Below(_, _)
Below(h, F) == {h} \cup UNION {Below(c, F) : c \in F[h]}

(* The nodes of the state, or part of a state, with root h. *)
NodesOf == [h \in Hashes |-> Below(h, Children)]

Init ==
  /\ mem = {} /\ disk = NodesOf[Genesis] /\ written = {}
  /\ parents = [h \in Hashes |-> 0]
  /\ kids = [h \in Hashes \cup {Meta} |-> NoKids]
  /\ canon = <<Genesis>> /\ base = 0
  /\ triegc = [e \in Roots \X Numbers |-> 0]
  /\ pc = "idle" /\ block = None

-----------------------------------------------------------------------------
(* The methods of Database, on a record of its three maps. *)

Db == [mem |-> mem, parents |-> parents, kids |-> kids]

SetDb(db) == mem' = db.mem /\ parents' = db.parents /\ kids' = db.kids

(* insert: a node that is there already is left alone; a new one starts    *)
(* without parents and children.                                           *)
Insert(db, hash) == [db EXCEPT !.mem = @ \cup {hash}]

(* delete of nodes from the map, with their counts. *)
Delete(db, hashes) ==
  [mem |-> db.mem \ hashes,
   parents |-> [h \in Hashes |-> IF h \in hashes THEN 0 ELSE db.parents[h]],
   kids |-> [h \in Hashes \cup {Meta} |-> IF h \in hashes THEN NoKids ELSE db.kids[h]]]

(* reference: a child that is only on disk has no count, and a parent      *)
(* counts a child once, except that Meta counts every block.               *)
Reference(db, child, parent) ==
  IF child \notin db.mem \/ (parent # Meta /\ db.kids[parent][child] # 0)
    THEN db
    ELSE [db EXCEPT !.parents[child] = @ + 1, !.kids[parent][child] = @ + 1]

(* dereference: the last parent of a node takes the node with it, and the  *)
(* node the references to its own children.                                *)
RECURSIVE Dereference(_, _, _)
Dereference(db, child, parent) ==
  LET less == [db EXCEPT !.kids[parent][child] = @ - 1]
      dropped == [less EXCEPT !.parents[child] = @ - 1]
      grandchildren == {h \in Hashes : db.kids[child][h] # 0}
      freed == FoldSet(LAMBDA h, d : Dereference(d, h, child), dropped, grandchildren)
  IN  IF child \notin db.mem THEN less
      ELSE IF dropped.parents[child] # 0 THEN dropped
      ELSE Delete(freed, {child})

(* The nodes in memory that commit and uncache reach from hash: both walk  *)
(* the maps of children and turn back at a hash that is not in memory.     *)
Cached(db, hash) ==
  LET inMemory == [h \in Hashes |-> {c \in db.mem : db.kids[h][c] # 0}]
  IN  IF hash \in db.mem THEN Below(hash, inMemory) ELSE {}

Uncache(db, hash) == Delete(db, Cached(db, hash))

(* hasher.store of one changed node: it is inserted and refers to its      *)
(* children (trie nodes, storage roots and code alike).                    *)
Store(db, hash) ==
  FoldSet(LAMBDA c, d : Reference(d, c, hash), Insert(db, hash), Children[hash])

(* StateDB.Commit: the changed nodes are stored, children before parents.  *)
RECURSIVE StoreAll(_, _)
StoreAll(db, changed) ==
  IF changed = {} THEN db
  ELSE LET h == CHOOSE c \in changed : Children[c] \cap changed = {}
       IN  StoreAll(Store(db, h), changed \ {h})

(* What may have been changed on the way from the state p to the state r:  *)
(* all that is new, and with a node every node above it.  A node may also  *)
(* be changed and changed back.                                            *)
Changes == [p, r \in Roots |->
  {c \in SUBSET NodesOf[r] :
     /\ NodesOf[r] \ NodesOf[p] \subseteq c
     /\ \A h \in NodesOf[r] : Children[h] \cap c # {} => h \in c}]

-----------------------------------------------------------------------------
(* WriteBlockWithState, under BlockChain.mu. *)

(* The state of block n is stored, on top of that of block n - 1, and      *)
(* referred to from Meta.  A block beside the head may replace it.         *)
WriteState(n, r, changed, head) ==
  LET stored == Reference(StoreAll(Db, changed), r, Meta)
  IN  /\ pc = "idle"
      /\ n <= MaxNumber
      /\ n <= HeadNumber => MapThenSumSet(LAMBDA e : triegc[e], DOMAIN triegc) < MaxQueued
      /\ n > HeadNumber => head
      /\ n < HeadNumber => ~head
      /\ RootOf(n - 1) \in mem \cup disk
      /\ SetDb(stored)
      /\ triegc' = [triegc EXCEPT ![<<r, n>>] = @ + 1]
      /\ block' = [number |-> n, root |-> r, head |-> head]
      /\ pc' = IF n > TriesInMemory THEN "limit" ELSE "gc"
      /\ UNCHANGED <<disk, canon, base, written>>

Chosen == block.number - TriesInMemory

(* The limits of memory and time are exceeded, or not. *)
Limits ==
  /\ pc = "limit"
  /\ pc' \in {"commit", "gc"}
  /\ written' = {}
  /\ UNCHANGED <<mem, parents, kids, disk, canon, base, triegc, block>>

(* Commit writes one batch; a node comes after its children.  The read     *)
(* lock keeps the maps as they are while batches are written.              *)
Commit(batch) ==
  LET due == Cached(Db, RootOf(Chosen)) \ written
  IN  /\ pc = "commit"
      /\ batch # {} /\ batch \subseteq due
      /\ \A h \in batch : Children[h] \cap due \subseteq batch
      /\ disk' = disk \cup batch
      /\ written' = written \cup batch
      /\ UNCHANGED <<mem, parents, kids, canon, base, triegc, pc, block>>

(* When all is written, the nodes leave memory. *)
CommitEnds ==
  /\ pc = "commit"
  /\ Cached(Db, RootOf(Chosen)) \subseteq written
  /\ SetDb(Uncache(Db, RootOf(Chosen)))
  /\ pc' = "gc" /\ written' = {}
  /\ UNCHANGED <<disk, canon, base, triegc, block>>

(* Mutants of Due: one block too many; an empty queue is not noticed. *)
DueTooEarly == {e \in Roots \X Numbers : triegc[e] > 0 /\ e[2] <= Chosen + 1}

(* The entries of triegc up to the chosen block, the oldest first. *)
Due == {e \in Roots \X Numbers : triegc[e] > 0 /\ e[2] <= Chosen}

Collect(e) ==
  /\ pc = "gc"
  /\ e \in Due /\ \A d \in Due : e[2] <= d[2]
  /\ SetDb(Dereference(Db, e[1], Meta))
  /\ triegc' = [triegc EXCEPT ![e] = @ - 1]
  /\ UNCHANGED <<disk, canon, base, pc, block, written>>

(* The block itself is written, and the head if the fork choice says so. *)
WriteBlock ==
  /\ pc = "gc" /\ Due = {}
  /\ canon' = IF block.head THEN Append(SubSeq(canon, 1, block.number), block.root) ELSE canon
  /\ pc' = "idle" /\ block' = None
  /\ UNCHANGED <<mem, parents, kids, disk, base, triegc, written>>

-----------------------------------------------------------------------------
(* Stop: the states of three recent blocks are written, then every entry   *)
(* of triegc is dereferenced.                                              *)
Recent == {HeadNumber - offset : offset \in {o \in {0, 1, TriesInMemory - 1} : HeadNumber > o}}

RECURSIVE DereferenceAll(_, _)
DereferenceAll(db, gc) ==
  LET left == {e \in DOMAIN gc : gc[e] > 0}
      e == CHOOSE x \in left : \A w \in left : x[2] <= w[2]
  IN  IF left = {} THEN db
      ELSE DereferenceAll(Dereference(db, e[1], Meta), [gc EXCEPT ![e] = @ - 1])

Stop ==
  LET saved == FoldSet(LAMBDA n, d : Uncache(d, RootOf(n)), Db, Recent)
  IN  /\ pc = "idle"
      /\ disk' = disk \cup UNION {Cached(Db, RootOf(n)) : n \in Recent}
      /\ SetDb(DereferenceAll(saved, triegc))
      /\ triegc' = [e \in DOMAIN triegc |-> 0]
      /\ pc' = "stopped"
      /\ UNCHANGED <<canon, base, block, written>>

(* A crash at any moment, or the start after Stop: loadLastState and       *)
(* repair go back to the newest block whose root is on disk.               *)
Restart ==
  LET found == Max({n \in 0..HeadNumber : RootOf(n) \in disk})
  IN  /\ mem' = {}
      /\ parents' = [h \in Hashes |-> 0]
      /\ kids' = [h \in Hashes \cup {Meta} |-> NoKids]
      /\ canon' = SubSeq(canon, 1, found + 1) /\ base' = found
      /\ triegc' = [e \in DOMAIN triegc |-> 0]
      /\ pc' = "idle" /\ block' = None /\ written' = {}
      /\ UNCHANGED disk

Next ==
  \/ \E n \in 1..(HeadNumber + 1), r \in Roots, head \in BOOLEAN :
       \E changed \in Changes[RootOf(n - 1), r] : WriteState(n, r, changed, head)
  \/ Limits
  \/ \E batch \in SUBSET Hashes : Commit(batch)
  \/ CommitEnds
  \/ \E e \in Roots \X Numbers : Collect(e)
  \/ WriteBlock
  \/ Stop
  \/ Restart

Spec == Init /\ [][Next]_vars

-----------------------------------------------------------------------------
Complete(r) == NodesOf[r] \subseteq mem \cup disk

(* The state of every block since the last start that is less than         *)
(* TriesInMemory below the newest one, the block that is being written     *)
(* included, can be read to its last node: whatever states were committed, *)
(* collected or shared nodes with it.                                      *)
RecentStatesAreComplete ==
  pc # "stopped" =>
    \A n \in base..HeadNumber :
      n > Max({HeadNumber, block.number}) - TriesInMemory => Complete(RootOf(n))

(* The nodes of the states in triegc. *)
Held == UNION {NodesOf[e[1]] : e \in {d \in DOMAIN triegc : triegc[d] > 0}}

=============================================================================
