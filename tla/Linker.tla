-------------------------------- MODULE Linker ---------------------------------
(***************************************************************************)
(* Who a node keeps a connection to (ca/ca.go, p2p/linker.go,              *)
(* p2p/buckets.go).                                                        *)
(*                                                                         *)
(* The identity service takes a new block, reads its topology and the next *)
(* election, computes the node's own role and tells the linker and the     *)
(* buckets.  The linker serves a node that is in the topology (a top       *)
(* node): it drops the peers that left the topology, now and once more     *)
(* five seconds later, and adds the others as static peers.  The buckets   *)
(* serve a node that is not.  All three run at the same time; messages are *)
(* published in goroutines of their own and may overtake one another.      *)
(*                                                                         *)
(* The fields of the identity are represented by the block that they come  *)
(* from.  A role is a rank: 0 is RoleBucket and below, Broadcast is the    *)
(* rank of the broadcast nodes.                                            *)
(***************************************************************************)
EXTENDS Integers, Sequences, FiniteSets

CONSTANTS
    Node,          \* the other nodes
    Chains,        \* the chains to consider: sequences of blocks
    Broadcast,     \* rank of a broadcast node, the highest
    Window,        \* heartbeats that are kept: 20 in the code
    Round,         \* blocks after which heartbeats start anew: 300
    Grace,         \* blocks for which the old ones stay: 10
    Roll,          \* blocks between two calls of the roll: 100
    MaxLink        \* links that the buckets make: 3

VARIABLES
    chain,         \* the blocks; chain[h] has the topology and the election that ca reads at h
    blocks,        \* heights of the new blocks that the identity has not taken
    ca,            \* the identity: where it is, and the heights of its fields
    front,         \* ca.frontNodes
    current,       \* ca.currentNodes
    toLinker,      \* messages BlockToLinkers under way
    toBucket,      \* messages BlockToBuckets under way
    lk,            \* the linker: role and the message that it works on
    bk,            \* the buckets: role and the message that they work on
    statics,       \* the static peers of the p2p server
    connected,     \* the peers that are connected
    deferred,      \* the drops that wait for their five seconds
    topNode,       \* heartbeats of the top nodes
    topNodeCache,  \* the heartbeats of the round before
    linkMap,       \* the roll: answers of the nodes that are called
    others         \* history: peers that the buckets or the roll added

caVars == <<chain, blocks, ca>>
peerVars == <<statics, connected, deferred, others>>
lkVars == <<lk, front, current, topNode, topNodeCache, linkMap>>
vars == <<caVars, peerVars, lkVars, toLinker, toBucket, bk>>

NoBeats == [n \in {} |-> <<>>]
NoRoll == [n \in {} |-> 0]

Init ==
    /\ chain \in Chains
    /\ blocks = DOMAIN chain
    /\ ca = [pc |-> "idle", h |-> 0, topo |-> 0, elect |-> 0, groups |-> 0]
    /\ front = {} /\ current = {}
    /\ toLinker = {} /\ toBucket = {}
    /\ lk = [pc |-> "idle", role |-> 0, h |-> 0, groups |-> 0]
    /\ bk = [pc |-> "idle", role |-> "nil"]
    /\ statics = {} /\ connected = {} /\ deferred = {}
    /\ topNode = NoBeats /\ topNodeCache = NoBeats /\ linkMap = NoRoll
    /\ others = {}

------------------------------------------------------------------------------
(* What the identity knows.                                                *)

Ranks(kind, h) ==
    IF h = 0 THEN [n \in Node |-> 0]
    ELSE IF kind = "topo" THEN chain[h].topo ELSE chain[h].elect

Ranked(kind, h) == {n \in Node : Ranks(kind, h)[n] > 0}

(* initCurrentTopology and the bucket rule of getNodesInBuckets            *)
OwnRole(h) == chain[h].own

(* The handling of a new block up to the topology: any block that is under *)
(* way.  A topology that cannot be read ends it.                           *)
TakeBlock(h) ==
    /\ ca.pc = "idle"
    /\ blocks' = blocks \ {h}
    /\ ca' = IF chain[h].fails = "topology" THEN [ca EXCEPT !.h = h]
             ELSE [ca EXCEPT !.pc = "elect", !.h = h, !.topo = h]
    /\ UNCHANGED <<chain, peerVars, lkVars, toLinker, toBucket, bk>>

(* The next election replaces prevElect before the groups are replaced.    *)
TakeElect ==
    /\ ca.pc = "elect"
    /\ ca' = IF chain[ca.h].fails = "elect" THEN [ca EXCEPT !.pc = "idle"]
             ELSE [ca EXCEPT !.pc = "groups", !.elect = ca.h]
    /\ UNCHANGED <<chain, blocks, peerVars, lkVars, toLinker, toBucket, bk>>

(* initCurrentTopology and initNowTopologyResult; then the role is          *)
(* published.                                                              *)
SetGroups ==
    /\ ca.pc = "groups"
    /\ ca' = [ca EXCEPT !.pc = "idle", !.groups = ca.topo]
    /\ toLinker' = toLinker \cup {[h |-> ca.h, role |-> OwnRole(ca.h)]}
    /\ toBucket' = toBucket \cup {[h |-> ca.h, role |-> OwnRole(ca.h)]}
    /\ UNCHANGED <<chain, blocks, peerVars, lkVars, bk>>

------------------------------------------------------------------------------
(* The p2p server.                                                         *)

AddPeers(S) == statics' = statics \cup S

RemovePeers(S) ==
    /\ statics' = statics \ S
    /\ connected' = connected \ S

(* A peer is dialled, or connects by itself; a connection is lost.         *)
Connect(n) ==
    /\ n \notin connected
    /\ connected' = connected \cup {n}
    /\ UNCHANGED <<caVars, statics, deferred, others, lkVars, toLinker, toBucket, bk>>

Disconnect(n) ==
    /\ n \in connected
    /\ connected' = connected \ {n}
    /\ UNCHANGED <<caVars, statics, deferred, others, lkVars, toLinker, toBucket, bk>>

------------------------------------------------------------------------------
(* The linker.                                                             *)

GetDropNode == front \ current

LinkerDrop(m) ==
    /\ lk' = [lk EXCEPT !.pc = "link", !.role = m.role, !.h = m.h]
    /\ RemovePeers(GetDropNode)
    /\ deferred' = deferred \cup {[h |-> m.h, drops |-> GetDropNode]}
    /\ UNCHANGED others

(* A message of a bottom role only clears the linker's role.               *)
LinkerTake(m) ==
    /\ lk.pc = "idle"
    /\ toLinker' = toLinker \ {m}
    /\ IF m.role = 0
       THEN /\ lk' = [lk EXCEPT !.role = 0]
            /\ UNCHANGED peerVars
       ELSE LinkerDrop(m)
    /\ UNCHANGED <<caVars, front, current, topNode, topNodeCache, linkMap, toBucket, bk>>

\* Mutant: the old list is emptied and not replaced.
LinkerGroupsForgets ==
    /\ lk.pc = "link"
    /\ lk' = [lk EXCEPT !.pc = "elects", !.groups = ca.groups]
    /\ front' = {}
    /\ current' = Ranked("topo", ca.groups)
    /\ UNCHANGED <<caVars, peerVars, topNode, topNodeCache, linkMap, toLinker, toBucket, bk>>

(* GetTopologyInLinker, the part that reads the groups under the lock      *)
LinkerGroups ==
    /\ lk.pc = "link"
    /\ lk' = [lk EXCEPT !.pc = "elects", !.groups = ca.groups]
    /\ front' = current
    /\ current' = Ranked("topo", ca.groups)
    /\ UNCHANGED <<caVars, peerVars, topNode, topNodeCache, linkMap, toLinker, toBucket, bk>>

Beat(beats) ==
    LET known == DOMAIN beats \cup Ranked("topo", ca.groups)
        old(n) == IF n \in DOMAIN beats THEN beats[n] ELSE [i \in 1 .. Window |-> 1]
    IN [n \in known |-> Tail(Append(old(n), IF n \in connected THEN 1 ELSE 0))]

(* The heartbeats: a new round keeps those of the last one for a while.     *)
RecordTopNodeActiveInfo ==
    /\ topNode' = Beat(IF lk.h % Round = 0 THEN NoBeats ELSE topNode)
    /\ topNodeCache' = IF (lk.h - Grace) % Round = 0 THEN NoBeats
                       ELSE IF lk.h % Round = 0 THEN topNode
                       ELSE topNodeCache

(* ToLink on a broadcast node: the nodes of the roll become peers.         *)
Called == IF lk.role = Broadcast /\ lk.h % Roll = 0 THEN chain[ca.h].elected ELSE {}

(* The rest of GetTopologyInLinker, which reads prevElect without a lock,  *)
(* and of the handler.                                                     *)
LinkerElects ==
    LET elect == Ranked("elect", ca.elect)
        links == {n \in Node : \/ Ranks("topo", lk.groups)[n] >= lk.role
                               \/ Ranks("elect", ca.elect)[n] >= lk.role}
    IN /\ lk.pc = "elects"
       /\ lk' = [lk EXCEPT !.pc = "idle"]
       /\ current' = current \cup elect
       /\ AddPeers(links \cup Called)
       /\ others' = others \cup Called
       /\ RecordTopNodeActiveInfo
       /\ linkMap' = IF lk.role = Broadcast /\ lk.h % Roll = 0
                     THEN [n \in Called |-> 0] ELSE linkMap
       /\ UNCHANGED <<caVars, connected, deferred, front, toLinker, toBucket, bk>>

(* dropNodeDefer, five seconds later                                       *)
DropDeferred(d) ==
    /\ RemovePeers(d.drops)
    /\ deferred' = deferred \ {d}
    /\ UNCHANGED <<caVars, others, lkVars, toLinker, toBucket, bk>>

(* Record: a node of the roll answers a ping.                              *)
Record(n) ==
    /\ n \in DOMAIN linkMap \cap connected
    /\ linkMap[n] = 0                          \* bound: one answer
    /\ linkMap' = [linkMap EXCEPT ![n] = @ + 1]
    /\ UNCHANGED <<caVars, peerVars, lk, front, current, topNode, topNodeCache, toLinker, toBucket, bk>>

------------------------------------------------------------------------------
(* The buckets.                                                            *)

(* A node that was a top node until now disconnects the front nodes and    *)
(* the peers that are connected; the maintenance of the bucket follows.    *)
BucketTake(m) ==
    /\ bk.pc = "idle"
    /\ toBucket' = toBucket \ {m}
    /\ IF m.role > 0
       THEN /\ bk' = [bk EXCEPT !.role = "nil"]
            /\ UNCHANGED <<statics, connected>>
       ELSE /\ bk' = [pc |-> IF bk.role = "nil" THEN "left" ELSE "maintain", role |-> "bottom"]
            /\ IF bk.role = "nil" THEN RemovePeers(front \cup connected)
               ELSE UNCHANGED <<statics, connected>>
    /\ UNCHANGED <<caVars, deferred, others, lkVars, toLinker>>

(* disconnectOnePeer when the buckets are full, maintainInner,             *)
(* maintainOuter and linkBucketPeer: links to at most MaxLink nodes of the *)
(* buckets and of the known topology; or disconnectMiner.  Which of them   *)
(* depends on the addresses and on random numbers.                         *)
BucketMaintain ==
    /\ bk.pc # "idle"
    /\ bk' = [bk EXCEPT !.pc = "idle"]
    /\ \/ \E S \in SUBSET Node, one \in {{}} \cup {{n} : n \in connected} :
             /\ Cardinality(S) <= MaxLink
             /\ statics' = (statics \ one) \cup S
             /\ connected' = connected \ one
             /\ others' = others \cup S
       \/ /\ RemovePeers({n \in Node : Ranks("topo", ca.groups)[n] = 1 \/ Ranks("elect", ca.elect)[n] = 1})
          /\ UNCHANGED others
    /\ UNCHANGED <<caVars, deferred, lkVars, toLinker, toBucket>>

Done ==
    /\ blocks = {} /\ ca.pc = "idle" /\ toLinker = {} /\ toBucket = {}
    /\ lk.pc = "idle" /\ bk.pc = "idle"

Next ==
    \/ \E h \in blocks : TakeBlock(h)
    \/ TakeElect
    \/ SetGroups
    \/ \E n \in Node : Connect(n) \/ Disconnect(n) \/ Record(n)
    \/ \E m \in toLinker : LinkerTake(m)
    \/ LinkerGroups
    \/ LinkerElects
    \/ \E d \in deferred : DropDeferred(d)
    \/ \E m \in toBucket : BucketTake(m)
    \/ BucketMaintain

Spec == Init /\ [][Next]_vars

------------------------------------------------------------------------------

(* A peer that the linker added stays a static peer only as long as it is   *)
(* in one of the two lists that the next drop is computed from: the drop    *)
(* comes one block late, and reorders of blocks or a time in the buckets   *)
(* never make the linker forget a peer (GetDropNode before                 *)
(* GetTopologyInLinker).                                                   *)
NoForgottenPeer == statics \ others \subseteq front \cup current

===============================================================================
