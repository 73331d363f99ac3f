-------------------------------- MODULE TxFlood --------------------------------
(***************************************************************************)
(* Transactions by number (core/tx_pool.go, txpoolCache/middle.go).        *)
(*                                                                         *)
(* A validator gives each transaction of its pool a number and floods      *)
(* pairs of a number and a transaction's s.  A receiver that knows the     *)
(* transaction notes the number, another asks for the transaction.  A      *)
(* leader's consensus request names transactions by their numbers only:    *)
(* whoever verifies it takes them from its own table of numbers, and asks  *)
(* the leader for the missing ones, for three seconds.                     *)
(*                                                                         *)
(* The pool's tables are under one lock that every access takes by itself, *)
(* so a handler is a sequence of steps; handlers of messages exclude each  *)
(* other by a second lock.  A transaction is added to the pool as an       *)
(* object; g counts a transaction's objects, and object 0 is the one that  *)
(* a consensus answer brings and that is never pooled.                     *)
(***************************************************************************)
EXTENDS Integers, Sequences, FiniteSets

CONSTANTS
    Nodes,         \* validators
    Leader,        \* the one that makes the headers
    Txs,           \* transactions, all executable when they are valid
    Arrivals,      \* pairs of a node and a transaction that a client may send to it
    Bad,           \* pairs of a node and a transaction that its pool refuses
    Ageing,        \* bound: nodes whose transactions grow too old
    MaxHeight,     \* bound: blocks
    MaxHeaders,    \* bound: headers that the leader makes for a height
    MaxObjects,    \* bound: times that a transaction is added
    Restarting     \* bound: nodes that restart, once

ASSUME TxFloodAssumption ==
    /\ Leader \in Nodes /\ Arrivals \cup Bad \subseteq Nodes \X Txs /\ Ageing \cup Restarting \subseteq Nodes
    /\ {MaxHeight, MaxHeaders, MaxObjects} \subseteq Nat

VARIABLES
    pool,          \* pool[i][t]: in the pool and SContainer or not, its object, its numbers
    nc,            \* nc[i]: NContainer, number to object
    ns,            \* ns[i]: mapNs, number to transaction
    high,          \* high[i]: mapHighttx, height to numbers
    slist,         \* slist[i]: transactions to number and to flood
    pkg,           \* pkg[i]: the goroutine of packageSNList
    counter,       \* counter[i]: byte4Number
    op,            \* op[i]: the message handler that holds the second lock
    cur,           \* cur[i]: height of the chain
    head,          \* head[i]: height that the pool's loop has handled
    cache,         \* the leader's txpoolCache
    reqs,          \* the leader's requests: height and, by number, what is meant
    acq,           \* acq[i]: the running ReturnAllTxsByN
    net,           \* messages under way, or lost
    blocks,        \* transactions of the blocks
    restarts       \* the nodes that have restarted

nodeVars == <<pool, nc, ns, high, slist, pkg, counter, op>>
chainVars == <<cur, head, blocks, cache, reqs>>
vars == <<nodeVars, chainVars, acq, net, restarts>>

NoFun == [x \in {} |-> 0]
Fresh == [in |-> FALSE, g |-> 0, N |-> <<>>]
Idle == [pc |-> "idle"]

Init ==
    /\ pool = [i \in Nodes |-> [t \in Txs |-> Fresh]]
    /\ nc = [i \in Nodes |-> NoFun] /\ ns = [i \in Nodes |-> NoFun]
    /\ high = [i \in Nodes |-> NoFun]
    /\ slist = [i \in Nodes |-> {}] /\ pkg = [i \in Nodes |-> Idle]
    /\ counter = [i \in Nodes |-> 0] /\ op = [i \in Nodes |-> Idle]
    /\ cur = [i \in Nodes |-> 0] /\ head = [i \in Nodes |-> 0]
    /\ cache = <<>> /\ reqs = {}
    /\ acq = [i \in Nodes |-> Idle]
    /\ net = {} /\ blocks = <<>> /\ restarts = {}

------------------------------------------------------------------------------
(* The tables.                                                             *)

Without(f, S) == [x \in DOMAIN f \ S |-> f[x]]
With(f, k, v) == [x \in DOMAIN f \cup {k} |-> IF x = k THEN v ELSE f[x]]
Pooled(i) == {t \in Txs : pool[i][t].in}
Object(i, t) == [tx |-> t, g |-> pool[i][t].g]
Elems(s) == {s[k] : k \in DOMAIN s}
Numbers(i, S) == UNION {Elems(pool[i][t].N) : t \in S}

(* An object that has left the pool keeps its numbers for nobody.          *)
SetTxNum(i, o, n) ==
    pool' = IF pool[i][o.tx].in /\ pool[i][o.tx].g = o.g
            THEN [pool EXCEPT ![i][o.tx].N = Append(@, n)] ELSE pool

(* removeTx and deleteMap for a set of pooled transactions                 *)
DeleteMap(i, S, more) ==
    LET gone == Numbers(i, S)
    IN /\ pool' = [pool EXCEPT ![i] = [t \in Txs |-> IF t \in S THEN [@[t] EXCEPT !.in = FALSE, !.N = <<>>] ELSE @[t]]]
       /\ nc' = [nc EXCEPT ![i] = Without(@, gone \cup more)]
       /\ ns' = [ns EXCEPT ![i] = Without(@, gone)]

Added(i, t, N) == [pool EXCEPT ![i][t] = [in |-> TRUE, g |-> @.g + 1, N |-> N]]

(* A transaction arrives from a client: it is pooled and, as it has no     *)
(* number, put on the list of those to flood.                              *)
AddTx(i, t) ==
    /\ op[i].pc = "idle" /\ <<i, t>> \in Arrivals
    /\ ~pool[i][t].in /\ <<i, t>> \notin Bad
    /\ pool[i][t].g < MaxObjects
    /\ \A h \in 1 .. head[i] : t \notin blocks[h].txs     \* its nonce is not used yet
    /\ pool' = Added(i, t, <<>>)
    /\ slist' = [slist EXCEPT ![i] = @ \cup {t}]
    /\ UNCHANGED <<nc, ns, high, pkg, counter, op, chainVars, acq, net, restarts>>

------------------------------------------------------------------------------
(* packageSNList: the goroutine takes the list.  Each transaction without  *)
(* a number gets one, in two steps of their own, and the pairs are sent.   *)

(* catNumber: the next number of this node.  The wrap after 2^25 numbers is *)
(* far beyond the bound.                                                   *)
CatNumber(i) == <<i, counter[i] + 1>>

\* Mutant: the counter stays.
GetNumStays(i) == UNCHANGED counter

GetNum(i) == counter' = [counter EXCEPT ![i] = @ + 1]

Package(i) ==
    /\ pkg[i].pc = "idle" /\ slist[i] # {}
    /\ pkg' = [pkg EXCEPT ![i] = [pc |-> "next", todo |-> slist[i], sn |-> NoFun]]
    /\ slist' = [slist EXCEPT ![i] = {}]
    /\ UNCHANGED <<pool, nc, ns, high, counter, op, chainVars, acq, net, restarts>>

PackageNext(i, t) ==
    /\ pkg[i].pc = "next" /\ t \in pkg[i].todo
    /\ IF pool[i][t].in /\ pool[i][t].N = <<>>
       THEN /\ GetNum(i)
            /\ pkg' = [pkg EXCEPT ![i] = [pc |-> "num", todo |-> @.todo \ {t}, sn |-> @.sn,
                                          o |-> Object(i, t), n |-> CatNumber(i)]]
       ELSE /\ pkg' = [pkg EXCEPT ![i].todo = @ \ {t}]
            /\ UNCHANGED counter
    /\ UNCHANGED <<pool, nc, ns, high, slist, op, chainVars, acq, net, restarts>>

PackageNum(i) ==
    /\ pkg[i].pc = "num"
    /\ SetTxNum(i, pkg[i].o, pkg[i].n)
    /\ pkg' = [pkg EXCEPT ![i].pc = "setn"]
    /\ UNCHANGED <<nc, ns, high, slist, counter, op, chainVars, acq, net, restarts>>

PackageSetn(i) ==
    /\ pkg[i].pc = "setn"
    /\ nc' = [nc EXCEPT ![i] = With(@, pkg[i].n, pkg[i].o)]
    /\ pkg' = [pkg EXCEPT ![i] = [pc |-> "next", todo |-> @.todo, sn |-> With(@.sn, @.n, @.o.tx)]]
    /\ UNCHANGED <<pool, ns, high, slist, counter, op, chainVars, acq, net, restarts>>

PackageSend(i) ==
    /\ pkg[i].pc = "next" /\ pkg[i].todo = {}
    /\ net' = net \cup {[type |-> "SendFloodSN", from |-> i, to |-> j, n |-> n, tx |-> pkg[i].sn[n]] :
                           j \in Nodes \ {i}, n \in DOMAIN pkg[i].sn}
    /\ pkg' = [pkg EXCEPT ![i] = Idle]
    /\ UNCHANGED <<pool, nc, ns, high, slist, counter, op, chainVars, acq, restarts>>

------------------------------------------------------------------------------
(* The handlers of messages.  op[i] holds what the running one has read.   *)

(* msg_CheckTx                                                             *)
CheckTx(i, m) ==
    /\ m.type = "SendFloodSN" /\ m.to = i /\ op[i].pc = "idle"
    /\ ns' = [ns EXCEPT ![i] = With(@, m.n, m.tx)]
    /\ IF pool[i][m.tx].in
       THEN /\ op' = [op EXCEPT ![i] = [pc |-> IF m.n \in Elems(pool[i][m.tx].N) THEN "setn" ELSE "num",
                                        o |-> Object(i, m.tx), n |-> m.n, add |-> FALSE, ok |-> TRUE]]
            /\ net' = net \ {m}
       ELSE /\ net' = (net \ {m}) \cup {[type |-> "GetTxbyN", from |-> i, to |-> m.from, n |-> m.n]}
            /\ UNCHANGED op
    /\ UNCHANGED <<pool, nc, high, slist, pkg, counter, chainVars, acq, restarts>>

(* msg_GetTxByN *)
GetTxByN(i, m) ==
    /\ m.type = "GetTxbyN" /\ m.to = i
    /\ net' = (net \ {m}) \cup
                 IF m.n \in DOMAIN nc[i]
                 THEN {[type |-> "RecvTxbyN", from |-> i, to |-> m.from, n |-> m.n, tx |-> nc[i][m.n].tx]}
                 ELSE {}
    /\ UNCHANGED <<nodeVars, chainVars, acq, restarts>>

(* msg_RecvFloodTx: the answer has no s; the one that came with the number *)
(* completes it.  A transaction of another s is not valid.                 *)
RecvFloodTx(i, m) ==
    /\ m.type = "RecvTxbyN" /\ m.to = i /\ op[i].pc = "idle"
    /\ net' = net \ {m}
    /\ IF m.n \notin DOMAIN ns[i] THEN UNCHANGED op
       ELSE LET t == ns[i][m.n]
            IN op' = [op EXCEPT ![i] =
                        [pc |-> "num", n |-> m.n, add |-> TRUE, ok |-> t = m.tx /\ <<i, t>> \notin Bad,
                         o |-> IF pool[i][t].in THEN Object(i, t) ELSE [tx |-> t, g |-> pool[i][t].g + 1]]]
    /\ UNCHANGED <<pool, nc, ns, high, slist, pkg, counter, chainVars, acq, restarts>>

OpNum(i) ==
    /\ op[i].pc = "num"
    /\ SetTxNum(i, op[i].o, op[i].n)
    /\ op' = [op EXCEPT ![i].pc = "setn"]
    /\ UNCHANGED <<nc, ns, high, slist, pkg, counter, chainVars, acq, net, restarts>>

OpSetn(i) ==
    /\ op[i].pc = "setn"
    /\ nc' = [nc EXCEPT ![i] = With(@, op[i].n, op[i].o)]
    /\ op' = [op EXCEPT ![i] = IF @.add THEN [@ EXCEPT !.pc = "add"] ELSE Idle]
    /\ UNCHANGED <<pool, ns, high, slist, pkg, counter, chainVars, acq, net, restarts>>

(* addTx: a known transaction changes nothing, a valid one is pooled with  *)
(* its number, and any other is removed from the tables again.             *)
OpAdd(i) ==
    LET t == op[i].o.tx
    IN /\ op[i].pc = "add"
       /\ op' = [op EXCEPT ![i] = Idle]
       /\ IF pool[i][t].in THEN UNCHANGED <<pool, nc, ns>>
          ELSE IF op[i].ok /\ \A h \in 1 .. head[i] : t \notin blocks[h].txs
          THEN pool' = Added(i, t, <<op[i].n>>) /\ UNCHANGED <<nc, ns>>
          ELSE /\ nc' = [nc EXCEPT ![i] = Without(@, {op[i].n})]
               /\ ns' = [ns EXCEPT ![i] = Without(@, {op[i].n})]
               /\ UNCHANGED pool
       /\ UNCHANGED <<high, slist, pkg, counter, chainVars, acq, net, restarts>>

(* msg_GetConsensusTxByN: what the table does not have may be in the cache *)
(* of the header for the next height, the first one that is found.         *)
\* Mutant: the cache of the current height, not of the next one.
CacheOfCurrent(h) ==
    LET hits == {k \in DOMAIN cache : cache[k].h = h - 1}
    IN IF hits = {} THEN NoFun ELSE cache[CHOOSE k \in hits : \A l \in hits : k <= l].list

CacheOf(h) ==
    LET hits == {k \in DOMAIN cache : cache[k].h = h}
    IN IF hits = {} THEN NoFun ELSE cache[CHOOSE k \in hits : \A l \in hits : k <= l].list

Serve(i, list) ==
    LET cached == IF i = Leader THEN CacheOf(cur[i] + 1) ELSE NoFun
        whole == list \subseteq DOMAIN cached /\ ~(list \subseteq DOMAIN nc[i])
    IN [n \in list \cap (DOMAIN nc[i] \cup DOMAIN cached) |->
           IF n \in DOMAIN nc[i] /\ ~whole THEN nc[i][n].tx ELSE cached[n]]

GetConsensusTxByN(i, m) ==
    /\ m.type = "GetConsensusTxbyN" /\ m.to = i
    /\ net' = (net \ {m}) \cup {[type |-> "RecvConsensusTxbyN", from |-> i, to |-> m.from,
                                 list |-> Serve(i, m.list)]}
    /\ UNCHANGED <<nodeVars, chainVars, acq, restarts>>

(* msg_RecvConsensusFloodTx: a transaction of the pool gets the number     *)
(* too; the others are kept for this height only.                          *)
RecvConsensusFloodTx(i, m) ==
    LET new == DOMAIN m.list
        at(t) == {n \in new : m.list[n] = t}
    IN /\ m.type = "RecvConsensusTxbyN" /\ m.to = i /\ op[i].pc = "idle"
       /\ net' = net \ {m}
       /\ ns' = [ns EXCEPT ![i] = [n \in DOMAIN @ \cup new |-> IF n \in new THEN m.list[n] ELSE @[n]]]
       /\ nc' = [nc EXCEPT ![i] = [n \in DOMAIN @ \cup new |->
                    IF n \notin new THEN @[n]
                    ELSE IF pool[i][m.list[n]].in THEN Object(i, m.list[n])
                    ELSE [tx |-> m.list[n], g |-> 0]]]
       /\ pool' = [pool EXCEPT ![i] = [t \in Txs |->
                    IF @[t].in /\ at(t) # {} THEN [@[t] EXCEPT !.N = Append(@, CHOOSE n \in at(t) : TRUE)]
                    ELSE @[t]]]
       /\ high' = IF new = {} THEN high ELSE [high EXCEPT ![i] = With(@, cur[i], new)]
       /\ UNCHANGED <<slist, pkg, counter, op, chainVars, acq, restarts>>

------------------------------------------------------------------------------
(* Consensus on a block.                                                   *)

(* The leader's header of some transactions that have a number; MakeStruck *)
(* caches them.                                                            *)
MakeHeader(S) ==
    LET i == Leader
        list == [n \in {pool[i][t].N[1] : t \in S} |-> CHOOSE t \in S : pool[i][t].N[1] = n]
        req == [id |-> Cardinality(reqs) + 1, h |-> cur[i] + 1, list |-> list]
    IN /\ cur[i] < MaxHeight
       /\ S # {} /\ \A t \in S : pool[i][t].in /\ pool[i][t].N # <<>>
       /\ Cardinality({r \in reqs : r.h > cur[i]}) < MaxHeaders
       /\ cache' = Append(cache, req)
       /\ reqs' = reqs \cup {req}
       /\ UNCHANGED <<nodeVars, cur, head, blocks, acq, net, restarts>>

(* ReturnAllTxsByN: what the table has; the rest is asked from the leader. *)
Found(i, list) == [n \in list |-> nc[i][n].tx]

Acquire(i, r) ==
    LET missing == DOMAIN r.list \ DOMAIN nc[i]
    IN /\ i # Leader /\ acq[i].pc = "idle"
       /\ r.h = cur[i] + 1
       /\ IF missing = {}
          THEN /\ acq' = [acq EXCEPT ![i] = [pc |-> "done", req |-> r, got |-> Found(i, DOMAIN r.list)]]
               /\ UNCHANGED net
          ELSE /\ acq' = [acq EXCEPT ![i] = [pc |-> "wait", req |-> r, missing |-> missing]]
               /\ net' = net \cup {[type |-> "GetConsensusTxbyN", from |-> i, to |-> Leader, list |-> missing]}
       /\ UNCHANGED <<nodeVars, chainVars, restarts>>

(* Every 100 milliseconds: numbers that have come in are not looked for    *)
(* again; when none is left, all are read once more.                       *)
Poll(i) ==
    LET missing == acq[i].missing \ DOMAIN nc[i]
    IN /\ acq[i].pc = "wait"
       /\ missing # acq[i].missing
       /\ acq' = [acq EXCEPT ![i].missing = missing, ![i].pc = IF missing = {} THEN "collect" ELSE "wait"]
       /\ UNCHANGED <<nodeVars, chainVars, net, restarts>>

(* "loss tx" when one of them has gone in between                          *)
Collect(i) ==
    LET list == DOMAIN acq[i].req.list
    IN /\ acq[i].pc = "collect"
       /\ acq' = [acq EXCEPT ![i] = IF list \subseteq DOMAIN nc[i]
                                    THEN [pc |-> "done", req |-> @.req, got |-> Found(i, list)] ELSE Idle]
       /\ UNCHANGED <<nodeVars, chainVars, net, restarts>>

TimeOut(i) ==
    /\ acq[i].pc = "wait"
    /\ acq' = [acq EXCEPT ![i] = Idle]
    /\ UNCHANGED <<nodeVars, chainVars, net, restarts>>

(* The verification takes the result.                                      *)
TakeResult(i) ==
    /\ acq[i].pc = "done"
    /\ acq' = [acq EXCEPT ![i] = Idle]
    /\ UNCHANGED <<nodeVars, chainVars, net, restarts>>

------------------------------------------------------------------------------
(* The chain: the block of a request, or one without transactions.         *)
InsertBlock(r) ==
    /\ Len(blocks) < MaxHeight
    /\ r.h = Len(blocks) + 1
    /\ blocks' = Append(blocks, [id |-> r.id, txs |-> {r.list[n] : n \in DOMAIN r.list}])
    /\ UNCHANGED <<nodeVars, cur, head, cache, reqs, acq, net, restarts>>

CatchUp(i) ==
    /\ cur[i] < Len(blocks)
    /\ cur' = [cur EXCEPT ![i] = @ + 1]
    /\ UNCHANGED <<nodeVars, head, blocks, cache, reqs, acq, net, restarts>>

(* DeleteTxCache: the first entry that belongs to a past height, or to     *)
(* another header of this one, and all after it stay.                      *)
DeleteTxCache(id, h) ==
    LET hits == {k \in DOMAIN cache : cache[k].h < h \/ (cache[k].h = h /\ cache[k].id # id)}
    IN IF hits = {} THEN cache
       ELSE SubSeq(cache, CHOOSE k \in hits : \A l \in hits : k <= l, Len(cache))

(* The pool's loop takes a new head: the block's transactions leave the    *)
(* pool, and the numbers that were kept for the last height are deleted.   *)
NewHead(i) ==
    LET h == head[i] + 1
        passed == IF h - 1 \in DOMAIN high[i] THEN high[i][h - 1] ELSE {}
    IN /\ head[i] < cur[i]
       /\ head' = [head EXCEPT ![i] = h]
       /\ DeleteMap(i, Pooled(i) \cap blocks[h].txs, passed)
       /\ high' = [high EXCEPT ![i] = Without(@, {h - 1})]
       /\ cache' = IF i = Leader THEN DeleteTxCache(blocks[h].id, h) ELSE cache
       /\ UNCHANGED <<slist, pkg, counter, op, cur, blocks, reqs, acq, net, restarts>>

(* blockTiming, every ten seconds, removes the transactions that have been *)
(* pending for too long; which ones have is a matter of time, because      *)
(* getPendingTx notes every pending one at every tick.                     *)
BlockTiming(i, S) ==
    /\ op[i].pc = "idle" /\ i \in Ageing /\ S # {}
    /\ DeleteMap(i, S, {})
    /\ UNCHANGED <<high, slist, pkg, counter, op, chainVars, acq, net, restarts>>

(* The tables and the counter are in memory only.                          *)
Restart(i) ==
    /\ i \in Restarting \ restarts
    /\ restarts' = restarts \cup {i}
    /\ pool' = [pool EXCEPT ![i] = [t \in Txs |-> [in |-> FALSE, g |-> @[t].g, N |-> <<>>]]]
    /\ nc' = [nc EXCEPT ![i] = NoFun] /\ ns' = [ns EXCEPT ![i] = NoFun]
    /\ high' = [high EXCEPT ![i] = NoFun]
    /\ slist' = [slist EXCEPT ![i] = {}] /\ pkg' = [pkg EXCEPT ![i] = Idle]
    /\ counter' = [counter EXCEPT ![i] = 0] /\ op' = [op EXCEPT ![i] = Idle]
    /\ head' = [head EXCEPT ![i] = cur[i]]
    /\ cache' = IF i = Leader THEN <<>> ELSE cache
    /\ acq' = [acq EXCEPT ![i] = Idle]
    /\ UNCHANGED <<cur, blocks, reqs, net>>

Step(i) ==
    \/ \E t \in Txs : AddTx(i, t) \/ PackageNext(i, t)
    \/ Package(i) \/ PackageNum(i) \/ PackageSetn(i) \/ PackageSend(i)
    \/ OpNum(i) \/ OpSetn(i) \/ OpAdd(i)
    \/ \E r \in reqs : Acquire(i, r)
    \/ Poll(i) \/ Collect(i) \/ TimeOut(i) \/ TakeResult(i)
    \/ CatchUp(i) \/ NewHead(i)
    \/ \E S \in SUBSET Pooled(i) : BlockTiming(i, S)
    \/ Restart(i)

Next ==
    \/ \E i \in Nodes : Step(i)
    \/ \E i \in Nodes, m \in net :
          \/ CheckTx(i, m) \/ GetTxByN(i, m) \/ RecvFloodTx(i, m)
          \/ GetConsensusTxByN(i, m) \/ RecvConsensusFloodTx(i, m)
    \/ \E S \in SUBSET Txs : MakeHeader(S)
    \/ \E r \in reqs : InsertBlock(r)

Spec == Init /\ [][Next]_vars

------------------------------------------------------------------------------

(* ReturnAllTxsByN returns, for every number of the leader's request, the  *)
(* transaction that the leader means by it.                                *)
ReturnedIsMeant == \A i \in Nodes : acq[i].pc = "done" => acq[i].got = acq[i].req.list

(* While the leader waits for the block of its first header of a height,   *)
(* it can serve every number of that header: from its table, or from the   *)
(* cache when the transaction has left the pool meanwhile.                 *)
LeaderCanServe ==
    \A r \in reqs :
        (r.h = cur[Leader] + 1 /\ \A q \in reqs : q.h = r.h => r.id <= q.id) =>
            Serve(Leader, DOMAIN r.list) = r.list
===============================================================================
