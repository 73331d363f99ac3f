------------------------------- MODULE BlockGen -------------------------------
(***************************************************************************)
(* The generation of the block of one height on one node (blockgenor:      *)
(* process.go, process_header.go, process_block.go, process_broadcast.go,  *)
(* blockCache.go).  The leader makes a header, the verified block comes    *)
(* back from blkverify, mining results make it ready, and the leader of the*)
(* next height writes it to the chain.                                     *)
(*                                                                         *)
(* Every message has a goroutine of its own; each method of Process holds  *)
(* the lock, so a step of the model is a method.  The handler of a leader  *)
(* message makes several such calls, between which others run.             *)
(*                                                                         *)
(* p is the Process.  An operator on it gives the set of values it may     *)
(* have afterwards: header generation and the write to the chain may fail, *)
(* and results are tried in the order of a Go map.                         *)
(***************************************************************************)
EXTENDS PowPool, Sequences

CONSTANTS
    Kinds,         \* kinds of height: "common", "prebroadcast", "broadcast"
    Self,          \* the turn that this validator leads
    MaxTurn,       \* bound: turns of the height; validator t leads turn t
    MaxHeaders,    \* bound: headers this node makes
    MaxNotices,    \* bound: leader messages
    MaxResults     \* bound: results of the broadcast node

NoLeader == -1
Bc == 9                        \* the broadcast node
NoHash == <<-1, 0>>            \* common.Hash{}
OtherKey == <<-2, 0>>          \* a hash or difficulty that no block has

\* Blocks: <<leader, which of its headers>>.  Only this node's second header is looked at.
Blocks == {<<l, 1>> : l \in 0 .. MaxTurn} \cup {<<Self, v>> : v \in 1 .. MaxHeaders}
BcBlocks == {<<Bc, v>> : v \in 1 .. MaxResults}
Time(b) == 10 * b[1] + b[2]    \* header.Time: later turns are later

Idle == 0
BlockBroadcast == 1
HeaderGen == 2
MinerResultVerify == 3
BlockInsert == 4
End == 5

VARIABLES
    role,          \* role of the node at this height
    kind,          \* "common", "prebroadcast" (the next height is one) or "broadcast"
    p,             \* the Process
    handlers,      \* next leaders that handlers of leader messages have still to set
    notices,       \* leader messages so far
    life           \* "new", "started", "closed"

vars == <<role, kind, p, handlers, notices, life>>

\* newProcess; the last four are histories: blocks written to the chain, headers made,
\* whether the last try to write the block failed, and whether a recovery or a full block
\* has come before the Process was started.
newProcess ==
    [state |-> Idle, cur |-> NoLeader, next |-> NoLeader, turn |-> 0,
     role |-> "nil", pool |-> NewPowPool, bcast |-> <<>>, cache |-> <<>>, sender |-> NoHash,
     inserted |-> {}, written |-> {}, made |-> 0, failed |-> FALSE,
     early |-> FALSE]

Init ==
    /\ kind \in Kinds
    /\ role \in {"validator", "broadcast"}
    /\ p = newProcess
    /\ handlers = {} /\ notices = 0 /\ life = "new"

-------------------------------------------------------------------------------
(***************************************************************************)
(* The cache of blocks (blockCache.go): leader -> block, its BlockHash     *)
(* field, whether it is ready and whether its mining result verifies.      *)
(***************************************************************************)

Save(cache, data) ==
    [l \in DOMAIN cache \cup {data.blk[1]} |-> IF l = data.blk[1] THEN data ELSE cache[l]]

SaveVerifiedBlock(cache, b) ==
    IF b[1] \in DOMAIN cache THEN cache
    ELSE Save(cache, [blk |-> b, bh |-> b, ready |-> FALSE, ok |-> FALSE])

\* The blocks that are saved as ready have no BlockHash.
SaveReadyBlock(cache, b) == Save(cache, [blk |-> b, bh |-> NoHash, ready |-> TRUE, ok |-> TRUE])

GetBlockDataByBlockHash(cache, b) == {l \in DOMAIN cache : cache[l].bh = b}

\* The leader whose block the node goes on with: the broadcast node takes the latest
\* (GetLastBlockData), a validator the given leader's (GetBlockData).
BlockOf(q, leader) ==
    {l \in DOMAIN q.cache :
        IF q.role = "broadcast" THEN \A o \in DOMAIN q.cache : Time(q.cache[o].blk) <= Time(q.cache[l].blk)
        ELSE l = leader}

-------------------------------------------------------------------------------
(***************************************************************************)
(* Writing the block.                                                      *)
(***************************************************************************)

\* Mutant of ReadyBlock: the cached block need not be ready.
CachedBlock(q, want) == {l \in BlockOf(q, q.cur) : want = NoHash \/ q.cache[l].blk = want}

\* The ready block of the current leader, which must be the wanted one if another node asks.
ReadyBlock(q, want) ==
    {l \in BlockOf(q, q.cur) : q.cache[l].ready /\ (want = NoHash \/ q.cache[l].blk = want)}

\* insertAndBcBlock: the block is written; the write may fail.
insertAndBcBlock(q, want) ==
    UNION {{[q EXCEPT !.failed = TRUE],
            [q EXCEPT !.failed = FALSE, !.written = @ \cup {q.cache[l]}]} : l \in ReadyBlock(q, want)}

\* This node writes the block: before a broadcast height the broadcast node, otherwise the
\* next leader.
InsertsItself(q) ==
    IF kind = "prebroadcast" THEN q.role = "broadcast"
    ELSE q.role = "validator" /\ q.next = Self

processBlockInsert(q) ==
    IF q.state < BlockInsert \/ ~InsertsItself(q) \/ ReadyBlock(q, NoHash) = {} THEN {q}
    ELSE {IF r.failed THEN r ELSE [r EXCEPT !.state = End] : r \in insertAndBcBlock(q, NoHash)}

-------------------------------------------------------------------------------
(***************************************************************************)
(* Mining results.                                                         *)
(***************************************************************************)

\* pickSatisfyMinerResults: bad results that come before the first good one are deleted;
\* without a good one all are.
pickSatisfyMinerResults(pool, key) ==
    LET results == GetMinerResults(pool, key)
        bad == {r \in results : ~r.ok}
    IN  IF bad = results THEN {[pool |-> DelResults(pool, bad), ok |-> FALSE]}
        ELSE {[pool |-> DelResults(pool, S), ok |-> TRUE] : S \in SUBSET bad}

\* dealMinerResultVerifyCommon.
dealMinerResultVerifyCommon(q, leader) ==
    LET Ready(r) == processBlockInsert([r EXCEPT !.state = BlockInsert])
        Picked(l) == pickSatisfyMinerResults(q.pool, q.cache[l].bh)
        Step(l) ==
            IF q.cache[l].ready THEN Ready(q)
            ELSE UNION {IF pick.ok
                        THEN Ready([q EXCEPT !.pool = pick.pool, !.cache[l].ready = TRUE,
                                             !.cache[l].ok = TRUE])
                        ELSE {[q EXCEPT !.pool = pick.pool]} : pick \in Picked(l)}
    IN  IF BlockOf(q, leader) = {} THEN {q} ELSE UNION {Step(l) : l \in BlockOf(q, leader)}

\* dealMinerResultVerifyBroadcast: the first result whose transactions can be run is taken.
dealMinerResultVerifyBroadcast(q) ==
    {q} \cup UNION {processBlockInsert(
                        [q EXCEPT !.cache = SaveReadyBlock(@, q.bcast[i]),
                                  !.state = IF @ = MinerResultVerify THEN BlockInsert ELSE @])
                    : i \in DOMAIN q.bcast}

processMinerResultVerify(q, leader, check) ==
    IF check /\ q.state # MinerResultVerify THEN {q}
    ELSE IF kind = "broadcast" THEN dealMinerResultVerifyBroadcast(q)
    ELSE dealMinerResultVerifyCommon(q, leader)

-------------------------------------------------------------------------------
(***************************************************************************)
(* Making the header.                                                      *)
(***************************************************************************)

ToMinerResultVerify(q) == processMinerResultVerify([q EXCEPT !.state = MinerResultVerify], q.cur, TRUE)

\* canGenHeader; the others go on to the results at once.
GeneratesHeader(q) ==
    IF q.role = "broadcast" THEN kind = "broadcast" ELSE kind # "broadcast" /\ q.cur = Self

\* processHeaderGen: a new header, which startConsensusReqSender sends again and again,
\* except at a broadcast height; it may fail.
processHeaderGen(q) ==
    IF kind = "broadcast" THEN {q}
    ELSE IF q.made = MaxHeaders THEN {}
    ELSE {[q EXCEPT !.made = @ + 1, !.sender = <<Self, q.made + 1>>]}

startHeaderGen(q) ==
    IF ~GeneratesHeader(q) THEN ToMinerResultVerify(q)
    ELSE {q} \cup UNION {ToMinerResultVerify(r) : r \in processHeaderGen(q)}

\* startBcBlock, with canBcBlock.
startBcBlock(q) ==
    IF q.state # BlockBroadcast \/ (q.role = "validator" /\ q.cur = NoLeader) THEN {q}
    ELSE startHeaderGen([q EXCEPT !.state = HeaderGen])

-------------------------------------------------------------------------------
(***************************************************************************)
(* Leaders.                                                                *)
(***************************************************************************)

\* What Close and ReInit have in common.
closed(q) == [q EXCEPT !.cur = NoLeader, !.next = NoLeader, !.turn = 0, !.sender = NoHash]

SetCurLeader(q, leader, turn) ==
    IF q.cur = leader /\ q.turn = turn THEN {q}
    ELSE LET set == [q EXCEPT !.cur = leader, !.turn = turn, !.sender = NoHash]
         IN  IF q.state = Idle THEN {set}
             ELSE startBcBlock([set EXCEPT !.state = BlockBroadcast, !.next = NoLeader])

\* Mutant of SetNextLeader: the insertion is not tried.
SetNextLeaderOnly(q, leader) == {[q EXCEPT !.next = leader]}

SetNextLeader(q, leader) ==
    IF q.next = leader THEN {q} ELSE processBlockInsert([q EXCEPT !.next = leader])

\* What a leader message for this height may say: turn, leader and next leader.
Notices ==
    CASE kind = "common" -> {<<t, t, t + 1>> : t \in 0 .. MaxTurn}
      [] kind = "prebroadcast" -> {<<t, t, Bc>> : t \in 0 .. MaxTurn}
      [] kind = "broadcast" -> {<<0, Bc, l>> : l \in {0, Self}}

Noticed ==
    /\ role = "validator" /\ notices < MaxNotices
    /\ notices' = notices + 1

\* leaderChangeNotifyHandle for this height: a leader is agreed on ...
LeaderChosen ==
    /\ Noticed
    /\ \E m \in Notices :
           /\ p' \in SetCurLeader(p, m[2], m[1])
           /\ handlers' = handlers \cup {m[3]}
    /\ UNCHANGED <<role, kind, life>>

\* ... its handler goes on with the next leader ...
HandlerGoesOn ==
    \E l \in handlers :
        /\ p' \in SetNextLeader(p, l)
        /\ handlers' = handlers \ {l}
        /\ UNCHANGED <<role, kind, notices, life>>

\* ... or a re-election has begun (ReInit).
ReInit ==
    /\ Noticed
    /\ p' = IF p.state = Idle THEN p ELSE [closed(p) EXCEPT !.state = BlockBroadcast]
    /\ UNCHANGED <<role, kind, handlers, life>>

\* A leader message for the next height: its leader writes this height's block.
NextLeaderChosen ==
    /\ Noticed
    /\ \E l \in IF kind = "prebroadcast" THEN {Bc} ELSE 0 .. MaxTurn + 1 : p' \in SetNextLeader(p, l)
    /\ UNCHANGED <<role, kind, handlers, life>>

ReInitNextLeader ==
    /\ Noticed
    /\ p' = [p EXCEPT !.next = NoLeader]
    /\ UNCHANGED <<role, kind, handlers, life>>

\* A leader message for the height before: its next leader is expected to lead here.
LeaderExpected ==
    /\ Noticed
    /\ \E l \in IF kind = "broadcast" THEN {Bc} ELSE 0 .. MaxTurn : p' \in SetCurLeader(p, l, 0)
    /\ UNCHANGED <<role, kind, handlers, life>>

-------------------------------------------------------------------------------
(***************************************************************************)
(* The other messages.                                                     *)
(***************************************************************************)

\* roleUpdatedMsgHandle makes the height the current one.
StartRunning ==
    /\ life = "new" /\ life' = "started"
    /\ p' \in startBcBlock([p EXCEPT !.role = role, !.state = IF @ = Idle THEN BlockBroadcast ELSE @])
    /\ UNCHANGED <<role, kind, handlers, notices>>

\* fixProcessMap drops the height; a handler may still hold the Process.
Close ==
    /\ life = "started" /\ life' = "closed"
    /\ p' = [closed(p) EXCEPT !.state = Idle]
    /\ UNCHANGED <<role, kind, handlers, notices>>

\* A block of this node exists once its header was made.
HeaderMade(b) == b[1] = Self /\ role = "validator" => b[2] <= p.made

AddConsensusBlock(b) ==
    /\ kind # "broadcast" /\ HeaderMade(b)
    /\ p' \in processMinerResultVerify([p EXCEPT !.cache = SaveVerifiedBlock(@, b)], p.cur, TRUE)
    /\ UNCHANGED <<role, kind, handlers, notices, life>>

MinerResult(r) ==
    /\ kind # "broadcast"
    /\ CanAdd(p.pool, r)
    /\ p' \in processMinerResultVerify([p EXCEPT !.pool = AddMinerResult(@, r)], p.cur, TRUE)
    /\ UNCHANGED <<role, kind, handlers, notices, life>>

\* AddBroadcastMinerResult, for a result that preVerifyBroadcastMinerResult accepts.
AddBroadcastMinerResult(b) ==
    /\ kind = "broadcast" /\ Len(p.bcast) < MaxResults
    /\ p' \in processMinerResultVerify([p EXCEPT !.bcast = Append(@, b)], p.cur, TRUE)
    /\ UNCHANGED <<role, kind, handlers, notices, life>>

\* ProcessRecoveryMsg with the full header of block b, mined by m: the state is ignored.
ProcessRecoveryMsg(b, m) ==
    /\ kind # "broadcast" /\ HeaderMade(b)
    /\ p' \in processMinerResultVerify(
                 [p EXCEPT !.pool = AddMinerResult(@, [key |-> b, from |-> m, ok |-> TRUE]),
                           !.early = @ \/ life = "new"],
                 b[1], FALSE)
    /\ UNCHANGED <<role, kind, handlers, notices, life>>

\* ProcessFullBlockRsp with a block that verifies.
ProcessFullBlockRsp(b) ==
    /\ kind # "broadcast" /\ HeaderMade(b)
    /\ GetBlockDataByBlockHash(p.cache, b) = {}
    /\ p' \in processBlockInsert([p EXCEPT !.cache = SaveReadyBlock(@, b), !.state = BlockInsert,
                                            !.early = @ \/ life = "new"])
    /\ UNCHANGED <<role, kind, handlers, notices, life>>

\* startBlockInsert with a header that verifies: the next leader has written the block.
AddInsertBlockInfo(b) ==
    /\ IF kind = "broadcast" THEN b \in BcBlocks ELSE b \in Blocks /\ HeaderMade(b)
    /\ b \notin p.inserted
    /\ p' \in {[q EXCEPT !.inserted = @ \cup {b}] : q \in IF ReadyBlock(p, b) = {} THEN {p} ELSE insertAndBcBlock(p, b)}
    /\ UNCHANGED <<role, kind, handlers, notices, life>>

\* A result that fits no block is never verified.
Results == [key : Blocks, from : Miners, ok : BOOLEAN] \cup [key : {OtherKey}, from : Miners, ok : {FALSE}]

Next ==
    \/ StartRunning \/ Close
    \/ LeaderChosen \/ HandlerGoesOn \/ ReInit
    \/ NextLeaderChosen \/ ReInitNextLeader \/ LeaderExpected
    \/ \E b \in Blocks : AddConsensusBlock(b) \/ ProcessFullBlockRsp(b)
    \/ \E b \in Blocks, m \in Miners : ProcessRecoveryMsg(b, m)
    \/ \E r \in Results : MinerResult(r)
    \/ \E b \in BcBlocks : AddBroadcastMinerResult(b)
    \/ \E b \in Blocks \cup BcBlocks : AddInsertBlockInfo(b)

Spec == Init /\ [][Next]_vars

-------------------------------------------------------------------------------
(***************************************************************************)
(* Properties.                                                             *)
(***************************************************************************)

\* Every block that this node writes to the chain, whoever asked for it, was ready and has
\* a mining result that verifies (insertAndBcBlock, pickSatisfyMinerResults).
WrittenIsReady == \A d \in p.written : d.ready /\ d.ok

\* No insertion is missed: a Process whose ready block this node has to write has tried, and
\* is still there only because the write failed (SetNextLeader, processBlockInsert).  A
\* recovery that comes before StartRunning is left out: the Process then never starts.
NoMissedInsert ==
    ~p.early /\ p.state = BlockInsert /\ InsertsItself(p) =>
        \A l \in ReadyBlock(p, NoHash) : p.failed \/ \E d \in p.written : d.blk = p.cache[l].blk

===============================================================================
