------------------------------- MODULE BlkVerify -------------------------------
(***************************************************************************)
(* The verification of the block of one height by one node: a Process of   *)
(* blkconsensus/blkverify, the request cache it owns, and the handlers of  *)
(* BlockVerify that drive it.                                              *)
(*                                                                         *)
(* A Process's methods run under its mutex, so each is one step; the method*)
(* calls they make are operators that take the state p of the Process and  *)
(* give the set of states it can be in when the call returns.  What runs   *)
(* between the steps is everything else: BlockVerify.update starts a new   *)
(* goroutine for every message, so messages of all kinds arrive in any     *)
(* order, any number of times or never.                                    *)
(*                                                                         *)
(* Requests are objects shared between the cache and curProcessReq; here   *)
(* p.reqs is the heap of them and an object is its index, 0 for nil.  The  *)
(* list otherReqCache is in order of arrival, hence the set of its objects *)
(* in increasing order.                                                    *)
(***************************************************************************)
EXTENDS DposQuorum, Votes, Sequences

CONSTANTS
    Self,          \* this node's account
    Role,          \* the role CA gives this node: "Validator" or "Broadcast"
    Validators,    \* validators of the parent's topology
    Leaders,       \* accounts that lead some turn
    NoLeader,      \* common.Address{}
    Turns,         \* consensus turns
    Requests,      \* HD_BlkConsensusReqMsg messages of this height
    LocalRequests, \* headers this node generates when it leads
    LeaderMsgs,    \* <<leader, turn>> that the leader service announces
    BadHashes,     \* headers whose transactions do not give their hash
    VoteMsgs,      \* votes <<account, hash>> that arrive from others
    RecoveryMsgs,  \* <<hash, signers>> of recovery messages
    OtherReqLimit, \* otherReqCountMax, 50 in the code
    MaxReqs,       \* bound: requests accepted
    MaxSeq,        \* bound: transaction acquisitions
    MaxHandlers    \* bound: handlers between two steps

Request == [leader : Leaders, from : Accounts, turn : Turns, hash : Hashes,
            posed : BOOLEAN]

ASSUME RoleAssumption == Role \in {"Validator", "Broadcast"}
ASSUME AccountsAssumption ==
    /\ Self \in Accounts
    /\ Validators \subseteq Accounts
    /\ Leaders \subseteq Accounts
    /\ NoLeader \notin Accounts
    /\ Turns \subseteq Nat /\ 0 \in Turns
ASSUME MessagesAssumption ==
    /\ Requests \subseteq Request
    /\ LocalRequests \subseteq Request
    /\ LeaderMsgs \subseteq Leaders \X Turns
    /\ VoteMsgs \subseteq Accounts \X Hashes
    /\ RecoveryMsgs \subseteq Hashes \X SUBSET Accounts
\* A node gets no messages from itself, and generates headers as leader.
ASSUME SelfAssumption ==
    /\ \A r \in Requests : r.from # Self
    /\ \A r \in LocalRequests : r.leader = Self
ASSUME BoundsAssumption ==
    /\ OtherReqLimit \in Nat \ {0}
    /\ MaxReqs \in Nat
    /\ MaxSeq \in Nat
    /\ MaxHandlers \in Nat

VARIABLES
    p,             \* the Process
    phase,         \* its number against curNumber: "future", "current", "past"
    starting,      \* role handlers between GetCurrentProcess and StartRunning
    voting         \* vote handlers between AddVote and ProcessDPOSOnce

vars == <<p, phase, starting, voting>>

-------------------------------------------------------------------------------
StateIdle == 0
StateStart == 1
StateReqVerify == 2
StateTxsVerify == 3
StateDPOSVerify == 4
StateEnd == 5

VerifyResult == {"Processing", "Success", "FailedButCanRecover", "StateFailed"}

ReqData == [leader : Leaders, turn : Turns, hash : Hashes, posed : BOOLEAN,
            local : BOOLEAN, result : VerifyResult]

\* posed: the header's signature list passes VerifyBlock.
newReqData(r, isLocal) ==
    [leader |-> r.leader, turn |-> r.turn, hash |-> r.hash, posed |-> r.posed,
     local |-> isLocal, result |-> "Processing"]

newProcess ==
    [role |-> "Nil", state |-> StateIdle, cur |-> 0,
     consensus |-> FALSE, leader |-> NoLeader, turn |-> 0,
     reqs |-> <<>>, curTurn |-> 0,
     leaderReqCache |-> [l \in Leaders |-> 0], otherReqCache |-> {},
     seq |-> 0, acquiring |-> {},
     voteSender |-> 0, mineSender |-> 0, posedSender |-> 0,
     votes |-> {},
     verifyOK |-> {},      \* history: requests of BlkVerify_VerifyConsensusOK
     posFinished |-> {}]   \* history: requests of BlkVerify_POSFinishedNotify

Cur(q) == q.reqs[q.cur]

SetCur(q, d) == [q EXCEPT !.reqs = [q.reqs EXCEPT ![q.cur] = d]]

SetResult(q, r) == SetCur(q, [Cur(q) EXCEPT !.result = r])

SetPosed(q) == SetCur(q, [Cur(q) EXCEPT !.posed = TRUE])

stopSender(q) == [q EXCEPT !.mineSender = 0, !.posedSender = 0, !.voteSender = 0]

-------------------------------------------------------------------------------
(***************************************************************************)
(* The DPOS stage.                                                         *)
(***************************************************************************)

\* sendVote(true).  Signing can fail: then there is no vote and no event.
sendVote(q) ==
    {q} \cup {[q EXCEPT !.voteSender = q.cur, !.votes = v, !.verifyOK = @ \cup {q.cur}] :
                 v \in AddedTo(q.votes, Self, Cur(q).hash)}

\* Mutant of finishedProcess: only a header verified here ends the Process.
finishedProcessIfSuccess(q) ==
    IF Cur(q).result # "Success"
    THEN q
    ELSE [q EXCEPT !.posFinished = @ \cup {q.cur}, !.mineSender = q.cur,
                   !.posedSender = q.cur, !.votes = DeletedFrom(@, Cur(q).hash),
                   !.state = StateEnd]

finishedProcess(q) ==
    IF Cur(q).result \in {"Processing", "StateFailed"}
    THEN q
    ELSE [q EXCEPT !.posFinished = IF Cur(q).result = "Success" THEN @ \cup {q.cur} ELSE @,
                   !.mineSender = q.cur,
                   !.posedSender = q.cur,
                   !.votes = DeletedFrom(@, Cur(q).hash),
                   !.state = StateEnd]

processDPOSOnce(q) ==
    IF /\ q.state = StateDPOSVerify
       /\ IsQuorum(VotersOf(q.votes, Cur(q).hash) \cap Validators, Validators)
    THEN finishedProcess(SetPosed(q))
    ELSE q

\* A request that is refused leaves the state as it is: the Process waits.
bcFinishedProcess(q, r) ==
    LET done == SetResult(q, r)
    IN  IF r \in {"Processing", "StateFailed"}
        THEN done
        ELSE [done EXCEPT !.verifyOK = IF r = "Success" THEN @ \cup {q.cur} ELSE @,
                          !.state = StateEnd]

\* Mutant of startDPOSVerify: the votes are counted before the state is set.
startDPOSVerifyLateState(q, r) ==
    IF q.state >= StateDPOSVerify
    THEN {q}
    ELSE IF q.role = "Broadcast"
         THEN {bcFinishedProcess(q, r)}
         ELSE {[processDPOSOnce(SetResult(s, r)) EXCEPT !.state = StateDPOSVerify] :
                  s \in IF r = "Success" THEN sendVote(q) ELSE {q}}

startDPOSVerify(q, r) ==
    IF q.state >= StateDPOSVerify
    THEN {q}
    ELSE IF q.role = "Broadcast"
         THEN {bcFinishedProcess(q, r)}
         ELSE {processDPOSOnce([SetResult(s, r) EXCEPT !.state = StateDPOSVerify]) :
                  s \in IF r = "Success" THEN sendVote(q) ELSE {q}}

-------------------------------------------------------------------------------
(***************************************************************************)
(* The verification of the request.  A header is refused for what it says, *)
(* and also when the local chain or the election service cannot tell yet.  *)
(***************************************************************************)

\* The two goroutines of an acquisition are one task: it ends with the result of
\* ReturnAllTxsByN or with the five seconds' timeout.
startTxsVerify(q) ==
    {[q EXCEPT !.state = StateTxsVerify,
               !.seq = n,
               !.acquiring = @ \cup {[seq |-> n, req |-> q.cur]}] :
        n \in {q.seq + 1} \cap 1 .. MaxSeq}

\* Header time, VerifyHeader and verifyElection; then verifyNetTopology.
HeaderOutcomes == {"ok", "StateFailed", "FailedButCanRecover"}

processReqOnce(q) ==
    IF Cur(q).local
    THEN startDPOSVerify(q, "Success")
    ELSE UNION {IF o = "ok" THEN startTxsVerify(q) ELSE startDPOSVerify(q, o) :
                   o \in HeaderOutcomes}

GetLeaderReq(q) ==
    IF /\ q.leader \in Leaders
       /\ q.leaderReqCache[q.leader] # 0
       /\ q.reqs[q.leaderReqCache[q.leader]].turn = q.turn
    THEN q.leaderReqCache[q.leader] ELSE 0

startReqVerifyCommon(q) ==
    IF q.state # StateStart \/ ~q.consensus \/ GetLeaderReq(q) = 0
    THEN {q}
    ELSE processReqOnce([q EXCEPT !.cur = GetLeaderReq(q), !.state = StateReqVerify])

-------------------------------------------------------------------------------
(***************************************************************************)
(* The broadcast node takes requests that validators have signed already.  *)
(***************************************************************************)
bcProcessReqVerify(q) ==
    startTxsVerify(q) \cup {bcFinishedProcess(q, "StateFailed")}

LeaderReqs(q) == {q.leaderReqCache[l] : l \in Leaders} \ {0}

Untried(q, I) == {i \in I : q.reqs[i].result = "Processing"}

\* Mutant of Posed: the signatures of a request are not checked.
PosedAlways(q, I) == I

Posed(q, I) == {i \in I : q.reqs[i].posed}

Refuse(q, I) ==
    [q EXCEPT !.reqs = [i \in 1 .. Len(q.reqs) |->
        IF i \in I THEN [q.reqs[i] EXCEPT !.result = "StateFailed"] ELSE q.reqs[i]]]

TakeReq(q, i) == bcProcessReqVerify([q EXCEPT !.cur = i, !.state = StateReqVerify])

(***************************************************************************)
(* The loop of startReqVerifyBC over GetAllReq: the leaders' requests in   *)
(* the order of a Go map, then the others in order of arrival.  It refuses *)
(* those without a quorum of signatures until it finds one that has.       *)
(***************************************************************************)
startReqVerifyBC(q) ==
    LET byLeader == Untried(q, LeaderReqs(q))
        others   == Untried(q, q.otherReqCache)
    IN  IF q.state \notin {StateStart, StateEnd}
        THEN {q}
        ELSE IF Posed(q, byLeader) # {}
        THEN UNION {TakeReq(Refuse(q, I), i) :
                      I \in SUBSET (byLeader \ Posed(q, byLeader)),
                      i \in Posed(q, byLeader)}
        ELSE IF Posed(q, others) # {}
        THEN UNION {TakeReq(Refuse(q, byLeader \cup {j \in others : j < i}), i) :
                      i \in {k \in Posed(q, others) :
                                \A j \in Posed(q, others) : k <= j}}
        ELSE {Refuse(q, byLeader \cup others)}

startReqVerify(q) ==
    IF q.role = "Broadcast" THEN startReqVerifyBC(q)
    ELSE IF q.role = "Validator" THEN startReqVerifyCommon(q)
    ELSE {q}

-------------------------------------------------------------------------------
(***************************************************************************)
(* The methods of Process that the handlers call.                          *)
(***************************************************************************)
StartRunning(q) ==
    startReqVerify([q EXCEPT !.role = Role,
                             !.state = IF @ = StateIdle THEN StateStart ELSE @])

Close(q) == stopSender([q EXCEPT !.state = StateIdle, !.cur = 0])

\* Mutant of stopProcess: the sender of the mining request stays.
stopProcessSending(q) ==
    [q EXCEPT !.leader = NoLeader, !.turn = 0, !.cur = 0,
              !.state = IF @ > StateIdle THEN StateStart ELSE @]

stopProcess(q) ==
    [q EXCEPT !.mineSender = 0, !.leader = NoLeader, !.turn = 0, !.cur = 0,
              !.state = IF @ > StateIdle THEN StateStart ELSE @]

\* Mutant of SetCurTurn: any turn replaces the current one.
SetCurTurnAlways(q, t) ==
    [q EXCEPT !.curTurn = t,
              !.leaderReqCache = [l \in Leaders |->
                  IF @[l] # 0 /\ q.reqs[@[l]].turn < t THEN 0 ELSE @[l]],
              !.otherReqCache = {i \in @ : q.reqs[i].turn >= t}]

SetCurTurn(q, t) ==
    IF q.curTurn >= t
    THEN q
    ELSE [q EXCEPT !.curTurn = t,
                   !.leaderReqCache = [l \in Leaders |->
                       IF /\ q.leaderReqCache[l] # 0
                          /\ q.reqs[q.leaderReqCache[l]].turn < t
                       THEN 0 ELSE q.leaderReqCache[l]],
                   !.otherReqCache = {i \in @ : q.reqs[i].turn >= t}]

SetLeaderInfo(q, isConsensus, l, t) ==
    LET new == [q EXCEPT !.consensus = TRUE, !.leader = l, !.turn = t, !.cur = 0]
        set == stopSender(SetCurTurn(new, t))
        restarted == [set EXCEPT !.state = StateStart]
    IN  IF ~isConsensus
        THEN {stopProcess([q EXCEPT !.consensus = FALSE])}
        ELSE IF q.leader = l /\ q.turn = t
        THEN {[q EXCEPT !.consensus = TRUE]}
        ELSE IF q.state = StateIdle
        THEN {set}
        ELSE IF q.role = "Validator" THEN startReqVerifyCommon(restarted)
        ELSE {restarted}

\* Mutant of Refuses: a second request for the same turn replaces the first.
RefusesEarlier(q, r) ==
    \/ r.turn < q.curTurn
    \/ /\ r.leader = r.from
       /\ q.leaderReqCache[r.leader] # 0
       /\ q.reqs[q.leaderReqCache[r.leader]].turn > r.turn

\* reqCache.AddReq: not of a past turn, and of one leader only for a later turn.
Refuses(q, r) ==
    \/ r.turn < q.curTurn
    \/ /\ r.leader = r.from
       /\ q.leaderReqCache[r.leader] # 0
       /\ q.reqs[q.leaderReqCache[r.leader]].turn >= r.turn

NewObject(q, r, isLocal) == [q EXCEPT !.reqs = Append(@, newReqData(r, isLocal))]

CacheLeaderReq(q, r, isLocal) ==
    [NewObject(q, r, isLocal) EXCEPT
        !.leaderReqCache = [q.leaderReqCache EXCEPT ![r.leader] = Len(q.reqs) + 1]]

\* A full list loses its first element.
CacheOtherReq(q, r) ==
    [NewObject(q, r, FALSE) EXCEPT
        !.otherReqCache =
            {i \in @ : Cardinality(@) >= OtherReqLimit => \E j \in @ : j < i}
                \cup {Len(q.reqs) + 1}]

AddReq(q, r) ==
    IF Refuses(q, r) THEN {q}
    ELSE startReqVerify(IF r.leader = r.from THEN CacheLeaderReq(q, r, FALSE)
                                             ELSE CacheOtherReq(q, r))

AddLocalReq(q, r) == startReqVerify(CacheLeaderReq(q, r, TRUE))

\* DelVotes, then one AddVote for each signature of the header.
Recovered(votes, h, signers) ==
    IF signers = {} THEN {DeletedFrom(votes, h)}
    ELSE SUBSET (DeletedFrom(votes, h) \cup (signers \X {h}))

GetLeaderReqByHash(q, h) ==
    {i \in LeaderReqs(q) \cup q.otherReqCache : q.reqs[i].hash = h}

ProcessRecoveryMsg(q, h, signers) ==
    IF GetLeaderReqByHash(q, h) = {} THEN {q}
    ELSE {processDPOSOnce([q EXCEPT !.votes = v]) : v \in Recovered(q.votes, h, signers)}

\* Mutant of ProcessTxsAcquireTimeOut: a timeout of any acquisition counts.
TimeOutOfAny(q, task) ==
    IF q.state # StateTxsVerify THEN {q}
    ELSE startDPOSVerify(q, "FailedButCanRecover")

ProcessTxsAcquireTimeOut(q, task) ==
    IF task.seq # q.seq \/ q.state # StateTxsVerify THEN {q}
    ELSE startDPOSVerify(q, "FailedButCanRecover")

\* The transactions are those of the task's request, the header is the current one's.
TxsOutcomes(q, task) ==
    {"FailedButCanRecover", "StateFailed"} \cup
    {o \in {"Success"} : /\ q.reqs[task.req].hash = Cur(q).hash
                         /\ Cur(q).hash \notin BadHashes}

\* Mutant of VerifyTxs: an error of the acquisition is only logged.
VerifyTxsIfNoError(q, task) ==
    IF q.state # StateTxsVerify \/ task.seq # q.seq THEN {q}
    ELSE UNION {IF o = "FailedButCanRecover" THEN {q} ELSE startDPOSVerify(q, o) :
                   o \in TxsOutcomes(q, task)}

VerifyTxs(q, task) ==
    IF q.state # StateTxsVerify \/ task.seq # q.seq THEN {q}
    ELSE UNION {startDPOSVerify(q, o) : o \in TxsOutcomes(q, task)}

-------------------------------------------------------------------------------
(***************************************************************************)
(* The handlers of BlockVerify, as far as they concern this Process, and   *)
(* the end of an acquisition.  GetProcess refuses past numbers, but a      *)
(* handler that has the Process may be overtaken by the number: therefore  *)
(* handlers act on a past Process too.                                     *)
(***************************************************************************)
Init ==
    /\ p = newProcess
    /\ phase = "future"
    /\ starting = 0
    /\ voting = 0

\* handleRoleUpdatedMsg up to GetCurrentProcess, the number now being this one's.
NumberReached(runs) ==
    /\ phase # "past"
    /\ starting < MaxHandlers
    /\ phase' = "current"
    /\ starting' = starting + (IF runs THEN 1 ELSE 0)
    /\ UNCHANGED <<p, voting>>

\* The rest of it, perhaps after the number has moved on.
RoleUpdated ==
    /\ starting > 0
    /\ p' \in StartRunning(p)
    /\ starting' = starting - 1
    /\ UNCHANGED <<phase, voting>>

\* handleRoleUpdatedMsg of a later number: fixProcessMap closes this Process.
NumberPassed ==
    /\ phase # "past"
    /\ phase' = "past"
    /\ p' = Close(p)
    /\ UNCHANGED <<starting, voting>>

handleLeaderChangeNotify(isConsensus, l, t) ==
    /\ p' \in SetLeaderInfo(p, isConsensus, l, t)
    /\ UNCHANGED <<phase, starting, voting>>

handleRequestMsg(r) ==
    /\ Len(p.reqs) < MaxReqs
    /\ p' \in AddReq(p, r)
    /\ UNCHANGED <<phase, starting, voting>>

handleLocalRequestMsg(r) ==
    /\ Len(p.reqs) < MaxReqs
    /\ p' \in AddLocalReq(p, r)
    /\ UNCHANGED <<phase, starting, voting>>

\* handleVoteMsg up to AddVoteToPool.
handleVoteMsg(v) ==
    /\ v \notin p.votes
    /\ voting < MaxHandlers
    /\ \E s \in AddedTo(p.votes, v[1], v[2]) : p' = [p EXCEPT !.votes = s]
    /\ voting' = voting + 1
    /\ UNCHANGED <<phase, starting>>

\* The rest of it: the current Process, when it asks for it, need not be this one.
ProcessDPOSOnce ==
    /\ voting > 0
    /\ \/ phase # "future" /\ p' = processDPOSOnce(p)
       \/ phase # "current" /\ p' = p
    /\ voting' = voting - 1
    /\ UNCHANGED <<phase, starting>>

handleRecoveryMsg(h, signers) ==
    /\ phase # "future"
    /\ p' \in ProcessRecoveryMsg(p, h, signers)
    /\ UNCHANGED <<phase, starting, voting>>

Acquired(task) == [p EXCEPT !.acquiring = @ \ {task}]

processTxsAcquire(task) ==
    /\ task \in p.acquiring
    /\ \/ p' \in VerifyTxs(Acquired(task), task)
       \/ p' \in ProcessTxsAcquireTimeOut(Acquired(task), task)
    /\ UNCHANGED <<phase, starting, voting>>

Next ==
    \/ \E runs \in BOOLEAN : NumberReached(runs)
    \/ RoleUpdated
    \/ NumberPassed
    \/ \E m \in LeaderMsgs, isConsensus \in BOOLEAN :
          handleLeaderChangeNotify(isConsensus, m[1], m[2])
    \/ \E r \in Requests : handleRequestMsg(r)
    \/ \E r \in LocalRequests : handleLocalRequestMsg(r)
    \/ \E v \in VoteMsgs : handleVoteMsg(v)
    \/ ProcessDPOSOnce
    \/ \E m \in RecoveryMsgs : handleRecoveryMsg(m[1], m[2])
    \/ \E task \in p.acquiring : processTxsAcquire(task)

Spec == Init /\ [][Next]_vars

(***************************************************************************)
(* The Go scheduler runs every goroutine: a vote handler gets to its second*)
(* half, and an acquisition ends, by its timer if not before.              *)
(***************************************************************************)
Fairness ==
    /\ WF_vars(ProcessDPOSOnce)
    /\ \A n \in 1 .. MaxSeq :
          WF_vars(\E task \in p.acquiring : task.seq = n /\ processTxsAcquire(task))

-------------------------------------------------------------------------------
\* Type invariant.  Every pointer is nil or one of the requests accepted so far.
TypeOK ==
    LET Ptr == 0 .. Len(p.reqs)
        Obj == 1 .. Len(p.reqs)
    IN  /\ p.reqs \in Seq(ReqData)
        /\ p.role \in {"Nil", Role} /\ p.state \in StateIdle .. StateEnd
        /\ p.consensus \in BOOLEAN
        /\ p.leader \in Leaders \cup {NoLeader} /\ p.turn \in Turns
        /\ p.curTurn \in Turns /\ p.seq \in Nat
        /\ p.leaderReqCache \in [Leaders -> Ptr]
        /\ p.cur \in Ptr /\ p.voteSender \in Ptr
        /\ p.mineSender \in Ptr /\ p.posedSender \in Ptr
        /\ p.otherReqCache \subseteq Obj
        /\ p.verifyOK \subseteq Obj /\ p.posFinished \subseteq Obj
        /\ p.acquiring \subseteq [seq : 1 .. p.seq, req : Obj]
        /\ p.votes \subseteq Accounts \X Hashes
        /\ phase \in {"future", "current", "past"}
        /\ starting \in Nat /\ voting \in Nat

\* curProcessReq is set exactly in the states that use it: no handler that passes its
\* state check can meet a nil request, whatever stopped or restarted the Process.
HasRequest == (p.cur # 0) = (p.state >= StateReqVerify)

\* Of the headers that one leader sends for one turn, at most one gets this validator's
\* signature, although a Process is restarted by every change of leader and requests
\* are re-sent.  sendVote relies on reqCache.AddReq and SetCurTurn for this.
OneVotePerTurn ==
    \A i, j \in p.verifyOK :
        /\ Role = "Validator"
        /\ ~p.reqs[i].local /\ ~p.reqs[j].local
        /\ p.reqs[i].leader = p.reqs[j].leader
        /\ p.reqs[i].turn = p.reqs[j].turn
        => p.reqs[i].hash = p.reqs[j].hash

\* A validator never takes up a leader's header of an earlier turn than one it has
\* signed, even when leader changes arrive in the wrong order: SetLeaderInfo then goes
\* back to the earlier leader, but the request cache does not.
TurnsNeverGoBack ==
    Role = "Validator" /\ p.cur # 0 /\ ~Cur(p).local =>
        \A i \in p.verifyOK : ~p.reqs[i].local => p.reqs[i].turn <= Cur(p).turn

\* A request as Voting sees it.
HeaderOf(d) == [leader |-> d.leader, turn |-> d.turn, hash |-> d.hash]

\* The headers of other leaders that this validator has signed.
SignedHeaders ==
    {HeaderOf(p.reqs[i]) : i \in {j \in p.verifyOK : Role = "Validator" /\ ~p.reqs[j].local}}

V == INSTANCE Voting WITH
        Headers <- {HeaderOf(r) : r \in Requests},
        signed <- SignedHeaders

\* A validator's Process votes as Voting says: every step signs nothing or one header of
\* another leader, not a rival of one it has signed and not of an earlier turn (sendVote,
\* with reqCache.AddReq and SetCurTurn behind it).
ImplementsVoting == V!Spec

\* The end of an acquisition decides only about the request it was started for: a
\* late result or timeout of an earlier one is never taken for the current request's.
OwnResultOnly ==
    [][p.state = StateTxsVerify /\ p'.state >= StateDPOSVerify /\ p'.cur = p.cur =>
          \E task \in p.acquiring \ p'.acquiring : task.req = p.cur]_vars

\* A mining request is being sent exactly while the Process is at its end, for the
\* request it ended with, which a quorum has signed and this node has not refused: no
\* change of leader leaves the sender of an abandoned header running.
MiningMatchesEnd ==
    /\ (p.mineSender # 0) = (p.role = "Validator" /\ p.state = StateEnd)
    /\ p.mineSender # 0 =>
          /\ p.mineSender = p.cur
          /\ Cur(p).posed
          /\ Cur(p).result \in {"Success", "FailedButCanRecover"}

\* A broadcast node publishes only headers that a quorum had signed when they came
\* (bcFinishedProcess, after the loop of startReqVerifyBC).
PublishesPosed == Role = "Broadcast" => \A i \in p.verifyOK : p.reqs[i].posed

\* The request could be finished now.
Ready ==
    /\ phase = "current"
    /\ p.state = StateDPOSVerify
    /\ Cur(p).result # "StateFailed"
    /\ IsQuorum(VotersOf(p.votes, Cur(p).hash) \cap Validators, Validators)

\* Votes reach the pool outside the Process's mutex.  Still a quorum is never missed:
\* when it is there, the handler that is to notice it is on its way.
NoMissedQuorum == Ready => voting > 0

\* A validator leaves the transaction stage of every acquisition.
AcquisitionEnds ==
    \A n \in 1 .. MaxSeq :
        (p.state = StateTxsVerify /\ p.seq = n) ~> ~(p.state = StateTxsVerify /\ p.seq = n)

\* A quorum in the pool ends the request, unless votes or the request itself go first.
QuorumFinishes == Ready ~> ~Ready
===============================================================================
