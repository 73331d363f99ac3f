-------------------------------- MODULE Reelect --------------------------------
(***************************************************************************)
(* The re-election of the leader of one height among its validators        *)
(* (verifier/ctrlReelection.go, masterCache.go, msgPool.go).               *)
(*                                                                         *)
(* A validator that has waited too long enters re-election turns.  The     *)
(* master of such a turn asks the others whether they agree (inquiry), asks*)
(* those who do to vote for its request, and broadcasts the result: the new*)
(* consensus turn, with a quorum of votes, or a block that already has its *)
(* POS.  It takes the result itself once a quorum has answered it.         *)
(*                                                                         *)
(* Messages are never taken off the network: they are delayed, reordered,  *)
(* repeated and, when nobody handles them, lost.  Timeouts may come at any *)
(* moment (LeaderCtrl has the clock).  A time stamp is a number that every *)
(* sending makes new, which makes hashes of messages different.            *)
(***************************************************************************)
EXTENDS DposQuorum, Sequences

CONSTANTS
    N,             \* number of validators; validator t % N leads turn t
    MaxTurn,       \* bound: turns, consensus and re-election turn together
    MaxSends,      \* bound: messages a validator sends as a master
    PosTurns       \* turns whose block may get its POS

ASSUME BoundsAssumption == N \in Nat \ {0} /\ MaxTurn \in Nat /\ MaxSends \in Nat

Node == 0 .. N - 1
Turns == 0 .. MaxTurn
None == [kind |-> "none"]

VARIABLES
    nd,            \* nd[n]: controller and master cache of validator n; via is the
                   \* sender of the result that gave it its turn (history)
    stamp,         \* stamp[n]: time stamps validator n has used
    msgs,          \* messages sent
    adopted,       \* adopted[t]: validators that took turn t (history)
    from           \* from[t]: consensus turns from which turn t was voted for (history)

vars == <<nd, stamp, msgs, adopted, from>>

\* Mutant of Quorum: one signature less is enough.
QuorumOneLess(S) == Cardinality(Node) >= MinStockCount
                    /\ Cardinality(S) + 1 >= TargetCount(Cardinality(Node))

Quorum(S) == IsQuorum(S, Node)
Master(c, r) == (c + r) % N

\* newMasterCache and ClearSelfInquiryMsg.
EmptyCache == [result |-> "None", inq |-> None, agrees |-> {}, req |-> None, votes |-> {},
               bc |-> None, rsps |-> {}]

Init ==
    /\ nd = [n \in Node |-> [state |-> "stPos", turn |-> 0, reelect |-> 0, pos |-> <<>>,
                             via |-> n, cache |-> EmptyCache]]
    /\ stamp = [n \in Node |-> 0]
    /\ msgs = {}
    /\ adopted = [t \in Turns |-> IF t = 0 THEN Node ELSE {}]
    /\ from = [t \in Turns |-> {}]

-------------------------------------------------------------------------------
(***************************************************************************)
(* What a master sends.  Each step gives the cache after it and the message.*)
(***************************************************************************)

\* sendInquiryReq: the cache starts over, with the own agreement.
Inquiry(n, c, r) == [type |-> "inquiry", m |-> n, c |-> c, r |-> r, ts |-> stamp[n] + 1]
WithInquiry(n, q) == [EmptyCache EXCEPT !.inq = q, !.agrees = {n}]

\* sendRLReq: the request gets a new time stamp, its votes start over.
LeaderReq(n, q) == [type |-> "req", inq |-> q, ts |-> stamp[n] + 1]
WithReq(n, cache, q) == [cache EXCEPT !.req = LeaderReq(n, q), !.votes = {n}]

\* sendResultBroadcastMsg: the responses start over.
Result(n, bc) == [type |-> "result", m |-> n, bc |-> bc, ts |-> stamp[n] + 1]
WithResult(n, cache, bc) ==
    [cache EXCEPT !.bc = [what |-> bc, ts |-> stamp[n] + 1], !.rsps = {n}]

\* What the master keeps of the answers: each guards against a second one from the same
\* validator and against an answer to something else.
ForInquiry(cache, a) == cache.inq # None /\ a.q = cache.inq
WithAgree(cache, x) == [cache EXCEPT !.agrees = @ \cup {x}]
ForRequest(cache, v) == cache.req # None /\ v.req = cache.req /\ v.by \notin cache.votes
WithVote(cache, x) == [cache EXCEPT !.votes = @ \cup {x}]
ForResult(cache, a) == cache.bc # None /\ a.ts = cache.bc.ts /\ a.by \notin cache.rsps
WithRsp(cache, x) == [cache EXCEPT !.rsps = @ \cup {x}]

\* SetInquiryResultAgree and SetInquiryResultNotAgree.
Agreed(cache) == [cache EXCEPT !.result = "Agree", !.inq = None, !.agrees = {}]
NotAgreed(cache) == [cache EXCEPT !.result = "POS", !.inq = None, !.agrees = {}, !.req = None]

Sends(n, sent) ==
    /\ stamp[n] < MaxSends
    /\ stamp' = [stamp EXCEPT ![n] = @ + 1]
    /\ msgs' = msgs \cup sent

\* startReelect: a master sends its inquiry; a follower keeps what it has cached as the
\* master of an earlier turn.  answers are messages the handler sends besides.
startReelect(n, node, k, answers) ==
    LET q == Inquiry(n, node.turn, k)
        reelecting == [node EXCEPT !.state = "stReelect", !.reelect = k]
    IN  IF Master(node.turn, k) = n
        THEN /\ nd' = [nd EXCEPT ![n] = [reelecting EXCEPT !.cache = WithInquiry(n, q)]]
             /\ Sends(n, answers \cup {q})
        ELSE /\ nd' = [nd EXCEPT ![n] = reelecting]
             /\ msgs' = msgs \cup answers
             /\ UNCHANGED stamp

-------------------------------------------------------------------------------
(***************************************************************************)
(* Timeouts and the local POS.                                             *)
(***************************************************************************)

\* timeOutHandle.
Timeout(n) ==
    /\ nd[n].state \in {"stPos", "stReelect"}
    /\ nd[n].turn + nd[n].reelect < MaxTurn
    /\ startReelect(n, nd[n], nd[n].reelect + 1, {})
    /\ UNCHANGED <<adopted, from>>

\* reelectTimeOutHandle: the master sends again, what depends on its inquiry's result.
reelectTimeOutHandle(n) ==
    LET cache == nd[n].cache
        q == Inquiry(n, nd[n].turn, nd[n].reelect)
    IN  /\ nd[n].state = "stReelect" /\ Master(nd[n].turn, nd[n].reelect) = n
        /\ CASE cache.result = "Agree" ->
                    /\ nd' = [nd EXCEPT ![n].cache = WithReq(n, cache, cache.req.inq)]
                    /\ Sends(n, {LeaderReq(n, cache.req.inq)})
             [] cache.result = "POS" ->
                    /\ nd' = [nd EXCEPT ![n].cache = WithResult(n, cache, cache.bc.what)]
                    /\ Sends(n, {Result(n, cache.bc.what)})
             [] OTHER ->
                    /\ nd' = [nd EXCEPT ![n].cache = WithInquiry(n, q)]
                    /\ Sends(n, {q})
        /\ UNCHANGED <<adopted, from>>

\* handleBlockPOSFinishedNotify: the block of a turn that the validator has been in.
PosFinished(n, t) ==
    /\ t \in PosTurns /\ t <= nd[n].turn
    /\ \A i \in DOMAIN nd[n].pos : nd[n].pos[i] # t
    /\ nd' = [nd EXCEPT ![n].pos = Append(@, t),
                        ![n].state = IF @ = "stPos" THEN "stMining" ELSE @]
    /\ UNCHANGED <<stamp, msgs, adopted, from>>

-------------------------------------------------------------------------------
(***************************************************************************)
(* The answers of the others.                                              *)
(***************************************************************************)

Answer(n, q, what) == [type |-> "answer", by |-> n, q |-> q, what |-> what]

\* A validator agrees only in the re-election turn it is in itself.
Agrees(n, q) == nd[n].state = "stReelect" /\ q.r = nd[n].reelect

\* handleInquiryReq.  A validator in a later consensus turn looks for the result of that
\* turn in a cache that nothing is ever put into, and sends nothing.
handleInquiryReq(n, q) ==
    /\ q.type = "inquiry" /\ q.m # n
    /\ q.c = nd[n].turn
    /\ \/ nd[n].state = "stMining" /\ nd[n].pos # <<>>
          /\ msgs' = msgs \cup {Answer(n, q, [kind |-> "POS", pos |-> Head(nd[n].pos)])}
       \/ Agrees(n, q) /\ msgs' = msgs \cup {Answer(n, q, [kind |-> "Agree"])}
    /\ UNCHANGED <<nd, stamp, adopted, from>>

\* handleInquiryRsp.
handleInquiryRsp(n, a) ==
    LET cache == nd[n].cache
        agreed == WithAgree(cache, a.by)
    IN  /\ a.type = "answer"
        /\ cache.result = "None" /\ ForInquiry(cache, a)
        /\ CASE a.what.kind = "POS" ->
                    /\ nd' = [nd EXCEPT ![n].cache = WithResult(n, NotAgreed(cache), a.what)]
                    /\ Sends(n, {Result(n, a.what)})
             [] a.what.kind = "Agree" ->
                    /\ a.by \notin cache.agrees
                    /\ IF Quorum(agreed.agrees)
                       THEN /\ nd' = [nd EXCEPT ![n].cache = WithReq(n, Agreed(cache), a.q)]
                            /\ Sends(n, {LeaderReq(n, a.q)})
                       ELSE /\ nd' = [nd EXCEPT ![n].cache = agreed]
                            /\ UNCHANGED <<stamp, msgs>>
        /\ UNCHANGED <<adopted, from>>

\* checkRLReqMsg: both turns are the own ones.
Votes(n, q) == nd[n].state = "stReelect" /\ q.c = nd[n].turn /\ q.r = nd[n].reelect

\* handleRLReq: a request for the own turns gets a vote, each time it comes.
handleRLReq(n, m) ==
    /\ m.type = "req" /\ m.inq.m # n
    /\ Votes(n, m.inq)
    /\ msgs' = msgs \cup {[type |-> "vote", by |-> n, req |-> m]}
    /\ UNCHANGED <<nd, stamp, adopted, from>>

\* handleRLVote: with a quorum the result is made and sent, also by a further vote.
handleRLVote(n, v) ==
    LET voted == WithVote(nd[n].cache, v.by)
        what == [kind |-> "Agree", req |-> v.req, votes |-> voted.votes]
    IN  /\ v.type = "vote"
        /\ ForRequest(nd[n].cache, v)
        /\ IF Quorum(voted.votes)
           THEN /\ nd' = [nd EXCEPT ![n].cache = WithResult(n, voted, what)]
                /\ Sends(n, {Result(n, what)})
           ELSE /\ nd' = [nd EXCEPT ![n].cache = voted]
                /\ UNCHANGED <<stamp, msgs>>
        /\ UNCHANGED <<adopted, from>>

-------------------------------------------------------------------------------
(***************************************************************************)
(* The result of a re-election.                                            *)
(***************************************************************************)

ResultTurn(what) == what.req.inq.c + what.req.inq.r

\* Mutant of Acceptable: a result for an earlier turn is taken.
AcceptableAnyTurn(n, what, req) ==
    \/ what.kind = "POS" /\ what.pos % N = nd[n].turn % N
    \/ what.kind = "Agree" /\ what.req = req /\ Quorum(what.votes)

\* The checks of processResultBroadcastMsg; req is the request as it is when they are
\* made, which must be the one that the votes are for.
Acceptable(n, what, req) ==
    \/ what.kind = "POS" /\ what.pos % N = nd[n].turn % N
    \/ /\ what.kind = "Agree"
       /\ ResultTurn(what) >= nd[n].turn
       /\ what.req = req /\ Quorum(what.votes)

\* An acceptable result from m is taken: finishReelectWithPOS, or
\* finishReelectWithRLConsensus with the state that the clock gives (CalState), k being
\* the re-election turn.
Finish(n, m, what, answers) ==
    LET cleared == [nd[n] EXCEPT !.cache = EmptyCache, !.reelect = 0]
        turned == [cleared EXCEPT !.turn = ResultTurn(what), !.via = m]
    IN  IF what.kind = "POS"
        THEN /\ nd' = [nd EXCEPT ![n] = [cleared EXCEPT !.state = "stMining"]]
             /\ msgs' = msgs \cup answers
             /\ UNCHANGED <<stamp, adopted, from>>
        ELSE /\ \/ /\ nd' = [nd EXCEPT ![n] = [turned EXCEPT !.state =
                                    IF nd[n].pos # <<>> THEN "stMining" ELSE "stPos"]]
                   /\ msgs' = msgs \cup answers
                   /\ UNCHANGED stamp
                \/ \E k \in 1 .. MaxTurn - ResultTurn(what) : startReelect(n, turned, k, answers)
             /\ adopted' = [adopted EXCEPT ![ResultTurn(what)] = @ \cup {n}]
             /\ from' = [from EXCEPT ![ResultTurn(what)] = @ \cup {what.req.inq.c}]

\* handleResultBroadcastMsg: the response is sent once the result is taken.
handleResultBroadcastMsg(n, m) ==
    /\ m.type = "result" /\ m.m # n
    /\ Acceptable(n, m.bc, m.bc.req)
    /\ Finish(n, m.m, m.bc, {[type |-> "rsp", by |-> n, m |-> m.m, ts |-> m.ts]})

\* Mutant of Answered: the master does not wait for a quorum of answers.
AnsweredByAnyone(rsps) == TRUE

Answered(rsps) == Quorum(rsps)

\* handleResultRsp: with a quorum of responses the master takes its own result.  The
\* result refers to the cached request, whose time stamp a repetition has changed.
handleResultRsp(n, a) ==
    LET cache == nd[n].cache
        answered == WithRsp(cache, a.by)
    IN  /\ a.type = "rsp" /\ a.m = n
        /\ ForResult(cache, a)
        /\ IF Answered(answered.rsps) /\ Acceptable(n, cache.bc.what, cache.req)
           THEN Finish(n, n, cache.bc.what, {})
           ELSE /\ nd' = [nd EXCEPT ![n].cache = answered]
                /\ UNCHANGED <<stamp, msgs, adopted, from>>

Next ==
    \/ \E n \in Node : Timeout(n) \/ reelectTimeOutHandle(n)
    \/ \E n \in Node, t \in Turns : PosFinished(n, t)
    \/ \E n \in Node, m \in msgs :
           \/ handleInquiryReq(n, m) \/ handleInquiryRsp(n, m)
           \/ handleRLReq(n, m) \/ handleRLVote(n, m)
           \/ handleResultBroadcastMsg(n, m) \/ handleResultRsp(n, m)

Spec == Init /\ [][Next]_vars

-------------------------------------------------------------------------------
(***************************************************************************)
(* Properties.                                                             *)
(***************************************************************************)

Inquiries == [type : {"inquiry"}, m : Node, c : Turns, r : Turns, ts : Nat]
Requests == [type : {"req"}, inq : Inquiries, ts : Nat]

\* Types of the controllers and of the master caches.
TypeOK ==
    /\ \A n \in Node :
           /\ nd[n].state \in {"stPos", "stReelect", "stMining"}
           /\ nd[n].turn \in Turns /\ nd[n].reelect \in Turns /\ nd[n].via \in Node
           /\ nd[n].cache.result \in {"None", "Agree", "POS"}
           /\ nd[n].cache.inq \in Inquiries \cup {None}
           /\ nd[n].cache.req \in Requests \cup {None}
           /\ nd[n].cache.agrees \cup nd[n].cache.votes \cup nd[n].cache.rsps \subseteq Node
    /\ stamp \in [Node -> 0 .. MaxSends]
    /\ adopted \in [Turns -> SUBSET Node]
    /\ from \in [Turns -> SUBSET Turns]

\* A re-election is only ever built on a consensus turn that a quorum of the validators
\* took themselves: the votes in a result that anybody takes (processResultBroadcastMsg)
\* come from validators that were in that turn (checkRLReqMsg).  So two re-elections that
\* follow each other always have a validator in common.
BuiltOnQuorum == \A t \in Turns : \A c \in from[t] : IsQuorum(adopted[c], Node)

\* A master takes its own result only when a quorum, itself included, has taken the same
\* turn (handleResultRsp): it is never alone in the turn that it leads.
MasterLast ==
    \A n \in Node : nd[n].via = n /\ nd[n].turn > 0 =>
        IsQuorum(adopted[nd[n].turn] \cup {n}, Node)

\* The consensus turn of a validator never falls, whatever late or repeated results reach
\* it (the first check of a result in processResultBroadcastMsg).
TurnNeverFalls == [][\A n \in Node : nd'[n].turn >= nd[n].turn]_vars

===============================================================================
