------------------------ MODULE BlkVerifyStages_proofs -------------------------
(***************************************************************************)
(* The methods that take a Process from one stage to the next.  The state  *)
(* of a Process is one record and the methods of the code are operators on *)
(* it, so there is one lemma for each method and each part of the          *)
(* invariant: that it keeps ProcInv (the types, the request at hand and    *)
(* what the node may still sign), and that it keeps Ctl and CurOK (the     *)
(* role, the mining request, the acquisitions) and is an advance Adv of the*)
(* history.  From where a request is taken up to where the DPOS stage      *)
(* leaves it a Process changes little, which Stage sums up.                *)
(***************************************************************************)
EXTENDS BlkVerify, TLAPS

\* The states of a Process.
State == StateIdle .. StateEnd

\* The records a Process can be, pointers being any numbers.
Proc ==
    [role : {"Nil", Role}, state : State, cur : Nat,
     consensus : BOOLEAN, leader : Leaders \cup {NoLeader}, turn : Turns,
     reqs : Seq(ReqData), curTurn : Turns,
     leaderReqCache : [Leaders -> Nat], otherReqCache : SUBSET Nat,
     seq : Nat, acquiring : SUBSET [seq : Nat, req : Nat],
     voteSender : Nat, mineSender : Nat, posedSender : Nat,
     votes : SUBSET (Accounts \X Hashes),
     verifyOK : SUBSET Nat, posFinished : SUBSET Nat]

\* Pointers to requests, nil included, and without it.
Ptrs(q) == 0 .. Len(q.reqs)

Objs(q) == 1 .. Len(q.reqs)

\* q is a Process whose pointers point to its requests.
Typed(q) ==
    /\ q \in Proc
    /\ q.leaderReqCache \in [Leaders -> Ptrs(q)]
    /\ q.cur \in Ptrs(q) /\ q.voteSender \in Ptrs(q)
    /\ q.mineSender \in Ptrs(q) /\ q.posedSender \in Ptrs(q)
    /\ q.otherReqCache \subseteq Objs(q)
    /\ q.verifyOK \subseteq Objs(q) /\ q.posFinished \subseteq Objs(q)
    /\ q.acquiring \subseteq [seq : 1 .. q.seq, req : Objs(q)]

\* What never changes of a request once it is made; its signatures, once complete, stay so.
SameReq(a, b) ==
    /\ a.leader = b.leader
    /\ a.turn = b.turn
    /\ a.hash = b.hash
    /\ a.local = b.local
    /\ b.posed => a.posed

\* s is what the DPOS stage can make of q.
Stage(q, s) ==
    /\ Typed(s)
    /\ s.role = q.role /\ s.cur = q.cur
    /\ s.consensus = q.consensus /\ s.leader = q.leader /\ s.turn = q.turn
    /\ s.curTurn = q.curTurn
    /\ s.leaderReqCache = q.leaderReqCache /\ s.otherReqCache = q.otherReqCache
    /\ Len(s.reqs) = Len(q.reqs)
    /\ \A i \in Objs(q) : SameReq(s.reqs[i], q.reqs[i])
    /\ q.verifyOK \subseteq s.verifyOK
    /\ s.verifyOK \subseteq q.verifyOK \cup {q.cur}
    /\ q.state >= StateReqVerify => s.state >= StateReqVerify

\* The order of the states, as far as the proofs need it.
LEMMA StateFacts ==
    /\ StateIdle \in State /\ StateStart \in State /\ StateReqVerify \in State
    /\ StateTxsVerify \in State /\ StateDPOSVerify \in State /\ StateEnd \in State
    /\ StateTxsVerify >= StateReqVerify
    /\ StateDPOSVerify >= StateReqVerify /\ StateEnd >= StateReqVerify
    /\ ~(StateIdle >= StateReqVerify) /\ ~(StateStart >= StateReqVerify)
    /\ StateStart # StateIdle
    /\ State \subseteq Nat
  BY DEF State, StateIdle, StateStart, StateReqVerify, StateTxsVerify, StateDPOSVerify,
         StateEnd

\* The current request, when there is one, is a request.
LEMMA CurIsReqData ==
    ASSUME NEW q, Typed(q), q.cur # 0
    PROVE  Cur(q) \in ReqData
  BY DEF Typed, Proc, Ptrs, Cur

\* What the type of a Process says about turns and pointers.
LEMMA TypedFacts ==
    ASSUME NEW q, Typed(q)
    PROVE  /\ q.turn \in Nat /\ q.curTurn \in Nat
           /\ \A i \in Objs(q) : q.reqs[i] \in ReqData /\ q.reqs[i].turn \in Nat
           /\ \A l \in Leaders : q.leaderReqCache[l] # 0 => q.leaderReqCache[l] \in Objs(q)
  <1>1. q.turn \in Turns /\ q.curTurn \in Turns /\ q.reqs \in Seq(ReqData)
    BY DEF Typed, Proc
  <1>2. Turns \subseteq Nat
    BY AccountsAssumption
  <1>3. \A i \in Objs(q) : q.reqs[i] \in ReqData
    BY <1>1 DEF Objs
  <1>4. \A l \in Leaders : q.leaderReqCache[l] # 0 => q.leaderReqCache[l] \in Objs(q)
    BY DEF Typed, Ptrs, Objs
  <1> QED
    BY <1>1, <1>2, <1>3, <1>4, ZenonT(30) DEF ReqData

\* Changing the result or the signatures of the current request is a step of the stage.
LEMMA SetCurStage ==
    ASSUME NEW q, Typed(q), q.cur # 0, NEW d \in ReqData, SameReq(d, Cur(q))
    PROVE  Stage(q, SetCur(q, d))
  <1> DEFINE s == SetCur(q, d)
  <1>1. /\ q.cur \in Objs(q)
        /\ q.reqs \in Seq(ReqData)
    BY DEF Typed, Proc, Ptrs, Objs
  <1>2. /\ [q.reqs EXCEPT ![q.cur] = d] \in Seq(ReqData)
        /\ Len([q.reqs EXCEPT ![q.cur] = d]) = Len(q.reqs)
        /\ \A i \in Objs(q) : SameReq([q.reqs EXCEPT ![q.cur] = d][i], q.reqs[i])
    BY <1>1 DEF SameReq, Objs, Cur
  <1>3. s.reqs = [q.reqs EXCEPT ![q.cur] = d]
    BY DEF SetCur, Typed, Proc
  <1>5. Typed(s)
    BY <1>2, <1>3, ZenonT(30) DEF Typed, Proc, SetCur, Ptrs, Objs
  <1> QED
    BY <1>2, <1>3, <1>5, ZenonT(30) DEF Stage, SetCur, Typed, Proc

\* localVerifyResult is set.
LEMMA SetResultStage ==
    ASSUME NEW q, Typed(q), q.cur # 0, NEW r \in VerifyResult
    PROVE  Stage(q, SetResult(q, r)) /\ SetResult(q, r).state = q.state
  <1>1. Cur(q) \in ReqData
    BY CurIsReqData
  <1>2. /\ [Cur(q) EXCEPT !.result = r] \in ReqData
        /\ SameReq([Cur(q) EXCEPT !.result = r], Cur(q))
    BY <1>1 DEF ReqData, SameReq
  <1> QED
    BY <1>2, SetCurStage, ZenonT(30) DEF SetResult, SetCur, Typed, Proc

\* The header gets its signatures.
LEMMA SetPosedStage ==
    ASSUME NEW q, Typed(q), q.cur # 0
    PROVE  Stage(q, SetPosed(q)) /\ SetPosed(q).state = q.state
  <1>1. Cur(q) \in ReqData
    BY CurIsReqData
  <1>2. /\ [Cur(q) EXCEPT !.posed = TRUE] \in ReqData
        /\ SameReq([Cur(q) EXCEPT !.posed = TRUE], Cur(q))
    BY <1>1, ZenonT(30) DEF ReqData, SameReq
  <1> QED
    BY <1>2, SetCurStage, ZenonT(30) DEF SetPosed, SetCur, Typed, Proc

\* Stage is reflexive.
LEMMA StageRefl ==
    ASSUME NEW q, Typed(q)
    PROVE  Stage(q, q)
  BY DEF Stage, SameReq

\* Stage is transitive: method calls can be put together.
LEMMA StageTrans ==
    ASSUME NEW q, NEW s, NEW u, Stage(q, s), Stage(s, u)
    PROVE  Stage(q, u)
  BY DEF Stage, SameReq, Objs

\* sendVote adds nothing but the current request to the signed ones.
LEMMA sendVoteStage ==
    ASSUME NEW q, Typed(q), q.cur # 0, NEW s \in sendVote(q)
    PROVE  Stage(q, s) /\ s.state = q.state
  <1>1. CASE s = q
    BY <1>1, StageRefl
  <1>2. ASSUME NEW v \in AddedTo(q.votes, Self, Cur(q).hash),
               s = [q EXCEPT !.voteSender = q.cur, !.votes = v,
                             !.verifyOK = q.verifyOK \cup {q.cur}]
        PROVE  Stage(q, s) /\ s.state = q.state
    <2>1. Cur(q).hash \in Hashes
      BY CurIsReqData DEF ReqData
    <2>2. v \in SUBSET (Accounts \X Hashes)
      BY <1>2, <2>1, AccountsAssumption DEF AddedTo, Typed, Proc
    <2>3. q.cur \in Objs(q)
      BY DEF Typed, Proc, Ptrs, Objs
    <2>4. s \in Proc
      BY <1>2, <2>2, <2>3, ZenonT(30) DEF Typed, Proc, Objs
    <2>5. Typed(s)
      BY <1>2, <2>3, <2>4, ZenonT(30) DEF Typed, Proc, Ptrs, Objs
    <2> QED
      BY <1>2, <2>5, ZenonT(30) DEF Stage, SameReq, Typed, Proc, Objs
  <1> QED
    BY <1>1, <1>2, ZenonT(30) DEF sendVote

\* finishedProcess signs nothing and keeps the request.
LEMMA finishedProcessStage ==
    ASSUME NEW q, Typed(q), q.cur # 0
    PROVE  Stage(q, finishedProcess(q))
  <1>1. CASE Cur(q).result \in {"Processing", "StateFailed"}
    BY <1>1, StageRefl DEF finishedProcess
  <1>2. CASE Cur(q).result \notin {"Processing", "StateFailed"}
    <2> DEFINE fin == IF Cur(q).result = "Success" THEN q.posFinished \cup {q.cur}
                      ELSE q.posFinished
    <2>1. finishedProcess(q) =
            [q EXCEPT !.posFinished = fin, !.mineSender = q.cur, !.posedSender = q.cur,
                      !.votes = DeletedFrom(q.votes, Cur(q).hash), !.state = StateEnd]
      BY <1>2 DEF finishedProcess
    <2>2. /\ q.cur \in Objs(q) /\ q.cur \in Nat
          /\ fin \subseteq Objs(q) /\ fin \in SUBSET Nat
      BY DEF Typed, Proc, Ptrs, Objs
    <2>3. DeletedFrom(q.votes, Cur(q).hash) \in SUBSET (Accounts \X Hashes)
      BY DEF DeletedFrom, Typed, Proc
    <2> HIDE DEF fin
    <2>4. finishedProcess(q) \in Proc
      <3>1. q \in Proc /\ StateEnd \in State
        BY StateFacts DEF Typed
      <3> QED
        BY <2>1, <2>2, <2>3, <3>1, ZenonT(30) DEF Proc
    <2>5. Typed(finishedProcess(q))
      BY <2>1, <2>2, <2>4, ZenonT(30) DEF Typed, Proc, Ptrs, Objs
    <2> QED
      BY <2>1, <2>5, StateFacts, ZenonT(30) DEF Stage, SameReq, Typed, Proc
  <1> QED
    BY <1>1, <1>2

\* processDPOSOnce, which looks at the request only in the DPOS state.
LEMMA processDPOSOnceStage ==
    ASSUME NEW q, Typed(q), q.state = StateDPOSVerify => q.cur # 0
    PROVE  Stage(q, processDPOSOnce(q))
  <1>1. CASE processDPOSOnce(q) = q
    BY <1>1, StageRefl
  <1>2. CASE processDPOSOnce(q) # q
    <2>1. /\ q.cur # 0
          /\ processDPOSOnce(q) = finishedProcess(SetPosed(q))
      BY <1>2 DEF processDPOSOnce
    <2>2. Stage(q, SetPosed(q)) /\ Typed(SetPosed(q)) /\ SetPosed(q).cur # 0
      BY <2>1, SetPosedStage DEF Stage
    <2> QED
      BY <2>1, <2>2, finishedProcessStage, StageTrans
  <1> QED
    BY <1>1, <1>2

\* The broadcast node finishes with the current request.
LEMMA bcFinishedProcessStage ==
    ASSUME NEW q, Typed(q), q.cur # 0, NEW r \in VerifyResult
    PROVE  Stage(q, bcFinishedProcess(q, r))
  <1> DEFINE d == SetResult(q, r)
             ok == IF r = "Success" THEN d.verifyOK \cup {q.cur} ELSE d.verifyOK
  <1>1. Stage(q, d)
    BY SetResultStage
  <1>2. CASE r \in {"Processing", "StateFailed"}
    BY <1>1, <1>2 DEF bcFinishedProcess
  <1>3. CASE r \notin {"Processing", "StateFailed"}
    <2>1. bcFinishedProcess(q, r) = [d EXCEPT !.verifyOK = ok, !.state = StateEnd]
      BY <1>3 DEF bcFinishedProcess
    <2>2. Typed(d) /\ d.cur = q.cur /\ d.cur # 0
      BY <1>1 DEF Stage
    <2> HIDE DEF d
    <2>3. d.cur \in Objs(d) /\ d.cur \in Nat
      BY <2>2 DEF Typed, Proc, Ptrs, Objs
    <2>4. ok \subseteq Objs(d) /\ ok \subseteq Nat /\ d.verifyOK \subseteq ok
          /\ ok \subseteq d.verifyOK \cup {d.cur}
      BY <2>2, <2>3 DEF Typed, Proc
    <2> HIDE DEF ok
    <2>5. bcFinishedProcess(q, r) \in Proc
      BY <2>1, <2>2, <2>4, StateFacts, ZenonT(30) DEF Typed, Proc
    <2>6. Typed(bcFinishedProcess(q, r))
      BY <2>1, <2>2, <2>4, <2>5, ZenonT(30) DEF Typed, Proc, Ptrs, Objs
    <2>7. Stage(d, bcFinishedProcess(q, r))
      BY <2>1, <2>2, <2>4, <2>6, StateFacts, ZenonT(30) DEF Stage, SameReq, Typed, Proc
    <2> QED
      BY <1>1, <2>7, StageTrans DEF d
  <1> QED
    BY <1>2, <1>3

\* startDPOSVerify with any result.
LEMMA startDPOSVerifyStage ==
    ASSUME NEW q, Typed(q), q.cur # 0, NEW r \in VerifyResult,
           NEW s \in startDPOSVerify(q, r)
    PROVE  Stage(q, s)
  <1>1. CASE q.state >= StateDPOSVerify
    BY <1>1, StageRefl DEF startDPOSVerify
  <1>2. CASE ~(q.state >= StateDPOSVerify) /\ q.role = "Broadcast"
    BY <1>2, bcFinishedProcessStage DEF startDPOSVerify
  <1>3. CASE ~(q.state >= StateDPOSVerify) /\ q.role # "Broadcast"
    <2>1. PICK v \in (IF r = "Success" THEN sendVote(q) ELSE {q}) :
             s = processDPOSOnce([SetResult(v, r) EXCEPT !.state = StateDPOSVerify])
      BY <1>3 DEF startDPOSVerify
    <2>2. Stage(q, v) /\ Typed(v) /\ v.cur # 0
      BY <2>1, StageRefl, sendVoteStage DEF Stage
    <2> DEFINE d == SetResult(v, r)
               e == [d EXCEPT !.state = StateDPOSVerify]
    <2>3. Stage(v, d) /\ Typed(d) /\ d.cur # 0
      BY <2>2, SetResultStage DEF Stage
    <2> HIDE DEF d
    <2>4. Stage(d, e) /\ Typed(e) /\ e.cur # 0
      <3>1. e \in Proc
        BY <2>3, StateFacts, ZenonT(30) DEF Typed, Proc
      <3>2. Typed(e) /\ e.cur # 0
        BY <2>3, <3>1, ZenonT(30) DEF Typed, Proc, Ptrs, Objs
      <3> QED
        BY <2>3, <3>2, StateFacts, ZenonT(30) DEF Stage, SameReq, Typed, Proc
    <2> HIDE DEF e
    <2>5. Stage(e, s)
      BY <2>1, <2>4, processDPOSOnceStage, ZenonT(30) DEF e, d
    <2> QED
      BY <2>2, <2>3, <2>4, <2>5, StageTrans
  <1> QED
    BY <1>1, <1>2, <1>3

\* startTxsVerify keeps the request and numbers its acquisition.
LEMMA startTxsVerifyStage ==
    ASSUME NEW q, Typed(q), q.cur # 0, NEW s \in startTxsVerify(q)
    PROVE  Stage(q, s)
  <1>1. PICK n \in {q.seq + 1} \cap 1 .. MaxSeq :
           s = [q EXCEPT !.state = StateTxsVerify, !.seq = n,
                         !.acquiring = q.acquiring \cup {[seq |-> n, req |-> q.cur]}]
    BY ZenonT(30) DEF startTxsVerify
  <1>2. q \in Proc /\ StateTxsVerify \in State /\ q.cur \in Objs(q) /\ q.cur \in Nat
    <2>1. q.cur \in Objs(q) /\ q.cur \in Nat
      BY DEF Typed, Proc, Ptrs, Objs
    <2> QED
      BY <2>1, StateFacts DEF Typed
  <1>3. n \in Nat /\ q.seq \in Nat /\ n = q.seq + 1
    BY <1>2 DEF Proc
  <1> DEFINE new == q.acquiring \cup {[seq |-> n, req |-> q.cur]}
  <1>4. new \subseteq [seq : 1 .. n, req : Objs(q)]
    BY <1>2, <1>3 DEF Typed
  <1>5. new \in SUBSET [seq : Nat, req : Nat]
    BY <1>2, <1>3 DEF Proc
  <1> HIDE DEF new
  <1>6. s \in Proc
    BY <1>1, <1>2, <1>3, <1>5, ZenonT(30) DEF Proc, new
  <1>7. /\ s.reqs = q.reqs /\ s.seq = n /\ s.acquiring = new
        /\ s.leaderReqCache = q.leaderReqCache /\ s.cur = q.cur
        /\ s.voteSender = q.voteSender /\ s.mineSender = q.mineSender
        /\ s.posedSender = q.posedSender /\ s.otherReqCache = q.otherReqCache
        /\ s.verifyOK = q.verifyOK /\ s.posFinished = q.posFinished
        /\ s.role = q.role /\ s.consensus = q.consensus /\ s.leader = q.leader
        /\ s.turn = q.turn /\ s.curTurn = q.curTurn /\ s.state = StateTxsVerify
    BY <1>1, <1>2 DEF Proc, new
  <1>8. Typed(s)
    BY <1>4, <1>6, <1>7 DEF Typed, Ptrs, Objs
  <1> QED
    BY <1>7, <1>8, StateFacts DEF Stage, SameReq

\* The whole verification of a request that has been taken up.
LEMMA processReqOnceStage ==
    ASSUME NEW q, Typed(q), q.cur # 0, NEW s \in processReqOnce(q)
    PROVE  Stage(q, s)
  <1>1. CASE Cur(q).local
    <2>1. s \in startDPOSVerify(q, "Success") /\ "Success" \in VerifyResult
      BY <1>1 DEF processReqOnce, VerifyResult
    <2> QED
      BY <2>1, startDPOSVerifyStage
  <1>2. CASE ~Cur(q).local
    <2>1. PICK o \in HeaderOutcomes :
             s \in IF o = "ok" THEN startTxsVerify(q) ELSE startDPOSVerify(q, o)
      BY <1>2 DEF processReqOnce
    <2>2. o = "ok" \/ o \in VerifyResult
      BY DEF HeaderOutcomes, VerifyResult
    <2> QED
      BY <2>1, <2>2, startTxsVerifyStage, startDPOSVerifyStage
  <1> QED
    BY <1>1, <1>2

\* The same on the broadcast node.
LEMMA bcProcessReqVerifyStage ==
    ASSUME NEW q, Typed(q), q.cur # 0, NEW s \in bcProcessReqVerify(q)
    PROVE  Stage(q, s)
  <1>1. "StateFailed" \in VerifyResult
    BY DEF VerifyResult
  <1> QED
    BY <1>1, startTxsVerifyStage, bcFinishedProcessStage DEF bcProcessReqVerify

-------------------------------------------------------------------------------
\* The requests that the history or the current work of q is about.
Used(q) == q.verifyOK \cup ({q.cur} \ {0})

\* Request i can have no rival of its leader and turn any more: its turn is over, or
\* the leader's place in the cache is taken by it or by a later one.
Held(q, i) ==
    LET l == q.reqs[i].leader
        c == q.leaderReqCache[l]
    IN  /\ l # Self
        /\ q.reqs[i].turn <= q.curTurn
        /\ \/ q.reqs[i].turn < q.curTurn
           \/ c # 0 /\ (c = i \/ q.reqs[c].turn > q.reqs[i].turn)

\* A leader's place in the cache holds a header of that leader, this node's own only in
\* its own place, and no header of a past turn.
CacheSafe(q) ==
    \A l \in Leaders : q.leaderReqCache[l] # 0 =>
        LET d == q.reqs[q.leaderReqCache[l]]
        IN  /\ d.leader = l
            /\ d.local <=> l = Self
            /\ ~d.local => d.turn >= q.curTurn

\* No two used requests of others are rivals, and the current one is of the current turn.
UsedSafe(q) ==
    /\ \A i \in Used(q) : ~q.reqs[i].local => Held(q, i)
    /\ \A i, j \in Used(q) :
          /\ ~q.reqs[i].local /\ ~q.reqs[j].local
          /\ q.reqs[i].leader = q.reqs[j].leader
          /\ q.reqs[i].turn = q.reqs[j].turn
          => i = j
    /\ q.cur # 0 /\ ~q.reqs[q.cur].local => q.reqs[q.cur].turn = q.curTurn

\* What keeps a validator from voting twice.
Safe(q) ==
    /\ q.turn <= q.curTurn
    /\ CacheSafe(q)
    /\ UsedSafe(q)

\* No step of the stage disturbs Safe.
LEMMA StageSafe ==
    ASSUME NEW q, NEW s, Typed(q), Safe(q), q.cur # 0, Stage(q, s)
    PROVE  Safe(s)
  <1>1. /\ s.curTurn = q.curTurn /\ s.turn = q.turn /\ s.consensus = q.consensus
        /\ s.leaderReqCache = q.leaderReqCache /\ s.cur = q.cur
        /\ Used(s) = Used(q)
    BY DEF Stage, Used
  <1>2. /\ Used(q) \subseteq Objs(q)
        /\ \A l \in Leaders : q.leaderReqCache[l] # 0 => q.leaderReqCache[l] \in Objs(q)
        /\ \A i \in Objs(q) : q.reqs[i].leader \in Leaders
    <2>1. Used(q) \subseteq Objs(q)
      BY DEF Used, Typed, Proc, Ptrs, Objs
    <2>2. \A l \in Leaders : q.leaderReqCache[l] # 0 => q.leaderReqCache[l] \in Objs(q)
      BY DEF Typed, Ptrs, Objs
    <2>3. \A i \in Objs(q) : q.reqs[i] \in ReqData
      BY DEF Typed, Proc, Objs
    <2> QED
      BY <2>1, <2>2, <2>3 DEF ReqData
  <1>3. \A i \in Objs(q) : SameReq(s.reqs[i], q.reqs[i])
    BY DEF Stage
  <1>4. CacheSafe(s)
    BY <1>1, <1>2, <1>3 DEF Safe, CacheSafe, SameReq
  <1>5. ASSUME NEW i \in Objs(q), Held(q, i)
        PROVE  Held(s, i)
    <2> DEFINE c == q.leaderReqCache[q.reqs[i].leader]
    <2>1. SameReq(s.reqs[i], q.reqs[i])
      BY <1>3
    <2>2. c # 0 => SameReq(s.reqs[c], q.reqs[c])
      BY <1>2, <1>3
    <2> QED
      BY <1>1, <1>5, <2>1, <2>2, ZenonT(30) DEF Held, SameReq
  <1>6. UsedSafe(s)
    <2>1. \A i \in Used(q) : SameReq(s.reqs[i], q.reqs[i])
      BY <1>2, <1>3
    <2>2. \A i \in Used(s) : ~s.reqs[i].local => Held(s, i)
      BY <1>1, <1>2, <1>5, <2>1 DEF Safe, UsedSafe, SameReq
    <2>3. q.cur \in Used(q)
      BY DEF Used
    <2> QED
      BY <1>1, <2>1, <2>2, <2>3 DEF Safe, UsedSafe, SameReq
  <1> QED
    BY <1>1, <1>4, <1>6 DEF Safe

-------------------------------------------------------------------------------
\* HasRequest of q.
HasReq(q) == (q.cur # 0) = (q.state >= StateReqVerify)

\* What every method of a Process preserves.
ProcInv(q) ==
    /\ Typed(q)
    /\ HasReq(q)
    /\ Role = "Validator" => Safe(q)

\* Nor the invariant, once a request is at work.
LEMMA StageInv ==
    ASSUME NEW q, NEW s, Typed(q), q.cur # 0, q.state >= StateReqVerify,
           Role = "Validator" => Safe(q), Stage(q, s)
    PROVE  ProcInv(s)
  BY StageSafe DEF ProcInv, HasReq, Stage

\* Taking up request i.
LEMMA TakeTyped ==
    ASSUME NEW q, Typed(q), NEW i \in Objs(q)
    PROVE  LET s == [q EXCEPT !.cur = i, !.state = StateReqVerify]
           IN  /\ Typed(s) /\ s.cur = i /\ s.cur # 0 /\ s.state >= StateReqVerify
               /\ s.consensus = q.consensus /\ s.turn = q.turn /\ s.curTurn = q.curTurn
               /\ s.reqs = q.reqs /\ s.leaderReqCache = q.leaderReqCache
               /\ s.verifyOK = q.verifyOK
  <1> DEFINE s == [q EXCEPT !.cur = i, !.state = StateReqVerify]
  <1>1. q \in Proc /\ StateReqVerify \in State /\ i \in Nat /\ i # 0
    BY StateFacts DEF Typed, Objs
  <1>2. s \in Proc
    BY <1>1, ZenonT(30) DEF Proc
  <1>3. Typed(s)
    <2>1. /\ s.reqs = q.reqs /\ s.seq = q.seq /\ s.acquiring = q.acquiring
          /\ s.leaderReqCache = q.leaderReqCache /\ s.cur = i
          /\ s.voteSender = q.voteSender /\ s.mineSender = q.mineSender
          /\ s.posedSender = q.posedSender /\ s.otherReqCache = q.otherReqCache
          /\ s.verifyOK = q.verifyOK /\ s.posFinished = q.posFinished
      BY <1>1 DEF Proc
    <2> HIDE DEF s
    <2>2. i \in Ptrs(q)
      BY DEF Ptrs, Objs
    <2> QED
      BY <1>2, <2>1, <2>2 DEF Typed, Ptrs, Objs
  <1>4. StateReqVerify >= StateReqVerify
    BY DEF StateReqVerify
  <1> QED
    BY <1>1, <1>3, <1>4 DEF Proc

\* GetLeaderReq gives the cached request of leader and turn.
LEMMA GetLeaderReqFacts ==
    ASSUME NEW q, Typed(q), GetLeaderReq(q) # 0
    PROVE  /\ q.leader \in Leaders
           /\ GetLeaderReq(q) = q.leaderReqCache[q.leader]
           /\ GetLeaderReq(q) \in Objs(q)
           /\ q.reqs[GetLeaderReq(q)].turn = q.turn
  <1>1. q.leaderReqCache \in [Leaders -> Ptrs(q)]
    BY DEF Typed
  <1>2. /\ q.leader \in Leaders
        /\ GetLeaderReq(q) = q.leaderReqCache[q.leader]
        /\ q.reqs[GetLeaderReq(q)].turn = q.turn
    BY DEF GetLeaderReq
  <1> QED
    BY <1>1, <1>2 DEF Ptrs, Objs

\* A validator takes up a request: it is the only one of its leader and turn.
LEMMA startReqVerifyCommonInv ==
    ASSUME NEW q, ProcInv(q), NEW s \in startReqVerifyCommon(q)
    PROVE  ProcInv(s)
  <1>1. CASE q.state # StateStart \/ ~q.consensus \/ GetLeaderReq(q) = 0
    BY <1>1 DEF startReqVerifyCommon
  <1>2. CASE ~(q.state # StateStart \/ ~q.consensus \/ GetLeaderReq(q) = 0)
    <2> DEFINE c == GetLeaderReq(q)
               t == [q EXCEPT !.cur = c, !.state = StateReqVerify]
    <2>1. s \in processReqOnce(t)
      BY <1>2 DEF startReqVerifyCommon
    <2>2. /\ q.leader \in Leaders /\ c = q.leaderReqCache[q.leader] /\ c # 0
          /\ c \in Objs(q) /\ q.reqs[c].turn = q.turn
      BY <1>2, GetLeaderReqFacts DEF ProcInv
    <2>3. q.cur = 0
      BY <1>2, StateFacts DEF ProcInv, HasReq
    <2> HIDE DEF c
    <2>4. /\ Typed(t) /\ t.cur = c /\ t.cur # 0 /\ t.state >= StateReqVerify
          /\ t.consensus = q.consensus /\ t.turn = q.turn /\ t.curTurn = q.curTurn
          /\ t.reqs = q.reqs /\ t.leaderReqCache = q.leaderReqCache
          /\ t.verifyOK = q.verifyOK
      BY <2>2, TakeTyped, ZenonT(30) DEF ProcInv
    <2> HIDE DEF t
    <2>5. ASSUME Role = "Validator"
          PROVE  Safe(t)
      <3>1. Safe(q) /\ q.turn <= q.curTurn
        BY <1>2, <2>5 DEF ProcInv, Safe
      <3>2. q.curTurn \in Nat /\ q.turn \in Nat /\ q.reqs[c].turn \in Nat
        BY <2>2, TypedFacts DEF ProcInv
      <3>3. Used(t) = q.verifyOK \cup {c} /\ Used(q) = q.verifyOK
        BY <2>2, <2>3, <2>4 DEF Used
      <3>4. ~q.reqs[c].local =>
               q.reqs[c].turn = q.curTurn /\ q.reqs[c].leader = q.leader /\ q.leader # Self
        BY <2>2, <3>1, <3>2 DEF Safe, CacheSafe
      <3>5. \A i \in Used(t) : ~t.reqs[i].local => Held(t, i)
        BY <2>2, <2>4, <3>1, <3>2, <3>3, <3>4, ZenonT(30) DEF Safe, UsedSafe, Held
      <3>6. ASSUME NEW i \in q.verifyOK, ~q.reqs[i].local, ~q.reqs[c].local,
                   q.reqs[i].leader = q.reqs[c].leader, q.reqs[i].turn = q.reqs[c].turn
            PROVE  i = c
        <4>1. Held(q, i)
          BY <3>1, <3>3, <3>6 DEF Safe, UsedSafe
        <4>2. /\ q.reqs[i].turn = q.curTurn
              /\ q.leaderReqCache[q.reqs[i].leader] = c
          BY <2>2, <3>4, <3>6
        <4>3. \/ q.reqs[i].turn < q.curTurn
              \/ c = i
              \/ q.reqs[c].turn > q.reqs[i].turn
          BY <4>1, <4>2 DEF Held
        <4>4. q.reqs[c].turn = q.curTurn
          BY <3>4, <3>6
        <4> QED
          BY <3>2, <4>2, <4>3, <4>4
      <3>7. \A i, j \in Used(t) :
               /\ ~t.reqs[i].local /\ ~t.reqs[j].local
               /\ t.reqs[i].leader = t.reqs[j].leader
               /\ t.reqs[i].turn = t.reqs[j].turn
               => i = j
        BY <2>4, <3>1, <3>3, <3>6 DEF Safe, UsedSafe
      <3>8. UsedSafe(t)
        BY <2>4, <3>4, <3>5, <3>7 DEF UsedSafe
      <3>9. CacheSafe(t)
        BY <2>4, <3>1 DEF Safe, CacheSafe
      <3> QED
        BY <2>4, <3>1, <3>8, <3>9 DEF Safe
    <2> QED
      BY <2>1, <2>4, <2>5, processReqOnceStage, StageInv
  <1> QED
    BY <1>1, <1>2

-------------------------------------------------------------------------------
\* The broadcast node's choice among all requests.
LEMMA RefuseTyped ==
    ASSUME NEW q, Typed(q), NEW I
    PROVE  /\ Typed(Refuse(q, I))
           /\ Refuse(q, I).state = q.state /\ Refuse(q, I).cur = q.cur
           /\ Objs(Refuse(q, I)) = Objs(q)
  <1> DEFINE f == [i \in 1 .. Len(q.reqs) |->
                    IF i \in I THEN [q.reqs[i] EXCEPT !.result = "StateFailed"] ELSE q.reqs[i]]
             s == [q EXCEPT !.reqs = f]
  <1>1. q.reqs \in Seq(ReqData) /\ q \in Proc
    BY DEF Typed, Proc
  <1>2. f \in Seq(ReqData) /\ Len(f) = Len(q.reqs)
    <2>1. \A i \in 1 .. Len(q.reqs) : q.reqs[i] \in ReqData
      BY <1>1
    <2>2. ASSUME NEW d \in ReqData
          PROVE  [d EXCEPT !.result = "StateFailed"] \in ReqData
      BY DEF ReqData, VerifyResult
    <2>3. f \in [1 .. Len(q.reqs) -> ReqData] /\ Len(q.reqs) \in Nat
      BY <1>1, <2>1, <2>2
    <2> HIDE DEF f
    <2> QED
      BY <2>3
  <1>3. s = Refuse(q, I)
    BY DEF Refuse
  <1> HIDE DEF f
  <1>4. s \in Proc
    BY <1>1, <1>2, ZenonT(30) DEF Proc
  <1>5. /\ s.reqs = f /\ s.seq = q.seq /\ s.acquiring = q.acquiring
        /\ s.leaderReqCache = q.leaderReqCache /\ s.cur = q.cur
        /\ s.voteSender = q.voteSender /\ s.mineSender = q.mineSender
        /\ s.posedSender = q.posedSender /\ s.otherReqCache = q.otherReqCache
        /\ s.verifyOK = q.verifyOK /\ s.posFinished = q.posFinished
        /\ s.state = q.state
    BY <1>1 DEF Proc
  <1> HIDE DEF s
  <1> QED
    BY <1>2, <1>3, <1>4, <1>5 DEF Typed, Ptrs, Objs

\* The broadcast node takes up a request.
LEMMA TakeReqInv ==
    ASSUME NEW q, Typed(q), Role = "Broadcast", NEW i \in Objs(q), NEW s \in TakeReq(q, i)
    PROVE  ProcInv(s)
  <1> DEFINE t == [q EXCEPT !.cur = i, !.state = StateReqVerify]
  <1>1. Typed(t) /\ t.cur # 0 /\ t.state >= StateReqVerify
    BY TakeTyped, ZenonT(30)
  <1>2. s \in bcProcessReqVerify(t)
    BY DEF TakeReq
  <1> HIDE DEF t
  <1> QED
    BY <1>1, <1>2, bcProcessReqVerifyStage, StageInv

\* The loop of startReqVerifyBC.
LEMMA startReqVerifyBCInv ==
    ASSUME NEW q, ProcInv(q), Role = "Broadcast", NEW s \in startReqVerifyBC(q)
    PROVE  ProcInv(s)
  <1> DEFINE byLeader == Untried(q, LeaderReqs(q))
             others   == Untried(q, q.otherReqCache)
  <1>1. Typed(q) /\ HasReq(q)
    BY DEF ProcInv
  <1>2. Posed(q, byLeader) \subseteq Objs(q) /\ Posed(q, others) \subseteq Objs(q)
    BY <1>1, TypedFacts DEF Posed, Untried, LeaderReqs, Typed
  <1>3. \/ s = q
        \/ \E I : s = Refuse(q, I)
        \/ \E I : \E i \in Objs(q) : s \in TakeReq(Refuse(q, I), i)
    <2>1. CASE q.state \notin {StateStart, StateEnd}
      BY <2>1 DEF startReqVerifyBC
    <2>2. CASE q.state \in {StateStart, StateEnd} /\ Posed(q, byLeader) # {}
      <3>1. PICK I \in SUBSET (byLeader \ Posed(q, byLeader)), i \in Posed(q, byLeader) :
               s \in TakeReq(Refuse(q, I), i)
        BY <2>2 DEF startReqVerifyBC
      <3> QED
        BY <1>2, <3>1
    <2>3. CASE /\ q.state \in {StateStart, StateEnd}
               /\ ~(Posed(q, byLeader) # {}) /\ Posed(q, others) # {}
      <3>1. PICK i \in Posed(q, others) :
               s \in TakeReq(Refuse(q, byLeader \cup {j \in others : j < i}), i)
        BY <2>3 DEF startReqVerifyBC
      <3> QED
        BY <1>2, <3>1
    <2>4. CASE /\ q.state \in {StateStart, StateEnd}
               /\ ~(Posed(q, byLeader) # {}) /\ ~(Posed(q, others) # {})
      <3>1. s = Refuse(q, byLeader \cup others)
        BY <2>4 DEF startReqVerifyBC
      <3> QED
        BY <3>1
    <2> QED
      BY <2>1, <2>2, <2>3, <2>4
  <1>4. ASSUME NEW I, s = Refuse(q, I)
        PROVE  ProcInv(s)
    BY <1>1, <1>4, RefuseTyped DEF ProcInv, HasReq
  <1>5. ASSUME NEW I, NEW i \in Objs(q), s \in TakeReq(Refuse(q, I), i)
        PROVE  ProcInv(s)
    BY <1>1, <1>5, RefuseTyped, TakeReqInv
  <1> QED
    BY <1>3, <1>4, <1>5

\* Both roles.
LEMMA startReqVerifyInv ==
    ASSUME NEW q, ProcInv(q), NEW s \in startReqVerify(q)
    PROVE  ProcInv(s)
  <1>1. q.role \in {"Nil", Role}
    BY DEF ProcInv, Typed, Proc
  <1>2. CASE q.role = "Broadcast"
    BY <1>1, <1>2, startReqVerifyBCInv DEF startReqVerify
  <1>3. CASE q.role # "Broadcast"
    BY <1>3, startReqVerifyCommonInv DEF startReqVerify
  <1> QED
    BY <1>2, <1>3

-------------------------------------------------------------------------------
\* A Process that runs has its role, and only a validator counts votes.
RoleOK(q) ==
    /\ q.state # StateIdle => q.role = Role
    /\ q.state = StateDPOSVerify => q.role = "Validator"

\* MiningMatchesEnd of q.
MineOK(q) ==
    /\ (q.mineSender # 0) = (q.role = "Validator" /\ q.state = StateEnd)
    /\ q.mineSender # 0 =>
          /\ q.mineSender = q.cur
          /\ Cur(q).posed
          /\ Cur(q).result \in {"Success", "FailedButCanRecover"}

\* The acquisition with the latest number is the current request's, and a request in the
\* DPOS stage has a result.
TaskOK(q) ==
    /\ q.state = StateTxsVerify =>
          \A task \in q.acquiring : task.seq = q.seq => task.req = q.cur
    /\ q.state = StateDPOSVerify => Cur(q).result # "Processing"

Ctl(q) == RoleOK(q) /\ MineOK(q) /\ TaskOK(q)

\* Ready of q, but for the number.
Full(q) ==
    /\ q.state = StateDPOSVerify
    /\ Cur(q).result # "StateFailed"
    /\ IsQuorum(VotersOf(q.votes, Cur(q).hash) \cap Validators, Validators)

\* The order of the states again.
LEMMA StatesDiffer ==
    /\ StateIdle # StateStart /\ StateIdle # StateReqVerify /\ StateIdle # StateTxsVerify
    /\ StateIdle # StateDPOSVerify /\ StateIdle # StateEnd
    /\ StateStart # StateReqVerify /\ StateStart # StateTxsVerify
    /\ StateStart # StateDPOSVerify /\ StateStart # StateEnd
    /\ StateReqVerify # StateTxsVerify /\ StateReqVerify # StateDPOSVerify
    /\ StateReqVerify # StateEnd /\ StateTxsVerify # StateDPOSVerify
    /\ StateTxsVerify # StateEnd /\ StateDPOSVerify # StateEnd
    /\ ~(StateIdle >= StateDPOSVerify) /\ ~(StateStart >= StateDPOSVerify)
    /\ ~(StateReqVerify >= StateDPOSVerify) /\ ~(StateTxsVerify >= StateDPOSVerify)
  BY DEF StateIdle, StateStart, StateReqVerify, StateTxsVerify, StateDPOSVerify, StateEnd

\* What SetCur leaves alone.
LEMMA SetCurFields ==
    ASSUME NEW q, Typed(q), q.cur # 0, NEW d \in ReqData
    PROVE  LET s == SetCur(q, d)
           IN  /\ Cur(s) = d /\ s.cur = q.cur /\ s.role = q.role /\ s.state = q.state
               /\ s.mineSender = q.mineSender /\ s.seq = q.seq
               /\ s.acquiring = q.acquiring /\ s.votes = q.votes
  <1>1. q.cur \in 1 .. Len(q.reqs) /\ q.reqs \in Seq(ReqData) /\ q \in Proc
    BY DEF Typed, Proc, Ptrs
  <1>2. [q.reqs EXCEPT ![q.cur] = d][q.cur] = d
    BY <1>1
  <1> QED
    BY <1>1, <1>2 DEF SetCur, Cur, Proc

\* The Process ends when the request was not refused.
LEMMA finishedProcessCtl ==
    ASSUME NEW q, Typed(q), q.cur # 0, Ctl(q), q.state = StateDPOSVerify, Cur(q).posed
    PROVE  LET s == finishedProcess(q)
           IN  Ctl(s) /\ ~Full(s) /\ s.acquiring = q.acquiring
  <1>1. Cur(q).result \in VerifyResult /\ Cur(q).result # "Processing"
    BY CurIsReqData DEF ReqData, Ctl, TaskOK
  <1>2. q.role = "Validator" /\ Role = "Validator" /\ q \in Proc
    BY StatesDiffer DEF Ctl, RoleOK, Typed
  <1>3. CASE Cur(q).result = "StateFailed"
    BY <1>3 DEF finishedProcess, Full
  <1>4. CASE Cur(q).result # "StateFailed"
    <2> DEFINE s == finishedProcess(q)
    <2>1. /\ s.state = StateEnd /\ s.role = q.role /\ s.mineSender = q.cur /\ s.cur = q.cur
          /\ s.reqs = q.reqs /\ s.acquiring = q.acquiring
      BY <1>1, <1>2, <1>4 DEF finishedProcess, Proc
    <2>2. Cur(s) = Cur(q) /\ Cur(q).result \in {"Success", "FailedButCanRecover"}
      BY <1>1, <1>4, <2>1 DEF Cur, VerifyResult
    <2> HIDE DEF s
    <2>3. Ctl(s) /\ ~Full(s)
      BY <1>2, <2>1, <2>2, StatesDiffer DEF Ctl, RoleOK, MineOK, TaskOK, Full
    <2> QED
      BY <2>1, <2>3 DEF s
  <1> QED
    BY <1>3, <1>4

\* After a look at the votes there is no quorum left to be noticed.
LEMMA processDPOSOnceCtl ==
    ASSUME NEW q, Typed(q), Ctl(q), q.state = StateDPOSVerify => q.cur # 0
    PROVE  LET s == processDPOSOnce(q)
           IN  Ctl(s) /\ ~Full(s) /\ s.acquiring = q.acquiring
  <1>1. CASE /\ q.state = StateDPOSVerify
             /\ IsQuorum(VotersOf(q.votes, Cur(q).hash) \cap Validators, Validators)
    <2> DEFINE s == SetPosed(q)
               d == [Cur(q) EXCEPT !.posed = TRUE]
    <2>1. q.cur # 0 /\ Cur(q) \in ReqData
      BY <1>1, CurIsReqData
    <2>2. d \in ReqData /\ d.posed = TRUE /\ d.result = Cur(q).result
      BY <2>1, ZenonT(30) DEF ReqData
    <2>3. s = SetCur(q, d)
      BY DEF SetPosed
    <2> HIDE DEF d, s
    <2>4. /\ Cur(s) = d /\ s.cur = q.cur /\ s.role = q.role /\ s.state = q.state
          /\ s.mineSender = q.mineSender /\ s.acquiring = q.acquiring
      BY <2>1, <2>2, <2>3, SetCurFields
    <2>5. Typed(s)
      BY <2>1, SetPosedStage DEF s, Stage
    <2>6. Ctl(s)
      BY <1>1, <2>2, <2>4, StatesDiffer DEF Ctl, RoleOK, MineOK, TaskOK
    <2>7. processDPOSOnce(q) = finishedProcess(s)
      BY <1>1 DEF processDPOSOnce, s
    <2> QED
      BY <1>1, <2>1, <2>2, <2>4, <2>5, <2>6, <2>7, finishedProcessCtl
  <1>2. CASE ~(/\ q.state = StateDPOSVerify
               /\ IsQuorum(VotersOf(q.votes, Cur(q).hash) \cap Validators, Validators))
    BY <1>2 DEF processDPOSOnce, Full
  <1> QED
    BY <1>1, <1>2

\* startDPOSVerify, from the two states in which it goes on.
LEMMA startDPOSVerifyCtl ==
    ASSUME NEW q, Typed(q), Ctl(q), q.cur # 0, q.state \in {StateReqVerify, StateTxsVerify},
           NEW r \in VerifyResult \ {"Processing"}, NEW s \in startDPOSVerify(q, r)
    PROVE  Ctl(s) /\ ~Full(s) /\ s.acquiring = q.acquiring
  <1>1. /\ ~(q.state >= StateDPOSVerify) /\ q.role = Role /\ q.mineSender = 0
        /\ q.state # StateIdle /\ q \in Proc /\ Cur(q) \in ReqData
    BY StatesDiffer, CurIsReqData DEF Ctl, RoleOK, MineOK, Typed
  <1>2. CASE q.role = "Broadcast"
    <2> DEFINE d == SetResult(q, r)
               ok == IF r = "Success" THEN d.verifyOK \cup {q.cur} ELSE d.verifyOK
    <2>1. s = bcFinishedProcess(q, r)
      BY <1>1, <1>2 DEF startDPOSVerify
    <2>2. [Cur(q) EXCEPT !.result = r] \in ReqData
      BY <1>1 DEF ReqData
    <2>3. /\ d.cur = q.cur /\ d.role = q.role /\ d.state = q.state /\ d.seq = q.seq
          /\ d.mineSender = 0 /\ d.acquiring = q.acquiring
      BY <1>1, <2>2, SetCurFields DEF SetResult
    <2>4. d \in Proc
      BY SetResultStage DEF Stage, Typed
    <2> HIDE DEF d
    <2>5. CASE r = "StateFailed"
      <3>1. s = d
        BY <2>1, <2>5 DEF bcFinishedProcess, d
      <3> QED
        BY <1>1, <1>2, <2>3, <3>1, StatesDiffer DEF Ctl, RoleOK, MineOK, TaskOK, Full
    <2>6. CASE r # "StateFailed"
      <3>1. s = [d EXCEPT !.verifyOK = ok, !.state = StateEnd]
        BY <2>1, <2>6 DEF bcFinishedProcess, d
      <3> HIDE DEF ok
      <3>2. /\ s.state = StateEnd /\ s.role = q.role /\ s.mineSender = 0
            /\ s.acquiring = q.acquiring
        BY <2>3, <2>4, <3>1 DEF Proc
      <3> QED
        BY <1>1, <1>2, <3>2, StatesDiffer DEF Ctl, RoleOK, MineOK, TaskOK, Full
    <2> QED
      BY <2>5, <2>6
  <1>3. CASE q.role # "Broadcast"
    <2>1. PICK v \in (IF r = "Success" THEN sendVote(q) ELSE {q}) :
             s = processDPOSOnce([SetResult(v, r) EXCEPT !.state = StateDPOSVerify])
      BY <1>1, <1>3 DEF startDPOSVerify
    <2>2. Typed(v) /\ v.cur # 0 /\ v \in Proc
      BY <2>1, sendVoteStage, StageRefl DEF Stage, Typed
    <2>3. /\ v.role = q.role /\ v.mineSender = 0 /\ v.acquiring = q.acquiring
      BY <1>1, <2>1 DEF sendVote, Proc
    <2> DEFINE d == [Cur(v) EXCEPT !.result = r]
               t == SetResult(v, r)
               u == [t EXCEPT !.state = StateDPOSVerify]
    <2>4. d \in ReqData /\ d.result = r
      BY <2>2, CurIsReqData DEF ReqData
    <2>5. /\ Cur(t) = d /\ t.cur = v.cur /\ t.role = q.role
          /\ t.mineSender = 0 /\ t.acquiring = q.acquiring
      BY <2>2, <2>3, <2>4, SetCurFields DEF SetResult
    <2>6. Typed(t) /\ t \in Proc
      BY <2>2, SetResultStage DEF Stage, Typed
    <2> HIDE DEF d, t
    <2>7. /\ u.reqs = t.reqs /\ u.cur = t.cur /\ u.role = t.role
          /\ u.mineSender = t.mineSender /\ u.acquiring = t.acquiring
          /\ u.state = StateDPOSVerify
      BY <2>6 DEF Proc
    <2>8. Typed(u)
      <3>1. u \in Proc
        BY <2>6, StateFacts, ZenonT(30) DEF Proc
      <3> QED
        BY <2>6, <3>1, ZenonT(30) DEF Typed, Proc, Ptrs, Objs
    <2> HIDE DEF u
    <2>9. Ctl(u)
      <3>1. q.role = "Validator" /\ Role = "Validator"
        BY <1>1, <1>3, RoleAssumption
      <3>2. Cur(u) = Cur(t)
        BY <2>7 DEF Cur
      <3> QED
        BY <2>4, <2>5, <2>7, <3>1, <3>2, StatesDiffer DEF Ctl, RoleOK, MineOK, TaskOK
    <2>10. s = processDPOSOnce(u) /\ u.cur # 0
      BY <2>1, <2>2, <2>5, <2>7 DEF u, t
    <2> QED
      BY <2>5, <2>7, <2>8, <2>9, <2>10, processDPOSOnceCtl
  <1> QED
    BY <1>2, <1>3

\* A new acquisition has a number of its own.
LEMMA startTxsVerifyCtl ==
    ASSUME NEW q, Typed(q), Ctl(q), q.cur # 0, q.state = StateReqVerify,
           NEW s \in startTxsVerify(q)
    PROVE  Ctl(s) /\ ~Full(s)
  <1>1. PICK n \in {q.seq + 1} \cap 1 .. MaxSeq :
           s = [q EXCEPT !.state = StateTxsVerify, !.seq = n,
                         !.acquiring = q.acquiring \cup {[seq |-> n, req |-> q.cur]}]
    BY ZenonT(30) DEF startTxsVerify
  <1>2. /\ q.seq \in Nat /\ n = q.seq + 1 /\ q \in Proc /\ q.role = Role /\ q.mineSender = 0
    BY <1>1, StatesDiffer DEF Typed, Proc, Ctl, RoleOK, MineOK
  <1>3. \A task \in q.acquiring : task.seq # n
    <2>1. \A task \in q.acquiring : task.seq \in 1 .. q.seq
      BY DEF Typed
    <2> QED
      BY <1>2, <2>1
  <1>4. /\ s.state = StateTxsVerify /\ s.seq = n /\ s.role = q.role /\ s.mineSender = 0
        /\ s.acquiring = q.acquiring \cup {[seq |-> n, req |-> q.cur]} /\ s.cur = q.cur
    BY <1>1, <1>2 DEF Proc
  <1> QED
    BY <1>2, <1>3, <1>4, StatesDiffer DEF Ctl, RoleOK, MineOK, TaskOK, Full

\* Taking up request i.
LEMMA TakeCtl ==
    ASSUME NEW q, Typed(q), Ctl(q), NEW i \in Objs(q), q.state # StateIdle,
           q.state = StateEnd => q.role # "Validator"
    PROVE  LET s == [q EXCEPT !.cur = i, !.state = StateReqVerify]
           IN  Ctl(s) /\ s.state = StateReqVerify /\ s.role = q.role /\ s.leader = q.leader
  <1> DEFINE s == [q EXCEPT !.cur = i, !.state = StateReqVerify]
  <1>1. q \in Proc /\ q.role = Role /\ q.mineSender = 0
    BY DEF Typed, Ctl, RoleOK, MineOK
  <1>2. /\ s.state = StateReqVerify /\ s.role = q.role /\ s.mineSender = 0
        /\ s.leader = q.leader
    BY <1>1 DEF Proc
  <1> HIDE DEF s
  <1>3. Ctl(s)
    BY <1>1, <1>2, StatesDiffer DEF Ctl, RoleOK, MineOK, TaskOK
  <1> QED
    BY <1>2, <1>3 DEF s

\* A request that is not local has the header of a message.
Sourced(d) == ~d.local => HeaderOf(d) \in {HeaderOf(r) : r \in Requests}

\* What a step may do to the requests and to the history: requests are only added, and
\* only the request at hand is newly signed.
Grows(q, s) ==
    /\ Len(q.reqs) <= Len(s.reqs)
    /\ \A i \in Objs(q) : SameReq(s.reqs[i], q.reqs[i])
    /\ \A i \in Objs(s) \ Objs(q) : Sourced(s.reqs[i])
    /\ q.verifyOK \subseteq s.verifyOK
    /\ s.verifyOK \subseteq q.verifyOK \cup {s.cur}

\* What a method may do: also, a quorum that is there after it was there before it.
Adv(q, s) == Grows(q, s) /\ (Full(s) => Full(q))

\* A step of the stage, once the votes have been counted.
LEMMA StageAdv ==
    ASSUME NEW q, NEW t, NEW s, Typed(q), t.reqs = q.reqs, t.verifyOK = q.verifyOK,
           Stage(t, s), ~Full(s)
    PROVE  Adv(q, s)
  <1>1. Len(q.reqs) \in Nat /\ Objs(t) = Objs(q)
    BY DEF Typed, Proc, Objs
  <1> QED
    BY <1>1 DEF Stage, Adv, Grows, Objs

\* A method that touches neither the requests nor the history, and leaves no quorum.
LEMMA AdvSame ==
    ASSUME NEW q, NEW s, Typed(q), s.reqs = q.reqs, s.verifyOK = q.verifyOK, ~Full(s)
    PROVE  Adv(q, s)
  <1>1. Len(q.reqs) \in Nat /\ Objs(s) = Objs(q)
    BY DEF Typed, Proc, Objs
  <1>2. \A i \in Objs(q) : SameReq(s.reqs[i], q.reqs[i])
    BY DEF SameReq
  <1> QED
    BY <1>1, <1>2 DEF Adv, Grows

\* A method that does nothing.
LEMMA AdvRefl ==
    ASSUME NEW q, Typed(q)
    PROVE  Adv(q, q)
  <1>1. Len(q.reqs) \in Nat
    BY DEF Typed, Proc
  <1> QED
    BY <1>1 DEF Adv, Grows, SameReq

\* The verification of the header.
LEMMA processReqOnceCtl ==
    ASSUME NEW q, Typed(q), Ctl(q), q.cur # 0, q.state = StateReqVerify,
           NEW s \in processReqOnce(q)
    PROVE  Ctl(s) /\ ~Full(s)
  <1>1. CASE Cur(q).local
    <2>1. s \in startDPOSVerify(q, "Success") /\ "Success" \in VerifyResult \ {"Processing"}
      BY <1>1 DEF processReqOnce, VerifyResult
    <2> QED
      BY <2>1, startDPOSVerifyCtl
  <1>2. CASE ~Cur(q).local
    <2>1. PICK o \in HeaderOutcomes :
             s \in IF o = "ok" THEN startTxsVerify(q) ELSE startDPOSVerify(q, o)
      BY <1>2 DEF processReqOnce
    <2>2. o = "ok" \/ o \in VerifyResult \ {"Processing"}
      BY DEF HeaderOutcomes, VerifyResult
    <2> QED
      BY <2>1, <2>2, startDPOSVerifyCtl, startTxsVerifyCtl
  <1> QED
    BY <1>1, <1>2

\* A validator's request is the one of its leader and turn, a broadcast node's is signed.
CurOK(q) ==
    /\ Role = "Validator" /\ q.cur # 0 => Cur(q).leader = q.leader /\ Cur(q).turn = q.turn
    /\ Role = "Broadcast" /\ q.cur # 0 => Cur(q).posed

\* A validator takes up a request.
LEMMA startReqVerifyCommonCtl ==
    ASSUME NEW q, ProcInv(q), Ctl(q), CurOK(q), Role = "Validator",
           NEW s \in startReqVerifyCommon(q)
    PROVE  /\ Ctl(s) /\ CurOK(s) /\ Adv(q, s)
           /\ s.leader = q.leader /\ s.turn = q.turn
           /\ q.state # StateStart => s = q
  <1>1. CASE q.state # StateStart \/ ~q.consensus \/ GetLeaderReq(q) = 0
    BY <1>1, AdvRefl DEF startReqVerifyCommon, ProcInv
  <1>2. CASE ~(q.state # StateStart \/ ~q.consensus \/ GetLeaderReq(q) = 0)
    <2> DEFINE c == GetLeaderReq(q)
               t == [q EXCEPT !.cur = c, !.state = StateReqVerify]
    <2>1. s \in processReqOnce(t)
      BY <1>2 DEF startReqVerifyCommon
    <2>2. /\ Typed(q) /\ q.leader \in Leaders /\ c = q.leaderReqCache[q.leader] /\ c # 0
          /\ c \in Objs(q) /\ q.reqs[c].turn = q.turn
      BY <1>2, GetLeaderReqFacts DEF ProcInv
    <2>3. Role = "Validator" => q.reqs[c].leader = q.leader
      BY <2>2 DEF ProcInv, Safe, CacheSafe
    <2> HIDE DEF c
    <2>4. /\ Typed(t) /\ t.cur = c /\ t.cur # 0 /\ t.turn = q.turn
          /\ t.reqs = q.reqs /\ t.verifyOK = q.verifyOK
      BY <2>2, TakeTyped, ZenonT(30) DEF ProcInv
    <2>5. Ctl(t) /\ t.state = StateReqVerify /\ t.leader = q.leader
      BY <1>2, <2>2, StatesDiffer, TakeCtl
    <2> HIDE DEF t
    <2>6. Ctl(s) /\ ~Full(s) /\ Stage(t, s)
      BY <2>1, <2>4, <2>5, processReqOnceCtl, processReqOnceStage
    <2>7. Adv(q, s)
      BY <2>2, <2>4, <2>6, StageAdv
    <2>8. s.cur = c /\ s.leader = q.leader /\ s.turn = q.turn /\ SameReq(s.reqs[c], q.reqs[c])
      BY <2>2, <2>4, <2>5, <2>6, <2>7 DEF Stage, Adv, Grows
    <2>9. CurOK(s)
      BY <2>2, <2>3, <2>8 DEF CurOK, Cur, SameReq
    <2> QED
      BY <1>2, <2>6, <2>7, <2>8, <2>9
  <1> QED
    BY <1>1, <1>2

\* The broadcast node takes up a request.
LEMMA TakeReqCtl ==
    ASSUME NEW q, Typed(q), Ctl(q), Role = "Broadcast", q.state # StateIdle,
           NEW i \in Objs(q), NEW s \in TakeReq(q, i)
    PROVE  Ctl(s) /\ Adv(q, s) /\ s.cur = i
  <1> DEFINE t == [q EXCEPT !.cur = i, !.state = StateReqVerify]
  <1>1. Typed(t) /\ t.cur = i /\ t.cur # 0 /\ t.reqs = q.reqs /\ t.verifyOK = q.verifyOK
    BY TakeTyped, ZenonT(30)
  <1>2. Ctl(t) /\ t.state = StateReqVerify /\ t.role = "Broadcast"
    <2>1. q.role = "Broadcast" /\ "Broadcast" # "Validator"
      BY DEF Ctl, RoleOK
    <2> QED
      BY <2>1, TakeCtl
  <1>3. s \in startTxsVerify(t) \/ s = bcFinishedProcess(t, "StateFailed")
    BY DEF TakeReq, bcProcessReqVerify
  <1> HIDE DEF t
  <1>4. Stage(t, s)
    BY <1>1, <1>3, bcProcessReqVerifyStage DEF bcProcessReqVerify
  <1>5. Ctl(s) /\ ~Full(s)
    <2>1. CASE s \in startTxsVerify(t)
      BY <1>1, <1>2, <2>1, startTxsVerifyCtl
    <2>2. CASE s = bcFinishedProcess(t, "StateFailed")
      <3>1. "StateFailed" \in VerifyResult \ {"Processing"}
        BY DEF VerifyResult
      <3>2. s \in startDPOSVerify(t, "StateFailed")
        BY <1>2, <2>2, StatesDiffer DEF startDPOSVerify
      <3> QED
        BY <1>1, <1>2, <3>1, <3>2, startDPOSVerifyCtl
    <2> QED
      BY <1>3, <2>1, <2>2
  <1> QED
    BY <1>1, <1>4, <1>5, StageAdv DEF Stage

\* Two methods one after the other, the first of which signs nothing.
LEMMA AdvTrans ==
    ASSUME NEW q, NEW t, NEW s, Typed(q), Typed(t), Typed(s),
           Adv(q, t), t.verifyOK = q.verifyOK, Adv(t, s)
    PROVE  Adv(q, s)
  <1>1. /\ Len(q.reqs) \in Nat /\ Len(t.reqs) \in Nat /\ Len(s.reqs) \in Nat
        /\ Len(q.reqs) <= Len(t.reqs) /\ Len(t.reqs) <= Len(s.reqs)
    <2>1. q.reqs \in Seq(ReqData) /\ t.reqs \in Seq(ReqData) /\ s.reqs \in Seq(ReqData)
      BY DEF Typed, Proc
    <2> QED
      BY <2>1 DEF Adv, Grows
  <1>2. Len(q.reqs) <= Len(s.reqs) /\ Objs(q) \subseteq Objs(t)
    BY <1>1 DEF Objs
  <1>3. \A i \in Objs(q) : SameReq(s.reqs[i], q.reqs[i])
    BY <1>2 DEF Adv, Grows, SameReq
  <1>4. ASSUME NEW i \in Objs(s) \ Objs(q)
        PROVE  Sourced(s.reqs[i])
    <2>1. CASE i \in Objs(t)
      <3>1. Sourced(t.reqs[i]) /\ SameReq(s.reqs[i], t.reqs[i])
        BY <1>4, <2>1 DEF Adv, Grows
      <3> QED
        BY <3>1 DEF Sourced, SameReq, HeaderOf
    <2>2. CASE i \notin Objs(t)
      BY <1>4, <2>2 DEF Adv, Grows
    <2> QED
      BY <2>1, <2>2
  <1> QED
    BY <1>2, <1>3, <1>4 DEF Adv, Grows

\* The broadcast node refuses requests.
LEMMA RefuseCtl ==
    ASSUME NEW q, Typed(q), Ctl(q), Role = "Broadcast", q.state # StateIdle, NEW I
    PROVE  LET s == Refuse(q, I)
           IN  Ctl(s) /\ Adv(q, s) /\ s.verifyOK = q.verifyOK /\ s.cur = q.cur
  <1> DEFINE f == [i \in 1 .. Len(q.reqs) |->
                    IF i \in I THEN [q.reqs[i] EXCEPT !.result = "StateFailed"] ELSE q.reqs[i]]
             s == [q EXCEPT !.reqs = f]
  <1>1. q.reqs \in Seq(ReqData) /\ q \in Proc /\ Len(q.reqs) \in Nat
    <2>1. q.reqs \in Seq(ReqData) /\ q \in Proc
      BY DEF Typed, Proc
    <2> QED
      BY <2>1
  <1>2. \A i \in Objs(q) : SameReq(f[i], q.reqs[i])
    <2>1. \A i \in Objs(q) : q.reqs[i] \in ReqData
      BY <1>1 DEF Objs
    <2> QED
      BY <2>1, ZenonT(30) DEF Objs, SameReq, ReqData
  <1>3. Refuse(q, I) = s
    BY DEF Refuse
  <1>4. Objs(s) = Objs(q) /\ s.state = q.state
    BY <1>3, RefuseTyped
  <1> HIDE DEF f
  <1>5. /\ s.reqs = f /\ s.role = q.role /\ s.mineSender = q.mineSender /\ s.seq = q.seq
        /\ s.acquiring = q.acquiring /\ s.cur = q.cur /\ s.verifyOK = q.verifyOK
    BY <1>1 DEF Proc
  <1> HIDE DEF s
  <1>6. q.role = "Broadcast" /\ q.mineSender = 0 /\ q.state # StateDPOSVerify
    BY DEF Ctl, RoleOK, MineOK
  <1>7. Ctl(s) /\ ~Full(s)
    BY <1>4, <1>5, <1>6 DEF Ctl, RoleOK, MineOK, TaskOK, Full
  <1>8. Typed(s)
    BY <1>3, RefuseTyped
  <1>9. Len(s.reqs) = Len(q.reqs)
    <2>1. s.reqs \in Seq(ReqData)
      BY <1>8 DEF Typed, Proc
    <2>2. Len(s.reqs) \in Nat /\ 1 .. Len(s.reqs) = 1 .. Len(q.reqs)
      BY <1>4, <2>1 DEF Objs
    <2> QED
      BY <1>1, <2>2
  <1>10. Adv(q, s)
    BY <1>1, <1>2, <1>4, <1>5, <1>7, <1>9 DEF Adv, Grows
  <1> QED
    BY <1>3, <1>5, <1>7, <1>10

\* The loop of startReqVerifyBC.
LEMMA startReqVerifyBCCtl ==
    ASSUME NEW q, ProcInv(q), Ctl(q), CurOK(q), Role = "Broadcast",
           NEW s \in startReqVerifyBC(q)
    PROVE  Ctl(s) /\ CurOK(s) /\ Adv(q, s) /\ (q.state \notin {StateStart, StateEnd} => s = q)
  <1> DEFINE byLeader == Untried(q, LeaderReqs(q))
             others   == Untried(q, q.otherReqCache)
  <1>1. Typed(q)
    BY DEF ProcInv
  <1>2. CASE q.state \notin {StateStart, StateEnd}
    BY <1>1, <1>2, AdvRefl DEF startReqVerifyBC
  <1>3. CASE q.state \in {StateStart, StateEnd}
    <2>1. q.state # StateIdle
      BY <1>3, StatesDiffer
    <2>2. /\ Posed(q, byLeader) \subseteq Objs(q) /\ Posed(q, others) \subseteq Objs(q)
          /\ \A i \in Posed(q, byLeader) \cup Posed(q, others) : q.reqs[i].posed
      BY <1>1, TypedFacts DEF Posed, Untried, LeaderReqs, Typed
    <2>3. \/ \E I : s = Refuse(q, I)
          \/ \E I : \E i \in Objs(q) : q.reqs[i].posed /\ s \in TakeReq(Refuse(q, I), i)
      <3>1. CASE Posed(q, byLeader) # {}
        <4>1. PICK I \in SUBSET (byLeader \ Posed(q, byLeader)), i \in Posed(q, byLeader) :
                 s \in TakeReq(Refuse(q, I), i)
          BY <1>3, <3>1 DEF startReqVerifyBC
        <4> QED
          BY <2>2, <4>1
      <3>2. CASE ~(Posed(q, byLeader) # {}) /\ Posed(q, others) # {}
        <4>1. PICK i \in Posed(q, others) :
                 s \in TakeReq(Refuse(q, byLeader \cup {j \in others : j < i}), i)
          BY <1>3, <3>2 DEF startReqVerifyBC
        <4> QED
          BY <2>2, <4>1
      <3>3. CASE ~(Posed(q, byLeader) # {}) /\ ~(Posed(q, others) # {})
        <4>1. s = Refuse(q, byLeader \cup others)
          BY <1>3, <3>3 DEF startReqVerifyBC
        <4> QED
          BY <4>1
      <3> QED
        BY <3>1, <3>2, <3>3
    <2>4. ASSUME NEW I, s = Refuse(q, I)
          PROVE  Ctl(s) /\ CurOK(s) /\ Adv(q, s)
      <3>1. Ctl(s) /\ Adv(q, s) /\ s.cur = q.cur
        BY <1>1, <2>1, <2>4, RefuseCtl
      <3>2. q.cur # 0 => q.cur \in Objs(q)
        BY <1>1 DEF Typed, Ptrs, Objs
      <3>3. q.cur # 0 => SameReq(Cur(s), Cur(q))
        BY <3>1, <3>2 DEF Adv, Grows, Cur
      <3>4. CurOK(s)
        BY <3>1, <3>3 DEF CurOK, SameReq
      <3> QED
        BY <3>1, <3>4
    <2>5. ASSUME NEW I, NEW i \in Objs(q), q.reqs[i].posed, s \in TakeReq(Refuse(q, I), i)
          PROVE  Ctl(s) /\ CurOK(s) /\ Adv(q, s)
      <3> DEFINE t == Refuse(q, I)
      <3>1. Typed(t) /\ t.state = q.state /\ Objs(t) = Objs(q)
        BY <1>1, RefuseTyped
      <3>2. Ctl(t) /\ Adv(q, t) /\ t.verifyOK = q.verifyOK
        BY <1>1, <2>1, RefuseCtl
      <3> HIDE DEF t
      <3>3. Ctl(s) /\ Adv(t, s) /\ s.cur = i
        BY <2>1, <2>5, <3>1, <3>2, TakeReqCtl DEF t
      <3>4. Typed(s)
        BY <2>5, <3>1, TakeReqInv DEF t, ProcInv
      <3>5. Adv(q, s)
        BY <1>1, <3>1, <3>2, <3>3, <3>4, AdvTrans
      <3>6. SameReq(s.reqs[i], q.reqs[i])
        BY <3>5 DEF Adv, Grows
      <3>7. CurOK(s)
        BY <2>5, <3>3, <3>6 DEF CurOK, SameReq, Cur
      <3> QED
        BY <3>3, <3>5, <3>7
    <2> QED
      BY <1>3, <2>3, <2>4, <2>5
  <1> QED
    BY <1>2, <1>3

\* Both roles.
LEMMA startReqVerifyCtl ==
    ASSUME NEW q, ProcInv(q), Ctl(q), CurOK(q), NEW s \in startReqVerify(q)
    PROVE  /\ Ctl(s) /\ CurOK(s) /\ Adv(q, s)
           /\ q.state \notin {StateStart, StateEnd} => s = q
  <1>1. q.role \in {"Nil", Role}
    BY DEF ProcInv, Typed, Proc
  <1>2. CASE q.role = "Broadcast"
    BY <1>1, <1>2, startReqVerifyBCCtl DEF startReqVerify
  <1>3. CASE q.role = "Validator"
    BY <1>1, <1>3, startReqVerifyCommonCtl DEF startReqVerify
  <1>4. CASE q.role \notin {"Broadcast", "Validator"}
    BY <1>4, AdvRefl DEF startReqVerify, ProcInv
  <1> QED
    BY <1>2, <1>3, <1>4

\* The votes change.
LEMMA VotesCtl ==
    ASSUME NEW q, Typed(q), Ctl(q), CurOK(q), NEW v
    PROVE  LET s == [q EXCEPT !.votes = v]
           IN  /\ Ctl(s) /\ CurOK(s) /\ s.state = q.state /\ s.cur = q.cur
               /\ s.reqs = q.reqs /\ s.verifyOK = q.verifyOK /\ s.acquiring = q.acquiring
  <1> DEFINE s == [q EXCEPT !.votes = v]
  <1>1. /\ s.state = q.state /\ s.cur = q.cur /\ s.reqs = q.reqs /\ s.role = q.role
        /\ s.mineSender = q.mineSender /\ s.seq = q.seq /\ s.acquiring = q.acquiring
        /\ s.leader = q.leader /\ s.turn = q.turn /\ s.verifyOK = q.verifyOK
    BY DEF Typed, Proc
  <1> HIDE DEF s
  <1>2. Cur(s) = Cur(q)
    BY <1>1 DEF Cur
  <1>3. Ctl(s) /\ CurOK(s)
    BY <1>1, <1>2 DEF Ctl, RoleOK, MineOK, TaskOK, CurOK
  <1> QED
    BY <1>1, <1>3 DEF s

\* A look at the votes, with nothing else.
LEMMA processDPOSOnceAdv ==
    ASSUME NEW q, NEW t, ProcInv(q), ProcInv(t), Ctl(t), CurOK(t), t.reqs = q.reqs,
           t.verifyOK = q.verifyOK, t.state = q.state, t.cur = q.cur
    PROVE  LET s == processDPOSOnce(t)
           IN  /\ Ctl(s) /\ CurOK(s) /\ Adv(q, s)
               /\ q.state # StateDPOSVerify => s.state = q.state
  <1> DEFINE s == processDPOSOnce(t)
  <1>1. Typed(q) /\ Typed(t) /\ (t.state = StateDPOSVerify => t.cur # 0)
    BY StateFacts DEF ProcInv, HasReq
  <1>2. Ctl(s) /\ ~Full(s) /\ Stage(t, s)
    BY <1>1, processDPOSOnceCtl, processDPOSOnceStage
  <1>3. q.state # StateDPOSVerify => s.state = q.state
    BY DEF processDPOSOnce
  <1> HIDE DEF s
  <1>4. Adv(q, s)
    BY <1>1, <1>2, StageAdv
  <1>5. CurOK(s)
    <2>1. t.cur # 0 => t.cur \in Objs(t)
      BY <1>1 DEF Typed, Proc, Ptrs, Objs
    <2> QED
      BY <1>2, <2>1 DEF Stage, SameReq, CurOK, Cur
  <1> QED
    BY <1>2, <1>3, <1>4, <1>5 DEF s

\* The end of an acquisition, which is only heeded when it is the latest.
LEMMA AcquisitionEndCtl ==
    ASSUME NEW q, ProcInv(q), Ctl(q), CurOK(q), NEW task,
           NEW s \in VerifyTxs(q, task) \cup ProcessTxsAcquireTimeOut(q, task)
    PROVE  /\ Ctl(s) /\ CurOK(s) /\ Adv(q, s) /\ s.acquiring = q.acquiring
           /\ s.state # q.state => task.seq = q.seq
           /\ q.state = StateIdle => s.state = StateIdle
  <1>1. Typed(q)
    BY DEF ProcInv
  <1>2. CASE s = q
    BY <1>1, <1>2, AdvRefl
  <1>3. CASE s # q
    <2>1. q.state = StateTxsVerify /\ task.seq = q.seq
      BY <1>3 DEF VerifyTxs, ProcessTxsAcquireTimeOut
    <2>2. q.cur # 0
      BY <2>1, StateFacts DEF ProcInv, HasReq
    <2>3. PICK o \in VerifyResult \ {"Processing"} : s \in startDPOSVerify(q, o)
      BY <1>3 DEF VerifyTxs, ProcessTxsAcquireTimeOut, TxsOutcomes, VerifyResult
    <2>4. Ctl(s) /\ ~Full(s) /\ s.acquiring = q.acquiring
      BY <1>1, <2>1, <2>2, <2>3, startDPOSVerifyCtl
    <2>5. Stage(q, s)
      BY <1>1, <2>2, <2>3, startDPOSVerifyStage
    <2>6. Adv(q, s)
      BY <1>1, <2>4, <2>5, StageAdv
    <2>7. CurOK(s)
      <3>1. q.cur \in Objs(q)
        BY <1>1, <2>2 DEF Typed, Proc, Ptrs, Objs
      <3> QED
        BY <2>5, <3>1 DEF Stage, SameReq, CurOK, Cur
    <2> QED
      BY <2>1, <2>4, <2>6, <2>7, StatesDiffer
  <1> QED
    BY <1>2, <1>3

\* The requests of a Process after a step have their sources if they had them before.
LEMMA GrowsSourced ==
    ASSUME NEW q, NEW s, Grows(q, s), \A i \in Objs(q) : Sourced(q.reqs[i])
    PROVE  \A i \in Objs(s) : Sourced(s.reqs[i])
  <1> SUFFICES ASSUME NEW i \in Objs(s)
               PROVE  Sourced(s.reqs[i])
    OBVIOUS
  <1>1. CASE i \in Objs(q)
    BY <1>1 DEF Grows, Sourced, SameReq, HeaderOf
  <1>2. CASE i \notin Objs(q)
    BY <1>2 DEF Grows
  <1> QED
    BY <1>1, <1>2

-------------------------------------------------------------------------------
\* s has the requests, the cache and the history of q; it may have dropped its request.
Kept(q, s) ==
    /\ s.reqs = q.reqs /\ s.seq = q.seq /\ s.acquiring \subseteq q.acquiring
    /\ s.curTurn = q.curTurn /\ s.leaderReqCache = q.leaderReqCache
    /\ s.otherReqCache = q.otherReqCache
    /\ s.verifyOK = q.verifyOK /\ s.posFinished = q.posFinished
    /\ s.voteSender \in {0, q.voteSender} /\ s.mineSender \in {0, q.mineSender}
    /\ s.posedSender \in {0, q.posedSender} /\ s.cur \in {0, q.cur}

\* Changes of control alone keep the invariant.
LEMMA KeptInv ==
    ASSUME NEW q, Typed(q), Role = "Validator" => Safe(q),
           NEW s \in Proc, Kept(q, s), HasReq(s), Role = "Validator" => s.turn <= s.curTurn
    PROVE  ProcInv(s)
  <1>1. Typed(s)
    <2>1. q.reqs \in Seq(ReqData)
      BY DEF Typed, Proc
    <2>2. Objs(s) = Objs(q) /\ Ptrs(s) = Ptrs(q) /\ 0 \in Ptrs(q)
      BY <2>1 DEF Kept, Objs, Ptrs
    <2> QED
      BY <2>2 DEF Typed, Kept
  <1>2. ASSUME Role = "Validator"
        PROVE  Safe(s)
    <2>1. Safe(q)
      BY <1>2
    <2>2. Used(s) \subseteq Used(q)
      BY DEF Used, Kept
    <2>3. \A i : Held(q, i) => Held(s, i)
      BY DEF Held, Kept
    <2>4. UsedSafe(s)
      BY <2>1, <2>2, <2>3 DEF Safe, UsedSafe, Kept
    <2>5. CacheSafe(s)
      <3>1. CacheSafe(q)
        BY <2>1 DEF Safe
      <3>2. /\ s.leaderReqCache = q.leaderReqCache
            /\ s.reqs = q.reqs /\ s.curTurn = q.curTurn
        BY DEF Kept
      <3> QED
        BY <3>1, <3>2 DEF CacheSafe
    <2> QED
      BY <1>2, <2>4, <2>5 DEF Safe
  <1> QED
    BY <1>1, <1>2 DEF ProcInv

\* StartRunning keeps the invariant, also in a Process that was closed.
LEMMA StartRunningInv ==
    ASSUME NEW q, ProcInv(q), NEW s \in StartRunning(q)
    PROVE  ProcInv(s)
  <1> DEFINE st == IF q.state = StateIdle THEN StateStart ELSE q.state
             t  == [q EXCEPT !.role = Role, !.state = st]
  <1>1. s \in startReqVerify(t)
    BY DEF StartRunning
  <1>2. q \in Proc /\ st \in State /\ (st >= StateReqVerify) = (q.state >= StateReqVerify)
    BY StateFacts DEF ProcInv, Typed, Proc
  <1> HIDE DEF st
  <1>3. t \in Proc
    BY <1>2, ZenonT(30) DEF Proc
  <1>4. Kept(q, t) /\ t.state = st /\ t.cur = q.cur /\ t.turn = q.turn
    BY <1>2 DEF Proc, Kept
  <1> HIDE DEF t
  <1>5. HasReq(t)
    BY <1>2, <1>4 DEF ProcInv, HasReq
  <1>6. Role = "Validator" => t.turn <= t.curTurn
    BY <1>4 DEF ProcInv, Safe, Kept
  <1> QED
    BY <1>1, <1>3, <1>4, <1>5, <1>6, KeptInv, startReqVerifyInv DEF ProcInv

\* Close keeps the invariant.
LEMMA CloseInv ==
    ASSUME NEW q, ProcInv(q)
    PROVE  ProcInv(Close(q))
  <1>1. q \in Proc /\ StateIdle \in State /\ ~(StateIdle >= StateReqVerify)
    BY StateFacts DEF ProcInv, Typed
  <1>2. Close(q) \in Proc
    BY <1>1, ZenonT(30) DEF Proc, Close, stopSender
  <1>3. /\ Kept(q, Close(q)) /\ Close(q).turn = q.turn
        /\ Close(q).state = StateIdle /\ Close(q).cur = 0
    BY <1>1 DEF Proc, Kept, Close, stopSender
  <1>4. HasReq(Close(q))
    BY <1>1, <1>3 DEF HasReq
  <1>5. Role = "Validator" => Close(q).turn <= Close(q).curTurn
    BY <1>3 DEF ProcInv, Safe, Kept
  <1> QED
    BY <1>2, <1>3, <1>4, <1>5, KeptInv DEF ProcInv

\* The leader is not agreed on: stopProcess keeps the invariant.
LEMMA stopProcessInv ==
    ASSUME NEW q, ProcInv(q)
    PROVE  ProcInv(stopProcess([q EXCEPT !.consensus = FALSE]))
  <1> DEFINE st == IF q.state > StateIdle THEN StateStart ELSE q.state
             s  == stopProcess([q EXCEPT !.consensus = FALSE])
  <1>1. q \in Proc /\ q.curTurn \in Nat /\ 0 \in Turns
    BY TypedFacts, AccountsAssumption DEF ProcInv, Typed
  <1>2. st \in State /\ ~(st >= StateReqVerify)
    <2>1. q.state \in State
      BY <1>1 DEF Proc
    <2> QED
      BY <2>1 DEF State, StateIdle, StateStart, StateReqVerify, StateEnd
  <1>3. s = [q EXCEPT !.consensus = FALSE, !.mineSender = 0, !.leader = NoLeader,
                      !.turn = 0, !.cur = 0, !.state = st]
    BY <1>1 DEF Proc, stopProcess
  <1> HIDE DEF st, s
  <1>4. s \in Proc
    BY <1>1, <1>2, <1>3, ZenonT(30) DEF Proc
  <1>5. Kept(q, s) /\ s.state = st /\ s.cur = 0 /\ s.turn = 0
    BY <1>1, <1>3 DEF Proc, Kept
  <1>6. HasReq(s) /\ s.turn <= s.curTurn
    BY <1>1, <1>2, <1>5 DEF HasReq, Kept
  <1> QED
    BY <1>4, <1>5, <1>6, KeptInv DEF ProcInv, s

\* What SetCurTurn(q, t) does, for the cache of requests.
LEMMA SetCurTurnFacts ==
    ASSUME NEW q, Typed(q), NEW t \in Turns
    PROVE  LET s == SetCurTurn(q, t)
           IN  /\ Typed(s)
               /\ s.curTurn \in Nat /\ s.curTurn >= t /\ s.curTurn >= q.curTurn
               /\ s.curTurn = q.curTurn => s.leaderReqCache = q.leaderReqCache
               /\ \A l \in Leaders : s.leaderReqCache[l] # 0 =>
                     /\ s.leaderReqCache[l] = q.leaderReqCache[l]
                     /\ \/ s.curTurn = q.curTurn
                        \/ q.reqs[s.leaderReqCache[l]].turn >= s.curTurn
               /\ s.reqs = q.reqs /\ s.verifyOK = q.verifyOK
               /\ s.role = q.role /\ s.state = q.state /\ s.cur = q.cur /\ s.turn = q.turn
  <1> DEFINE s == SetCurTurn(q, t)
  <1>1. t \in Nat /\ q.curTurn \in Nat /\ q \in Proc
    BY TypedFacts, AccountsAssumption DEF Typed
  <1>2. CASE q.curTurn >= t
    BY <1>1, <1>2 DEF SetCurTurn
  <1>3. CASE ~(q.curTurn >= t)
    <2> DEFINE cache == [l \in Leaders |->
                           IF /\ q.leaderReqCache[l] # 0
                              /\ q.reqs[q.leaderReqCache[l]].turn < t
                           THEN 0 ELSE q.leaderReqCache[l]]
               other == {i \in q.otherReqCache : q.reqs[i].turn >= t}
    <2>1. s = [q EXCEPT !.curTurn = t, !.leaderReqCache = cache, !.otherReqCache = other]
      BY <1>3 DEF SetCurTurn
    <2>2. q.leaderReqCache \in [Leaders -> Ptrs(q)] /\ 0 \in Ptrs(q) /\ Ptrs(q) \subseteq Nat
      <3>1. q.reqs \in Seq(ReqData)
        BY <1>1 DEF Proc
      <3>2. q.leaderReqCache \in [Leaders -> Ptrs(q)]
        BY DEF Typed
      <3> QED
        BY <3>1, <3>2 DEF Ptrs
    <2>3. cache \in [Leaders -> Ptrs(q)] /\ cache \in [Leaders -> Nat]
      BY <2>2
    <2>4. other \subseteq Objs(q) /\ other \in SUBSET Nat
      BY <1>1 DEF Typed, Proc
    <2>5. \A l \in Leaders : cache[l] # 0 =>
             cache[l] = q.leaderReqCache[l] /\ q.reqs[cache[l]].turn >= t
      <3> SUFFICES ASSUME NEW l \in Leaders, cache[l] # 0
                   PROVE  cache[l] = q.leaderReqCache[l] /\ q.reqs[cache[l]].turn >= t
        OBVIOUS
      <3>1. /\ cache[l] = q.leaderReqCache[l] /\ q.leaderReqCache[l] # 0
            /\ ~(q.reqs[q.leaderReqCache[l]].turn < t)
        OBVIOUS
      <3>2. q.reqs[q.leaderReqCache[l]].turn \in Nat
        BY <3>1, TypedFacts
      <3> QED
        BY <1>1, <3>1, <3>2
    <2> HIDE DEF cache, other, s
    <2>6. s \in Proc
      BY <1>1, <2>1, <2>3, <2>4, ZenonT(30) DEF Proc
    <2>7. /\ s.reqs = q.reqs /\ s.seq = q.seq /\ s.acquiring = q.acquiring
          /\ s.leaderReqCache = cache /\ s.cur = q.cur /\ s.curTurn = t
          /\ s.voteSender = q.voteSender /\ s.mineSender = q.mineSender
          /\ s.posedSender = q.posedSender /\ s.otherReqCache = other
          /\ s.verifyOK = q.verifyOK /\ s.posFinished = q.posFinished
          /\ s.role = q.role /\ s.state = q.state /\ s.turn = q.turn
      BY <1>1, <2>1 DEF Proc
    <2>8. Typed(s)
      BY <2>3, <2>4, <2>6, <2>7 DEF Typed, Ptrs, Objs
    <2>9. t >= t /\ t >= q.curTurn /\ t # q.curTurn
      BY <1>1, <1>3
    <2> QED
      BY <1>1, <2>5, <2>7, <2>8, <2>9 DEF s
  <1> QED
    BY <1>2, <1>3

\* After a new turn no request is at work, and the old ones keep their places.
LEMMA NewTurnSafe ==
    ASSUME NEW q, Typed(q), Safe(q), NEW u, Typed(u), u.cur = 0, u.reqs = q.reqs,
           u.verifyOK = q.verifyOK, u.curTurn = q.curTurn,
           u.leaderReqCache = q.leaderReqCache,
           NEW t \in Turns, u.turn = t
    PROVE  Safe(SetCurTurn(u, t))
  <1> DEFINE s == SetCurTurn(u, t)
  <1>1. /\ Typed(s)
        /\ s.curTurn \in Nat /\ s.curTurn >= t /\ s.curTurn >= q.curTurn
        /\ s.curTurn = q.curTurn => s.leaderReqCache = q.leaderReqCache
        /\ \A l \in Leaders : s.leaderReqCache[l] # 0 =>
              /\ s.leaderReqCache[l] = q.leaderReqCache[l]
              /\ \/ s.curTurn = q.curTurn
                 \/ q.reqs[s.leaderReqCache[l]].turn >= s.curTurn
        /\ s.reqs = q.reqs /\ s.verifyOK = q.verifyOK
        /\ s.cur = 0 /\ s.turn = t
    <2>1. /\ Typed(s)
          /\ s.curTurn \in Nat /\ s.curTurn >= t /\ s.curTurn >= u.curTurn
          /\ s.curTurn = u.curTurn => s.leaderReqCache = u.leaderReqCache
          /\ \A l \in Leaders : s.leaderReqCache[l] # 0 =>
                /\ s.leaderReqCache[l] = u.leaderReqCache[l]
                /\ \/ s.curTurn = u.curTurn
                   \/ u.reqs[s.leaderReqCache[l]].turn >= s.curTurn
          /\ s.reqs = u.reqs /\ s.verifyOK = u.verifyOK
          /\ s.cur = u.cur /\ s.turn = u.turn
      BY SetCurTurnFacts, Zenon
    <2> HIDE DEF s
    <2> QED
      BY <2>1
  <1> HIDE DEF s
  <1>2. t \in Nat /\ q.curTurn \in Nat
    BY TypedFacts, AccountsAssumption
  <1>3. CacheSafe(s)
    <2>1. ASSUME NEW l \in Leaders, s.leaderReqCache[l] # 0
          PROVE  LET d == s.reqs[s.leaderReqCache[l]]
                 IN  /\ d.leader = l
                     /\ d.local <=> l = Self
                     /\ ~d.local => d.turn >= s.curTurn
      <3>1. /\ s.leaderReqCache[l] = q.leaderReqCache[l] /\ s.reqs = q.reqs
            /\ s.curTurn = q.curTurn \/ q.reqs[s.leaderReqCache[l]].turn >= s.curTurn
        BY <1>1, <2>1
      <3>2. LET d == q.reqs[q.leaderReqCache[l]]
            IN  d.leader = l /\ (d.local <=> l = Self) /\ (~d.local => d.turn >= q.curTurn)
        BY <2>1, <3>1 DEF Safe, CacheSafe
      <3> QED
        BY <3>1, <3>2
    <2> QED
      BY <2>1 DEF CacheSafe
  <1>4. Used(s) \subseteq Used(q) /\ Used(s) \subseteq Objs(q)
    BY <1>1 DEF Used, Typed
  <1>5. ASSUME NEW i \in Used(s), ~s.reqs[i].local
        PROVE  Held(s, i)
    <2>1. Held(q, i) /\ q.reqs[i].turn \in Nat
      BY <1>1, <1>4, <1>5, TypedFacts DEF Safe, UsedSafe
    <2>2. CASE s.curTurn = q.curTurn
      BY <1>1, <2>1, <2>2 DEF Held
    <2>3. CASE s.curTurn # q.curTurn
      <3>1. q.reqs[i].turn <= q.curTurn /\ q.reqs[i].leader # Self
        BY <2>1 DEF Held
      <3>2. s.reqs[i].turn < s.curTurn /\ s.reqs[i].turn <= s.curTurn
        BY <1>1, <1>2, <2>1, <2>3, <3>1
      <3> QED
        BY <1>1, <3>1, <3>2 DEF Held
    <2> QED
      BY <2>2, <2>3
  <1>6. UsedSafe(s)
    BY <1>1, <1>4, <1>5 DEF Safe, UsedSafe
  <1>7. s.turn <= s.curTurn
    BY <1>1, <1>2
  <1> QED
    BY <1>3, <1>6, <1>7 DEF Safe, s

\* A leader change keeps the invariant, older turns than the current one included.
LEMMA SetLeaderInfoInv ==
    ASSUME NEW q, ProcInv(q), NEW isConsensus \in BOOLEAN, NEW l \in Leaders, NEW t \in Turns,
           NEW s \in SetLeaderInfo(q, isConsensus, l, t)
    PROVE  ProcInv(s)
  <1> DEFINE new == [q EXCEPT !.consensus = TRUE, !.leader = l, !.turn = t, !.cur = 0]
             w   == SetCurTurn(new, t)
             set == stopSender(w)
             restarted == [set EXCEPT !.state = StateStart]
  <1>1. CASE ~isConsensus
    BY <1>1, stopProcessInv DEF SetLeaderInfo
  <1>2. CASE isConsensus /\ q.leader = l /\ q.turn = t
    <2>1. s = [q EXCEPT !.consensus = TRUE] /\ q \in Proc
      BY <1>2 DEF SetLeaderInfo, ProcInv, Typed
    <2>2. s \in Proc
      BY <2>1, ZenonT(30) DEF Proc
    <2>3. Kept(q, s) /\ s.state = q.state /\ s.cur = q.cur /\ s.turn = q.turn
      BY <2>1 DEF Proc, Kept
    <2>4. HasReq(s) /\ (Role = "Validator" => s.turn <= s.curTurn)
      BY <2>3 DEF ProcInv, HasReq, Safe, Kept
    <2> QED
      BY <2>2, <2>3, <2>4, KeptInv DEF ProcInv
  <1>3. CASE isConsensus /\ ~(q.leader = l /\ q.turn = t)
    <2>1. \/ s = set /\ q.state = StateIdle
          \/ s \in startReqVerifyCommon(restarted)
          \/ s = restarted
      BY <1>3 DEF SetLeaderInfo
    <2>2. Typed(q) /\ q \in Proc
      BY DEF ProcInv, Typed
    <2>3. new \in Proc
      BY <2>2, ZenonT(30) DEF Proc
    <2>4. /\ new.reqs = q.reqs /\ new.seq = q.seq /\ new.acquiring = q.acquiring
          /\ new.leaderReqCache = q.leaderReqCache /\ new.cur = 0 /\ new.curTurn = q.curTurn
          /\ new.voteSender = q.voteSender /\ new.mineSender = q.mineSender
          /\ new.posedSender = q.posedSender /\ new.otherReqCache = q.otherReqCache
          /\ new.verifyOK = q.verifyOK /\ new.posFinished = q.posFinished
          /\ new.state = q.state /\ new.turn = t
      BY <2>2 DEF Proc
    <2> HIDE DEF new
    <2>5. Typed(new)
      <3>0. q.reqs \in Seq(ReqData)
        BY <2>2 DEF Proc
      <3>1. Ptrs(new) = Ptrs(q) /\ Objs(new) = Objs(q) /\ 0 \in Ptrs(q)
        BY <2>4, <3>0 DEF Ptrs, Objs
      <3> QED
        BY <2>2, <2>3, <2>4, <3>1 DEF Typed
    <2>6. /\ Typed(w) /\ w \in Proc /\ w.cur = 0 /\ w.turn = t /\ w.state = q.state
          /\ Role = "Validator" => Safe(w)
      <3>1. Typed(w) /\ w.cur = 0 /\ w.turn = t /\ w.state = q.state
        BY <2>4, <2>5, SetCurTurnFacts
      <3>2. w \in Proc
        BY <3>1 DEF Typed
      <3>3. Role = "Validator" => Safe(w)
        BY <2>2, <2>4, <2>5, NewTurnSafe DEF ProcInv
      <3> QED
        BY <3>1, <3>2, <3>3
    <2> HIDE DEF w
    <2>7. set \in Proc /\ restarted \in Proc
      <3>1. set \in Proc
        BY <2>6, ZenonT(30) DEF Proc, stopSender
      <3> HIDE DEF set
      <3> QED
        BY <3>1, StateFacts, ZenonT(30) DEF Proc
    <2>8. /\ Kept(w, set) /\ set.state = w.state /\ set.cur = 0 /\ set.turn = w.turn
          /\ Kept(w, restarted) /\ restarted.state = StateStart /\ restarted.cur = 0
          /\ restarted.turn = w.turn
      BY <2>6 DEF Proc, Kept, stopSender
    <2> HIDE DEF set, restarted
    <2>9. ProcInv(restarted)
      <3>1. HasReq(restarted)
        BY <2>8, StateFacts DEF HasReq
      <3>2. Role = "Validator" => restarted.turn <= restarted.curTurn
        BY <2>6, <2>8 DEF Safe, Kept
      <3> QED
        BY <2>6, <2>7, <2>8, <3>1, <3>2, KeptInv
    <2>10. q.state = StateIdle => ProcInv(set)
      <3>1. q.state = StateIdle => HasReq(set)
        BY <2>6, <2>8, StateFacts DEF HasReq
      <3>2. Role = "Validator" => set.turn <= set.curTurn
        BY <2>6, <2>8 DEF Safe, Kept
      <3> QED
        BY <2>6, <2>7, <2>8, <3>1, <3>2, KeptInv
    <2> QED
      BY <2>1, <2>9, <2>10, startReqVerifyCommonInv
  <1> QED
    BY <1>1, <1>2, <1>3

\* The number of the votes, the senders and the leader are all that Kept leaves open.
LEMMA KeptAdv ==
    ASSUME NEW q, NEW s, Typed(q), Kept(q, s), Full(s) => Full(q)
    PROVE  Adv(q, s)
  <1>1. Len(q.reqs) \in Nat
    BY DEF Typed, Proc
  <1> QED
    BY <1>1 DEF Kept, Adv, Grows, SameReq, Objs

\* StartRunning.
LEMMA StartRunningCtl ==
    ASSUME NEW q, ProcInv(q), Ctl(q), CurOK(q), NEW s \in StartRunning(q)
    PROVE  /\ Ctl(s) /\ CurOK(s) /\ Adv(q, s)
           /\ q.state = StateTxsVerify => s.state = StateTxsVerify
  <1> DEFINE st == IF q.state = StateIdle THEN StateStart ELSE q.state
             t  == [q EXCEPT !.role = Role, !.state = st]
  <1>1. s \in startReqVerify(t)
    BY DEF StartRunning
  <1>2. /\ Typed(q) /\ q \in Proc /\ st \in State
        /\ (st >= StateReqVerify) = (q.state >= StateReqVerify)
    <2>1. Typed(q) /\ q \in Proc
      BY DEF ProcInv, Typed
    <2>2. q.state \in State
      BY <2>1 DEF Proc
    <2> QED
      BY <2>1, <2>2, StateFacts
  <1>3. st # StateIdle /\ (q.state # StateIdle => st = q.state)
        /\ (q.state = StateIdle => st = StateStart)
    BY StatesDiffer
  <1> HIDE DEF st
  <1>4. t \in Proc
    BY <1>2, ZenonT(30) DEF Proc
  <1>5. /\ Kept(q, t) /\ t.state = st /\ t.cur = q.cur /\ t.turn = q.turn /\ t.role = Role
        /\ t.leader = q.leader /\ t.mineSender = q.mineSender /\ t.acquiring = q.acquiring
        /\ t.votes = q.votes
    BY <1>2 DEF Proc, Kept
  <1> HIDE DEF t
  <1>6. ProcInv(t)
    <2>1. HasReq(t)
      BY <1>2, <1>5 DEF ProcInv, HasReq
    <2>2. Role = "Validator" => t.turn <= t.curTurn
      BY <1>5 DEF ProcInv, Safe, Kept
    <2> QED
      BY <1>4, <1>5, <2>1, <2>2, KeptInv DEF ProcInv
  <1>7. Cur(t) = Cur(q) /\ t.seq = q.seq
    BY <1>5 DEF Cur, Kept
  <1>8. Ctl(t)
    <2>1. CASE q.state = StateIdle
      BY <1>3, <1>5, <2>1, StatesDiffer DEF Ctl, RoleOK, MineOK, TaskOK
    <2>2. CASE q.state # StateIdle
      BY <1>3, <1>5, <1>7, <2>2 DEF Ctl, RoleOK, MineOK, TaskOK
    <2> QED
      BY <2>1, <2>2
  <1>9. CurOK(t)
    BY <1>5, <1>7 DEF CurOK
  <1>10. Full(t) => Full(q)
    BY <1>3, <1>5, <1>7, StatesDiffer DEF Full
  <1>11. Adv(q, t) /\ t.verifyOK = q.verifyOK
    BY <1>2, <1>5, <1>10, KeptAdv DEF Kept
  <1>12. /\ Ctl(s) /\ CurOK(s) /\ Adv(t, s) /\ Typed(s) /\ Typed(t)
         /\ st \notin {StateStart, StateEnd} => s = t
    BY <1>1, <1>5, <1>6, <1>8, <1>9, startReqVerifyCtl, startReqVerifyInv DEF ProcInv
  <1>13. Adv(q, s)
    BY <1>2, <1>11, <1>12, AdvTrans
  <1>14. q.state = StateTxsVerify => s.state = StateTxsVerify
    BY <1>3, <1>5, <1>12, StatesDiffer
  <1> QED
    BY <1>12, <1>13, <1>14

\* Close and stopProcess stop the sender of the mining request.
LEMMA StoppedCtl ==
    ASSUME NEW q, Typed(q), Ctl(q), NEW s, Kept(q, s), s.cur = 0, s.mineSender = 0,
           s.role = q.role, s.state \in {StateIdle, StateStart},
           s.state = StateStart => q.state # StateIdle
    PROVE  Ctl(s) /\ CurOK(s) /\ Adv(q, s)
  <1>1. Ctl(s)
    BY StatesDiffer DEF Ctl, RoleOK, MineOK, TaskOK
  <1>2. ~Full(s)
    BY StatesDiffer DEF Full
  <1> QED
    BY <1>1, <1>2, KeptAdv DEF CurOK

\* Close.
LEMMA CloseCtl ==
    ASSUME NEW q, ProcInv(q), Ctl(q)
    PROVE  Ctl(Close(q)) /\ CurOK(Close(q)) /\ Adv(q, Close(q)) /\ Close(q).state = StateIdle
  <1>1. Typed(q) /\ q \in Proc
    BY DEF ProcInv, Typed
  <1>2. /\ Kept(q, Close(q)) /\ Close(q).state = StateIdle /\ Close(q).cur = 0
        /\ Close(q).mineSender = 0 /\ Close(q).role = q.role
    BY <1>1 DEF Proc, Kept, Close, stopSender
  <1> QED
    BY <1>1, <1>2, StatesDiffer, StoppedCtl

\* The leader is not agreed on.
LEMMA stopProcessCtl ==
    ASSUME NEW q, ProcInv(q), Ctl(q)
    PROVE  LET s == stopProcess([q EXCEPT !.consensus = FALSE])
           IN  /\ Ctl(s) /\ CurOK(s) /\ Adv(q, s) /\ s.state \in {StateIdle, StateStart}
               /\ q.state = StateIdle => s.state = StateIdle
  <1> DEFINE st == IF q.state > StateIdle THEN StateStart ELSE q.state
             s  == stopProcess([q EXCEPT !.consensus = FALSE])
  <1>1. Typed(q) /\ q \in Proc
    BY DEF ProcInv, Typed
  <1>2. /\ st \in {StateIdle, StateStart} /\ (st = StateStart => q.state # StateIdle)
        /\ q.state = StateIdle => st = StateIdle
    <2>1. q.state \in State
      BY <1>1 DEF Proc
    <2> QED
      BY <2>1 DEF State, StateIdle, StateStart, StateEnd
  <1>3. s = [q EXCEPT !.consensus = FALSE, !.mineSender = 0, !.leader = NoLeader,
                      !.turn = 0, !.cur = 0, !.state = st]
    BY <1>1 DEF Proc, stopProcess
  <1> HIDE DEF st, s
  <1>4. /\ Kept(q, s) /\ s.state = st /\ s.cur = 0 /\ s.mineSender = 0 /\ s.role = q.role
    BY <1>1, <1>3 DEF Proc, Kept
  <1>5. Ctl(s) /\ CurOK(s) /\ Adv(q, s)
    BY <1>1, <1>2, <1>4, StoppedCtl
  <1> QED
    BY <1>2, <1>4, <1>5 DEF s

\* A leader change: what was at hand is dropped, even for an earlier turn.
LEMMA SetLeaderInfoCtl ==
    ASSUME NEW q, ProcInv(q), Ctl(q), CurOK(q), NEW isConsensus \in BOOLEAN,
           NEW l \in Leaders, NEW t \in Turns, NEW s \in SetLeaderInfo(q, isConsensus, l, t)
    PROVE  /\ Ctl(s) /\ CurOK(s) /\ Adv(q, s)
           /\ ~(q.state = StateTxsVerify /\ s.state >= StateDPOSVerify /\ s.cur = q.cur)
           /\ q.state = StateIdle => s.state = StateIdle
  <1> DEFINE new == [q EXCEPT !.consensus = TRUE, !.leader = l, !.turn = t, !.cur = 0]
             w   == SetCurTurn(new, t)
             set == stopSender(w)
             restarted == [set EXCEPT !.state = StateStart]
  <1>0. Typed(q) /\ q \in Proc
    BY DEF ProcInv, Typed
  <1>1. CASE ~isConsensus
    <2>1. s = stopProcess([q EXCEPT !.consensus = FALSE])
      BY <1>1 DEF SetLeaderInfo
    <2>2. /\ Ctl(s) /\ CurOK(s) /\ Adv(q, s) /\ s.state \in {StateIdle, StateStart}
          /\ q.state = StateIdle => s.state = StateIdle
      BY <2>1, stopProcessCtl
    <2> QED
      BY <2>2, StatesDiffer
  <1>2. CASE isConsensus /\ q.leader = l /\ q.turn = t
    <2>1. s = [q EXCEPT !.consensus = TRUE]
      BY <1>2 DEF SetLeaderInfo
    <2>2. /\ Kept(q, s) /\ s.state = q.state /\ s.cur = q.cur /\ s.turn = q.turn
          /\ s.leader = q.leader /\ s.role = q.role /\ s.mineSender = q.mineSender
          /\ s.acquiring = q.acquiring /\ s.votes = q.votes
      BY <1>0, <2>1 DEF Proc, Kept
    <2>3. Cur(s) = Cur(q) /\ s.seq = q.seq
      BY <2>2 DEF Cur, Kept
    <2>4. Ctl(s) /\ CurOK(s)
      BY <2>2, <2>3 DEF Ctl, RoleOK, MineOK, TaskOK, CurOK
    <2>5. Full(s) => Full(q)
      BY <2>2, <2>3 DEF Full
    <2>6. Adv(q, s)
      BY <1>0, <2>2, <2>5, KeptAdv
    <2> QED
      BY <2>2, <2>4, <2>6, StatesDiffer
  <1>3. CASE isConsensus /\ ~(q.leader = l /\ q.turn = t)
    <2>1. \/ s = set /\ q.state = StateIdle
          \/ /\ s \in startReqVerifyCommon(restarted)
             /\ q.state # StateIdle /\ q.role = "Validator"
          \/ s = restarted /\ q.state # StateIdle
      BY <1>3 DEF SetLeaderInfo
    <2>2. new \in Proc
      BY <1>0, ZenonT(30) DEF Proc
    <2>3. /\ new.reqs = q.reqs /\ new.leaderReqCache = q.leaderReqCache /\ new.cur = 0
          /\ new.curTurn = q.curTurn /\ new.verifyOK = q.verifyOK
          /\ new.state = q.state /\ new.turn = t /\ new.leader = l /\ new.role = q.role
          /\ new.seq = q.seq /\ new.acquiring = q.acquiring
          /\ new.voteSender = q.voteSender /\ new.mineSender = q.mineSender
          /\ new.posedSender = q.posedSender /\ new.otherReqCache = q.otherReqCache
          /\ new.posFinished = q.posFinished
      BY <1>0 DEF Proc
    <2> HIDE DEF new
    <2>4. Typed(new)
      <3>0. q.reqs \in Seq(ReqData)
        BY <1>0 DEF Proc
      <3>1. Ptrs(new) = Ptrs(q) /\ Objs(new) = Objs(q) /\ 0 \in Ptrs(q)
        BY <2>3, <3>0 DEF Ptrs, Objs
      <3> QED
        BY <1>0, <2>2, <2>3, <3>1 DEF Typed
    <2>5. /\ Typed(w) /\ w \in Proc /\ w.cur = 0 /\ w.turn = t /\ w.state = q.state
          /\ w.reqs = q.reqs /\ w.verifyOK = q.verifyOK /\ w.role = q.role
      <3>1. /\ Typed(w) /\ w.cur = 0 /\ w.turn = t /\ w.state = q.state
            /\ w.reqs = q.reqs /\ w.verifyOK = q.verifyOK /\ w.role = q.role
        BY <2>3, <2>4, SetCurTurnFacts
      <3> QED
        BY <3>1 DEF Typed
    <2>6. w.leader = l
      BY <2>2, <2>3 DEF SetCurTurn, Proc
    <2>7. Role = "Validator" => Safe(w)
      BY <1>0, <2>3, <2>4, NewTurnSafe DEF ProcInv
    <2> HIDE DEF w
    <2>8. set \in Proc /\ restarted \in Proc
      <3>1. set \in Proc
        BY <2>5, ZenonT(30) DEF Proc, stopSender
      <3> HIDE DEF set
      <3> QED
        BY <3>1, StateFacts, ZenonT(30) DEF Proc
    <2>9. /\ Kept(w, set) /\ set.state = w.state /\ set.cur = 0 /\ set.role = w.role
          /\ set.mineSender = 0
          /\ Kept(w, restarted) /\ restarted.state = StateStart /\ restarted.cur = 0
          /\ restarted.role = w.role /\ restarted.mineSender = 0
          /\ restarted.leader = w.leader /\ restarted.turn = w.turn
      BY <2>5 DEF Proc, Kept, stopSender
    <2> HIDE DEF set, restarted
    <2>10. ASSUME NEW u \in {set, restarted}, u.state = StateIdle \/ u = restarted,
                  u = restarted => q.state # StateIdle
           PROVE  Ctl(u) /\ CurOK(u) /\ Adv(q, u)
      <3>1. /\ u.reqs = q.reqs /\ u.verifyOK = q.verifyOK /\ u.mineSender = 0
            /\ u.cur = 0 /\ u.role = q.role /\ u.state \in {StateIdle, StateStart}
            /\ u.state = StateStart => q.state # StateIdle
        BY <2>5, <2>9, <2>10, StatesDiffer DEF Kept
      <3>2. Ctl(u) /\ CurOK(u) /\ ~Full(u)
        BY <3>1, StatesDiffer DEF Ctl, RoleOK, MineOK, TaskOK, CurOK, Full
      <3>3. Adv(q, u)
        BY <1>0, <3>1, <3>2, AdvSame
      <3> QED
        BY <3>2, <3>3
    <2>11. CASE s = set /\ q.state = StateIdle
      BY <2>5, <2>9, <2>10, <2>11, StatesDiffer
    <2>12. CASE s = restarted /\ q.state # StateIdle
      BY <2>9, <2>10, <2>12, StatesDiffer
    <2>13. CASE /\ s \in startReqVerifyCommon(restarted)
                /\ q.state # StateIdle /\ q.role = "Validator"
      <3>1. ProcInv(restarted)
        <4>1. HasReq(restarted)
          BY <2>9, StateFacts DEF HasReq
        <4>2. Role = "Validator" => restarted.turn <= restarted.curTurn
          BY <2>7, <2>9 DEF Safe, Kept
        <4> QED
          BY <2>5, <2>7, <2>8, <2>9, <4>1, <4>2, KeptInv
      <3>2. Ctl(restarted) /\ CurOK(restarted) /\ Adv(q, restarted)
        BY <2>10, <2>13
      <3>3. Ctl(s) /\ CurOK(s) /\ Adv(restarted, s) /\ s.leader = l /\ s.turn = t
        <4>1. Role = "Validator"
          BY <1>0, <2>13 DEF Proc
        <4> QED
          BY <2>5, <2>6, <2>9, <2>13, <3>1, <3>2, <4>1, startReqVerifyCommonCtl
      <3>4. Typed(s) /\ Typed(restarted)
        BY <2>13, <3>1, startReqVerifyCommonInv DEF ProcInv
      <3>5. Adv(q, s)
        BY <1>0, <2>5, <2>9, <3>2, <3>3, <3>4, AdvTrans DEF Kept
      <3>6. ASSUME q.state = StateTxsVerify, s.state >= StateDPOSVerify, s.cur = q.cur
            PROVE  FALSE
        <4>1. q.cur # 0 /\ q.cur \in Objs(q)
          BY <1>0, <3>6, StateFacts DEF ProcInv, HasReq, Typed, Ptrs, Objs
        <4>3. Role = "Validator"
          BY <1>0, <2>13 DEF Proc
        <4>2. SameReq(s.reqs[q.cur], q.reqs[q.cur])
          BY <3>5, <4>1 DEF Adv, Grows
        <4> QED
          BY <1>3, <3>3, <3>6, <4>1, <4>2, <4>3 DEF CurOK, Cur, SameReq
      <3> QED
        BY <2>13, <3>3, <3>5, <3>6
    <2> QED
      BY <2>1, <2>11, <2>12, <2>13
  <1> QED
    BY <1>1, <1>2, <1>3
===============================================================================
