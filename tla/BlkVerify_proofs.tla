--------------------------- MODULE BlkVerify_proofs ---------------------------
(***************************************************************************)
(* Proofs about BlkVerify.  The methods that add requests and votes keep   *)
(* the parts of the invariant, as those do that lead from stage to stage   *)
(* (BlkVerifyStages_proofs); then every handler keeps the invariant FullInv*)
(* of the whole state.  The theorems follow from it.                       *)
(***************************************************************************)
EXTENDS BlkVerifyStages_proofs

\* s is q with one more request, which is cached and not at work yet.
Grown(q, d, s) ==
    /\ s \in Proc
    /\ s.reqs = Append(q.reqs, d)
    /\ s.leaderReqCache \in [Leaders -> 0 .. Len(q.reqs) + 1]
    /\ s.otherReqCache \subseteq 1 .. Len(q.reqs) + 1
    /\ s.seq = q.seq /\ s.acquiring = q.acquiring /\ s.cur = q.cur /\ s.state = q.state
    /\ s.voteSender = q.voteSender /\ s.mineSender = q.mineSender
    /\ s.posedSender = q.posedSender /\ s.verifyOK = q.verifyOK
    /\ s.posFinished = q.posFinished /\ s.turn = q.turn /\ s.curTurn = q.curTurn
    /\ s.role = q.role /\ s.leader = q.leader /\ s.votes = q.votes

\* A message becomes a request with its leader and turn.
LEMMA newReqDataType ==
    ASSUME NEW r \in Request, NEW isLocal \in BOOLEAN
    PROVE  /\ newReqData(r, isLocal) \in ReqData
           /\ newReqData(r, isLocal).leader = r.leader
           /\ newReqData(r, isLocal).turn = r.turn
           /\ newReqData(r, isLocal).local = isLocal
           /\ r.leader \in Leaders /\ r.turn \in Nat
  <1>1. r.turn \in Turns /\ Turns \subseteq Nat
    BY AccountsAssumption DEF Request
  <1>2. r.turn \in Nat
    BY <1>1, ZenonT(30)
  <1> QED
    BY <1>2 DEF newReqData, Request, ReqData, VerifyResult

\* The requests there were keep their places.
LEMMA GrownTyped ==
    ASSUME NEW q, Typed(q), NEW d \in ReqData, NEW s, Grown(q, d, s)
    PROVE  /\ Typed(s)
           /\ \A i \in Objs(q) : s.reqs[i] = q.reqs[i]
           /\ s.reqs[Len(q.reqs) + 1] = d
  <1>1. q.reqs \in Seq(ReqData) /\ Len(q.reqs) \in Nat
    BY DEF Typed, Proc
  <1>2. /\ Len(s.reqs) = Len(q.reqs) + 1
        /\ \A i \in Objs(q) : s.reqs[i] = q.reqs[i]
        /\ s.reqs[Len(q.reqs) + 1] = d
    BY <1>1 DEF Grown, Objs
  <1>3. /\ Ptrs(s) = 0 .. Len(q.reqs) + 1 /\ Objs(s) = 1 .. Len(q.reqs) + 1
        /\ Ptrs(q) \subseteq Ptrs(s) /\ Objs(q) \subseteq Objs(s)
    BY <1>1, <1>2 DEF Ptrs, Objs
  <1>4. [seq : 1 .. q.seq, req : Objs(q)] \subseteq [seq : 1 .. q.seq, req : Objs(s)]
    BY <1>3
  <1>5. Typed(s)
    BY <1>3, <1>4 DEF Typed, Grown
  <1> QED
    BY <1>2, <1>5

\* Turns are ordered.
LEMMA LaterTrans ==
    ASSUME NEW a \in Nat, NEW b \in Nat, NEW c \in Nat, a > b, b > c
    PROVE  a > c
  OBVIOUS

\* The new request d takes at most its leader's place in the cache, and it takes it from
\* an earlier turn, unless it is this node's own.
Placed(q, d, s) ==
    /\ \A l \in Leaders : \/ s.leaderReqCache[l] = q.leaderReqCache[l]
                          \/ s.leaderReqCache[l] = Len(q.reqs) + 1 /\ l = d.leader
    /\ s.leaderReqCache[d.leader] = Len(q.reqs) + 1 =>
          /\ d.local <=> d.leader = Self
          /\ ~d.local => /\ d.turn >= q.curTurn
                         /\ LET c == q.leaderReqCache[d.leader]
                            IN  c # 0 => d.turn > q.reqs[c].turn

\* A request that may not be at work yet, but has its leader's place now, is safe.
LEMMA GrownSafe ==
    ASSUME NEW q, Typed(q), Safe(q), NEW d \in ReqData, NEW s, Grown(q, d, s),
           Placed(q, d, s)
    PROVE  Safe(s)
  <1> DEFINE n == Len(q.reqs) + 1
             same(l) == s.leaderReqCache[l] = q.leaderReqCache[l]
  <1>1. /\ Typed(s) /\ \A i \in Objs(q) : s.reqs[i] = q.reqs[i]
        /\ s.reqs[n] = d
    BY GrownTyped
  <1>2. /\ s.curTurn = q.curTurn /\ s.turn = q.turn /\ s.cur = q.cur
        /\ Used(s) = Used(q) /\ Used(q) \subseteq Objs(q)
    BY DEF Grown, Used, Typed, Proc, Ptrs, Objs
  <1>3. /\ q.curTurn \in Nat /\ d.turn \in Nat /\ d.leader \in Leaders
        /\ \A i \in Objs(q) : q.reqs[i].leader \in Leaders /\ q.reqs[i].turn \in Nat
        /\ \A l \in Leaders : q.leaderReqCache[l] # 0 => q.leaderReqCache[l] \in Objs(q)
        /\ n # 0 /\ n \notin Objs(q)
    <2>1. d.turn \in Turns /\ Turns \subseteq Nat /\ d.leader \in Leaders
      BY AccountsAssumption DEF ReqData
    <2>2. d.turn \in Nat
      BY <2>1, ZenonT(30)
    <2>3. n # 0 /\ n \notin Objs(q)
      BY DEF Typed, Proc, Objs
    <2> QED
      BY <2>1, <2>2, <2>3, TypedFacts DEF ReqData
  <1>7. s.leaderReqCache[d.leader] = n /\ ~d.local /\ q.leaderReqCache[d.leader] # 0 =>
           d.turn > q.reqs[q.leaderReqCache[d.leader]].turn
    BY DEF Placed
  <1> HIDE DEF n
  <1>4. CacheSafe(s)
    <2> SUFFICES ASSUME NEW l \in Leaders, s.leaderReqCache[l] # 0
                 PROVE  LET e == s.reqs[s.leaderReqCache[l]]
                        IN  /\ e.leader = l
                            /\ e.local <=> l = Self
                            /\ ~e.local => e.turn >= s.curTurn
      BY DEF CacheSafe
    <2>1. CASE same(l)
      <3>1. s.reqs[s.leaderReqCache[l]] = q.reqs[q.leaderReqCache[l]]
        BY <1>1, <1>3, <2>1
      <3> QED
        BY <1>2, <2>1, <3>1 DEF Safe, CacheSafe
    <2>2. CASE ~same(l)
      BY <1>1, <1>2, <2>2 DEF n, Placed
    <2> QED
      BY <2>1, <2>2
  <1>5. ASSUME NEW i \in Objs(q), Held(q, i)
        PROVE  Held(s, i)
    <2> DEFINE l == q.reqs[i].leader
               c == q.leaderReqCache[l]
    <2>1. /\ l \in Leaders /\ s.reqs[i] = q.reqs[i] /\ q.reqs[i].turn \in Nat
          /\ d.turn \in Nat
      BY <1>1, <1>3
    <2>2. CASE same(l)
      <3>1. c # 0 => s.reqs[c] = q.reqs[c]
        BY <1>1, <1>3, <2>1
      <3> QED
        BY <1>2, <1>5, <2>1, <2>2, <3>1, ZenonT(30) DEF Held
    <2>3. CASE ~same(l)
      <3>1. s.leaderReqCache[l] = n /\ l = d.leader /\ l # Self /\ ~d.local
        BY <1>5, <2>1, <2>3 DEF Held, n, Placed
      <3>2. q.reqs[i].turn < q.curTurn \/ d.turn > q.reqs[i].turn
        <4>1. CASE ~(q.reqs[i].turn < q.curTurn)
          <5>1. c # 0 /\ (c = i \/ q.reqs[c].turn > q.reqs[i].turn)
            BY <1>5, <4>1 DEF Held
          <5>2. d.turn > q.reqs[c].turn
            BY <1>7, <3>1, <5>1
          <5>3. q.reqs[c].turn \in Nat
            BY <1>3, <2>1, <5>1
          <5>4. CASE c = i
            BY <5>2, <5>4
          <5>5. CASE q.reqs[c].turn > q.reqs[i].turn
            BY <2>1, <5>2, <5>3, <5>5, LaterTrans
          <5> QED
            BY <5>1, <5>4, <5>5
        <4> QED
          BY <4>1
      <3> QED
        BY <1>1, <1>2, <1>3, <1>5, <2>1, <3>1, <3>2 DEF Held
    <2> QED
      BY <2>2, <2>3
  <1>6. UsedSafe(s)
    <2>1. \A i \in Used(s) : i \in Objs(q) /\ i \in Used(q) /\ s.reqs[i] = q.reqs[i]
      BY <1>1, <1>2
    <2>2. UsedSafe(q)
      BY DEF Safe
    <2>3. \A i \in Used(s) : ~s.reqs[i].local => Held(s, i)
      BY <1>5, <2>1, <2>2 DEF UsedSafe
    <2>4. \A i, j \in Used(s) :
             /\ ~s.reqs[i].local /\ ~s.reqs[j].local
             /\ s.reqs[i].leader = s.reqs[j].leader
             /\ s.reqs[i].turn = s.reqs[j].turn
             => i = j
      BY <2>1, <2>2 DEF UsedSafe
    <2>5. s.cur # 0 => s.cur \in Used(s)
      BY DEF Used
    <2>6. s.cur # 0 /\ ~s.reqs[s.cur].local => s.reqs[s.cur].turn = s.curTurn
      BY <1>2, <2>1, <2>2, <2>5 DEF UsedSafe
    <2> QED
      BY <2>3, <2>4, <2>6 DEF UsedSafe
  <1> QED
    BY <1>2, <1>4, <1>6 DEF Safe

\* A leader's own request enters the cache.
LEMMA CacheLeaderReqInv ==
    ASSUME NEW q, ProcInv(q), NEW r \in Request, NEW isLocal \in BOOLEAN,
           isLocal <=> r.leader = Self,
           ~isLocal => r.leader = r.from /\ ~Refuses(q, r)
    PROVE  /\ ProcInv(CacheLeaderReq(q, r, isLocal))
           /\ Grown(q, newReqData(r, isLocal), CacheLeaderReq(q, r, isLocal))
  <1> DEFINE d == newReqData(r, isLocal)
             n == Len(q.reqs) + 1
             heap  == Append(q.reqs, d)
             cache == [q.leaderReqCache EXCEPT ![r.leader] = n]
             s == CacheLeaderReq(q, r, isLocal)
  <1>1. Typed(q) /\ q \in Proc /\ q.reqs \in Seq(ReqData) /\ Len(q.reqs) \in Nat
    <2>1. Typed(q) /\ q \in Proc
      BY DEF ProcInv, Typed
    <2>2. q.reqs \in Seq(ReqData)
      BY <2>1 DEF Proc
    <2> QED
      BY <2>1, <2>2
  <1>2. /\ d \in ReqData /\ d.leader = r.leader /\ d.turn = r.turn /\ d.local = isLocal
        /\ r.leader \in Leaders /\ r.turn \in Nat
    BY newReqDataType
  <1>3. s = [q EXCEPT !.reqs = heap, !.leaderReqCache = cache]
    BY <1>1 DEF CacheLeaderReq, NewObject, Proc
  <1>4. heap \in Seq(ReqData) /\ cache \in [Leaders -> 0 .. n] /\ cache \in [Leaders -> Nat]
    <2>1. q.leaderReqCache \in [Leaders -> 0 .. Len(q.reqs)]
      BY <1>1 DEF Typed, Ptrs
    <2> QED
      BY <1>1, <1>2, <2>1
  <1>5. q.otherReqCache \subseteq 1 .. n
    BY <1>1 DEF Typed, Objs
  <1>6. /\ cache[r.leader] = n
        /\ \A l \in Leaders : l # r.leader => cache[l] = q.leaderReqCache[l]
    BY <1>1, <1>2 DEF Proc
  <1> HIDE DEF heap, cache, d, s
  <1>7. s \in Proc
    BY <1>1, <1>3, <1>4, ZenonT(30) DEF Proc
  <1>8. Grown(q, d, s) /\ s.leaderReqCache = cache
    BY <1>1, <1>3, <1>4, <1>5, <1>7, ZenonT(30) DEF Grown, Proc, heap
  <1>9. Typed(s) /\ HasReq(s)
    BY <1>1, <1>2, <1>8, GrownTyped DEF ProcInv, HasReq, Grown
  <1>10. ASSUME Role = "Validator"
         PROVE  Safe(s)
    <2>1. ~d.local =>
             /\ d.turn >= q.curTurn
             /\ q.leaderReqCache[d.leader] # 0 =>
                   d.turn > q.reqs[q.leaderReqCache[d.leader]].turn
      <3>1. q.curTurn \in Nat
        BY <1>1, TypedFacts
      <3>2. LET c == q.leaderReqCache[r.leader] IN c # 0 => q.reqs[c].turn \in Nat
        BY <1>1, <1>2, TypedFacts
      <3> QED
        BY <1>2, <3>1, <3>2 DEF Refuses
    <2> QED
      <3>1. Placed(q, d, s)
        BY <1>2, <1>6, <1>8, <2>1 DEF Placed
      <3> QED
        BY <1>1, <1>2, <1>8, <1>10, <3>1, GrownSafe DEF ProcInv
  <1> QED
    BY <1>8, <1>9, <1>10 DEF ProcInv, s, d

\* A request from another node enters the list.
LEMMA CacheOtherReqInv ==
    ASSUME NEW q, ProcInv(q), NEW r \in Request
    PROVE  /\ ProcInv(CacheOtherReq(q, r))
           /\ Grown(q, newReqData(r, FALSE), CacheOtherReq(q, r))
  <1> DEFINE d == newReqData(r, FALSE)
             n == Len(q.reqs) + 1
             heap  == Append(q.reqs, d)
             other == {i \in q.otherReqCache : Cardinality(q.otherReqCache) >= OtherReqLimit
                                                 => \E j \in q.otherReqCache : j < i}
                         \cup {n}
             s == CacheOtherReq(q, r)
  <1>1. Typed(q) /\ q \in Proc /\ q.reqs \in Seq(ReqData) /\ Len(q.reqs) \in Nat
    <2>1. Typed(q) /\ q \in Proc
      BY DEF ProcInv, Typed
    <2>2. q.reqs \in Seq(ReqData)
      BY <2>1 DEF Proc
    <2> QED
      BY <2>1, <2>2
  <1>2. d \in ReqData /\ d.leader = r.leader /\ r.leader \in Leaders
    BY newReqDataType, ZenonT(30)
  <1>3. s = [q EXCEPT !.reqs = heap, !.otherReqCache = other]
    BY <1>1 DEF CacheOtherReq, NewObject, Proc
  <1> HIDE DEF d
  <1>4. heap \in Seq(ReqData)
    BY <1>1, <1>2
  <1>5. other \subseteq 1 .. n /\ other \in SUBSET Nat
    BY <1>1 DEF Typed, Objs
  <1>6. /\ q.leaderReqCache \in [Leaders -> 0 .. n]
        /\ \A l \in Leaders : q.leaderReqCache[l] # n
    BY <1>1 DEF Typed, Ptrs
  <1> HIDE DEF heap, other, s
  <1>7. s \in Proc
    BY <1>1, <1>3, <1>4, <1>5, ZenonT(30) DEF Proc
  <1>8. Grown(q, d, s) /\ s.leaderReqCache = q.leaderReqCache
    BY <1>1, <1>3, <1>5, <1>6, <1>7, ZenonT(30) DEF Grown, Proc, heap
  <1>9. Typed(s) /\ HasReq(s)
    BY <1>1, <1>2, <1>8, GrownTyped DEF ProcInv, HasReq, Grown
  <1>10. Role = "Validator" => Safe(s)
    <2>1. Placed(q, d, s)
      BY <1>1, <1>2, <1>6, <1>8 DEF Placed
    <2> QED
      BY <1>1, <1>2, <1>8, <2>1, GrownSafe DEF ProcInv
  <1> QED
    BY <1>8, <1>9, <1>10 DEF ProcInv, s, d

\* AddReq keeps the invariant.
LEMMA AddReqInv ==
    ASSUME NEW q, ProcInv(q), NEW r \in Requests, NEW s \in AddReq(q, r)
    PROVE  ProcInv(s)
  <1>1. r \in Request /\ r.from # Self
    BY MessagesAssumption, SelfAssumption
  <1>2. CASE Refuses(q, r)
    BY <1>2 DEF AddReq
  <1>3. CASE ~Refuses(q, r) /\ r.leader = r.from
    <2>1. ProcInv(CacheLeaderReq(q, r, FALSE))
      BY <1>1, <1>3, CacheLeaderReqInv, ZenonT(30)
    <2> QED
      BY <1>3, <2>1, startReqVerifyInv, ZenonT(30) DEF AddReq
  <1>4. CASE ~Refuses(q, r) /\ r.leader # r.from
    BY <1>1, <1>4, CacheOtherReqInv, startReqVerifyInv DEF AddReq
  <1> QED
    BY <1>2, <1>3, <1>4

\* AddLocalReq keeps the invariant, although it looks at no turn.
LEMMA AddLocalReqInv ==
    ASSUME NEW q, ProcInv(q), NEW r \in LocalRequests, NEW s \in AddLocalReq(q, r)
    PROVE  ProcInv(s)
  <1>1. r \in Request /\ r.leader = Self
    BY MessagesAssumption, SelfAssumption
  <1>2. ProcInv(CacheLeaderReq(q, r, TRUE))
    BY <1>1, CacheLeaderReqInv, ZenonT(30)
  <1> QED
    BY <1>2, startReqVerifyInv, ZenonT(30) DEF AddLocalReq

-------------------------------------------------------------------------------
\* The votes are no part of the invariant but for their type.
LEMMA VotesInv ==
    ASSUME NEW q, ProcInv(q), NEW v \in SUBSET (Accounts \X Hashes)
    PROVE  ProcInv([q EXCEPT !.votes = v])
  <1> DEFINE s == [q EXCEPT !.votes = v]
  <1>1. q \in Proc
    BY DEF ProcInv, Typed
  <1>2. s \in Proc
    BY <1>1, ZenonT(30) DEF Proc
  <1>3. Kept(q, s) /\ s.state = q.state /\ s.cur = q.cur /\ s.turn = q.turn
    BY <1>1 DEF Proc, Kept
  <1> HIDE DEF s
  <1> QED
    BY <1>2, <1>3, KeptInv, ZenonT(30) DEF ProcInv, HasReq, Safe, Kept, s

\* A look at the votes keeps the invariant.
LEMMA processDPOSOnceInv ==
    ASSUME NEW q, ProcInv(q)
    PROVE  ProcInv(processDPOSOnce(q))
  <1>1. CASE q.state = StateDPOSVerify
    <2>1. q.state >= StateReqVerify /\ q.cur # 0
      BY <1>1, StateFacts DEF ProcInv, HasReq
    <2> QED
      BY <2>1, processDPOSOnceStage, StageInv DEF ProcInv
  <1>2. CASE q.state # StateDPOSVerify
    BY <1>2 DEF processDPOSOnce
  <1> QED
    BY <1>1, <1>2

\* A recovery message keeps the invariant.
LEMMA ProcessRecoveryMsgInv ==
    ASSUME NEW q, ProcInv(q), NEW h \in Hashes, NEW signers \in SUBSET Accounts,
           NEW s \in ProcessRecoveryMsg(q, h, signers)
    PROVE  ProcInv(s)
  <1>1. CASE s = q
    BY <1>1
  <1>2. CASE s # q
    <2>1. PICK v \in Recovered(q.votes, h, signers) :
             s = processDPOSOnce([q EXCEPT !.votes = v])
      BY <1>2 DEF ProcessRecoveryMsg
    <2>2. q.votes \in SUBSET (Accounts \X Hashes)
      BY DEF ProcInv, Typed, Proc
    <2>3. v \in SUBSET (Accounts \X Hashes)
      BY <2>1, <2>2 DEF Recovered, DeletedFrom
    <2> QED
      BY <2>1, <2>3, VotesInv, processDPOSOnceInv
  <1> QED
    BY <1>1, <1>2

\* The end of an acquisition keeps the invariant, be it late or not.
LEMMA AcquisitionEndInv ==
    ASSUME NEW q, ProcInv(q), NEW task,
           NEW s \in VerifyTxs(q, task) \cup ProcessTxsAcquireTimeOut(q, task)
    PROVE  ProcInv(s)
  <1>1. CASE s = q
    BY <1>1
  <1>2. CASE s # q
    <2>1. q.state = StateTxsVerify
      BY <1>2 DEF VerifyTxs, ProcessTxsAcquireTimeOut
    <2>2. q.state >= StateReqVerify /\ q.cur # 0
      BY <2>1, StateFacts DEF ProcInv, HasReq
    <2>3. PICK o \in VerifyResult : s \in startDPOSVerify(q, o)
      BY <1>2 DEF VerifyTxs, ProcessTxsAcquireTimeOut, TxsOutcomes, VerifyResult
    <2> QED
      BY <2>2, <2>3, startDPOSVerifyStage, StageInv DEF ProcInv
  <1> QED
    BY <1>1, <1>2

-------------------------------------------------------------------------------
(***************************************************************************)
(* The inductive invariant of the specification: ProcInv of the Process and*)
(* the types of the handlers' variables.                                   *)
(***************************************************************************)
Inv ==
    /\ ProcInv(p)
    /\ phase \in {"future", "current", "past"}
    /\ starting \in Nat
    /\ voting \in Nat

\* A new Process satisfies the invariant.
LEMMA InitInv == Init => Inv
  <1> SUFFICES ASSUME Init
               PROVE  Inv
    OBVIOUS
  <1>1. p = newProcess
    BY DEF Init
  <1>2. newProcess \in Proc
    <2>1. /\ 0 \in Turns /\ StateIdle \in State /\ <<>> \in Seq(ReqData)
          /\ [l \in Leaders |-> 0] \in [Leaders -> Nat]
      BY AccountsAssumption, StateFacts
    <2> QED
      BY <2>1 DEF newProcess, Proc
  <1>3. /\ newProcess.reqs = <<>> /\ newProcess.cur = 0 /\ newProcess.state = StateIdle
        /\ newProcess.turn = 0 /\ newProcess.curTurn = 0
        /\ newProcess.leaderReqCache = [l \in Leaders |-> 0]
        /\ newProcess.otherReqCache = {} /\ newProcess.acquiring = {}
        /\ newProcess.verifyOK = {} /\ newProcess.posFinished = {}
        /\ newProcess.voteSender = 0 /\ newProcess.mineSender = 0
        /\ newProcess.posedSender = 0
    BY DEF newProcess
  <1>4. Typed(newProcess)
    BY <1>2, <1>3 DEF Typed, Ptrs, Objs
  <1>5. HasReq(newProcess)
    BY <1>3, StateFacts DEF HasReq
  <1>6. Safe(newProcess)
    BY <1>3 DEF Safe, CacheSafe, UsedSafe, Used
  <1> QED
    BY <1>1, <1>4, <1>5, <1>6 DEF Init, Inv, ProcInv

\* Every step keeps the invariant: one case for each handler.
LEMMA NextInv == Inv /\ [Next]_vars => Inv'
  <1> SUFFICES ASSUME Inv, [Next]_vars
               PROVE  Inv'
    OBVIOUS
  <1> USE DEF Inv
  <1>1. ASSUME NEW runs \in BOOLEAN, NumberReached(runs)
        PROVE  Inv'
    BY <1>1 DEF NumberReached
  <1>2. CASE RoleUpdated
    BY <1>2, StartRunningInv DEF RoleUpdated
  <1>3. CASE NumberPassed
    BY <1>3, CloseInv DEF NumberPassed
  <1>4. ASSUME NEW m \in LeaderMsgs, NEW isConsensus \in BOOLEAN,
               handleLeaderChangeNotify(isConsensus, m[1], m[2])
        PROVE  Inv'
    <2>1. m[1] \in Leaders /\ m[2] \in Turns
      BY MessagesAssumption
    <2> QED
      BY <1>4, <2>1, SetLeaderInfoInv DEF handleLeaderChangeNotify
  <1>5. ASSUME NEW r \in Requests, handleRequestMsg(r)
        PROVE  Inv'
    BY <1>5, AddReqInv DEF handleRequestMsg
  <1>6. ASSUME NEW r \in LocalRequests, handleLocalRequestMsg(r)
        PROVE  Inv'
    BY <1>6, AddLocalReqInv DEF handleLocalRequestMsg
  <1>7. ASSUME NEW v \in VoteMsgs, handleVoteMsg(v)
        PROVE  Inv'
    <2>1. PICK s \in AddedTo(p.votes, v[1], v[2]) : p' = [p EXCEPT !.votes = s]
      BY <1>7 DEF handleVoteMsg
    <2>2. v[1] \in Accounts /\ v[2] \in Hashes /\ p.votes \in SUBSET (Accounts \X Hashes)
      BY MessagesAssumption DEF ProcInv, Typed, Proc
    <2>3. s \in SUBSET (Accounts \X Hashes)
      BY <2>1, <2>2 DEF AddedTo
    <2> QED
      BY <1>7, <2>1, <2>3, VotesInv DEF handleVoteMsg
  <1>8. CASE ProcessDPOSOnce
    BY <1>8, processDPOSOnceInv DEF ProcessDPOSOnce
  <1>9. ASSUME NEW m \in RecoveryMsgs, handleRecoveryMsg(m[1], m[2])
        PROVE  Inv'
    <2>1. m[1] \in Hashes /\ m[2] \in SUBSET Accounts
      BY MessagesAssumption
    <2> QED
      BY <1>9, <2>1, ProcessRecoveryMsgInv DEF handleRecoveryMsg
  <1>10. ASSUME NEW task \in p.acquiring, processTxsAcquire(task)
         PROVE  Inv'
    <2> DEFINE q == Acquired(task)
    <2>1. p \in Proc
      BY DEF ProcInv, Typed
    <2>2. p.acquiring \ {task} \in SUBSET [seq : Nat, req : Nat]
      BY <2>1 DEF Proc
    <2>3. q \in Proc
      BY <2>1, <2>2, ZenonT(30) DEF Proc, Acquired
    <2>4. Kept(p, q) /\ q.state = p.state /\ q.cur = p.cur /\ q.turn = p.turn
      BY <2>1 DEF Proc, Kept, Acquired
    <2> HIDE DEF q
    <2>5. ProcInv(q)
      BY <2>3, <2>4, KeptInv DEF ProcInv, HasReq, Safe, Kept
    <2>6. p' \in VerifyTxs(q, task) \cup ProcessTxsAcquireTimeOut(q, task)
      BY <1>10 DEF processTxsAcquire, q
    <2> QED
      BY <1>10, <2>5, <2>6, AcquisitionEndInv DEF processTxsAcquire
  <1>11. CASE UNCHANGED vars
    BY <1>11 DEF vars
  <1> QED
    BY <1>1, <1>2, <1>3, <1>4, <1>5, <1>6, <1>7, <1>8, <1>9, <1>10, <1>11 DEF Next

\* The invariant holds in every state.
LEMMA AlwaysInv == Spec => []Inv
  BY InitInv, NextInv, PTL DEF Spec

-------------------------------------------------------------------------------
\* Every pointer of a Process is nil or a request it accepted, and every state variable
\* of process and handlers keeps its type, for any sets of messages and any bounds.
THEOREM TypeCorrect == Spec => []TypeOK
  <1>1. Inv => TypeOK
    BY DEF Inv, ProcInv, Typed, Proc, Ptrs, Objs, State, TypeOK
  <1> QED
    BY <1>1, AlwaysInv, PTL

\* curProcessReq is nil exactly in the states in which no method dereferences it.
THEOREM RequestAtHand == Spec => []HasRequest
  <1>1. Inv => HasRequest
    BY DEF Inv, ProcInv, HasReq, HasRequest
  <1> QED
    BY <1>1, AlwaysInv, PTL

\* A validator signs at most one header of one leader and turn, whatever requests,
\* leader changes, acquisitions and restarts come in whatever order.
THEOREM VotesOncePerTurn == Spec => []OneVotePerTurn
  <1>1. Inv => OneVotePerTurn
    BY DEF Inv, ProcInv, Safe, UsedSafe, Used, OneVotePerTurn, Typed, Objs
  <1> QED
    BY <1>1, AlwaysInv, PTL

\* A validator takes up no header of an earlier turn than one it has signed.
THEOREM TurnsAdvance == Spec => []TurnsNeverGoBack
  <1>1. Inv => TurnsNeverGoBack
    <2> SUFFICES ASSUME Inv, Role = "Validator", p.cur # 0, ~Cur(p).local,
                        NEW i \in p.verifyOK, ~p.reqs[i].local
                 PROVE  p.reqs[i].turn <= Cur(p).turn
      BY DEF TurnsNeverGoBack
    <2>1. Safe(p) /\ i \in Used(p)
      BY DEF Inv, ProcInv, Used
    <2>2. Held(p, i) /\ Cur(p).turn = p.curTurn
      BY <2>1 DEF Safe, UsedSafe, Cur
    <2> QED
      BY <2>2 DEF Held
  <1> QED
    BY <1>1, AlwaysInv, PTL

-------------------------------------------------------------------------------
\* One more request: nothing at hand changes.
LEMMA GrownCtl ==
    ASSUME NEW q, Typed(q), HasReq(q), Ctl(q), CurOK(q), NEW d \in ReqData, Sourced(d),
           NEW s, Grown(q, d, s)
    PROVE  Ctl(s) /\ CurOK(s) /\ Adv(q, s) /\ s.verifyOK = q.verifyOK
  <1>1. /\ \A i \in Objs(q) : s.reqs[i] = q.reqs[i]
        /\ s.reqs[Len(q.reqs) + 1] = d
    BY GrownTyped
  <1>2. q.reqs \in Seq(ReqData) /\ Len(q.reqs) \in Nat
    <2>1. q.reqs \in Seq(ReqData)
      BY DEF Typed, Proc
    <2> QED
      BY <2>1
  <1>3. /\ s.reqs = Append(q.reqs, d) /\ s.cur = q.cur /\ s.state = q.state
        /\ s.mineSender = q.mineSender /\ s.seq = q.seq /\ s.acquiring = q.acquiring
        /\ s.verifyOK = q.verifyOK /\ s.turn = q.turn /\ s.role = q.role
        /\ s.leader = q.leader /\ s.votes = q.votes
    BY DEF Grown
  <1>4. q.cur # 0 => Cur(s) = Cur(q)
    <2>1. q.cur # 0 => q.cur \in Objs(q)
      BY DEF Typed, Proc, Ptrs, Objs
    <2> QED
      BY <1>1, <1>3, <2>1 DEF Cur
  <1>5. Len(s.reqs) = Len(q.reqs) + 1
    BY <1>2, <1>3
  <1>6. /\ Len(q.reqs) <= Len(s.reqs)
        /\ \A i \in Objs(s) \ Objs(q) : i = Len(q.reqs) + 1
    BY <1>2, <1>5 DEF Objs
  <1>7. q.state = StateDPOSVerify \/ q.mineSender # 0 => q.cur # 0
    BY StateFacts DEF HasReq, Ctl, MineOK
  <1>8. Ctl(s) /\ CurOK(s)
    BY <1>3, <1>4, <1>7 DEF CurOK, Ctl, RoleOK, MineOK, TaskOK
  <1>9. Full(s) => Full(q)
    <2> SUFFICES ASSUME Full(s)
                 PROVE  Full(q)
      OBVIOUS
    <2>1. q.state = StateDPOSVerify /\ Cur(s) = Cur(q)
      BY <1>3, <1>4, <1>7 DEF Full
    <2> QED
      BY <1>3, <2>1 DEF Full
  <1>10. Adv(q, s)
    BY <1>1, <1>3, <1>6, <1>9 DEF Adv, Grows, SameReq
  <1> QED
    BY <1>3, <1>8, <1>10

\* A request is cached and, when the Process waits for it, taken up.
LEMMA CachedCtl ==
    ASSUME NEW q, ProcInv(q), Ctl(q), CurOK(q), NEW d \in ReqData, Sourced(d),
           NEW t, Grown(q, d, t), ProcInv(t), NEW s \in startReqVerify(t)
    PROVE  /\ Ctl(s) /\ CurOK(s) /\ Adv(q, s)
           /\ q.state = StateTxsVerify => s.state = StateTxsVerify
           /\ q.state = StateIdle => s.state = StateIdle
  <1>1. Typed(q) /\ HasReq(q) /\ Typed(t)
    BY DEF ProcInv
  <1>2. Ctl(t) /\ CurOK(t) /\ Adv(q, t) /\ t.verifyOK = q.verifyOK /\ t.state = q.state
    BY <1>1, GrownCtl DEF Grown
  <1>3. /\ Ctl(s) /\ CurOK(s) /\ Adv(t, s) /\ Typed(s)
        /\ t.state \notin {StateStart, StateEnd} => s = t
    BY <1>2, startReqVerifyCtl, startReqVerifyInv DEF ProcInv
  <1>4. Adv(q, s)
    BY <1>1, <1>2, <1>3, AdvTrans
  <1> QED
    BY <1>2, <1>3, <1>4, StatesDiffer

\* The header of a message is that of the request made of it.
LEMMA newReqDataSourced ==
    ASSUME NEW r \in Requests \cup LocalRequests, NEW isLocal \in BOOLEAN,
           ~isLocal => r \in Requests
    PROVE  newReqData(r, isLocal) \in ReqData /\ Sourced(newReqData(r, isLocal))
  <1>1. r \in Request
    BY MessagesAssumption
  <1>2. HeaderOf(newReqData(r, isLocal)) = HeaderOf(r) /\ newReqData(r, isLocal).local = isLocal
    BY DEF HeaderOf, newReqData
  <1> QED
    BY <1>1, <1>2, newReqDataType DEF Sourced

\* AddReq.
LEMMA AddReqCtl ==
    ASSUME NEW q, ProcInv(q), Ctl(q), CurOK(q), NEW r \in Requests, NEW s \in AddReq(q, r)
    PROVE  /\ Ctl(s) /\ CurOK(s) /\ Adv(q, s)
           /\ q.state = StateTxsVerify => s.state = StateTxsVerify
           /\ q.state = StateIdle => s.state = StateIdle
  <1>1. r \in Request /\ r.from # Self
    BY MessagesAssumption, SelfAssumption
  <1>2. newReqData(r, FALSE) \in ReqData /\ Sourced(newReqData(r, FALSE))
    BY newReqDataSourced
  <1>3. CASE Refuses(q, r)
    BY <1>3, AdvRefl DEF AddReq, ProcInv
  <1>4. CASE ~Refuses(q, r) /\ r.leader = r.from
    <2> DEFINE t == CacheLeaderReq(q, r, FALSE)
    <2>1. ProcInv(t) /\ Grown(q, newReqData(r, FALSE), t)
      BY <1>1, <1>4, CacheLeaderReqInv, ZenonT(30)
    <2>2. s \in startReqVerify(t)
      BY <1>4 DEF AddReq
    <2> HIDE DEF t
    <2> QED
      BY <1>2, <2>1, <2>2, CachedCtl
  <1>5. CASE ~Refuses(q, r) /\ r.leader # r.from
    <2> DEFINE t == CacheOtherReq(q, r)
    <2>1. ProcInv(t) /\ Grown(q, newReqData(r, FALSE), t)
      BY <1>1, CacheOtherReqInv
    <2>2. s \in startReqVerify(t)
      BY <1>5 DEF AddReq
    <2> HIDE DEF t
    <2> QED
      BY <1>2, <2>1, <2>2, CachedCtl
  <1> QED
    BY <1>3, <1>4, <1>5

\* AddLocalReq.
LEMMA AddLocalReqCtl ==
    ASSUME NEW q, ProcInv(q), Ctl(q), CurOK(q), NEW r \in LocalRequests,
           NEW s \in AddLocalReq(q, r)
    PROVE  /\ Ctl(s) /\ CurOK(s) /\ Adv(q, s)
           /\ q.state = StateTxsVerify => s.state = StateTxsVerify
           /\ q.state = StateIdle => s.state = StateIdle
  <1> DEFINE t == CacheLeaderReq(q, r, TRUE)
  <1>1. r \in Request /\ r.leader = Self
    BY MessagesAssumption, SelfAssumption
  <1>2. newReqData(r, TRUE) \in ReqData /\ Sourced(newReqData(r, TRUE))
    BY newReqDataSourced
  <1>3. ProcInv(t) /\ Grown(q, newReqData(r, TRUE), t)
    BY <1>1, CacheLeaderReqInv, ZenonT(30)
  <1>4. s \in startReqVerify(t)
    BY DEF AddLocalReq
  <1> HIDE DEF t
  <1> QED
    BY <1>2, <1>3, <1>4, CachedCtl

\* A recovery message.
LEMMA ProcessRecoveryMsgCtl ==
    ASSUME NEW q, ProcInv(q), Ctl(q), CurOK(q), NEW h \in Hashes,
           NEW signers \in SUBSET Accounts, NEW s \in ProcessRecoveryMsg(q, h, signers)
    PROVE  /\ Ctl(s) /\ CurOK(s) /\ Adv(q, s)
           /\ q.state # StateDPOSVerify => s.state = q.state
  <1>1. Typed(q)
    BY DEF ProcInv
  <1>2. CASE s = q
    BY <1>1, <1>2, AdvRefl
  <1>3. CASE s # q
    <2>1. PICK v \in Recovered(q.votes, h, signers) :
             s = processDPOSOnce([q EXCEPT !.votes = v])
      BY <1>3 DEF ProcessRecoveryMsg
    <2> DEFINE t == [q EXCEPT !.votes = v]
    <2>2. q.votes \in SUBSET (Accounts \X Hashes)
      BY DEF ProcInv, Typed, Proc
    <2>3. v \in SUBSET (Accounts \X Hashes)
      BY <2>1, <2>2 DEF Recovered, DeletedFrom
    <2>4. ProcInv(t)
      BY <2>3, VotesInv
    <2>5. /\ Ctl(t) /\ CurOK(t) /\ t.state = q.state /\ t.cur = q.cur
          /\ t.reqs = q.reqs /\ t.verifyOK = q.verifyOK
      BY <1>1, VotesCtl
    <2>6. s = processDPOSOnce(t)
      BY <2>1
    <2> HIDE DEF t
    <2> QED
      BY <2>4, <2>5, <2>6, processDPOSOnceAdv
  <1> QED
    BY <1>2, <1>3

-------------------------------------------------------------------------------
(***************************************************************************)
(* The full inductive invariant.  A Process of a future number does not run*)
(* yet: otherwise a quorum could be there when its number comes.           *)
(***************************************************************************)
FullInv ==
    /\ Inv
    /\ Ctl(p) /\ CurOK(p)
    /\ \A i \in Objs(p) : Sourced(p.reqs[i])
    /\ phase = "future" => p.state = StateIdle /\ starting = 0
    /\ NoMissedQuorum

\* What a step does besides.
OwnResult ==
    p.state = StateTxsVerify /\ p'.state >= StateDPOSVerify /\ p'.cur = p.cur =>
        \E task \in p.acquiring \ p'.acquiring : task.req = p.cur

Good == FullInv' /\ Grows(p, p') /\ OwnResult

\* Handlers that call one method of the Process and touch nothing else but the number of
\* role handlers.
LEMMA MethodGood ==
    ASSUME FullInv, Inv', Ctl(p'), CurOK(p'), Adv(p, p'), OwnResult,
           phase' = phase, voting' = voting,
           phase = "future" => p'.state = StateIdle /\ starting' = 0
    PROVE  Good
  <1>1. (\A i \in Objs(p) : Sourced(p.reqs[i]))'
    BY GrowsSourced DEF FullInv, Adv
  <1>2. NoMissedQuorum'
    BY DEF FullInv, NoMissedQuorum, Ready, Full, Adv
  <1> QED
    BY <1>1, <1>2 DEF Good, FullInv, Adv

\* Every step, handler by handler.
LEMMA NextGood == FullInv /\ [Next]_vars => Good
  <1> SUFFICES ASSUME FullInv, [Next]_vars
               PROVE  Good
    OBVIOUS
  <1>0. Inv' /\ ProcInv(p) /\ Typed(p) /\ Ctl(p) /\ CurOK(p)
    BY NextInv DEF FullInv, Inv, ProcInv
  <1>1. ASSUME NEW runs \in BOOLEAN, NumberReached(runs)
        PROVE  Good
    <2>1. p' = p /\ voting' = voting /\ phase' = "current" /\ phase # "past"
      BY <1>1 DEF NumberReached
    <2>2. Grows(p, p') /\ OwnResult
      BY <1>0, <2>1, AdvRefl, StatesDiffer DEF Adv, OwnResult
    <2>3. NoMissedQuorum'
      <3>1. phase \in {"future", "current"}
        BY <2>1 DEF FullInv, Inv
      <3> QED
        BY <2>1, <3>1, StatesDiffer DEF FullInv, NoMissedQuorum, Ready
    <2> QED
      BY <1>0, <2>1, <2>2, <2>3 DEF Good, FullInv
  <1>2. CASE RoleUpdated
    <2>1. p' \in StartRunning(p) /\ phase' = phase /\ voting' = voting /\ phase # "future"
      <3>1. starting \in Nat
        BY DEF FullInv, Inv
      <3> QED
        BY <1>2, <3>1 DEF RoleUpdated, FullInv
    <2>2. /\ Ctl(p') /\ CurOK(p') /\ Adv(p, p')
          /\ p.state = StateTxsVerify => p'.state = StateTxsVerify
      BY <1>0, <2>1, StartRunningCtl
    <2> QED
      BY <1>0, <2>1, <2>2, StatesDiffer, MethodGood DEF OwnResult
  <1>3. CASE NumberPassed
    <2>1. p' = Close(p) /\ phase' = "past"
      BY <1>3 DEF NumberPassed
    <2>2. Ctl(p') /\ CurOK(p') /\ Adv(p, p') /\ p'.state = StateIdle
      BY <1>0, <2>1, CloseCtl
    <2>3. (\A i \in Objs(p) : Sourced(p.reqs[i]))'
      BY <2>2, GrowsSourced DEF FullInv, Adv
    <2> QED
      BY <1>0, <2>1, <2>2, <2>3, StatesDiffer
         DEF Good, FullInv, Adv, OwnResult, NoMissedQuorum, Ready
  <1>4. ASSUME NEW m \in LeaderMsgs, NEW isConsensus \in BOOLEAN,
               handleLeaderChangeNotify(isConsensus, m[1], m[2])
        PROVE  Good
    <2>1. m[1] \in Leaders /\ m[2] \in Turns
      BY MessagesAssumption
    <2>2. /\ p' \in SetLeaderInfo(p, isConsensus, m[1], m[2]) /\ phase' = phase
          /\ voting' = voting /\ starting' = starting
      BY <1>4 DEF handleLeaderChangeNotify
    <2>3. /\ Ctl(p') /\ CurOK(p') /\ Adv(p, p')
          /\ ~(p.state = StateTxsVerify /\ p'.state >= StateDPOSVerify /\ p'.cur = p.cur)
          /\ p.state = StateIdle => p'.state = StateIdle
      BY <1>0, <2>1, <2>2, SetLeaderInfoCtl
    <2> QED
      BY <1>0, <2>2, <2>3, MethodGood DEF OwnResult, FullInv
  <1>5. ASSUME NEW r \in Requests, handleRequestMsg(r)
        PROVE  Good
    <2>1. p' \in AddReq(p, r) /\ phase' = phase /\ voting' = voting /\ starting' = starting
      BY <1>5 DEF handleRequestMsg
    <2>2. /\ Ctl(p') /\ CurOK(p') /\ Adv(p, p')
          /\ p.state = StateTxsVerify => p'.state = StateTxsVerify
          /\ p.state = StateIdle => p'.state = StateIdle
      BY <1>0, <2>1, AddReqCtl
    <2> QED
      BY <1>0, <2>1, <2>2, StatesDiffer, MethodGood DEF OwnResult, FullInv
  <1>6. ASSUME NEW r \in LocalRequests, handleLocalRequestMsg(r)
        PROVE  Good
    <2>1. /\ p' \in AddLocalReq(p, r) /\ phase' = phase /\ voting' = voting
          /\ starting' = starting
      BY <1>6 DEF handleLocalRequestMsg
    <2>2. /\ Ctl(p') /\ CurOK(p') /\ Adv(p, p')
          /\ p.state = StateTxsVerify => p'.state = StateTxsVerify
          /\ p.state = StateIdle => p'.state = StateIdle
      BY <1>0, <2>1, AddLocalReqCtl
    <2> QED
      BY <1>0, <2>1, <2>2, StatesDiffer, MethodGood DEF OwnResult, FullInv
  <1>7. ASSUME NEW v \in VoteMsgs, handleVoteMsg(v)
        PROVE  Good
    <2>1. PICK s \in AddedTo(p.votes, v[1], v[2]) : p' = [p EXCEPT !.votes = s]
      BY <1>7 DEF handleVoteMsg
    <2>2. phase' = phase /\ starting' = starting /\ voting' > 0
      <3>1. voting \in Nat
        BY DEF FullInv, Inv
      <3> QED
        BY <1>7, <3>1 DEF handleVoteMsg
    <2>3. /\ Ctl(p') /\ CurOK(p') /\ p'.state = p.state /\ p'.cur = p.cur
          /\ p'.reqs = p.reqs /\ p'.verifyOK = p.verifyOK
      BY <1>0, <2>1, VotesCtl
    <2>4. Grows(p, p')
      BY <1>0, <2>3, AdvRefl DEF Adv, Grows, Objs
    <2>5. (\A i \in Objs(p) : Sourced(p.reqs[i]))'
      BY <2>4, GrowsSourced DEF FullInv
    <2> QED
      BY <1>0, <2>2, <2>3, <2>4, <2>5, StatesDiffer
         DEF Good, FullInv, OwnResult, NoMissedQuorum
  <1>8. CASE ProcessDPOSOnce
    <2>1. phase' = phase /\ starting' = starting
      BY <1>8 DEF ProcessDPOSOnce
    <2>2. CASE phase # "future" /\ p' = processDPOSOnce(p)
      <3>1. /\ Ctl(p') /\ CurOK(p') /\ Adv(p, p')
            /\ p.state # StateDPOSVerify => p'.state = p.state
        BY <1>0, <2>2, processDPOSOnceAdv
      <3>2. ~Full(p')
        BY <1>0, <2>2, StateFacts, processDPOSOnceCtl DEF ProcInv, HasReq
      <3>3. (\A i \in Objs(p) : Sourced(p.reqs[i]))'
        BY <3>1, GrowsSourced DEF FullInv, Adv
      <3>4. NoMissedQuorum'
        BY <3>2 DEF NoMissedQuorum, Ready, Full
      <3>5. OwnResult
        BY <3>1, StatesDiffer DEF OwnResult
      <3> QED
        BY <1>0, <2>1, <2>2, <3>1, <3>3, <3>4, <3>5 DEF Good, FullInv, Adv
    <2>3. CASE phase # "current" /\ p' = p
      <3>1. Grows(p, p') /\ OwnResult
        BY <1>0, <2>3, AdvRefl, StatesDiffer DEF Adv, OwnResult
      <3> QED
        BY <1>0, <2>1, <2>3, <3>1 DEF Good, FullInv, NoMissedQuorum, Ready
    <2> QED
      BY <1>8, <2>2, <2>3 DEF ProcessDPOSOnce
  <1>9. ASSUME NEW m \in RecoveryMsgs, handleRecoveryMsg(m[1], m[2])
        PROVE  Good
    <2>1. m[1] \in Hashes /\ m[2] \in SUBSET Accounts
      BY MessagesAssumption
    <2>2. /\ p' \in ProcessRecoveryMsg(p, m[1], m[2]) /\ phase' = phase /\ phase # "future"
          /\ voting' = voting
      BY <1>9 DEF handleRecoveryMsg
    <2>3. /\ Ctl(p') /\ CurOK(p') /\ Adv(p, p')
          /\ p.state # StateDPOSVerify => p'.state = p.state
      BY <1>0, <2>1, <2>2, ProcessRecoveryMsgCtl
    <2> QED
      BY <1>0, <2>2, <2>3, StatesDiffer, MethodGood DEF OwnResult
  <1>10. ASSUME NEW task \in p.acquiring, processTxsAcquire(task)
         PROVE  Good
    <2> DEFINE q == Acquired(task)
    <2>1. p \in Proc
      BY <1>0 DEF Typed
    <2>2. p.acquiring \ {task} \in SUBSET [seq : Nat, req : Nat]
      BY <2>1 DEF Proc
    <2>3. q \in Proc
      BY <2>1, <2>2, ZenonT(30) DEF Proc, Acquired
    <2>4. /\ Kept(p, q) /\ q.state = p.state /\ q.cur = p.cur /\ q.turn = p.turn
          /\ q.leader = p.leader /\ q.role = p.role /\ q.mineSender = p.mineSender
          /\ q.acquiring = p.acquiring \ {task} /\ q.votes = p.votes
      BY <2>1 DEF Proc, Kept, Acquired
    <2>5. /\ p' \in VerifyTxs(q, task) \cup ProcessTxsAcquireTimeOut(q, task)
          /\ phase' = phase /\ voting' = voting /\ starting' = starting
      BY <1>10 DEF processTxsAcquire
    <2> HIDE DEF q
    <2>6. ProcInv(q)
      BY <1>0, <2>3, <2>4, KeptInv DEF ProcInv, HasReq, Safe, Kept
    <2>7. Cur(q) = Cur(p) /\ q.seq = p.seq
      BY <2>4 DEF Cur, Kept
    <2>8. Ctl(q) /\ CurOK(q)
      BY <1>0, <2>4, <2>7 DEF Ctl, RoleOK, MineOK, TaskOK, CurOK
    <2>9. Full(q) => Full(p)
      BY <2>4, <2>7 DEF Full
    <2>10. Adv(p, q) /\ q.verifyOK = p.verifyOK
      BY <1>0, <2>4, <2>9, KeptAdv DEF Kept
    <2>11. /\ Ctl(p') /\ CurOK(p') /\ Adv(q, p') /\ p'.acquiring = q.acquiring
           /\ p'.state # q.state => task.seq = q.seq
           /\ q.state = StateIdle => p'.state = StateIdle
      BY <2>5, <2>6, <2>8, AcquisitionEndCtl
    <2>12. Typed(q) /\ Typed(p')
      BY <1>0, <2>6 DEF ProcInv, Inv
    <2>13. Adv(p, p')
      BY <1>0, <2>10, <2>11, <2>12, AdvTrans
    <2>14. OwnResult
      BY <1>0, <1>10, <2>4, <2>7, <2>11, StatesDiffer DEF OwnResult, Ctl, TaskOK
    <2> QED
      BY <1>0, <2>4, <2>5, <2>11, <2>13, <2>14, MethodGood DEF FullInv
  <1>11. CASE UNCHANGED vars
    <2>1. Grows(p, p') /\ OwnResult
      BY <1>0, <1>11, AdvRefl, StatesDiffer DEF Adv, OwnResult, vars
    <2> QED
      BY <1>0, <1>11, <2>1 DEF vars, Good, FullInv, NoMissedQuorum, Ready
  <1> QED
    BY <1>1, <1>2, <1>3, <1>4, <1>5, <1>6, <1>7, <1>8, <1>9, <1>10, <1>11 DEF Next

\* A new Process has signed nothing and holds no request.
LEMMA InitFull == Init => FullInv /\ SignedHeaders = {}
  <1> SUFFICES ASSUME Init
               PROVE  FullInv /\ SignedHeaders = {}
    OBVIOUS
  <1>1. Inv
    BY InitInv
  <1>2. /\ p.reqs = <<>> /\ p.cur = 0 /\ p.state = StateIdle /\ p.mineSender = 0
        /\ p.verifyOK = {} /\ starting = 0
    BY DEF Init, newProcess
  <1>3. Ctl(p) /\ CurOK(p) /\ NoMissedQuorum
    BY <1>2, StatesDiffer DEF Ctl, RoleOK, MineOK, TaskOK, CurOK, NoMissedQuorum, Ready
  <1>4. \A i \in Objs(p) : Sourced(p.reqs[i])
    BY <1>2 DEF Objs
  <1> QED
    BY <1>1, <1>2, <1>3, <1>4 DEF FullInv, SignedHeaders

\* The invariant holds in every state.
LEMMA AlwaysFull == Spec => []FullInv
  <1>1. FullInv /\ [Next]_vars => FullInv'
    BY NextGood DEF Good
  <1> QED
    BY <1>1, InitFull, PTL DEF Spec

\* A mining request is sent exactly at the end, and for the request of the end, whatever
\* changes of leader, restarts of the Process and late acquisitions came before.
THEOREM MiningStopsWithTheHeader == Spec => []MiningMatchesEnd
  <1>1. FullInv => MiningMatchesEnd
    BY DEF FullInv, Ctl, MineOK, MiningMatchesEnd
  <1> QED
    BY <1>1, AlwaysFull, PTL

\* A quorum of votes in the pool is noticed by a handler that is still to look, although
\* votes enter the pool outside the mutex.
THEOREM QuorumsAreNoticed == Spec => []NoMissedQuorum
  <1>1. FullInv => NoMissedQuorum
    BY DEF FullInv
  <1> QED
    BY <1>1, AlwaysFull, PTL

\* A late result or timeout of an acquisition never decides about another request than
\* the one it was started for, however many acquisitions are under way.
THEOREM ResultsAreTheRequestsOwn == Spec => OwnResultOnly
  <1>1. FullInv /\ [Next]_vars => [OwnResult]_vars
    BY NextGood DEF Good
  <1>2. [][OwnResult]_vars => OwnResultOnly
    BY PTL DEF OwnResult, OwnResultOnly
  <1> QED
    BY <1>1, <1>2, AlwaysFull, PTL DEF Spec

\* A broadcast node publishes no header without a quorum's signatures, however often it
\* starts again from its end and goes through its requests.
THEOREM PublishedHeadersAreSigned == Spec => []PublishesPosed
  <1>1. Init => PublishesPosed
    BY DEF Init, newProcess, PublishesPosed
  <1>2. FullInv /\ PublishesPosed /\ [Next]_vars => PublishesPosed'
    <2> SUFFICES ASSUME FullInv, PublishesPosed, [Next]_vars, Role = "Broadcast",
                        NEW i \in p'.verifyOK
                 PROVE  p'.reqs[i].posed
      BY DEF PublishesPosed
    <2>1. FullInv' /\ Grows(p, p')
      BY NextGood DEF Good
    <2>2. CASE i \in p.verifyOK
      <3>1. i \in Objs(p)
        BY <2>2 DEF FullInv, Inv, ProcInv, Typed
      <3>2. SameReq(p'.reqs[i], p.reqs[i])
        BY <2>1, <3>1 DEF Grows
      <3> QED
        BY <2>2, <3>2 DEF SameReq, PublishesPosed
    <2>3. CASE i = p'.cur
      <3>1. i # 0
        BY <2>1 DEF FullInv, Inv, ProcInv, Typed, Objs
      <3> QED
        BY <2>1, <2>3, <3>1 DEF FullInv, CurOK, Cur
    <2> QED
      BY <2>1, <2>2, <2>3 DEF Grows
  <1> QED
    BY <1>1, <1>2, AlwaysFull, PTL DEF Spec

\* One step signs nothing, or one header as Voting allows.
LEMMA VotingStep ==
    ASSUME FullInv, FullInv', Grows(p, p')
    PROVE  \/ \E h \in {HeaderOf(r) : r \in Requests} : V!Sign(h)
           \/ SignedHeaders' = SignedHeaders
  <1> DEFINE Of(q) == {j \in q.verifyOK : Role = "Validator" /\ ~q.reqs[j].local}
  <1>1. /\ Typed(p) /\ Typed(p') /\ p.verifyOK \subseteq Objs(p) /\ p'.verifyOK \subseteq Objs(p')
    BY DEF FullInv, Inv, ProcInv, Typed
  <1>2. \A i \in p.verifyOK : SameReq(p'.reqs[i], p.reqs[i])
    BY <1>1 DEF Grows
  <1>3. \A i \in p.verifyOK : HeaderOf(p'.reqs[i]) = HeaderOf(p.reqs[i])
    BY <1>2 DEF SameReq, HeaderOf
  <1>4. SignedHeaders = {HeaderOf(p'.reqs[i]) : i \in Of(p)} /\ Of(p) \subseteq Of(p')
    <2>1. SignedHeaders = {HeaderOf(p.reqs[i]) : i \in Of(p)} /\ Of(p) \subseteq p.verifyOK
      BY DEF SignedHeaders
    <2>2. p.verifyOK \subseteq p'.verifyOK
      BY DEF Grows
    <2>3. \A i \in p.verifyOK : p'.reqs[i].local = p.reqs[i].local
      BY <1>2 DEF SameReq
    <2>4. Of(p) \subseteq Of(p')
      BY <2>2, <2>3
    <2> HIDE DEF Of
    <2> QED
      BY <1>3, <2>1, <2>4
  <1>5. SignedHeaders' = {HeaderOf(p'.reqs[i]) : i \in Of(p')}
    BY DEF SignedHeaders
  <1>6. CASE Of(p') = Of(p)
    BY <1>4, <1>5, <1>6
  <1>7. CASE Of(p') # Of(p)
    <2> DEFINE c == p'.cur
               h == HeaderOf(p'.reqs[c])
    <2>1. /\ Of(p') = Of(p) \cup {c} /\ c \in p'.verifyOK /\ Role = "Validator"
          /\ ~p'.reqs[c].local
      <3>1. PICK j \in Of(p') : j \notin Of(p)
        BY <1>4, <1>7
      <3>2. p'.verifyOK \subseteq p.verifyOK \cup {c}
        BY DEF Grows
      <3>3. \A i \in p.verifyOK : p'.reqs[i].local = p.reqs[i].local
        BY <1>2 DEF SameReq
      <3>4. \A i \in Of(p') \ Of(p) : i = c
        BY <3>2, <3>3
      <3> QED
        BY <1>4, <3>1, <3>4
    <2>2. c \in Objs(p') /\ c # 0
      <3>1. c \in Objs(p')
        BY <1>1, <2>1
      <3> QED
        BY <3>1 DEF Objs
    <2>3. h \in {HeaderOf(r) : r \in Requests}
      BY <2>1, <2>2 DEF FullInv, Sourced
    <2>4. Safe(p')
      BY <2>1 DEF FullInv, Inv, ProcInv
    <2>5. ASSUME NEW i \in Of(p)
          PROVE  /\ p'.reqs[i].turn <= p'.reqs[c].turn
                 /\ (/\ p'.reqs[i].leader = p'.reqs[c].leader
                     /\ p'.reqs[i].turn = p'.reqs[c].turn) => i = c
      <3>1. i \in Used(p') /\ c \in Used(p') /\ ~p'.reqs[i].local
        BY <1>4, <2>1 DEF Used
      <3>2. Held(p', i) /\ p'.reqs[c].turn = p'.curTurn
        BY <2>1, <2>2, <2>4, <3>1 DEF Safe, UsedSafe
      <3> QED
        BY <2>1, <2>4, <3>1, <3>2 DEF Safe, UsedSafe, Held
    <2>6. ASSUME NEW g \in SignedHeaders
          PROVE  /\ g.turn <= h.turn
                 /\ g.leader = h.leader /\ g.turn = h.turn => g = h
      <3>1. PICK i \in Of(p) : g = HeaderOf(p'.reqs[i])
        BY <1>4
      <3> QED
        BY <2>5, <3>1 DEF HeaderOf
    <2>7. SignedHeaders' = SignedHeaders \cup {h}
      BY <1>4, <1>5, <2>1
    <2> HIDE DEF h
    <2>8. V!Sign(h)
      BY <2>6, <2>7 DEF V!Sign, V!MaySign
    <2> QED
      BY <2>3, <2>8
  <1> QED
    BY <1>6, <1>7

\* A validator's Process keeps the promise that agreement in a turn rests on: BlkVerify
\* implements Voting, for any requests, leader changes, votes and bounds.
THEOREM ProcessesKeepThePromise == Spec => ImplementsVoting
  <1>1. Init => SignedHeaders = {}
    BY InitFull
  <1>2. FullInv /\ [Next]_vars =>
           [\E h \in {HeaderOf(r) : r \in Requests} : V!Sign(h)]_SignedHeaders
    BY NextGood, VotingStep DEF Good
  <1> QED
    BY <1>1, <1>2, AlwaysFull, PTL DEF Spec, ImplementsVoting, V!Spec
===============================================================================
