-------------------------- MODULE CtrlManager_proofs ---------------------------
(***************************************************************************)
(* Proofs about the table of leader controllers, for every set of handlers,*)
(* every order of heights they ask for and every capacity of the channels. *)
(*                                                                         *)
(* That a height has one controller is not inductive by itself: a second   *)
(* one could come from a height that is asked for again after fixCtrlMap   *)
(* took it off the table.  The invariant says that every controller of a   *)
(* height that may still be asked for is in the table.                     *)
(***************************************************************************)
EXTENDS CtrlManager, SequenceTheorems, TLAPS

\* The table and the controllers for the current number cur.
Table(cur, map, cs) ==
    /\ cur \in Nat
    /\ cs \in Seq(Controller)
    /\ \A k \in DOMAIN map : /\ k \in Nat /\ k >= cur /\ map[k] \in DOMAIN cs
                             /\ cs[map[k]].number = k /\ ~cs[map[k]].closed
    /\ \A c \in DOMAIN cs : cs[c].number >= cur =>
           cs[c].number \in DOMAIN map /\ map[cs[c].number] = c
    /\ \A c, d \in DOMAIN cs : cs[c].number = cs[d].number => c = d

\* The start message has come, or is on its way.
HasStart(c) == c.started \/ \E i \in DOMAIN c.queue : c.queue[i] = "start"

\* The handler that holds the mutex sends to the controller of the current height.
Locked ==
    /\ holder \in Starters \cup {"free"}
    /\ pc \in [Starters \cup Receivers -> {"begin", "get", "send", "done"}]
    /\ has \in [Starters \cup Receivers -> 0 .. Len(ctrls)]
    /\ \A h \in Starters \cup Receivers : pc[h] = "send" => has[h] \in DOMAIN ctrls
    /\ \A h \in Starters : pc[h] = "send" => holder = h
    /\ holder # "free" => curNumber \in DOMAIN ctrlMap /\ has[holder] = ctrlMap[curNumber]

Started ==
    holder = "free" /\ curNumber > 0 =>
        curNumber \in DOMAIN ctrlMap /\ HasStart(ctrls[ctrlMap[curNumber]])

IInv == Table(curNumber, ctrlMap, ctrls) /\ Locked /\ Started

-------------------------------------------------------------------------------
\* A function on the first n numbers is a sequence of length n.
LEMMA FunctionIsSeq ==
    ASSUME NEW S, NEW n \in Nat, NEW f \in [1 .. n -> S]
    PROVE  f \in Seq(S) /\ Len(f) = n
<1>1. f \in Seq(S)
  BY SeqDef, Zenon
<1>2. DOMAIN f = 1 .. Len(f) /\ Len(f) \in Nat /\ DOMAIN f = 1 .. n
  BY <1>1, LenProperties
<1> QED
  BY <1>1, <1>2

\* fixCtrlMap and getController together keep the table; n is the height asked for, m
\* the current number afterwards.  Controllers of heights from m on are as they were.
LEMMA FixAndGetKeeps ==
    ASSUME Table(curNumber, ctrlMap, ctrls), NEW m \in Nat, NEW n \in Nat, NEW number \in Nat,
           m >= curNumber, n >= m, number = m \/ (number = 0 /\ m = curNumber),
           fixAndGet(number, n)
    PROVE  /\ Table(m, ctrlMap', ctrls')
           /\ n \in DOMAIN ctrlMap'
           /\ Len(ctrls') >= Len(ctrls)
           /\ \A k \in DOMAIN ctrlMap : k >= m =>
                  /\ k \in DOMAIN ctrlMap' /\ ctrlMap'[k] = ctrlMap[k]
                  /\ ctrls'[ctrlMap[k]] = ctrls[ctrlMap[k]]
<1> DEFINE gone == Passed(number)
           kept == [k \in DOMAIN ctrlMap \ gone |-> ctrlMap[k]]
           closed == [c \in DOMAIN ctrls |->
                         [ctrls[c] EXCEPT !.closed = @ \/ \E k \in gone : ctrlMap[k] = c]]
<1>1. \A k \in DOMAIN ctrlMap : k \in gone <=> k < m
  BY DEF Passed, Table
<1>2. \A k \in DOMAIN kept : k \in Nat /\ k >= m /\ k \in DOMAIN ctrlMap /\ kept[k] = ctrlMap[k]
  BY <1>1 DEF Table
<1>3. \A k \in DOMAIN ctrlMap : k >= m => k \in DOMAIN kept
  BY <1>1 DEF Table
<1>4. /\ closed \in Seq(Controller) /\ DOMAIN closed = DOMAIN ctrls /\ Len(closed) = Len(ctrls)
      /\ \A c \in DOMAIN ctrls : closed[c].number = ctrls[c].number
  <2>1. ASSUME NEW c \in DOMAIN ctrls
        PROVE  closed[c] \in Controller /\ closed[c].number = ctrls[c].number
    <3> DEFINE b == ctrls[c].closed \/ \E k \in gone : ctrlMap[k] = c
    <3>1. ctrls[c] \in Controller /\ closed[c] = [ctrls[c] EXCEPT !.closed = b]
      BY DEF Table
    <3>2. b \in BOOLEAN
      BY Zenon
    <3> HIDE DEF b
    <3> QED
      BY <3>1, <3>2 DEF Controller
  <2>2. Len(ctrls) \in Nat /\ DOMAIN ctrls = 1 .. Len(ctrls)
    BY LenProperties DEF Table
  <2>3. closed \in [1 .. Len(ctrls) -> Controller]
    BY <2>1, <2>2
  <2> QED
    BY <2>1, <2>2, <2>3, FunctionIsSeq
<1>5. \A k \in DOMAIN kept : closed[kept[k]] = ctrls[kept[k]]
  <2> SUFFICES ASSUME NEW k \in DOMAIN kept PROVE closed[kept[k]] = ctrls[kept[k]]
    OBVIOUS
  <2>1. kept[k] \in DOMAIN ctrls /\ ctrls[kept[k]].number = k /\ ctrls[kept[k]] \in Controller
    BY <1>2 DEF Table
  <2>2. \A j \in gone : ctrlMap[j] # kept[k]
    BY <1>1, <1>2, <2>1 DEF Passed, Table
  <2>3. closed[kept[k]] = [ctrls[kept[k]] EXCEPT !.closed = @]
    BY <2>1, <2>2 DEF Controller
  <2> QED
    BY <2>1, <2>3 DEF Controller
<1> HIDE DEF gone, kept, closed
<1>6. Table(m, kept, closed)
  <2>1. \A c \in DOMAIN ctrls : ctrls[c].number \in Nat
    <3>1. \A c \in DOMAIN ctrls : ctrls[c] \in Controller
      BY DEF Table
    <3> QED
      BY <3>1 DEF Controller
  <2>2. \A k \in DOMAIN kept : /\ k \in Nat /\ k >= m /\ kept[k] \in DOMAIN closed
                              /\ closed[kept[k]].number = k /\ ~closed[kept[k]].closed
    BY <1>2, <1>4, <1>5 DEF Table
  <2>3. \A c \in DOMAIN closed : closed[c].number >= m =>
           closed[c].number \in DOMAIN kept /\ kept[closed[c].number] = c
    BY <1>2, <1>3, <1>4, <2>1 DEF Table
  <2>4. \A c, d \in DOMAIN closed : closed[c].number = closed[d].number => c = d
    BY <1>4 DEF Table
  <2> QED
    BY <1>4, <2>2, <2>3, <2>4 DEF Table
<1>7. CASE n \in DOMAIN kept
  <2>1. ctrlMap' = kept /\ ctrls' = closed
    BY <1>7 DEF fixAndGet, gone, kept, closed
  <2> QED
    BY <1>2, <1>3, <1>4, <1>5, <1>6, <1>7, <2>1 DEF Table
<1>8. CASE n \notin DOMAIN kept
  <2> DEFINE new == newController(n)
  <2>1. /\ ctrls' = Append(closed, new)
        /\ ctrlMap' = [k \in DOMAIN kept \cup {n} |-> IF k = n THEN Len(ctrls) + 1 ELSE kept[k]]
    BY <1>8 DEF fixAndGet, gone, kept, closed
  <2>2. new \in Controller /\ new.number = n /\ ~new.closed
    BY DEF newController, Controller
  <2> HIDE DEF new
  <2>3. /\ ctrls' \in Seq(Controller) /\ Len(ctrls') = Len(ctrls) + 1
        /\ ctrls'[Len(ctrls) + 1] = new
        /\ \A c \in DOMAIN closed : ctrls'[c] = closed[c]
        /\ DOMAIN ctrls' = DOMAIN closed \cup {Len(ctrls) + 1}
        /\ Len(ctrls) + 1 \notin DOMAIN closed
    BY <1>4, <2>1, <2>2
  <2>4. \A c \in DOMAIN closed : closed[c].number # n
    BY <1>6, <1>8 DEF Table
  <2>5. Table(m, ctrlMap', ctrls')
    <3>1. \A k \in DOMAIN ctrlMap' :
             /\ k \in Nat /\ k >= m /\ ctrlMap'[k] \in DOMAIN ctrls'
             /\ ctrls'[ctrlMap'[k]].number = k /\ ~ctrls'[ctrlMap'[k]].closed
      BY <1>6, <2>1, <2>2, <2>3 DEF Table
    <3>2. \A c \in DOMAIN ctrls' : ctrls'[c].number >= m =>
             ctrls'[c].number \in DOMAIN ctrlMap' /\ ctrlMap'[ctrls'[c].number] = c
      BY <1>6, <2>1, <2>2, <2>3, <2>4 DEF Table
    <3>3. \A c, d \in DOMAIN ctrls' : ctrls'[c].number = ctrls'[d].number => c = d
      BY <1>6, <2>2, <2>3, <2>4 DEF Table
    <3> QED
      BY <2>3, <3>1, <3>2, <3>3 DEF Table
  <2>6. \A k \in DOMAIN kept : k # n /\ ctrlMap'[k] = kept[k] /\ kept[k] \in DOMAIN closed
    BY <1>6, <1>8, <2>1 DEF Table
  <2>7. \A k \in DOMAIN ctrlMap : k >= m =>
           /\ k \in DOMAIN ctrlMap' /\ ctrlMap'[k] = ctrlMap[k]
           /\ ctrls'[ctrlMap[k]] = ctrls[ctrlMap[k]]
    BY <1>2, <1>3, <1>5, <2>1, <2>3, <2>6
  <2>8. n \in DOMAIN ctrlMap' /\ Len(ctrls) \in Nat
    BY <2>1, LenProperties DEF Table
  <2> QED
    BY <2>3, <2>5, <2>7, <2>8
<1> QED
  BY <1>7, <1>8

-------------------------------------------------------------------------------
\* A controller that changes but keeps its number and stays open or closed.
LEMMA ChangeKeeps ==
    ASSUME Table(curNumber, ctrlMap, ctrls), NEW c \in DOMAIN ctrls, NEW x \in Controller,
           x.number = ctrls[c].number, x.closed = ctrls[c].closed,
           HasStart(ctrls[c]) => HasStart(x), ctrls' = [ctrls EXCEPT ![c] = x]
    PROVE  /\ Table(curNumber, ctrlMap, ctrls') /\ Len(ctrls') = Len(ctrls)
           /\ DOMAIN ctrls' = DOMAIN ctrls
           /\ \A d \in DOMAIN ctrls : HasStart(ctrls[d]) => HasStart(ctrls'[d])
<1>1. ctrls \in Seq(Controller) /\ c \in 1 .. Len(ctrls) /\ DOMAIN ctrls = 1 .. Len(ctrls)
  BY LenProperties DEF Table
<1>2. /\ ctrls' \in Seq(Controller) /\ Len(ctrls') = Len(ctrls)
  BY <1>1, ExceptSeq
<1>3. DOMAIN ctrls' = DOMAIN ctrls
  BY <1>1
<1>4. \A d \in DOMAIN ctrls : ctrls'[d] = IF d = c THEN x ELSE ctrls[d]
  BY <1>1
<1>5. \A d \in DOMAIN ctrls : /\ ctrls'[d].number = ctrls[d].number
                              /\ ctrls'[d].closed = ctrls[d].closed
                              /\ HasStart(ctrls[d]) => HasStart(ctrls'[d])
  BY <1>4
<1>6. Table(curNumber, ctrlMap, ctrls')
  BY <1>2, <1>3, <1>5 DEF Table
<1> QED
  BY <1>2, <1>3, <1>5, <1>6

\* ReceiveMsg appends to the channel of a controller.
LEMMA ReceiveKeeps ==
    ASSUME Table(curNumber, ctrlMap, ctrls), NEW c \in DOMAIN ctrls,
           NEW m \in {"start", "msg"}, ReceiveMsg(c, m)
    PROVE  /\ Table(curNumber, ctrlMap, ctrls') /\ Len(ctrls') = Len(ctrls)
           /\ DOMAIN ctrls' = DOMAIN ctrls
           /\ \A d \in DOMAIN ctrls : HasStart(ctrls[d]) => HasStart(ctrls'[d])
           /\ m = "start" => HasStart(ctrls'[c])
<1> DEFINE q == Append(ctrls[c].queue, m)
           x == [ctrls[c] EXCEPT !.queue = q]
<1>1. ctrls[c] \in Controller /\ ctrls' = [ctrls EXCEPT ![c] = x] /\ ctrls'[c] = x
  BY DEF Table, ReceiveMsg
<1>2. ctrls[c].queue \in Seq({"start", "msg"})
  BY <1>1 DEF Controller
<1>3. /\ q \in Seq({"start", "msg"}) /\ Len(ctrls[c].queue) + 1 \in DOMAIN q
      /\ q[Len(ctrls[c].queue) + 1] = m
      /\ \A i \in DOMAIN ctrls[c].queue : i \in DOMAIN q /\ q[i] = ctrls[c].queue[i]
  BY <1>2
<1> HIDE DEF q
<1>4. /\ x \in Controller /\ x.number = ctrls[c].number /\ x.closed = ctrls[c].closed
      /\ x.started = ctrls[c].started /\ x.queue = q
  BY <1>1, <1>3 DEF Controller
<1> HIDE DEF x
<1>5. HasStart(ctrls[c]) => HasStart(x)
  BY <1>3, <1>4, Zenon DEF HasStart
<1>6. m = "start" => HasStart(x)
  BY <1>3, <1>4, Zenon DEF HasStart
<1> QED
  BY <1>1, <1>4, <1>5, <1>6, ChangeKeeps

\* run takes the first message off the channel.
LEMMA RunKeeps ==
    ASSUME Table(curNumber, ctrlMap, ctrls), NEW c \in DOMAIN ctrls, Run(c)
    PROVE  /\ Table(curNumber, ctrlMap, ctrls') /\ Len(ctrls') = Len(ctrls)
           /\ DOMAIN ctrls' = DOMAIN ctrls
           /\ \A d \in DOMAIN ctrls : HasStart(ctrls[d]) => HasStart(ctrls'[d])
<1> DEFINE q == ctrls[c].queue
           b == ctrls[c].started \/ Head(q) = "start"
           x == [ctrls[c] EXCEPT !.queue = Tail(q), !.started = b]
<1>0. ctrls[c] \in Controller
  BY DEF Table
<1>1. ctrls[c] \in Controller /\ ctrls' = [ctrls EXCEPT ![c] = x]
  BY <1>0 DEF Run
<1>2. q \in Seq({"start", "msg"}) /\ q # <<>>
  BY <1>1 DEF Controller, Run
<1>3. /\ Tail(q) \in Seq({"start", "msg"})
      /\ \A i \in DOMAIN q : q[i] = "start" =>
             Head(q) = "start" \/ (i - 1 \in DOMAIN Tail(q) /\ Tail(q)[i - 1] = "start")
  BY <1>2
<1>4. b \in BOOLEAN
  BY Zenon
<1> HIDE DEF b
<1>5. /\ x \in Controller /\ x.number = ctrls[c].number /\ x.closed = ctrls[c].closed
      /\ x.started = b /\ x.queue = Tail(q)
  BY <1>0, <1>3, <1>4 DEF Controller
<1> HIDE DEF x
<1>6. HasStart(ctrls[c]) => HasStart(x)
  BY <1>3, <1>5, Zenon DEF HasStart, b
<1> QED
  BY <1>1, <1>5, <1>6, ChangeKeeps

\* The goroutine of a closed controller ends.
LEMMA QuitKeeps ==
    ASSUME Table(curNumber, ctrlMap, ctrls), NEW c \in DOMAIN ctrls, Quit(c)
    PROVE  /\ Table(curNumber, ctrlMap, ctrls') /\ Len(ctrls') = Len(ctrls)
           /\ DOMAIN ctrls' = DOMAIN ctrls
           /\ \A d \in DOMAIN ctrls : HasStart(ctrls[d]) => HasStart(ctrls'[d])
<1> DEFINE x == [ctrls[c] EXCEPT !.ended = TRUE]
<1>1. ctrls[c] \in Controller /\ ctrls' = [ctrls EXCEPT ![c] = x]
  BY DEF Table, Quit
<1>2. /\ x \in Controller /\ x.number = ctrls[c].number /\ x.closed = ctrls[c].closed
      /\ x.started = ctrls[c].started /\ x.queue = ctrls[c].queue
  BY <1>1 DEF Controller
<1> HIDE DEF x
<1>3. HasStart(ctrls[c]) => HasStart(x)
  BY <1>2 DEF HasStart
<1> QED
  BY <1>1, <1>2, <1>3, ChangeKeeps

-------------------------------------------------------------------------------
\* Steps that change one controller's channel and no handler that waits to send.
LEMMA ChannelKeeps ==
    ASSUME IInv, Table(curNumber, ctrlMap, ctrls'), Len(ctrls') = Len(ctrls),
           DOMAIN ctrls' = DOMAIN ctrls,
           \A d \in DOMAIN ctrls : HasStart(ctrls[d]) => HasStart(ctrls'[d]),
           UNCHANGED <<curNumber, ctrlMap, holder, has>>,
           pc' \in [Starters \cup Receivers -> {"begin", "get", "send", "done"}],
           \A h \in Starters \cup Receivers : pc'[h] = "send" => pc[h] = "send"
    PROVE  IInv'
<1>1. Table(curNumber, ctrlMap, ctrls)' /\ Locked'
  BY DEF IInv, Locked
<1>2. Started'
  BY DEF IInv, Started, Table
<1> QED
  BY <1>1, <1>2 DEF IInv

\* A message handler asks for a controller of a height that is not passed.
LEMMA AskKeeps ==
    ASSUME IInv, NEW h \in Receivers, NEW n \in Nat, n >= curNumber, holder = "free",
           getController(n), UNCHANGED <<curNumber, holder>>, NEW p \in {"get", "send"},
           pc' = [pc EXCEPT ![h] = p],
           has' = (IF p = "send" THEN [has EXCEPT ![h] = ctrlMap'[n]] ELSE has)
    PROVE  IInv'
<1>1. /\ Table(curNumber, ctrlMap', ctrls') /\ n \in DOMAIN ctrlMap' /\ Len(ctrls') >= Len(ctrls)
      /\ \A k \in DOMAIN ctrlMap : k >= curNumber =>
             /\ k \in DOMAIN ctrlMap' /\ ctrlMap'[k] = ctrlMap[k]
             /\ ctrls'[ctrlMap[k]] = ctrls[ctrlMap[k]]
  <2>1. curNumber \in Nat /\ Table(curNumber, ctrlMap, ctrls) /\ fixAndGet(0, n)
    BY DEF IInv, Table, getController
  <2> QED
    BY <2>1, FixAndGetKeeps
<1>2. /\ Len(ctrls) \in Nat /\ Len(ctrls') \in Nat
      /\ DOMAIN ctrls = 1 .. Len(ctrls) /\ DOMAIN ctrls' = 1 .. Len(ctrls')
  BY <1>1, LenProperties DEF IInv, Table
<1>3. ctrlMap'[n] \in DOMAIN ctrls' /\ h \notin Starters
  BY <1>1, HandlersAssumption DEF Table
<1>4. has' \in [Starters \cup Receivers -> 0 .. Len(ctrls')]
  BY <1>1, <1>2, <1>3 DEF IInv, Locked
<1>5. \A k \in Starters \cup Receivers : pc'[k] = "send" => has'[k] \in DOMAIN ctrls'
  BY <1>1, <1>2, <1>3 DEF IInv, Locked
<1>6. Locked'
  BY <1>3, <1>4, <1>5 DEF IInv, Locked
<1>7. Started'
  BY <1>1 DEF IInv, Started, Table
<1> QED
  BY <1>1, <1>6, <1>7 DEF IInv

\* A handler that ends changes nothing else.
LEMMA EndKeeps ==
    ASSUME IInv, NEW h \in Starters \cup Receivers, pc' = [pc EXCEPT ![h] = "done"],
           UNCHANGED <<curNumber, ctrlMap, ctrls, holder, has>>
    PROVE  IInv'
<1>1. Table(curNumber, ctrlMap, ctrls)' /\ Started'
  BY DEF IInv, Started
<1>2. Locked'
  BY DEF IInv, Locked
<1> QED
  BY <1>1, <1>2 DEF IInv

\* StartController up to its send: the heights below are taken off the table, and the
\* handler keeps the mutex.
LEMMA StartLockKeeps ==
    ASSUME IInv, NEW h \in Starters, StartLock(h)
    PROVE  IInv'
<1> DEFINE n == StartNumber[h]
<1>1. n \in Nat /\ curNumber \in Nat /\ h # "free"
  BY HandlersAssumption DEF IInv, Table
<1>2. CASE StartIsOld(n)
  <2>1. pc' = [pc EXCEPT ![h] = "done"] /\ UNCHANGED <<curNumber, ctrlMap, ctrls, holder, has>>
    BY <1>2 DEF StartLock
  <2> QED
    BY <2>1, EndKeeps
<1>3. CASE ~StartIsOld(n)
  <2>1. NewCurNumber(n) = n /\ n >= curNumber
    BY <1>1, <1>3 DEF StartIsOld, NewCurNumber
  <2>2. /\ holder = "free" /\ curNumber' = n /\ fixAndGet(n, n) /\ holder' = h
        /\ has' = [has EXCEPT ![h] = ctrlMap'[n]] /\ pc' = [pc EXCEPT ![h] = "send"]
    BY <1>3, <2>1 DEF StartLock
  <2>3. Table(n, ctrlMap', ctrls') /\ n \in DOMAIN ctrlMap' /\ Len(ctrls') >= Len(ctrls)
    BY <1>1, <2>1, <2>2, FixAndGetKeeps DEF IInv
  <2>4. /\ Len(ctrls) \in Nat /\ Len(ctrls') \in Nat
        /\ DOMAIN ctrls = 1 .. Len(ctrls) /\ DOMAIN ctrls' = 1 .. Len(ctrls')
    BY <2>3, LenProperties DEF IInv, Table
  <2> HIDE DEF n
  <2>5. ctrlMap'[n] \in DOMAIN ctrls'
    BY <2>3 DEF Table
  <2>6. has' \in [Starters \cup Receivers -> 0 .. Len(ctrls')]
    BY <2>2, <2>3, <2>4, <2>5 DEF IInv, Locked
  <2>7. \A k \in Starters \cup Receivers : pc'[k] = "send" => has'[k] \in DOMAIN ctrls'
    BY <2>2, <2>3, <2>4, <2>5 DEF IInv, Locked
  <2>8. \A k \in Starters : pc'[k] = "send" => holder' = k
    BY <1>1, <2>2, HandlersAssumption DEF IInv, Locked
  <2>9. Locked'
    BY <2>2, <2>3, <2>6, <2>7, <2>8 DEF IInv, Locked
  <2>10. Started'
    BY <1>1, <2>2 DEF Started
  <2> QED
    BY <2>2, <2>3, <2>9, <2>10 DEF IInv
<1> QED
  BY <1>2, <1>3

\* The send of StartController, and the unlock.
LEMMA StartSendKeeps ==
    ASSUME IInv, NEW h \in Starters, StartSend(h)
    PROVE  IInv'
<1>1. holder = h /\ h # "free" /\ has[h] \in DOMAIN ctrls
  BY HandlersAssumption DEF IInv, Locked, StartSend
<1>2. curNumber \in DOMAIN ctrlMap /\ has[h] = ctrlMap[curNumber]
  BY <1>1 DEF IInv, Locked
<1>3. /\ Table(curNumber, ctrlMap, ctrls') /\ Len(ctrls') = Len(ctrls)
      /\ DOMAIN ctrls' = DOMAIN ctrls /\ HasStart(ctrls'[has[h]])
  BY <1>1, ReceiveKeeps DEF IInv, StartSend
<1>4. \A k \in Starters : pc'[k] # "send"
  BY <1>1 DEF IInv, Locked, StartSend
<1>5. Locked'
  BY <1>3, <1>4 DEF IInv, Locked, StartSend
<1>6. Started'
  BY <1>2, <1>3 DEF Started, StartSend
<1> QED
  BY <1>3, <1>5, <1>6 DEF IInv, StartSend

\* GetController refuses a number or hands out its controller.
LEMMA GetKeeps ==
    ASSUME IInv, NEW h \in Receivers, GetController(h)
    PROVE  IInv'
<1>1. CASE isLegalNumber(MsgNumber[h])
  <2>1. MsgNumber[h] \in Nat /\ MsgNumber[h] >= curNumber
    BY <1>1, HandlersAssumption DEF isLegalNumber
  <2> QED
    BY <1>1, <2>1, AskKeeps DEF GetController
<1>2. CASE ~isLegalNumber(MsgNumber[h])
  BY <1>2, EndKeeps DEF GetController
<1> QED
  BY <1>1, <1>2

\* The handler of an inquiry asks for the current controller first.
LEMMA InquiryKeeps ==
    ASSUME IInv, NEW h \in Receivers, InquiryGetCur(h)
    PROVE  IInv'
<1>1. curNumber \in Nat /\ curNumber >= curNumber
  BY DEF IInv, Table
<1>2. CASE curNumber > MsgNumber[h]
  <2>1. /\ getController(curNumber) /\ holder = "free" /\ UNCHANGED <<curNumber, holder>>
        /\ has' = [has EXCEPT ![h] = ctrlMap'[curNumber]] /\ pc' = [pc EXCEPT ![h] = "send"]
    BY <1>2 DEF InquiryGetCur
  <2> QED
    BY <1>1, <2>1, AskKeeps
<1>3. CASE ~(curNumber > MsgNumber[h])
  <2>1. /\ getController(curNumber) /\ holder = "free" /\ UNCHANGED <<curNumber, holder, has>>
        /\ pc' = [pc EXCEPT ![h] = "get"]
    BY <1>3 DEF InquiryGetCur
  <2> QED
    BY <1>1, <2>1, AskKeeps
<1> QED
  BY <1>2, <1>3

\* ReceiveMsg of a message handler, without the mutex.
LEMMA SendKeeps ==
    ASSUME IInv, NEW h \in Receivers, Send(h)
    PROVE  IInv'
<1>1. has[h] \in DOMAIN ctrls
  BY DEF IInv, Locked, Send
<1>2. /\ Table(curNumber, ctrlMap, ctrls') /\ Len(ctrls') = Len(ctrls)
      /\ DOMAIN ctrls' = DOMAIN ctrls
      /\ \A d \in DOMAIN ctrls : HasStart(ctrls[d]) => HasStart(ctrls'[d])
  BY <1>1, ReceiveKeeps DEF IInv, Send
<1>3. /\ pc' \in [Starters \cup Receivers -> {"begin", "get", "send", "done"}]
      /\ \A k \in Starters \cup Receivers : pc'[k] = "send" => pc[k] = "send"
  BY DEF IInv, Locked, Send
<1> QED
  BY <1>2, <1>3, ChannelKeeps DEF Send

-------------------------------------------------------------------------------
\* Every step keeps the invariant.
LEMMA NextKeeps ==
    ASSUME IInv, [Next]_vars PROVE IInv'
<1>1. ASSUME NEW h \in Starters, StartLock(h) PROVE IInv'
  BY <1>1, StartLockKeeps
<1>2. ASSUME NEW h \in Starters, StartSend(h) PROVE IInv'
  BY <1>2, StartSendKeeps
<1>3. ASSUME NEW h \in Receivers, GetController(h) PROVE IInv'
  BY <1>3, GetKeeps
<1>4. ASSUME NEW h \in Receivers, InquiryGetCur(h) PROVE IInv'
  BY <1>4, InquiryKeeps
<1>5. ASSUME NEW h \in Receivers, Send(h) PROVE IInv'
  BY <1>5, SendKeeps
<1>6. pc \in [Starters \cup Receivers -> {"begin", "get", "send", "done"}]
  BY DEF IInv, Locked
<1>7. ASSUME NEW c \in DOMAIN ctrls, Run(c) PROVE IInv'
  BY <1>6, <1>7, RunKeeps, ChannelKeeps DEF IInv, Run
<1>8. ASSUME NEW c \in DOMAIN ctrls, Quit(c) PROVE IInv'
  BY <1>6, <1>8, QuitKeeps, ChannelKeeps DEF IInv, Quit
<1>9. CASE UNCHANGED vars
  BY <1>9 DEF IInv, Table, Locked, Started, vars
<1> QED
  BY <1>1, <1>2, <1>3, <1>4, <1>5, <1>7, <1>8, <1>9 DEF Next

\* The inductive invariant holds in every reachable state.
LEMMA Inductive == Spec => []IInv
<1>1. ASSUME Init PROVE IInv
  <2>1. Len(ctrls) = 0 /\ ctrls \in Seq(Controller) /\ DOMAIN ctrls = {} /\ DOMAIN ctrlMap = {}
    BY <1>1 DEF Init
  <2>2. Table(curNumber, ctrlMap, ctrls) /\ Started
    BY <1>1, <2>1 DEF Init, Table, Started
  <2>3. Locked
    BY <1>1, <2>1 DEF Init, Locked
  <2> QED
    BY <2>2, <2>3 DEF IInv
<1> QED
  BY <1>1, NextKeeps, PTL DEF Spec

\* A height has one controller for good, whatever handlers ask for and in whatever order
\* (getController, fixCtrlMap).
THEOREM HeightsHaveOneController == Spec => []OneControllerPerHeight
<1>1. IInv => OneControllerPerHeight
  BY DEF IInv, Table, OneControllerPerHeight
<1> QED
  BY <1>1, Inductive, PTL

\* Whenever the mutex is free, the controller of the current height is open and has its
\* start message or has it in its channel (StartController).
THEOREM CurrentControllerIsStarted == Spec => []CurrentIsStarted
<1>1. ASSUME IInv PROVE CurrentIsStarted
  BY <1>1 DEF IInv, Table, Started, HasStart, CurrentIsStarted
<1> QED
  BY <1>1, Inductive, PTL
===============================================================================
