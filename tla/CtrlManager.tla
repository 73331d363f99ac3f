------------------------------ MODULE CtrlManager ------------------------------
(***************************************************************************)
(* The table of leader controllers by height (verifier/ctrlManager.go) and *)
(* the handlers of leaderReElection.go that use it, each a goroutine.      *)
(*                                                                         *)
(* A controller has a channel of bounded capacity and a goroutine that     *)
(* reads it until the controller is closed.  StartController sends on that *)
(* channel while it holds the table's mutex; the other handlers let the    *)
(* mutex go first, so the controller they got may be closed by then, and   *)
(* nobody reads a closed controller's channel.  What a controller does with*)
(* a message is the subject of LeaderCtrl and Reelect.                     *)
(***************************************************************************)
EXTENDS Integers, Sequences, FiniteSets

CONSTANTS
    StartNumber,   \* StartNumber[h]: height that start handler h starts
    MsgNumber,     \* MsgNumber[h]: height of the message of handler h
    Inquiries,     \* message handlers that handle an inquiry
    Capacity       \* capacity of msgCh (10 in the code)

ASSUME CapacityAssumption == Capacity \in Nat \ {0}

Starters == DOMAIN StartNumber
Receivers == DOMAIN MsgNumber

ASSUME HandlersAssumption ==
    /\ Starters \cap Receivers = {} /\ "free" \notin Starters
    /\ \A h \in Starters : StartNumber[h] \in Nat
    /\ \A h \in Receivers : MsgNumber[h] \in Nat

VARIABLES
    curNumber,     \* cm.curNumber
    ctrlMap,       \* cm.ctrlMap: height -> controller
    ctrls,         \* the controllers created so far
    holder,        \* the handler that holds cm.mu across a step, or "free"
    pc,            \* pc[h]: next step of handler h
    has            \* has[h]: the controller handler h sends to

vars == <<curNumber, ctrlMap, ctrls, holder, pc, has>>

Controller == [number : Nat, queue : Seq({"start", "msg"}), started : BOOLEAN,
               closed : BOOLEAN, ended : BOOLEAN]

newController(n) ==
    [number |-> n, queue |-> <<>>, started |-> FALSE, closed |-> FALSE, ended |-> FALSE]

Init ==
    /\ curNumber = 0
    /\ ctrlMap = <<>>
    /\ ctrls = <<>>
    /\ holder = "free"
    /\ pc = [h \in Starters \cup Receivers |-> "begin"]
    /\ has = [h \in Starters \cup Receivers |-> 0]

-------------------------------------------------------------------------------
(***************************************************************************)
(* The table and a controller's channel.                                   *)
(***************************************************************************)

isLegalNumber(n) == n >= curNumber /\ n <= curNumber + 2

\* The heights that fixCtrlMap closes and deletes.
Passed(number) == {k \in DOMAIN ctrlMap : k < number}

\* The table and the controllers after fixCtrlMap and then getController(n).
fixAndGet(number, n) ==
    LET gone == Passed(number)
        kept == [k \in DOMAIN ctrlMap \ gone |-> ctrlMap[k]]
        closed == [c \in DOMAIN ctrls |->
                      [ctrls[c] EXCEPT !.closed = @ \/ \E k \in gone : ctrlMap[k] = c]]
    IN  IF n \in DOMAIN kept
        THEN ctrlMap' = kept /\ ctrls' = closed
        ELSE /\ ctrls' = Append(closed, newController(n))
             /\ ctrlMap' = [k \in DOMAIN kept \cup {n} |->
                               IF k = n THEN Len(ctrls) + 1 ELSE kept[k]]

\* getController, with nothing to fix.
getController(n) == fixAndGet(0, n)

\* Mutant of ReceiveMsg: a message for a full channel is dropped.
ReceiveMsgOrDrop(c, m) ==
    ctrls' = IF Len(ctrls[c].queue) < Capacity
             THEN [ctrls EXCEPT ![c].queue = Append(@, m)] ELSE ctrls

\* ReceiveMsg: the send blocks while the channel is full.
ReceiveMsg(c, m) ==
    /\ Len(ctrls[c].queue) < Capacity
    /\ ctrls' = [ctrls EXCEPT ![c].queue = Append(@, m)]

\* Mutant of Run: messages wait until the controller has been started.
RunOnceStarted(c) ==
    /\ ~ctrls[c].ended
    /\ ctrls[c].queue # <<>>
    /\ ctrls[c].started \/ Head(ctrls[c].queue) = "start"
    /\ ctrls' = [ctrls EXCEPT ![c].queue = Tail(@), ![c].started = TRUE]
    /\ UNCHANGED <<curNumber, ctrlMap, holder, pc, has>>

\* run: the controller reads its channel; once it is closed, the select may still choose
\* a message before it chooses quitCh.
Run(c) ==
    /\ ~ctrls[c].ended
    /\ ctrls[c].queue # <<>>
    /\ ctrls' = [ctrls EXCEPT ![c].queue = Tail(@),
                              ![c].started = @ \/ Head(ctrls[c].queue) = "start"]
    /\ UNCHANGED <<curNumber, ctrlMap, holder, pc, has>>

Quit(c) ==
    /\ ctrls[c].closed /\ ~ctrls[c].ended
    /\ ctrls' = [ctrls EXCEPT ![c].ended = TRUE]
    /\ UNCHANGED <<curNumber, ctrlMap, holder, pc, has>>

-------------------------------------------------------------------------------
(***************************************************************************)
(* StartController, called for a new block and for a new role.             *)
(***************************************************************************)

\* Mutant of StartIsOld: a start for a lower height is not refused.
StartIsNeverOld(number) == FALSE

StartIsOld(number) == curNumber > number

\* The current number once a start message for number is not refused.
NewCurNumber(number) == IF curNumber < number THEN number ELSE curNumber

\* The part of StartController before its send; the mutex stays locked.
StartLock(h) ==
    LET number == StartNumber[h]
    IN  /\ pc[h] = "begin" /\ holder = "free"
        /\ IF StartIsOld(number)
           THEN /\ pc' = [pc EXCEPT ![h] = "done"]
                /\ UNCHANGED <<curNumber, ctrlMap, ctrls, holder, has>>
           ELSE /\ curNumber' = NewCurNumber(number)
                /\ fixAndGet(NewCurNumber(number), number)
                /\ has' = [has EXCEPT ![h] = ctrlMap'[number]]
                /\ holder' = h
                /\ pc' = [pc EXCEPT ![h] = "send"]

\* Its send, and the unlock.
StartSend(h) ==
    /\ pc[h] = "send"
    /\ ReceiveMsg(has[h], "start")
    /\ holder' = "free"
    /\ pc' = [pc EXCEPT ![h] = "done"]
    /\ UNCHANGED <<curNumber, ctrlMap, has>>

-------------------------------------------------------------------------------
(***************************************************************************)
(* The handlers of messages of a height.                                   *)
(***************************************************************************)

\* GetController: a refused number ends the handler.
GetController(h) ==
    /\ pc[h] = (IF h \in Inquiries THEN "get" ELSE "begin")
    /\ holder = "free"
    /\ IF isLegalNumber(MsgNumber[h])
       THEN /\ getController(MsgNumber[h])
            /\ has' = [has EXCEPT ![h] = ctrlMap'[MsgNumber[h]]]
            /\ pc' = [pc EXCEPT ![h] = "send"]
       ELSE /\ pc' = [pc EXCEPT ![h] = "done"]
            /\ UNCHANGED <<ctrlMap, ctrls, has>>
    /\ UNCHANGED <<curNumber, holder>>

\* The handler of an inquiry asks for the current controller first: it answers an inquiry
\* of a lower height itself.
InquiryGetCur(h) ==
    /\ h \in Inquiries /\ pc[h] = "begin" /\ holder = "free"
    /\ getController(curNumber)
    /\ IF curNumber > MsgNumber[h]
       THEN /\ has' = [has EXCEPT ![h] = ctrlMap'[curNumber]]
            /\ pc' = [pc EXCEPT ![h] = "send"]
       ELSE /\ pc' = [pc EXCEPT ![h] = "get"]
            /\ UNCHANGED has
    /\ UNCHANGED <<curNumber, holder>>

\* ReceiveMsg of such a handler, without the mutex.
Send(h) ==
    /\ pc[h] = "send"
    /\ ReceiveMsg(has[h], "msg")
    /\ pc' = [pc EXCEPT ![h] = "done"]
    /\ UNCHANGED <<curNumber, ctrlMap, holder, has>>

Next ==
    \/ \E h \in Starters : StartLock(h) \/ StartSend(h)
    \/ \E h \in Receivers : GetController(h) \/ InquiryGetCur(h) \/ Send(h)
    \/ \E c \in DOMAIN ctrls : Run(c) \/ Quit(c)

\* Goroutines are scheduled: a handler that can go on does, and an open controller reads
\* its channel.  Nothing makes the select of a closed controller choose a message.
Fairness ==
    /\ \A h \in Starters : WF_vars(StartLock(h) \/ StartSend(h))
    /\ \A h \in Receivers : WF_vars(GetController(h) \/ InquiryGetCur(h) \/ Send(h))
    /\ \A c \in 1 .. Cardinality(Starters \cup Receivers) :
           WF_vars(c \in DOMAIN ctrls /\ (Run(c) \/ Quit(c)))

Spec == Init /\ [][Next]_vars /\ Fairness

-------------------------------------------------------------------------------

\* A height has one controller for good: the current number never falls, so a height
\* whose controller was closed is never asked for again, and no second controller votes
\* in a turn of it.
OneControllerPerHeight ==
    \A c, d \in DOMAIN ctrls : ctrls[c].number = ctrls[d].number => c = d

\* When StartController is done, the controller of the current height is open and has
\* its start message, or has it ahead in its channel: no later start or message closes
\* it in between.
CurrentIsStarted ==
    holder = "free" /\ curNumber > 0 =>
        /\ curNumber \in DOMAIN ctrlMap
        /\ LET c == ctrls[ctrlMap[curNumber]]
           IN  ~c.closed /\ (c.started \/ \E i \in DOMAIN c.queue : c.queue[i] = "start")

\* The send under the mutex ends: the controller it waits for is open and reads, since
\* only a holder of the mutex could close it.
LockIsReleased == \A h \in Starters : (holder = h) ~> (holder = "free")

===============================================================================
