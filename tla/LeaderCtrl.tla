------------------------------ MODULE LeaderCtrl ------------------------------
(***************************************************************************)
(* The leader controller of one height on one validator (verifier/cdc.go,  *)
(* ctrlHandle.go, controller.go and the local part of ctrlReelection.go):  *)
(* its state, its turns, its clock and its two timers.  The messages that  *)
(* the validators exchange are the subject of Reelect; here a result of    *)
(* their exchange arrives as a message.                                    *)
(*                                                                         *)
(* Time is in seconds, as in the code.  A timer is a Go timer: when it     *)
(* expires it puts a value in its channel, where it waits for the run loop.*)
(***************************************************************************)
EXTENDS LeaderTurns, FiniteSets

CONSTANTS
    Validators,        \* number of validators
    SelfIndex,         \* place of this node in the list of leaders
    ReelectInterval,   \* man.LRSReelectInterval
    MaxLate,           \* seconds the run loop may leave an expired timer waiting
    MaxTurn,           \* bound: consensus turns
    MaxTime            \* bound: seconds

NoMaster == -1
Turns == 0 .. MaxTurn

VARIABLES
    now,           \* time.Now().Unix()
    broadcast,     \* the height is a broadcast number
    known,         \* SetValidators has succeeded
    dc,            \* state, turns and master of the cdc
    beginTimes,    \* turnTimes.beginTimes
    posNotifyCache,\* msgPool.posNotifyCache: the turns of the cached messages
    timer, reelectTimer,
    published,     \* the last LeaderChangeNotify
    posResults     \* turns whose POS result was adopted from a broadcast (history)

vars == <<now, broadcast, known, dc, beginTimes, posNotifyCache, timer, reelectTimer,
          published, posResults>>

Stopped == [active |-> FALSE, at |-> 0, fired |-> FALSE]

Init ==
    /\ now = 0
    /\ broadcast \in BOOLEAN
    /\ known = FALSE
    /\ dc = [state |-> "stIdle", turn |-> 0, reelect |-> 0, master |-> NoMaster]
    /\ beginTimes = <<>>
    /\ posNotifyCache = {}
    /\ timer = Stopped /\ reelectTimer = Stopped
    /\ published = [turn |-> 0, reelect |-> 0, consensus |-> TRUE]
    /\ posResults = {}

-------------------------------------------------------------------------------
(***************************************************************************)
(* Timers and begin times.                                                 *)
(***************************************************************************)

\* Mutant of setTimer: it drains the channel whatever Stop and Reset returned, and
\* rearms the timer only if it had not expired.
setTimerIfActive(t, outTime) ==
    IF outTime > 0 /\ t.active THEN {[active |-> TRUE, at |-> now + outTime, fired |-> FALSE]}
    ELSE {Stopped}

\* What setTimer may leave.  A negative time expires at once; if the timer was not
\* active, the loop that drains the channel may take that expiry or miss it.
setTimer(t, outTime) ==
    LET expired == [active |-> FALSE, at |-> now, fired |-> TRUE]
    IN  CASE outTime = 0 -> {Stopped}
          [] outTime > 0 -> {[active |-> TRUE, at |-> now + outTime, fired |-> FALSE]}
          [] outTime < 0 -> IF t.active THEN {expired} ELSE {expired, Stopped}

GetBeginTime(begins, turn) == IF turn \in DOMAIN begins THEN begins[turn] ELSE 0

\* SetBeginTime: a turn's begin only ever gets later.
SetBeginTime(begins, turn, time) ==
    IF turn \in DOMAIN begins /\ time <= begins[turn] THEN begins
    ELSE [t \in DOMAIN begins \cup {turn} |-> IF t = turn THEN time ELSE begins[t]]

\* Time goes on unless an expired timer has waited as long as it may.
Tick ==
    /\ now < MaxTime
    /\ \A t \in {timer, reelectTimer} : t.fired => now - t.at < MaxLate
    /\ now' = now + 1
    /\ LET Expire(t) == IF t.active /\ t.at <= now + 1
                        THEN [active |-> FALSE, at |-> now + 1, fired |-> TRUE] ELSE t
       IN  timer' = Expire(timer) /\ reelectTimer' = Expire(reelectTimer)
    /\ UNCHANGED <<broadcast, known, dc, beginTimes, posNotifyCache, published, posResults>>

-------------------------------------------------------------------------------
(***************************************************************************)
(* Steps that several handlers share; c is the cdc before them.            *)
(***************************************************************************)

SelfLeads(turn) == turn % Validators = SelfIndex

\* sendLeaderMsg publishes the cdc as the handler leaves it.
sendLeaderMsg ==
    published' = [turn |-> dc'.turn, reelect |-> dc'.reelect,
                  consensus |-> dc'.state # "stReelect"]

\* GetPOSNotifyMsg compares each cached message with itself.
GetPOSNotifyMsg(cache, turn) == cache # {}

processPOSState(c, cache) ==
    IF c.state = "stPos" /\ GetPOSNotifyMsg(cache, c.turn)
    THEN [c EXCEPT !.state = "stMining"] ELSE c

SetReelectTurn(c, reelectTurn) ==
    [c EXCEPT !.reelect = reelectTurn,
              !.master = CASE c.reelect = reelectTurn -> c.master
                           [] reelectTurn = 0 -> NoMaster
                           [] OTHER -> c.turn + reelectTurn]

\* startReelect: the master's timer runs, a follower's is stopped.
reelectTimerFor(turn) ==
    IF SelfLeads(turn) THEN setTimer(reelectTimer, ReelectInterval)
    ELSE setTimer(reelectTimer, 0)

\* startReelect, for a cdc in stReelect.
startReelect(c, reelectTurn) ==
    IF c.reelect = reelectTurn
    THEN dc' = c /\ UNCHANGED <<reelectTimer, published>>
    ELSE /\ dc' = SetReelectTurn(c, reelectTurn)
         /\ reelectTimer' \in reelectTimerFor(c.turn + reelectTurn)
         /\ sendLeaderMsg

\* The common end of handleStartMsg and finishReelectWithRLConsensus: the state that the
\* clock gives the turn, its timer, and the announcement.
EnterTurn(c, begins, stopReelect) ==
    LET cal == CalState(GetBeginTime(begins, c.turn), c.turn, now)
        d == [c EXCEPT !.state = cal.st, !.reelect = 0]
    IN  /\ timer' \in setTimer(timer, cal.remainTime)
        /\ IF cal.st = "stPos"
           THEN /\ dc' = processPOSState(d, posNotifyCache)
                /\ reelectTimer' = IF stopReelect THEN Stopped ELSE reelectTimer
           ELSE /\ dc' = SetReelectTurn(d, cal.reelectTurn)
                /\ reelectTimer' \in reelectTimerFor(c.turn + cal.reelectTurn)

-------------------------------------------------------------------------------
(***************************************************************************)
(* The handlers.                                                           *)
(***************************************************************************)

\* handleStartMsg on a validator; SetValidators may fail.
handleStartMsg(parentTime) ==
    \/ /\ broadcast
       /\ known' = TRUE
       /\ dc' = [dc EXCEPT !.state = "stIdle"]
       /\ sendLeaderMsg
       /\ UNCHANGED <<now, broadcast, beginTimes, posNotifyCache, timer, reelectTimer,
                      posResults>>
    \/ /\ ~broadcast
       /\ known' = TRUE
       /\ beginTimes' = SetBeginTime(beginTimes, 0, parentTime)
       /\ IF beginTimes' # beginTimes /\ dc.turn = 0
          THEN EnterTurn(dc, beginTimes', FALSE)
          ELSE UNCHANGED <<dc, timer, reelectTimer>>
       /\ sendLeaderMsg
       /\ UNCHANGED <<now, broadcast, posNotifyCache, posResults>>

\* handleBlockPOSFinishedNotify for the block of a turn.
handleBlockPOSFinishedNotify(turn) ==
    /\ posNotifyCache' = posNotifyCache \cup {turn}
    /\ dc' = processPOSState(dc, posNotifyCache')
    /\ UNCHANGED <<now, broadcast, known, beginTimes, timer, reelectTimer, published,
                   posResults>>

\* timeOutHandle: the next re-election turn, with the time until its end.
timeOutHandle ==
    LET consumed == [timer EXCEPT !.fired = FALSE]
        next == IF dc.state = "stPos" THEN 1 ELSE dc.reelect + 1
        remainTime == CalRemainTime(GetBeginTime(beginTimes, dc.turn), dc.turn, next, now)
    IN  /\ timer.fired
        /\ IF dc.state \in {"stPos", "stReelect"}
           THEN /\ timer' \in setTimer(consumed, remainTime)
                /\ startReelect([dc EXCEPT !.state = "stReelect"], next)
           ELSE timer' = consumed /\ UNCHANGED <<dc, reelectTimer, published>>
        /\ UNCHANGED <<now, broadcast, known, beginTimes, posNotifyCache, posResults>>

\* reelectTimeOutHandle: a master sends again, whatever it has to send.
reelectTimeOutHandle ==
    /\ reelectTimer.fired
    /\ reelectTimer' \in IF dc.state = "stReelect"
                         THEN setTimer([reelectTimer EXCEPT !.fired = FALSE], ReelectInterval)
                         ELSE {[reelectTimer EXCEPT !.fired = FALSE]}
    /\ UNCHANGED <<now, broadcast, known, dc, beginTimes, posNotifyCache, timer, published,
                   posResults>>

\* finishReelectWithPOS, for the block of a turn with the leader of the own turn.
finishReelectWithPOS(turn) ==
    /\ known /\ ~broadcast
    /\ turn % Validators = dc.turn % Validators
    /\ timer' \in setTimer(timer, 0)
    /\ reelectTimer' \in setTimer(reelectTimer, 0)
    /\ dc' = SetReelectTurn([dc EXCEPT !.state = "stMining"], 0)
    /\ posResults' = posResults \cup {turn}
    /\ sendLeaderMsg
    /\ UNCHANGED <<now, broadcast, known, beginTimes, posNotifyCache>>

TargetTurn(consensusTurn, reelectTurn) == consensusTurn + reelectTurn

\* finishReelectWithRLConsensus: the turn that a quorum voted for, with the time of the
\* master's request.  A result for the own turn is taken once more.
finishReelectWithRLConsensus(consensusTurn, reelectTurn, timeStamp) ==
    LET turn == TargetTurn(consensusTurn, reelectTurn)
    IN  /\ known /\ ~broadcast
        /\ turn >= dc.turn
        /\ beginTimes' = SetBeginTime(beginTimes, turn, timeStamp)
        /\ EnterTurn([dc EXCEPT !.turn = turn, !.reelect = 0, !.master = NoMaster],
                     beginTimes', TRUE)
        /\ sendLeaderMsg
        /\ UNCHANGED <<now, broadcast, known, posNotifyCache, posResults>>

Next ==
    \/ Tick
    \/ \E time \in 0 .. now : handleStartMsg(time)
    \/ \E turn \in Turns : handleBlockPOSFinishedNotify(turn)
    \/ timeOutHandle
    \/ reelectTimeOutHandle
    \/ \E turn \in Turns : finishReelectWithPOS(turn)
    \/ \E consensusTurn \in Turns, reelectTurn \in 1 .. MaxTurn, time \in 0 .. now :
           /\ consensusTurn + reelectTurn <= MaxTurn
           /\ finishReelectWithRLConsensus(consensusTurn, reelectTurn, time)

Spec == Init /\ [][Next]_vars

-------------------------------------------------------------------------------
\* The timers match the state, whichever handler changed it last.  While a controller
\* waits for a block or for a re-election, its timer runs or its expiry waits to be
\* handled: no setTimer stops it or swallows its expiry.  During a re-election exactly
\* the master of the turn has a running re-election timer: a master never stops repeating
\* its messages, and a follower never starts.
TimersMatchState ==
    /\ dc.state \in {"stPos", "stReelect"} => timer.active \/ timer.fired
    /\ dc.state = "stReelect" =>
           (SelfLeads(dc.turn + dc.reelect) <=> (reelectTimer.active \/ reelectTimer.fired))

\* The controller waits for mining results only when the block of its own leader and
\* turn has its POS, by a notification or by the result of a re-election.
MiningHasPos ==
    dc.state = "stMining" =>
        \/ dc.turn \in posNotifyCache
        \/ \E t \in posResults : t % Validators = dc.turn % Validators

===============================================================================
