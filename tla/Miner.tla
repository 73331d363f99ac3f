--------------------------------- MODULE Miner ---------------------------------
(***************************************************************************)
(* A miner's work on mining requests (miner/worker.go, mineReqCtrl.go,     *)
(* agent.go).                                                              *)
(*                                                                         *)
(* The update loop takes role updates and mining requests; the wait loop   *)
(* takes what the agent has mined.  The two share the request cache, the   *)
(* current request and the sender of results without a lock, so a handler  *)
(* is cut here where the other loop can get in between with an effect:     *)
(* after the choice of a request, after it is made current, and between    *)
(* the storing of a result and the start of its sender.  The agent is a    *)
(* goroutine that starts and cancels sealings; a sealing that is cancelled *)
(* may still deliver what it has just found.                               *)
(*                                                                         *)
(* A mining request is an id; its number, time and validity are constants. *)
(***************************************************************************)
EXTENDS Integers, Sequences, FiniteSets

CONSTANTS
    Numbers,       \* block numbers, 1 .. the last
    Broadcast,     \* the broadcast numbers among them
    Roles,         \* Roles[n]: the roles that may be announced for number n
    Reqs,          \* mining requests
    Number,        \* Number[r]: the number of r's header
    ReqTime,       \* ReqTime[r]: the time of r's header
    Valid,         \* requests that pass checkMineReq
    MaxMessages    \* bound: role updates and requests received

None == 0

VARIABLES
    ctrl,          \* mineReqCtrl: num, role, cur, cache, future; and the mined requests
    mining,        \* worker.mining
    loop,          \* the update loop: where it is, and with which request
    wait,          \* the wait loop: the request whose result it has just stored
    agent,         \* on: isMining; alive: its goroutines; stop and work: its channels;
                   \* op: the sealing that runs; dying: sealings that were cancelled
    recv,          \* results on their way to the wait loop
    sender,        \* mineResultSender: the request whose result it sends
    messages,      \* messages received
    hist           \* failed: sealings that failed;
                   \* last: the last result stored; raced: the agent was started before
                   \* its old goroutine had seen the stop; sent: results sent

vars == <<ctrl, mining, loop, wait, agent, recv, sender, messages, hist>>

Init ==
    /\ ctrl = [num |-> 0, role |-> "nil", cur |-> None, cache |-> {}, future |-> {}, mined |-> {}]
    /\ mining = FALSE
    /\ loop = [pc |-> "idle", req |-> None]
    /\ wait = None
    /\ agent = [on |-> FALSE, alive |-> 0, stop |-> FALSE, work |-> None, op |-> None, dying |-> {}]
    /\ recv = <<>>
    /\ sender = None
    /\ messages = 0
    /\ hist = [failed |-> {}, last |-> None, raced |-> FALSE, sent |-> {}]

\* roleCanMine.
RoleCanMine(role, n) == IF n \in Broadcast THEN role = "broadcast"
                        ELSE role \in {"miner", "innerMiner"}

-------------------------------------------------------------------------------

\* fixMap: the cache takes the valid requests for the number that came early.
FixMap(c) == [c EXCEPT !.cache = {r \in c.future \cap Valid : Number[r] = c.num},
                       !.future = {r \in @ : Number[r] # c.num}]

\* SetNewNumber.  The current request stays.
SetNewNumber(n, role) ==
    IF n < ctrl.num THEN ctrl
    ELSE IF n = ctrl.num THEN [ctrl EXCEPT !.role = role]
    ELSE FixMap([ctrl EXCEPT !.num = n, !.role = role])

\* CpuAgent.Start in StartAgent.
StartAgent ==
    /\ mining' = TRUE
    /\ agent' = IF agent.on THEN agent ELSE [agent EXCEPT !.on = TRUE, !.alive = @ + 1]

\* CpuAgent.Stop in StopAgent: the signal goes into a channel of one place, and
\* work that waits is dropped.
StopAgent ==
    /\ mining' = FALSE
    /\ IF mining /\ agent.on
       THEN /\ ~agent.stop
            /\ agent' = [agent EXCEPT !.on = FALSE, !.stop = TRUE, !.work = None]
       ELSE agent' = agent

\* The first checks of beginMine: a current request that is not mined and not older
\* keeps its place.
Displaces(r, c) == c.cur = None \/ c.cur \in c.mined \/ ReqTime[c.cur] < ReqTime[r]

BeginMine(r, c, running) ==
    IF running /\ Displaces(r, c) THEN [pc |-> "set", req |-> r] ELSE [pc |-> "idle", req |-> None]

\* GetUnMinedReq takes any of these: it is the first of a Go map.
UnMined(c) == c.cache \ c.mined

\* processMineReq.
ProcessMineReq(c) == IF UnMined(c) = {} THEN {[pc |-> "idle", req |-> None]}
                     ELSE {BeginMine(r, c, TRUE) : r \in UnMined(c)}

\* processAppointedMineReq for a request that is not mined.
ProcessAppointed(r, c) == IF RoleCanMine(c.role, c.num) /\ r \notin c.mined
                          THEN BeginMine(r, c, mining) ELSE [pc |-> "idle", req |-> None]

\* Mutant of StopSender: it is stopped by every role update.
StopSenderAlways(n) == None

\* The first lines of RoleUpdatedMsgHandler.
StopSender(n) == IF n > ctrl.num THEN None ELSE sender

\* RoleUpdatedMsgHandler for the height n.
RoleUpdated(n, role) ==
    /\ loop.pc = "idle" /\ messages < MaxMessages
    /\ messages' = messages + 1
    /\ sender' = StopSender(n)
    /\ ctrl' = SetNewNumber(n, role)
    /\ IF RoleCanMine(ctrl'.role, ctrl'.num)
       THEN /\ StartAgent
            /\ loop' \in ProcessMineReq(ctrl')
            /\ hist' = [hist EXCEPT !.raced = @ \/ (~agent.on /\ agent.stop)]
       ELSE StopAgent /\ UNCHANGED <<loop, hist>>
    /\ UNCHANGED <<wait, recv>>

(***************************************************************************)
(* MiningRequestHandle and BroadcastHashLocalMiningReqMsgHandle, with      *)
(* AddMineReq and processAppointedMineReq: a request for a later number is *)
(* kept, one for an earlier number refused.  A request that is mined       *)
(* already has its result sent again.                                      *)
(***************************************************************************)
MiningRequest(r) ==
    /\ loop.pc = "idle" /\ messages < MaxMessages
    /\ messages' = messages + 1
    /\ LET taken == Number[r] = ctrl.num /\ (r \in ctrl.cache \/ r \in Valid)
           again == taken /\ r \in ctrl.mined /\ RoleCanMine(ctrl.role, ctrl.num)
       IN  /\ ctrl' = IF Number[r] > ctrl.num THEN [ctrl EXCEPT !.future = @ \cup {r}]
                      ELSE IF taken THEN [ctrl EXCEPT !.cache = @ \cup {r}] ELSE ctrl
           /\ loop' = IF taken THEN ProcessAppointed(r, ctrl) ELSE loop
           /\ hist' = [hist EXCEPT !.sent = IF again THEN @ \cup {r} ELSE @]
    /\ UNCHANGED <<mining, wait, agent, recv, sender>>

\* SetCurrentMineReq.
SetCurrentMineReq ==
    /\ loop.pc = "set"
    /\ IF ctrl.cur = loop.req
       THEN loop' = [loop EXCEPT !.pc = "push"] /\ UNCHANGED ctrl
       ELSE IF loop.req \in ctrl.mined
            THEN loop' = [pc |-> "idle", req |-> None] /\ UNCHANGED ctrl
            ELSE /\ ctrl' = [ctrl EXCEPT !.cur = loop.req]
                 /\ loop' = [loop EXCEPT !.pc = "push"]
    /\ UNCHANGED <<mining, wait, agent, recv, sender, messages, hist>>

\* Mutant of Push: an agent that is at work gets no new work.
PushIfIdle ==
    /\ loop.pc = "push" /\ agent.work = None
    /\ agent' = IF mining /\ agent.op = None THEN [agent EXCEPT !.work = loop.req] ELSE agent
    /\ loop' = [pc |-> "idle", req |-> None]
    /\ UNCHANGED <<ctrl, mining, wait, recv, sender, messages, hist>>

\* CommitNewWork and push; the agent's channel has one place.
Push ==
    /\ loop.pc = "push" /\ agent.work = None
    /\ agent' = IF mining THEN [agent EXCEPT !.work = loop.req] ELSE agent
    /\ loop' = [pc |-> "idle", req |-> None]
    /\ UNCHANGED <<ctrl, mining, wait, recv, sender, messages, hist>>

-------------------------------------------------------------------------------

\* The sealing that runs, if any, is told to stop.
Cancelled == IF agent.op = None THEN agent.dying ELSE agent.dying \cup {agent.op}

\* CpuAgent.update takes work: it cancels the sealing that runs and starts another.
TakeWork ==
    /\ agent.alive > 0 /\ agent.work # None
    /\ agent' = [agent EXCEPT !.work = None, !.op = agent.work, !.dying = Cancelled]
    /\ UNCHANGED <<ctrl, mining, loop, wait, recv, sender, messages, hist>>

\* CpuAgent.update takes the stop signal: it cancels the sealing and ends.
TakeStop ==
    /\ agent.alive > 0 /\ agent.stop
    /\ agent' = [agent EXCEPT !.stop = FALSE, !.alive = @ - 1, !.op = None, !.dying = Cancelled]
    /\ UNCHANGED <<ctrl, mining, loop, wait, recv, sender, messages, hist>>

\* CpuAgent.mine ends with a result, or with none because Seal failed.
Sealed(found) ==
    /\ agent.op # None
    /\ recv' = IF found THEN Append(recv, agent.op) ELSE recv
    /\ hist' = IF found THEN hist ELSE [hist EXCEPT !.failed = @ \cup {agent.op}]
    /\ agent' = [agent EXCEPT !.op = None]
    /\ UNCHANGED <<ctrl, mining, loop, wait, sender, messages>>

\* CpuAgent.mine ends after it was cancelled, usually with no result.
SealedLate(r, found) ==
    /\ r \in agent.dying
    /\ recv' = IF found THEN Append(recv, r) ELSE recv
    /\ agent' = [agent EXCEPT !.dying = @ \ {r}]
    /\ UNCHANGED <<ctrl, mining, loop, wait, sender, messages, hist>>

-------------------------------------------------------------------------------

(***************************************************************************)
(* wait and SetMiningResult: the result of a request that is still in the  *)
(* cache and not mined is stored; it is then no longer current.            *)
(***************************************************************************)
Found ==
    /\ wait = None /\ recv # <<>>
    /\ recv' = Tail(recv)
    /\ LET r == Head(recv) IN
       IF r \in ctrl.cache \ ctrl.mined
       THEN /\ ctrl' = [ctrl EXCEPT !.mined = @ \cup {r}, !.cur = IF @ = r THEN None ELSE @]
            /\ wait' = r
            /\ hist' = [hist EXCEPT !.last = r]
       ELSE UNCHANGED <<ctrl, wait, hist>>
    /\ UNCHANGED <<mining, loop, agent, sender, messages>>

\* startMineResultSender replaces the sender of an earlier result.
StartSender ==
    /\ wait # None
    /\ sender' = wait
    /\ wait' = None
    /\ UNCHANGED <<ctrl, mining, loop, agent, recv, messages, hist>>

\* sendMineResultFunc, called by the sender from time to time.
SendResult ==
    /\ sender # None /\ sender \notin hist.sent
    /\ hist' = [hist EXCEPT !.sent = @ \cup {sender}]
    /\ UNCHANGED <<ctrl, mining, loop, wait, agent, recv, sender, messages>>

Next ==
    \/ \E n \in Numbers : \E role \in Roles[n] : RoleUpdated(n, role)
    \/ \E r \in Reqs : MiningRequest(r)
    \/ SetCurrentMineReq \/ Push
    \/ TakeWork \/ TakeStop
    \/ \E found \in BOOLEAN : Sealed(found) \/ \E r \in agent.dying : SealedLate(r, found)
    \/ Found \/ StartSender \/ SendResult

Spec == Init /\ [][Next]_vars

-------------------------------------------------------------------------------

(***************************************************************************)
(* When the loops and the agent's channels are at rest, the current request*)
(* of the present number is being sealed, unless its sealing failed or the *)
(* agent was started while a stop was still on its way: no interleaving of *)
(* requests, role updates, results and cancelled sealings leaves a request *)
(* current that nobody works on, and so blocks others (beginMine).         *)
(***************************************************************************)
CurrentIsMined ==
    (/\ loop.pc = "idle" /\ wait = None /\ recv = <<>> /\ ~agent.stop /\ agent.work = None
     /\ ~hist.raced /\ mining /\ ctrl.cur \in ctrl.cache \ (ctrl.mined \cup hist.failed))
    => agent.op = ctrl.cur

(***************************************************************************)
(* The last result stored is the one that is sent as long as its number is *)
(* the present one, whatever role updates come in the meantime             *)
(* (RoleUpdatedMsgHandler, startMineResultSender).                         *)
(***************************************************************************)
LastResultIsSent ==
    (wait = None /\ hist.last # None /\ Number[hist.last] = ctrl.num) => sender = hist.last

===============================================================================
