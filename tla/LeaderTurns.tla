------------------------------ MODULE LeaderTurns ------------------------------
(***************************************************************************)
(* The leaders of a height and the times of its turns: the calculations of *)
(* verifier/leaderCal.go and verifier/trunTimes.go as operators.  A list of*)
(* leaders is the Go map from 0 .. n - 1 as a sequence; the empty one stands*)
(* for a list that could not be calculated.                                *)
(***************************************************************************)
EXTENDS Integers, Sequences

CONSTANTS
    BroadcastInterval,   \* every how many blocks the broadcast node makes one (20)
    ReElectionInterval,  \* every how many blocks the topology is elected anew (60)
    BroadCastNode,       \* man.BroadCastNodes[0]
    ParentMiningTime,    \* man.LRSParentMiningTime
    POSOutTime,          \* man.LRSPOSOutTime
    ReelectOutTime       \* man.LRSReelectOutTime

IsBroadcastNumber(number) == number % BroadcastInterval = 0

IsReElectionNumber(number) == number % ReElectionInterval = 0

-------------------------------------------------------------------------------
(***************************************************************************)
(* Leaders.                                                                *)
(***************************************************************************)

NotFound == -1

\* Index of the first validator with the leader's account, from 0.
findLeaderIndex(preLeader, validators) ==
    IF \E i \in DOMAIN validators : validators[i] = preLeader
    THEN (CHOOSE i \in DOMAIN validators :
             /\ validators[i] = preLeader
             /\ \A j \in DOMAIN validators : validators[j] = preLeader => i <= j) - 1
    ELSE NotFound

\* The validators as a list of leaders, from index startPos on and around.
Rotated(validators, startPos) ==
    [i \in DOMAIN validators |-> validators[((startPos + i - 1) % Len(validators)) + 1]]

\* The list starts after the leader before; at a re-election number it starts with the
\* first validator.
calLeaderList(preLeader, validators, number) ==
    LET preIndex == findLeaderIndex(preLeader, validators)
    IN  IF IsReElectionNumber(number) THEN Rotated(validators, 0)
        ELSE IF preIndex = NotFound THEN <<>>
        ELSE Rotated(validators, preIndex + 1)

\* The leader before: a broadcast block is skipped.
PreLeader(number, parentLeader, grandLeader) ==
    IF IsBroadcastNumber(number - 1) /\ number - 1 # 0 THEN grandLeader ELSE parentLeader

InTurn(leaderList, turn) == leaderList[(turn % Len(leaderList)) + 1]

\* GetLeader, for a list that is not empty.
Leader(leaderList, number, turn) ==
    IF IsReElectionNumber(number) \/ IsBroadcastNumber(number) THEN BroadCastNode
    ELSE InTurn(leaderList, turn)

\* Mutant of NextLeader: the turn of the block is not counted.
NextLeaderOfTurnZero(leaderList, number, turn) ==
    CASE IsReElectionNumber(number) \/ IsBroadcastNumber(number) -> InTurn(leaderList, turn)
      [] IsBroadcastNumber(number + 1) -> BroadCastNode
      [] OTHER -> InTurn(leaderList, 1)

NextLeader(leaderList, number, turn) ==
    CASE IsReElectionNumber(number) \/ IsBroadcastNumber(number) -> InTurn(leaderList, turn)
      [] IsBroadcastNumber(number + 1) -> BroadCastNode
      [] OTHER -> InTurn(leaderList, turn + 1)

-------------------------------------------------------------------------------
(***************************************************************************)
(* Times.  A turn begins with the time for the block and its POS; re-election*)
(* turns of equal length follow, numbered from 1.                          *)
(***************************************************************************)

PosTime(consensusTurn) ==
    POSOutTime + (IF consensusTurn = 0 THEN ParentMiningTime ELSE 0)

GetPosEndTime(begin, consensusTurn) == begin + PosTime(consensusTurn)

\* CalState, with the second result of the stReelect case as the code computes it: the
\* time that has passed of the re-election turn, a whole turn if it is none.
CalState(begin, consensusTurn, time) ==
    LET passTime == time - begin
        over == passTime - PosTime(consensusTurn)
    IN  IF passTime < PosTime(consensusTurn)
        THEN [st |-> "stPos", remainTime |-> -over, reelectTurn |-> 0]
        ELSE [st |-> "stReelect",
              remainTime |-> IF over % ReelectOutTime = 0 THEN ReelectOutTime
                             ELSE over % ReelectOutTime,
              reelectTurn |-> (over \div ReelectOutTime) + 1]

\* Time until the end of a re-election turn; 0 or negative when it is over.
CalRemainTime(begin, consensusTurn, reelectTurn, time) ==
    GetPosEndTime(begin, consensusTurn) + reelectTurn * ReelectOutTime - time
===============================================================================
