------------------------------ MODULE LeaderChain ------------------------------
(***************************************************************************)
(* The leaders that the controllers of successive heights calculate        *)
(* (cdc.SetValidators, leaderCalculator.SetValidators, GetLeader), from the*)
(* leaders of the last two blocks and the validators of the last one.  The *)
(* topology is elected anew by the block before a re-election number, and  *)
(* another block may put one backup in the place of a validator.           *)
(***************************************************************************)
EXTENDS LeaderTurns, FiniteSets

CONSTANTS
    Nodes,         \* candidates for validators
    Committee,     \* number of validators
    MaxTurn,       \* bound: turns of a height
    MaxNumber      \* bound: last height

VARIABLES
    number,        \* the height in progress
    validators,    \* the validators of block number - 1
    parentLeader,  \* leader of block number - 1
    grandLeader,   \* leader of block number - 2
    announced,     \* next leader that height number - 1 announced in its last turn
    changed        \* block number - 1 changed the validators (history)

vars == <<number, validators, parentLeader, grandLeader, announced, changed>>

Lists == {s \in [1 .. Committee -> Nodes] :
             \A i, j \in 1 .. Committee : s[i] = s[j] => i = j}

\* SetValidators of the controller of the height in progress.
leaderList ==
    calLeaderList(PreLeader(number, parentLeader, grandLeader), validators, number)

\* Height 1 starts from the genesis block, made by a validator of its own topology.
Init ==
    /\ number = 1
    /\ validators \in Lists
    /\ parentLeader \in {validators[i] : i \in DOMAIN validators}
    /\ grandLeader = parentLeader
    /\ announced = BroadCastNode
    /\ changed = TRUE

\* The validators that the block of this height may give to the next height.
NewValidators ==
    IF IsReElectionNumber(number + 1) THEN Lists
    ELSE IF IsBroadcastNumber(number) THEN {validators}
    ELSE {s \in Lists : Cardinality({i \in 1 .. Committee : s[i] # validators[i]}) <= 1}

\* The block of this height is made in a turn.
Block(turn) ==
    LET leader == Leader(leaderList, number, turn)
    IN  /\ number < MaxNumber
        /\ leaderList # <<>>
        /\ IsBroadcastNumber(number) => turn = 0
        /\ grandLeader' = parentLeader
        /\ parentLeader' = leader
        /\ announced' = NextLeader(leaderList, number, turn)
        /\ validators' \in NewValidators
        /\ changed' = (validators' # validators)
        /\ number' = number + 1

Next == \E turn \in 0 .. MaxTurn : Block(turn)

Spec == Init /\ [][Next]_vars

-------------------------------------------------------------------------------
\* The next leader that a controller announces in the turn in which its block is made is
\* the leader that the controllers of the next height calculate for themselves, across
\* broadcast blocks, unless the block changes the validators or has a re-election number.
NextLeaderLeads ==
    ~changed /\ ~IsReElectionNumber(number - 1) =>
        leaderList # <<>> /\ Leader(leaderList, number, 0) = announced

===============================================================================
