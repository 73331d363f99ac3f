------------------------------ MODULE MCLeaders ------------------------------
(***************************************************************************)
(* The election of leaders, in four parts that are each explored by        *)
(* themselves: part says which of them runs, and the others stay as they   *)
(* are at the start.                                                       *)
(*   three       the re-election among three validators over three turns;  *)
(*               all of them are a quorum                                  *)
(*   four        the re-election among four, three of whom are a quorum    *)
(*   controller  the clock and the timers of one controller                *)
(*   chain       the leaders from height to height                         *)
(***************************************************************************)
EXTENDS Reelect

CONSTANTS
    Bc,                               \* the broadcast node
    MaxLate, MaxTime,                 \* for the controller
    v1, v2, v3, v4, v5, MaxNumber     \* for the chain

VARIABLES
    part,
    nd4, stamp4, msgs4, adopted4, from4,
    now, broadcast, known, dc, beginTimes, posNotifyCache, timer, reelectTimer, published,
    posResults,
    number, validators, parentLeader, grandLeader, announced, changed

fourVars == <<nd4, stamp4, msgs4, adopted4, from4>>
ctrlVars == <<now, broadcast, known, dc, beginTimes, posNotifyCache, timer, reelectTimer,
              published, posResults>>
chainVars == <<number, validators, parentLeader, grandLeader, announced, changed>>

Four == INSTANCE Reelect WITH
            N <- 4, MaxTurn <- 1, PosTurns <- {0},
            nd <- nd4, stamp <- stamp4, msgs <- msgs4, adopted <- adopted4, from <- from4

Ctrl == INSTANCE LeaderCtrl WITH
            BroadcastInterval <- 20, ReElectionInterval <- 60, BroadCastNode <- Bc,
            ParentMiningTime <- 1, POSOutTime <- 1, ReelectOutTime <- 3,
            Validators <- 2, SelfIndex <- 1, ReelectInterval <- 1, MaxTurn <- 2

Chain == INSTANCE LeaderChain WITH
             BroadcastInterval <- 4, ReElectionInterval <- 8, BroadCastNode <- Bc,
             ParentMiningTime <- 1, POSOutTime <- 1, ReelectOutTime <- 2,
             Nodes <- {v1, v2, v3, v4, v5}, Committee <- 4, MaxTurn <- 2

MCInit ==
    /\ part \in {"three", "four", "controller", "chain"}
    /\ Init
    /\ Four!Init
    /\ Ctrl!Init
    /\ part # "controller" => ~broadcast
    /\ Chain!Init
    /\ validators = <<v1, v2, v3, v4>>         \* the nodes are interchangeable
    /\ part # "chain" => parentLeader = v1

MCNext ==
    \/ part = "three" /\ Next /\ UNCHANGED <<part, fourVars, ctrlVars, chainVars>>
    \/ part = "four" /\ Four!Next /\ UNCHANGED <<part, vars, ctrlVars, chainVars>>
    \/ part = "controller" /\ Ctrl!Next /\ UNCHANGED <<part, vars, fourVars, chainVars>>
    \/ part = "chain" /\ Chain!Next /\ UNCHANGED <<part, vars, fourVars, ctrlVars>>

MCSpec == MCInit /\ [][MCNext]_<<part, vars, fourVars, ctrlVars, chainVars>>

\* A master takes its own result only when a quorum of the four, itself included, has
\* taken the same turn (handleResultRsp): it is never alone in the turn that it leads.
MasterLastOfFour == Four!MasterLast

\* The timers match the state, whichever handler changed it last: a controller that waits
\* for a block or for a re-election has its timer running or its expiry waiting, and in a
\* re-election exactly the master of the turn repeats its messages.
TimersMatchState == Ctrl!TimersMatchState

\* The next leader that a controller announces in the turn in which its block is made is
\* the leader that the controllers of the next height calculate for themselves, across
\* broadcast blocks, unless the block changes the validators or has a re-election number.
NextLeaderLeads == Chain!NextLeaderLeads

\* The controller waits for mining results only when the block of its own leader and
\* turn has its POS, by a notification or by the result of a re-election.
MiningHasPos == Ctrl!MiningHasPos
===============================================================================
