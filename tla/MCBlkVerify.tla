------------------------------ MODULE MCBlkVerify ------------------------------
(***************************************************************************)
(* BlkVerify at a node s, in parts that are each explored by themselves:   *)
(*   turns      s is one of three validators; leaders change               *)
(*   votes      the same with votes                                        *)
(*   broadcast  s is the broadcast node                                    *)
(*   live       votes and recovery messages, for liveness                  *)
(* Turns 0 to 3 are led by v1, v2, s and v1 again.                         *)
(***************************************************************************)
EXTENDS BlkVerify, TLC

CONSTANTS
    s, v1, v2, x, hA, hB, hC, hD, hS,
    Parts          \* the parts that are explored

VARIABLE part

MCAccounts == {s, v1, v2, x}
MCValidators == {s, v1, v2}
MCTurns == 0 .. 3
MCHashes == {hA, hB, hC, hD, hS}

Req(l, f, t, h, signed) == [leader |-> l, from |-> f, turn |-> t, hash |-> h, posed |-> signed]

\* Leader changes: two headers of v1 for turn 0 and one each for the later turns; that of
\* turn 3 does not have the hash of its transactions.  This node is ready for turn 2, of
\* which no message comes: the part votes has that case.
TurnMsgs == {<<v1, 0>>, <<v2, 1>>, <<v1, 3>>}
TurnRequests ==
    {Req(v1, v1, 0, hA, FALSE), Req(v1, v1, 0, hB, FALSE),
     Req(v2, v2, 1, hC, FALSE), Req(v1, v1, 3, hD, FALSE)}
OwnRequests == {Req(s, s, 2, hS, FALSE)}

\* Votes: one header of v1, and this node's own, which the others vote for.
PosMsgs == {<<v1, 0>>, <<s, 2>>}
PosRequests == {Req(v1, v1, 0, hA, FALSE)}
PosVotes == {v1, v2} \X {hS}

LiveMsgs == {<<v1, 0>>, <<v2, 1>>}
LiveVotes == {v1, v2} \X {hA}
LiveRecovery == {<<hA, {s, v1, v2}>>, <<hA, {}>>}

\* A broadcast node: signed requests from their leader and passed on by others.
BcValidators == {v1, v2, x}
BcMsgs == {<<v1, 0>>, <<v2, 1>>}
BcRequests ==
    {Req(v1, v1, 0, hA, TRUE), Req(v1, v2, 0, hA, TRUE), Req(v1, x, 0, hB, FALSE),
     Req(v2, v2, 1, hC, FALSE), Req(v2, v1, 1, hC, TRUE)}
None == {}

Pos == INSTANCE BlkVerify WITH
          LeaderMsgs <- PosMsgs, Requests <- PosRequests, VoteMsgs <- PosVotes,
          BadHashes <- {}, MaxReqs <- 2, MaxSeq <- 1

Bc == INSTANCE BlkVerify WITH
         Role <- "Broadcast", Validators <- BcValidators, LeaderMsgs <- BcMsgs,
         Requests <- BcRequests, LocalRequests <- {}, BadHashes <- {hC}

MCInit == part \in Parts /\ Init

MCNext ==
    \/ part \in {"turns", "live"} /\ Next /\ UNCHANGED part
    \/ part = "votes" /\ Pos!Next /\ UNCHANGED part
    \/ part = "broadcast" /\ Bc!Next /\ UNCHANGED part

MCSpec == MCInit /\ [][MCNext]_<<part, vars>>

\* The fairness of BlkVerify, for the part live alone.
MCFairSpec == MCSpec /\ Fairness

\* The broadcast node publishes only headers that came with a quorum's signatures.
BroadcastTakesPosed == part = "broadcast" => Bc!PublishesPosed
===============================================================================
