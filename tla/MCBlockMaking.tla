----------------------------- MODULE MCBlockMaking -----------------------------
(***************************************************************************)
(* How a block gets its mining result and reaches the chain, in three parts*)
(* that are each explored by themselves: part says which of them runs, and *)
(* the rest stays as it is at the start.                                   *)
(*   common     the block generation of a common height at the validator   *)
(*              that leads turn 1                                          *)
(*   broadcast  the same before and at a broadcast height                  *)
(*   miner      a miner at the numbers 1 to 3, of which 2 is a broadcast   *)
(*              number, so that it is stopped there and started again; it  *)
(*              gets three requests for number 1, one of them not valid,   *)
(*              and one for number 3                                       *)
(***************************************************************************)
EXTENDS BlockGen

CONSTANT MaxMessages     \* for the miner

VARIABLES
    part,
    ctrl, mining, loop, wait, agent, recv, sender, messages, hist

minerVars == <<ctrl, mining, loop, wait, agent, recv, sender, messages, hist>>

AtBroadcast == INSTANCE BlockGen WITH
                   Kinds <- {"prebroadcast", "broadcast"}, CountLimit <- 2, MaxHeaders <- 1

Work == INSTANCE Miner WITH
            Numbers <- 1 .. 3, Broadcast <- {2}, Roles <- [n \in 1 .. 3 |-> {"miner"}],
            Reqs <- 1 .. 4, Number <- <<1, 1, 1, 3>>, ReqTime <- <<1, 2, 3, 4>>,
            Valid <- {1, 2, 4}

MCInit ==
    /\ part \in {"common", "broadcast", "miner"}
    /\ IF part = "broadcast" THEN AtBroadcast!Init ELSE Init
    /\ part = "miner" => role = "validator"
    /\ Work!Init

MCNext ==
    \/ part = "common" /\ Next /\ UNCHANGED <<part, minerVars>>
    \/ part = "broadcast" /\ AtBroadcast!Next /\ UNCHANGED <<part, minerVars>>
    \/ part = "miner" /\ Work!Next /\ UNCHANGED <<part, vars>>

MCSpec == MCInit /\ [][MCNext]_<<part, vars, minerVars>>

\* When the miner's loops and the agent's channels are at rest, the current request of the
\* present number is being sealed, unless its sealing failed or the agent was started
\* while a stop was still on its way: no interleaving of requests, role updates, results
\* and cancelled sealings leaves a request current that nobody works on (beginMine).
CurrentIsMined == Work!CurrentIsMined

\* The last result that the miner stored is the one that it sends as long as its number is
\* the present one, whatever role updates come in the meantime (RoleUpdatedMsgHandler,
\* startMineResultSender).
LastResultIsSent == Work!LastResultIsSent
===============================================================================
