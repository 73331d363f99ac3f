------------------------------ MODULE MCTopology ------------------------------
(***************************************************************************)
(* The parts that make and keep the topology, each explored by itself: the *)
(* keys of two nodes over three broadcast periods (part "keys"), two       *)
(* re-elections under the lock or one with a read beside it (parts         *)
(* "generations" and "reads"), two rounds of votes on a node's state (part *)
(* "states"), and the linker on chains in which a node leaves the topology *)
(* and comes back, the own role changes or a block cannot be read (part    *)
(* "links").                                                               *)
(***************************************************************************)
EXTENDS RandomVote, TLC

CONSTANTS n1, n2, a, b

TwoNodes == {n1, n2}
Symmetry == Permutations(TwoNodes)

\* The constants of the parts "generations" and "reads".
Two == 1 .. 2
One == 1 .. 1
Locked == {"role"}
Unlocked == {"role", "read"}

\* The constants of the part "states": this validator is 0; 9 leads the first round, 0 the second.
Others == {1, 2}
ThenSelf == <<9, 0>>
OneNode == <<<<1>>, <<1>>>>
FirstRound == {1}
NodeOne == <<1>>

\* The constants of the part "links".
Pair == {a, b}
Of(ra, rb) == a :> ra @@ b :> rb
Block(topo, elect, own) == [topo |-> topo, elect |-> elect, own |-> own, fails |-> "no", elected |-> {a, b}]
Failing(block, how) == [block EXCEPT !.fails = how]
Both == Of(1, 2)
OnlyA == Of(2, 0)
OnlyB == Of(0, 1)
Nobody == Of(0, 0)
\* a leaves while b is elected, and comes back; the second block may fail.
Leaves == <<Block(Both, Nobody, 1), Block(OnlyB, OnlyA, 1), Block(OnlyB, Nobody, 1)>>
Fails(how) == <<Block(OnlyA, OnlyB, 1), Failing(Block(OnlyB, Nobody, 1), how), Block(Nobody, OnlyB, 1)>>
\* The node itself leaves the topology and comes back.
Away == <<Block(OnlyA, Nobody, 1), Block(OnlyB, Nobody, 0), Block(OnlyB, OnlyA, 2)>>
\* A broadcast node, which calls the roll of the others.
Calls == <<Block(OnlyB, Nobody, 3), Block(Nobody, Nobody, 3), Block(OnlyB, Nobody, 3)>>
SomeChains == {Leaves, Fails("topology"), Fails("elect"), Away, Calls}

VARIABLES height, waiting, db, chan, subs, sub, nextSub, pending, call, gaveUp, reads,
          msgCheck, rings, th,
          chain, blocks, ca, front, current, toLinker, toBucket, lk, bk, statics, connected, deferred,
          topNode, topNodeCache, linkMap, others,
          part

keyVars == <<period, privatekey, nextKey, private, public, voted, restarted>>
genVars == <<height, waiting, db, chan, subs, sub, nextSub, pending, call, gaveUp, reads>>
stateVars == <<msgCheck, rings, th>>
linkVars == <<chain, blocks, ca, front, current, toLinker, toBucket, lk, bk, statics, connected, deferred,
              topNode, topNodeCache, linkMap, others>>

Gen == INSTANCE TopGen WITH Heights <- Two, Callers <- Locked, MaxReads <- 0, ChanSize <- 10
Reads == INSTANCE TopGen WITH Heights <- One, Callers <- Unlocked, MaxReads <- 1, ChanSize <- 2
States == INSTANCE TopNode WITH
    Self <- 0, Voters <- Others, NeededVotes <- 2, LeaderOf <- ThenSelf, Lists <- OneNode,
    VoteRounds <- FirstRound, OffLine <- NodeOne, Capacity <- 2
Links == INSTANCE Linker WITH
    Node <- Pair, Chains <- SomeChains, Broadcast <- 3, Window <- 1, Round <- 3, Grace <- 1, Roll <- 3, MaxLink <- 1

\* The chain of the part "links" is chosen initially; elsewhere it is a fixed one.
MCInit ==
    /\ part \in {"keys", "generations", "reads", "states", "links"}
    /\ Init
    /\ IF part = "reads" THEN Reads!Init ELSE Gen!Init
    /\ States!Init
    /\ Links!Init /\ (part # "links" => chain = Away)

MCNext ==
    \/ part = "keys" /\ Next /\ UNCHANGED <<part, genVars, stateVars, linkVars>>
    \/ part = "generations" /\ Gen!Next /\ UNCHANGED <<part, keyVars, stateVars, linkVars>>
    \/ part = "reads" /\ Reads!Next /\ UNCHANGED <<part, keyVars, stateVars, linkVars>>
    \/ part = "states" /\ States!Next /\ UNCHANGED <<part, keyVars, genVars, linkVars>>
    \/ part = "links" /\ Links!Next /\ UNCHANGED <<part, keyVars, genVars, stateVars>>

MCSpec == MCInit /\ [][MCNext]_<<part, keyVars, genVars, stateVars, linkVars>>

(* As long as no call under the lock has given up, what is stored for a    *)
(* height was made for this height and from this height's seed (GetSeed,   *)
(* writeElectData).                                                        *)
WrongOnlyAfterTimeout == part = "generations" => Gen!WrongOnlyAfterTimeout

(* When no goroutine is at work, a request of the present leader with      *)
(* enough votes is finished (consensusVoteMsgHandler).                     *)
QuorumNoticed == States!QuorumNoticed

(* A peer that the linker added is in one of the two lists that the next   *)
(* drop is computed from (GetDropNode before GetTopologyInLinker).         *)
NoForgottenPeer == Links!NoForgottenPeer
===============================================================================
