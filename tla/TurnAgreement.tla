----------------------------- MODULE TurnAgreement -----------------------------
(***************************************************************************)
(* The votes of all validators of one height, put together: Voting at each *)
(* of them, the DPOS engine that counts, and a network that may lose, delay*)
(* and repeat votes.                                                       *)
(*                                                                         *)
(* A vote that was sent can reach anyone at any later time, since neither a*)
(* change of leader nor a new header calls it back (stopProcess, sendVote).*)
(* Who counts, and which votes are lost, does not matter to what can happen*)
(* at most: a header can be POSed once a quorum has sent votes for it.     *)
(*                                                                         *)
(* A leader signs every header it generates (AddLocalReq, processReqOnce). *)
(* What a validator has signed is in memory only (newReqCache): a node that*)
(* is started again at the same height has forgotten it, and so has one    *)
(* whose table made a second Process for the height (see HeightTable).     *)
(***************************************************************************)
EXTENDS DposQuorum

CONSTANTS
    Validators,    \* validators of the parent's topology
    Headers,       \* headers of this height: leader, turn, hash
    MaxRestarts    \* bound: nodes that are started again

ASSUME ValidatorsAssumption == IsFiniteSet(Validators)

VARIABLES
    memory,        \* memory[v]: what v's request cache makes it remember
    votes,         \* votes sent: <<validator, header>>
    posed,         \* headers that some node has finished
    restarted      \* the validators that were started again

vars == <<memory, votes, posed, restarted>>

Each(v) == INSTANCE Voting WITH signed <- memory[v]

Signers(h) == {v \in Validators : <<v, h>> \in votes}

Init ==
    /\ memory = [v \in Validators |-> {}]
    /\ votes = {}
    /\ posed = {}
    /\ restarted = {}

\* sendVote for a header of another leader.
SignOther(v, h) ==
    /\ h.leader # v
    /\ Each(v)!MaySign(h)
    /\ memory' = [memory EXCEPT ![v] = @ \cup {h}]
    /\ votes' = votes \cup {<<v, h>>}
    /\ UNCHANGED <<posed, restarted>>

\* sendVote for a local request, which takes the leader's place in the cache unchecked.
SignOwn(h) ==
    /\ votes' = votes \cup {<<h.leader, h>>}
    /\ UNCHANGED <<memory, posed, restarted>>

\* processDPOSOnce at a node that has received the votes of a quorum.
finishedProcess(h) ==
    /\ IsQuorum(Signers(h), Validators)
    /\ posed' = posed \cup {h}
    /\ UNCHANGED <<memory, votes, restarted>>

\* The node of v stops, and starts with a new Process and a new cache.
Restart(v) ==
    /\ Cardinality(restarted \cup {v}) <= MaxRestarts
    /\ memory' = [memory EXCEPT ![v] = {}]
    /\ restarted' = restarted \cup {v}
    /\ UNCHANGED <<votes, posed>>

Next ==
    \/ \E v \in Validators, h \in Headers : SignOther(v, h)
    \/ \E h \in Headers : SignOwn(h) \/ finishedProcess(h)
    \/ \E v \in Validators : Restart(v)

Spec == Init /\ [][Next]_vars

-------------------------------------------------------------------------------
Rivals(g, h) == g # h /\ g.leader = h.leader /\ g.turn = h.turn

(***************************************************************************)
(* Two headers of one leader and turn are both POSed only if a validator   *)
(* other than that leader was started again and signed both: the two       *)
(* quorums that verifyDPOS accepted share at least two validators, one of  *)
(* whom did not generate the headers and relies on its request cache.      *)
(***************************************************************************)
AgreementUnlessRestarted ==
    \A g, h \in posed : Rivals(g, h) =>
        \E v \in restarted \ {g.leader} : {<<v, g>>, <<v, h>>} \subseteq votes

===============================================================================
