------------------------------- MODULE VoteStore -------------------------------
(* The vote pool as its users see it.  VotePool implements this.             *)
EXTENDS Votes

VARIABLE votes     \* the votes held

Init == votes = {}

AddVote(a, h) == votes' \in AddedTo(votes, a, h)

DelVotes(h) == votes' = DeletedFrom(votes, h)

Clear == votes' = {}

Next ==
    \/ \E a \in Accounts, h \in Hashes : AddVote(a, h)
    \/ \E h \in Hashes : DelVotes(h)
    \/ Clear

Spec == Init /\ [][Next]_votes
===============================================================================
