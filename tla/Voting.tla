-------------------------------- MODULE Voting ---------------------------------
(***************************************************************************)
(* What a validator promises with its votes on one height: of the headers  *)
(* that others lead it signs at most one for each leader and turn, and it  *)
(* never signs for an earlier turn than one it has signed for.  BlkVerify  *)
(* implements this with its request cache, TurnAgreement builds on it.     *)
(***************************************************************************)
EXTENDS Integers

CONSTANT Headers   \* records with the fields leader, turn and hash

VARIABLE signed    \* headers of other leaders that the validator has signed

\* Mutant of MaySign: a second header of a leader and turn is signed.
MaySignRival(h) == \A g \in signed : g.turn <= h.turn

\* reqCache keeps one request of a leader and turn, and none of a past turn.
MaySign(h) ==
    \A g \in signed : /\ g.turn <= h.turn
                      /\ g.leader = h.leader /\ g.turn = h.turn => g = h

\* sendVote for a header that others lead.
Sign(h) ==
    /\ MaySign(h)
    /\ signed' = signed \cup {h}

Spec == signed = {} /\ [][\E h \in Headers : Sign(h)]_signed
===============================================================================
