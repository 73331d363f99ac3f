---------------------------- MODULE MCVoteCounting ----------------------------
(***************************************************************************)
(* How votes are given, kept and counted, each part explored by itself:    *)
(* part says which of them runs, and the rest stays as it is at the start. *)
(*   turn    the votes of four validators, three of whom are a quorum; v1  *)
(*           leads turn 0, v2 turn 1, and v1 generates two headers         *)
(*   pool    a pool of votes of two accounts on three hashes               *)
(*   engine  one call of the DPOS engine                                   *)
(***************************************************************************)
EXTENDS TurnAgreement, TLC

CONSTANTS
    v1, v2, v3, v4, x, NoAccount, MaxSigns,
    a1, a2, h1, h2, h3, TimeoutInterval, CountLimit, MaxTime, MaxIndex

Hd(l, t, n) == [leader |-> l, turn |-> t, hash |-> n]
Four == {v1, v2, v3, v4}
ThreeHeaders == {Hd(v1, 0, 1), Hd(v1, 0, 2), Hd(v2, 1, 3)}

Voters == {a1, a2}
VotedOn == {h1, h2, h3}
Symmetry == Permutations(Voters) \cup Permutations(VotedOn)

AllSigners == {v1, v2, v3, v4, x}
Topologies == {{v1, v2}, {v1, v2, v3}, {v1, v2, v3, v4}}
Stocks == v1 :> 1 @@ v2 :> 2 @@ v3 :> 0 @@ v4 :> 5 @@ x :> 1

VARIABLES
    part,
    now, voteMap, timeIndex,
    pc, entry, validators, signs, index, verified, todo, agree, disagree, result

turnVars == <<memory, votes, posed, restarted>>
poolVars == <<now, voteMap, timeIndex>>
callVars == <<pc, entry, validators, signs, index, verified, todo, agree, disagree, result>>

Pool == INSTANCE VotePool WITH Accounts <- Voters, Hashes <- VotedOn
Call == INSTANCE DposVerify WITH Accounts <- AllSigners, ValidatorSets <- Topologies, Stock <- Stocks

MCInit ==
    /\ part \in {"turn", "pool", "engine"}
    /\ Init
    /\ Pool!Init
    /\ Call!Init
    /\ part # "engine" => signs = <<>> /\ validators = {v1, v2} /\ entry = "raw"

MCNext ==
    \/ part = "turn" /\ Next /\ UNCHANGED <<part, poolVars, callVars>>
    \/ part = "pool" /\ Pool!Next /\ UNCHANGED <<part, turnVars, callVars>>
    \/ part = "engine" /\ Call!Next /\ UNCHANGED <<part, turnVars, poolVars>>

MCSpec == MCInit /\ [][MCNext]_<<part, turnVars, poolVars, callVars>>

(* verifyDPOS accepts exactly the lists in which a quorum of validators    *)
(* agrees, whatever else they hold, and returns one agreeing signature of  *)
(* each of those validators.                                               *)
AcceptsExactlyQuorums == Call!AcceptsExactlyQuorums

(* The early returns inside verifyDPOS's loop over a Go map do not make    *)
(* its answer, error included, depend on the order of the iteration.       *)
ResultIgnoresOrder == Call!ResultIgnoresOrder

(* The pool implements VoteStore call by call: what AddVote, DelVotes and  *)
(* Clear do to map, list and limits is, for those who count votes with     *)
(* GetVotes, what the same call does to a plain set of votes.              *)
ImplementsVoteStore == Pool!ImplementsVoteStore

(* What the comment on timeIndex says it is for, "the index by order of    *)
(* arrival, used to delete expired data": AddVote drops a vote only when   *)
(* it has expired, or when the signer's own votes exceed the limit.        *)
ExpiryOnlyRemovesExpired == Pool!ExpiryOnlyRemovesExpired
===============================================================================
