--------------------------------- MODULE Votes ---------------------------------
(***************************************************************************)
(* What the vote pool promises its users, as operators on the set of votes *)
(* it holds, pairs <<account, hash>>.                                      *)
(*                                                                         *)
(* A vote that is held already is refused.  Adding one may drop any others *)
(* (they have expired, or the account has too many) and even the new one:  *)
(* the pool's index by arrival can hold an older entry for its key.        *)
(***************************************************************************)

CONSTANTS
    Accounts,      \* accounts that sign votes
    Hashes         \* hashes of headers that are voted on

AddedTo(votes, a, h) ==
    IF <<a, h>> \in votes
    THEN {votes}
    ELSE SUBSET (votes \cup {<<a, h>>})

DeletedFrom(votes, h) == {v \in votes : v[2] # h}

\* GetVotes: the accounts whose vote on h is held.
VotersOf(votes, h) == {a \in Accounts : <<a, h>> \in votes}
===============================================================================
