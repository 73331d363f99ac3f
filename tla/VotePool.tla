------------------------------- MODULE VotePool -------------------------------
(***************************************************************************)
(* The vote pool of a validator (blkconsensus/votepool/vote_pool.go).      *)
(*                                                                         *)
(* Votes are kept in a map keyed by the signing account and by the signed  *)
(* hash.  A list in order of arrival, timeIndex, is used to drop votes that*)
(* have waited too long, and each account may hold a limited number.  Every*)
(* method runs under the pool's mutex, so each one is one action.  The     *)
(* signature itself, and whether it agrees, play no part in what the pool  *)
(* keeps and are left out.                                                 *)
(***************************************************************************)
EXTENDS Integers, Sequences, FiniteSets, Functions

CONSTANTS
    Accounts,          \* accounts that sign votes
    Hashes,            \* hashes that are voted on
    TimeoutInterval,   \* timeoutInterval, man.VotePoolTimeout
    CountLimit,        \* AccountVoteCountLimit, man.VotePoolCountLimit
    MaxTime,           \* bound: the clock stops here
    MaxIndex           \* bound: length of timeIndex

VARIABLES
    now,               \* time.Now()
    voteMap,           \* voteMap[a]: map hash -> time of arrival
    timeIndex          \* votes in order of arrival, deleted ones included

vars == <<now, voteMap, timeIndex>>

-------------------------------------------------------------------------------
\* An account with no vote has no entry in the code's map: here, an empty map.
EmptyMap == [a \in Accounts |-> <<>>]

Has(m, a, h) == h \in DOMAIN m[a]

Stored(m) == {<<a, h>> \in Accounts \X Hashes : Has(m, a, h)}

\* The map m without the keys in the set K.
Without(m, K) ==
    [a \in Accounts |-> [h \in {g \in DOMAIN m[a] : <<a, g>> \notin K} |-> m[a][h]]]

\* The map m with the vote of a on h, received at time t.
With(m, a, h, t) ==
    [m EXCEPT ![a] = [g \in DOMAIN m[a] \cup {h} |-> IF g = h THEN t ELSE m[a][g]]]

PushBack(index, vote) == Append(index, vote)

Init ==
    /\ now = 0
    /\ voteMap = EmptyMap
    /\ timeIndex = <<>>

Expired(index, i, t) == index[i].time < t - TimeoutInterval

ExpiredPrefix(index, t) ==
    {i \in 1 .. Len(index) : \A j \in 1 .. i : Expired(index, j, t)}

KeysAt(index, I) == {<<index[i].from, index[i].hash>> : i \in I}

Evictions(m, a) ==
    {D \in SUBSET DOMAIN m[a] :
        /\ Cardinality(D) = IF Cardinality(DOMAIN m[a]) <= CountLimit THEN 0
                            ELSE Cardinality(DOMAIN m[a]) - CountLimit
        /\ \A d \in D, r \in DOMAIN m[a] \ D : m[a][d] <= m[a][r]}

(***************************************************************************)
(* AddVote.  The signature recovers the account signer; with verifyFrom set*)
(* it must be the node the message came from.  A vote that is already in   *)
(* the map is refused, and then nothing is cleaned up.                     *)
(***************************************************************************)
AddVote(from, signer, h, verifyFrom) ==
    LET vote  == [from |-> signer, hash |-> h, time |-> now]
        index == PushBack(timeIndex, vote)
        old   == ExpiredPrefix(index, now)
        kept  == Without(With(voteMap, signer, h, now), KeysAt(index, old))
    IN  /\ verifyFrom => signer = from
        /\ ~Has(voteMap, signer, h)
        /\ Len(timeIndex) < MaxIndex
        /\ timeIndex' = SubSeq(index, Cardinality(old) + 1, Len(index))
        /\ \E D \in Evictions(kept, signer) :
              voteMap' = Without(kept, {signer} \X D)
        /\ UNCHANGED now

\* Mutant of DelVotes: the loop ends with the first account that has voted on h.
DelVotesFirst(h) ==
    /\ \E a \in Accounts : voteMap' = Without(voteMap, {<<a, h>>})
    /\ UNCHANGED <<now, timeIndex>>

\* DelVotes: every account's vote on h.  The list keeps its entries.
DelVotes(h) ==
    /\ voteMap' = Without(voteMap, Accounts \X {h})
    /\ UNCHANGED <<now, timeIndex>>

Clear ==
    /\ voteMap' = EmptyMap
    /\ timeIndex' = <<>>
    /\ UNCHANGED now

\* The wall clock, in the unit of TimeoutInterval.
Tick ==
    /\ now < MaxTime
    /\ now' = now + 1
    /\ UNCHANGED <<voteMap, timeIndex>>

Next ==
    \/ \E from, signer \in Accounts, h \in Hashes, verifyFrom \in BOOLEAN :
          AddVote(from, signer, h, verifyFrom)
    \/ \E h \in Hashes : DelVotes(h)
    \/ Clear
    \/ Tick

Spec == Init /\ [][Next]_vars

-------------------------------------------------------------------------------

\* A step of AddVote by the given signer.
AddVoteBy(signer) ==
    \E from \in Accounts, h \in Hashes, verifyFrom \in BOOLEAN :
        AddVote(from, signer, h, verifyFrom)

\* Keys whose vote this step drops although it has not reached the timeout.
DroppedEarly ==
    {k \in Stored(voteMap) \ Stored(voteMap') :
        voteMap[k[1]][k[2]] >= now - TimeoutInterval}

\* The signer has as many votes as it may have, so its earliest one has to go.
MustEvict(signer) == Cardinality(DOMAIN voteMap[signer]) >= CountLimit

\* What the comment on timeIndex says it is for, "the index by order of arrival, used
\* to delete expired data": AddVote drops a vote only when it has expired, or when
\* the signer's own votes exceed the limit.  The code does not do this.
ExpiryOnlyRemovesExpired ==
    [][\A signer \in Accounts : AddVoteBy(signer) =>
          \A k \in DroppedEarly : k[1] = signer /\ MustEvict(signer)]_vars

Store == INSTANCE VoteStore WITH votes <- Stored(voteMap)

\* The pool implements VoteStore call by call: what AddVote, DelVotes and Clear do to
\* map, list and limits is, for those who count votes with GetVotes, what the same call
\* does to a plain set of votes; and no vote goes away between calls.
ImplementsVoteStore ==
    [][/\ \A signer \in Accounts, h \in Hashes :
             (\E from \in Accounts, verifyFrom \in BOOLEAN :
                 AddVote(from, signer, h, verifyFrom)) => Store!AddVote(signer, h)
       /\ \A h \in Hashes : DelVotes(h) => Store!DelVotes(h)
       /\ Clear => Store!Clear
       /\ Tick => UNCHANGED Stored(voteMap)]_vars
===============================================================================
