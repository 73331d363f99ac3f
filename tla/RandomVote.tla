------------------------------ MODULE RandomVote -------------------------------
(***************************************************************************)
(* The random numbers that an election seed is made of                     *)
(* (random/randomvote.go, random/electionseed.go, reelection/topGen.go).   *)
(*                                                                         *)
(* In each broadcast period a validator makes a new key, sends its public  *)
(* part, and sends the private part of the key before.  The seed adds the  *)
(* private keys of the last broadcast block that match the public keys of  *)
(* the block before it.  The private key is held in memory only.           *)
(*                                                                         *)
(* A key is a number, counted for each node.  A public key is the number of*)
(* its key, so that a private and a public key match if they are equal.    *)
(***************************************************************************)
EXTENDS Integers, FiniteSets

CONSTANTS
    Nodes,         \* accounts with a validator's deposit at some height
    Periods,       \* bound: broadcast periods, from 1
    MaxKeys        \* bound: keys of a node

ASSUME PeriodsAssumption == Periods \in Nat \ {0, 1}

NoKey == 0

VARIABLES
    period,        \* broadcast period that the chain is at
    privatekey,    \* privatekey[n]: the key whose public part n sent last
    nextKey,       \* nextKey[n]: the next key that n makes
    private,       \* private[k]: private keys in the broadcast block of period k
    public,        \* public[k]: public keys in it
    voted,         \* nodes that have handled the vote height of this period
    restarted      \* restarted[k]: nodes that were started again in period k

vars == <<period, privatekey, nextKey, private, public, voted, restarted>>

Empty == [n \in {} |-> NoKey]

Init ==
    /\ period = 1
    /\ privatekey = [n \in Nodes |-> NoKey]
    /\ nextKey = [n \in Nodes |-> 1]
    /\ private = [k \in 1 .. Periods |-> Empty]
    /\ public = [k \in 1 .. Periods |-> Empty]
    /\ voted = {}
    /\ restarted = [k \in 1 .. Periods |-> {}]

\* f with f[n] = v
With(f, n, v) == [m \in DOMAIN f \cup {n} |-> IF m = n THEN v ELSE f[m]]

\* Mutant of VoteNew: the key made now is revealed, not the one before.
VoteNewReveals(n, pub, priv) ==
    /\ public' = IF pub THEN [public EXCEPT ![period] = With(@, n, nextKey[n])] ELSE public
    /\ private' = IF priv THEN [private EXCEPT ![period] = With(@, n, nextKey[n])] ELSE private
    /\ privatekey' = [privatekey EXCEPT ![n] = nextKey[n]]
    /\ nextKey' = [nextKey EXCEPT ![n] = @ + 1]

(***************************************************************************)
(* RoleUpdateMsgHandle with a new key: both transactions are published,    *)
(* then the key is remembered.  pub and priv say which of them gets into   *)
(* the broadcast block.                                                    *)
(***************************************************************************)
VoteNew(n, pub, priv) ==
    /\ public' = IF pub THEN [public EXCEPT ![period] = With(@, n, nextKey[n])] ELSE public
    /\ private' = IF priv THEN [private EXCEPT ![period] = With(@, n, privatekey[n])] ELSE private
    /\ privatekey' = [privatekey EXCEPT ![n] = nextKey[n]]
    /\ nextKey' = [nextKey EXCEPT ![n] = @ + 1]

\* RoleUpdateMsgHandle at the vote height of a period.  It does nothing if the node has
\* no deposit or getkey fails.
RoleUpdate(n) ==
    /\ n \notin voted /\ nextKey[n] <= MaxKeys
    /\ voted' = voted \cup {n}
    /\ \/ \E pub, priv \in BOOLEAN : VoteNew(n, pub, priv)
       \/ UNCHANGED <<public, private, privatekey, nextKey>>
    /\ UNCHANGED <<period, restarted>>

\* newRandomVote: a node that starts again has the key 0.  It is told its role at the
\* present height once more, and so may vote for a second time.
Restart(n) ==
    /\ privatekey[n] # NoKey
    /\ privatekey' = [privatekey EXCEPT ![n] = NoKey]
    /\ restarted' = [restarted EXCEPT ![period] = @ \cup {n}]
    /\ voted' \in {voted, voted \ {n}}
    /\ UNCHANGED <<period, nextKey, private, public>>

\* The broadcast block of the period is made.
NextPeriod ==
    /\ period < Periods
    /\ period' = period + 1
    /\ voted' = {}
    /\ UNCHANGED <<privatekey, nextKey, private, public, restarted>>

Next ==
    \/ \E n \in Nodes : RoleUpdate(n) \/ Restart(n)
    \/ NextPeriod

Spec == Init /\ [][Next]_vars

-------------------------------------------------------------------------------
(* The sum of keys is the set of the accounts that contribute one.         *)

\* compare: the point of a private key is the public key.
Compare(priv, pub) == priv = pub /\ priv # NoKey

RangePrivate(priv, pub) == {a \in DOMAIN priv : a \in DOMAIN pub /\ Compare(priv[a], pub[a])}

RangePublic(priv, pub) == {a \in DOMAIN pub : a \in DOMAIN priv /\ Compare(priv[a], pub[a])}

CompareMap(priv, pub) ==
    IF Cardinality(DOMAIN priv) > Cardinality(DOMAIN pub)
    THEN RangePrivate(priv, pub)
    ELSE RangePublic(priv, pub)

\* Mutant of Contributors: both kinds of keys are taken from the same block.
ContributorsSame(k) == CompareMap(private[k], public[k])

\* CalcbeforeSeedGen: the private keys of a period and the public keys of the one before.
Contributors(k) == CompareMap(private[k], public[k - 1])

-------------------------------------------------------------------------------

(***************************************************************************)
(* A private key is in a block only if no public key of the same or a later*)
(* block belongs to it: when the others see a key, the vote it was         *)
(* committed to is over (RoleUpdateMsgHandle sends the key before).        *)
(***************************************************************************)
NeverEarly ==
    \A k \in 1 .. Periods : \A n \in DOMAIN private[k] : \A j \in k .. Periods :
      n \in DOMAIN public[j] => ~Compare(private[k][n], public[j][n])

(***************************************************************************)
(* A node whose public key of one period and private key of the next are in*)
(* the blocks, and that was not started again in either period, contributes*)
(* to the seed, whatever the others do and whichever map is the larger     *)
(* (CalcbeforeSeedGen, compareMap).                                        *)
(***************************************************************************)
ContributesUnlessRestarted ==
    \A k \in 2 .. Periods :
      (DOMAIN public[k - 1] \cap DOMAIN private[k]) \ (restarted[k - 1] \cup restarted[k])
        \subseteq Contributors(k)

===============================================================================
