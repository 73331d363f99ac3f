--------------------------- MODULE RandomVote_proofs ---------------------------
(***************************************************************************)
(* Proofs about the random numbers that an election seed is made of, for   *)
(* every set of nodes, every number of periods and every pattern of        *)
(* restarts and of transactions that miss their broadcast block.           *)
(*                                                                         *)
(* The inductive invariant says where the key that a node holds is on the  *)
(* chain: until the node votes again its public part is in the block before*)
(* this one, and after the vote in this one, unless the node was started   *)
(* again in between.                                                       *)
(***************************************************************************)
EXTENDS RandomVote, TLAPS

\* Keys on the chain were made by their node, and the future blocks are empty.
Made ==
    /\ period \in 1 .. Periods
    /\ privatekey \in [Nodes -> Nat] /\ nextKey \in [Nodes -> Nat]
    /\ \A n \in Nodes : privatekey[n] < nextKey[n]
    /\ DOMAIN private = 1 .. Periods /\ DOMAIN public = 1 .. Periods
    /\ DOMAIN restarted = 1 .. Periods
    /\ \A k \in 1 .. Periods : \A n \in DOMAIN private[k] :
           n \in Nodes /\ private[k][n] \in Nat /\ private[k][n] < nextKey[n]
    /\ \A k \in 1 .. Periods : \A n \in DOMAIN public[k] :
           n \in Nodes /\ public[k][n] \in Nat \ {NoKey} /\ public[k][n] < nextKey[n]
    /\ \A k \in 1 .. Periods : k > period => DOMAIN private[k] = {} /\ DOMAIN public[k] = {}

\* A key whose public part is in the present block is not revealed by the next vote.
Fresh ==
    \A n \in DOMAIN public[period] :
        n \notin voted => privatekey[n] = NoKey \/ public[period][n] # privatekey[n]

\* Where the key of a node that was not started again is.
Held ==
    /\ \A n \in DOMAIN public[period] \ restarted[period] : public[period][n] = privatekey[n]
    /\ \A n \in Nodes \ (voted \cup restarted[period]) :
           n \notin DOMAIN public[period] /\ n \notin DOMAIN private[period]
    /\ period > 1 =>
           \A n \in DOMAIN public[period - 1] :
               n \notin voted \cup restarted[period - 1] \cup restarted[period] =>
                   public[period - 1][n] = privatekey[n]

\* A revealed key belongs to the public key of the period before.
Matching ==
    \A k \in 2 .. Periods : \A n \in DOMAIN public[k - 1] \cap DOMAIN private[k] :
        n \notin restarted[k - 1] \cup restarted[k] => private[k][n] = public[k - 1][n]

IInv == Made /\ Fresh /\ Held /\ Matching /\ NeverEarly

-------------------------------------------------------------------------------
\* g is f, or f with the entry v for n.
Sets(g, f, n, v) ==
    /\ \A m : m # n => (m \in DOMAIN g <=> m \in DOMAIN f)
    /\ \A m \in DOMAIN f : m # n => g[m] = f[m]
    /\ n \in DOMAIN f => n \in DOMAIN g
    /\ n \in DOMAIN g => \/ n \in DOMAIN f /\ g[n] = f[n]
                         \/ g[n] = v

\* With sets one entry, and a map left alone is one that was set.
LEMMA WithSets ==
    ASSUME NEW f, NEW n, NEW v, NEW g, g = f \/ g = With(f, n, v)
    PROVE  Sets(g, f, n, v)
<1>1. Sets(f, f, n, v)
  BY Zenon DEF Sets
<1>2. Sets(With(f, n, v), f, n, v)
  BY DEF Sets, With
<1> QED
  BY <1>1, <1>2

\* What a vote with a new key does to the blocks.
LEMMA VoteFacts ==
    ASSUME Made, NEW n \in Nodes, NEW pub \in BOOLEAN, NEW priv \in BOOLEAN,
           VoteNew(n, pub, priv)
    PROVE  /\ DOMAIN private' = 1 .. Periods /\ DOMAIN public' = 1 .. Periods
           /\ \A k \in 1 .. Periods : k # period => private'[k] = private[k] /\ public'[k] = public[k]
           /\ Sets(private'[period], private[period], n, privatekey[n])
           /\ Sets(public'[period], public[period], n, nextKey[n])
           /\ privatekey' = [privatekey EXCEPT ![n] = nextKey[n]]
           /\ nextKey' = [nextKey EXCEPT ![n] = nextKey[n] + 1]
<1>1. period \in 1 .. Periods /\ DOMAIN private = 1 .. Periods /\ DOMAIN public = 1 .. Periods
  BY DEF Made
<1>2. \/ private' = private
      \/ private' = [private EXCEPT ![period] = With(private[period], n, privatekey[n])]
  BY DEF VoteNew
<1>3. \/ public' = public
      \/ public' = [public EXCEPT ![period] = With(public[period], n, nextKey[n])]
  BY DEF VoteNew
<1>4. /\ DOMAIN private' = 1 .. Periods
      /\ \A k \in 1 .. Periods : k # period => private'[k] = private[k]
      /\ \/ private'[period] = private[period]
         \/ private'[period] = With(private[period], n, privatekey[n])
  BY <1>1, <1>2
<1>5. /\ DOMAIN public' = 1 .. Periods
      /\ \A k \in 1 .. Periods : k # period => public'[k] = public[k]
      /\ \/ public'[period] = public[period]
         \/ public'[period] = With(public[period], n, nextKey[n])
  BY <1>1, <1>3
<1>6. /\ privatekey' = [privatekey EXCEPT ![n] = nextKey[n]]
      /\ nextKey' = [nextKey EXCEPT ![n] = nextKey[n] + 1]
  BY DEF VoteNew
<1>7. Sets(private'[period], private[period], n, privatekey[n])
  BY <1>4, WithSets
<1>8. Sets(public'[period], public[period], n, nextKey[n])
  BY <1>5, WithSets
<1> QED
  BY <1>4, <1>5, <1>6, <1>7, <1>8

-------------------------------------------------------------------------------
\* The first state.
LEMMA InitIInv == Init => IInv
<1> SUFFICES ASSUME Init PROVE IInv
  OBVIOUS
<1> USE PeriodsAssumption
<1>1. DOMAIN Empty = {}
  BY DEF Empty
<1>2. \A k \in 1 .. Periods : DOMAIN private[k] = {} /\ DOMAIN public[k] = {}
  BY <1>1 DEF Init
<1>3. Made
  BY <1>2 DEF Init, Made, NoKey
<1>4. Fresh /\ Held
  BY <1>2 DEF Init, Fresh, Held
<1>5. Matching /\ NeverEarly
  BY <1>2 DEF Matching, NeverEarly
<1> QED
  BY <1>3, <1>4, <1>5 DEF IInv

\* The next period keeps the invariant: what was said of this block is said of the
\* block before.
LEMMA NextPeriodKeeps ==
    ASSUME IInv, NextPeriod
    PROVE  IInv'
<1> USE PeriodsAssumption
<1>1. Made'
  BY DEF IInv, Made, NextPeriod
<1>2. period' \in 1 .. Periods /\ period' = period + 1 /\ period \in 1 .. Periods
  BY <1>1 DEF Made, NextPeriod, IInv
<1>3. DOMAIN private[period'] = {} /\ DOMAIN public[period'] = {}
  BY <1>2 DEF Made, IInv
<1>4. Fresh'
  BY <1>3 DEF Fresh, NextPeriod
<1>5. Held'
  <2>1. period' - 1 = period
    BY <1>2
  <2> QED
    BY <1>3, <2>1 DEF Held, NextPeriod, IInv
<1>6. Matching' /\ NeverEarly'
  BY DEF IInv, Matching, NeverEarly, Compare, NextPeriod
<1> QED
  BY <1>1, <1>4, <1>5, <1>6 DEF IInv

\* A restart keeps the invariant: the key is gone and the node is marked.
LEMMA RestartKeeps ==
    ASSUME IInv, NEW n \in Nodes, Restart(n)
    PROVE  IInv'
<1> USE PeriodsAssumption
<1>1. /\ privatekey' = [privatekey EXCEPT ![n] = NoKey]
      /\ restarted' = [restarted EXCEPT ![period] = restarted[period] \cup {n}]
      /\ voted' = voted \/ voted' = voted \ {n}
      /\ UNCHANGED <<period, nextKey, private, public>>
  BY DEF Restart
<1>2. period \in 1 .. Periods /\ DOMAIN restarted = 1 .. Periods /\ privatekey \in [Nodes -> Nat]
  BY DEF IInv, Made
<1>3. /\ \A k \in 1 .. Periods : restarted[k] \subseteq restarted'[k]
      /\ n \in restarted'[period]
      /\ \A m \in Nodes : m # n => privatekey'[m] = privatekey[m]
      /\ privatekey'[n] = NoKey
  BY <1>1, <1>2
<1>4. Made'
  BY <1>1, <1>3 DEF IInv, Made, NoKey
<1>5. \A k \in 1 .. Periods : DOMAIN public[k] \subseteq Nodes
  BY DEF IInv, Made
<1>6. Fresh'
  BY <1>1, <1>2, <1>3, <1>5 DEF IInv, Fresh
<1>7. Held'
  <2>1. period > 1 => period - 1 \in 1 .. Periods
    BY <1>2
  <2> QED
    BY <1>1, <1>2, <1>3, <1>5, <2>1 DEF IInv, Held
<1>8. Matching'
  <2>1. \A k \in 2 .. Periods : k \in 1 .. Periods /\ k - 1 \in 1 .. Periods
    OBVIOUS
  <2> QED
    BY <1>1, <1>3, <2>1 DEF IInv, Matching
<1>9. NeverEarly'
  BY <1>1 DEF IInv, NeverEarly, Compare
<1> QED
  BY <1>4, <1>6, <1>7, <1>8, <1>9 DEF IInv

\* A vote keeps the invariant: the key revealed is an older one, the key committed to is
\* new, and the node does not vote again in this period.
LEMMA VoteKeeps ==
    ASSUME IInv, NEW n \in Nodes, NEW pub \in BOOLEAN, NEW priv \in BOOLEAN,
           n \notin voted, voted' = voted \cup {n}, UNCHANGED <<period, restarted>>,
           VoteNew(n, pub, priv)
    PROVE  IInv'
<1> USE PeriodsAssumption
<1>1. Made
  BY DEF IInv
<1>2. /\ DOMAIN private' = 1 .. Periods /\ DOMAIN public' = 1 .. Periods
      /\ \A k \in 1 .. Periods : k # period => private'[k] = private[k] /\ public'[k] = public[k]
      /\ Sets(private'[period], private[period], n, privatekey[n])
      /\ Sets(public'[period], public[period], n, nextKey[n])
      /\ privatekey' = [privatekey EXCEPT ![n] = nextKey[n]]
      /\ nextKey' = [nextKey EXCEPT ![n] = nextKey[n] + 1]
  BY <1>1, VoteFacts
<1>3. /\ period \in 1 .. Periods
      /\ privatekey \in [Nodes -> Nat] /\ nextKey \in [Nodes -> Nat]
      /\ privatekey[n] \in Nat /\ nextKey[n] \in Nat \ {NoKey} /\ privatekey[n] < nextKey[n]
  BY <1>1 DEF Made, NoKey
<1>4. /\ privatekey' \in [Nodes -> Nat] /\ nextKey' \in [Nodes -> Nat]
      /\ privatekey'[n] = nextKey[n] /\ nextKey'[n] = nextKey[n] + 1
      /\ \A m \in Nodes : m # n => privatekey'[m] = privatekey[m] /\ nextKey'[m] = nextKey[m]
      /\ \A m \in Nodes : nextKey[m] <= nextKey'[m]
  BY <1>2, <1>3
<1>5. Made'
  <2>1. ASSUME NEW m \in Nodes PROVE privatekey'[m] < nextKey'[m]
    <3>1. CASE m = n
      BY <1>3, <1>4, <3>1
    <3>2. CASE m # n
      <4>1. privatekey[m] < nextKey[m]
        BY <1>1 DEF Made
      <4> QED
        BY <1>4, <3>2, <4>1
    <3> QED
      BY <3>1, <3>2
  <2>2. ASSUME NEW k \in 1 .. Periods, NEW m \in DOMAIN private'[k]
        PROVE  m \in Nodes /\ private'[k][m] \in Nat /\ private'[k][m] < nextKey'[m]
    <3>1. CASE m \in DOMAIN private[k] /\ private'[k][m] = private[k][m]
      <4>1. m \in Nodes /\ private[k][m] \in Nat /\ private[k][m] < nextKey[m]
        BY <1>1, <3>1 DEF Made
      <4>2. nextKey[m] \in Nat /\ nextKey'[m] \in Nat /\ nextKey[m] <= nextKey'[m]
        BY <1>3, <1>4, <4>1
      <4> QED
        BY <3>1, <4>1, <4>2
    <3>2. CASE m = n /\ private'[k][m] = privatekey[n]
      BY <1>3, <1>4, <3>2
    <3> QED
      BY <1>2, <2>2, <3>1, <3>2 DEF Sets
  <2>3. ASSUME NEW k \in 1 .. Periods, NEW m \in DOMAIN public'[k]
        PROVE  m \in Nodes /\ public'[k][m] \in Nat \ {NoKey} /\ public'[k][m] < nextKey'[m]
    <3>1. CASE m \in DOMAIN public[k] /\ public'[k][m] = public[k][m]
      <4>1. m \in Nodes /\ public[k][m] \in Nat \ {NoKey} /\ public[k][m] < nextKey[m]
        BY <1>1, <3>1 DEF Made
      <4>2. nextKey[m] \in Nat /\ nextKey'[m] \in Nat /\ nextKey[m] <= nextKey'[m]
        BY <1>3, <1>4, <4>1
      <4> QED
        BY <3>1, <4>1, <4>2
    <3>2. CASE m = n /\ public'[k][m] = nextKey[n]
      BY <1>3, <1>4, <3>2
    <3> QED
      BY <1>2, <2>3, <3>1, <3>2 DEF Sets
  <2>4. \A k \in 1 .. Periods : k > period => DOMAIN private'[k] = {} /\ DOMAIN public'[k] = {}
    BY <1>1, <1>2, <1>3 DEF Made
  <2>5. DOMAIN restarted = 1 .. Periods
    BY <1>1 DEF Made
  <2> QED
    BY <1>2, <1>3, <1>4, <2>1, <2>2, <2>3, <2>4, <2>5 DEF Made
<1>6. \A m \in DOMAIN public'[period] :
          m # n => m \in Nodes /\ m \in DOMAIN public[period] /\ public'[period][m] = public[period][m]
  BY <1>1, <1>2, <1>3 DEF Made, Sets
<1>7. Fresh'
  BY <1>4, <1>6 DEF IInv, Fresh
<1>8. n \notin restarted[period] =>
          n \notin DOMAIN public[period] /\ n \notin DOMAIN private[period]
  BY DEF IInv, Held
<1>9. Held'
  <2>1. ASSUME NEW m \in DOMAIN public'[period] \ restarted[period]
        PROVE  public'[period][m] = privatekey'[m]
    <3>1. CASE m = n
      BY <1>2, <1>4, <1>8, <2>1, <3>1 DEF Sets
    <3>2. CASE m # n
      BY <1>4, <1>6, <2>1, <3>2 DEF IInv, Held
    <3> QED
      BY <3>1, <3>2
  <2>2. \A m \in Nodes \ (voted' \cup restarted[period]) :
            m \notin DOMAIN public'[period] /\ m \notin DOMAIN private'[period]
    BY <1>2 DEF IInv, Held, Sets
  <2>3. ASSUME period > 1, NEW m \in DOMAIN public'[period - 1],
               m \notin voted' \cup restarted[period - 1] \cup restarted[period]
        PROVE  public'[period - 1][m] = privatekey'[m]
    <3>1. period - 1 \in 1 .. Periods /\ period - 1 # period
      BY <1>3, <2>3
    <3>2. public'[period - 1] = public[period - 1]
      BY <1>2, <3>1
    <3>3. m \in Nodes /\ m # n
      BY <1>1, <2>3, <3>1, <3>2 DEF Made
    <3> QED
      BY <1>4, <2>3, <3>2, <3>3 DEF IInv, Held
  <2> QED
    BY <2>1, <2>2, <2>3 DEF Held
<1>10. Matching'
  <2> SUFFICES ASSUME NEW k \in 2 .. Periods,
                      NEW m \in DOMAIN public'[k - 1] \cap DOMAIN private'[k],
                      m \notin restarted[k - 1] \cup restarted[k]
               PROVE  private'[k][m] = public'[k - 1][m]
    BY DEF Matching
  <2>1. k \in 1 .. Periods /\ k - 1 \in 1 .. Periods /\ k # k - 1
    OBVIOUS
  <2>2. CASE k = period
    <3>1. public'[k - 1] = public[k - 1]
      BY <1>2, <2>1, <2>2
    <3>2. CASE m = n
      <4>1. private'[k][n] = privatekey[n]
        BY <1>2, <1>8, <2>2, <3>2 DEF Sets
      <4>2. public[k - 1][n] = privatekey[n]
        BY <2>2, <3>1, <3>2 DEF IInv, Held
      <4> QED
        BY <3>1, <3>2, <4>1, <4>2
    <3>3. CASE m # n
      <4>1. m \in DOMAIN private[k] /\ private'[k][m] = private[k][m]
        BY <1>2, <2>2, <3>3 DEF Sets
      <4> QED
        BY <3>1, <4>1 DEF IInv, Matching
    <3> QED
      BY <3>2, <3>3
  <2>3. CASE k # period
    <3>1. private'[k] = private[k]
      BY <1>2, <2>1, <2>3
    <3>2. k <= period
      BY <1>1, <1>3, <2>1, <3>1 DEF Made
    <3>3. k - 1 # period
      BY <1>3, <2>1, <3>2
    <3>4. public'[k - 1] = public[k - 1]
      BY <1>2, <2>1, <3>3
    <3> QED
      BY <3>1, <3>4 DEF IInv, Matching
  <2> QED
    BY <2>2, <2>3
<1>11. NeverEarly'
  <2> SUFFICES ASSUME NEW k \in 1 .. Periods, NEW m \in DOMAIN private'[k],
                      NEW j \in k .. Periods, m \in DOMAIN public'[j]
               PROVE  ~(private'[k][m] = public'[j][m] /\ private'[k][m] # NoKey)
    BY DEF NeverEarly, Compare
  <2>1. j \in 1 .. Periods
    OBVIOUS
  <2>2. /\ \/ m \in DOMAIN private[k] /\ private'[k][m] = private[k][m]
           \/ m = n /\ k = period /\ private'[k][m] = privatekey[n]
        /\ \/ m \in DOMAIN public[j] /\ public'[j][m] = public[j][m]
           \/ m = n /\ j = period /\ public'[j][m] = nextKey[n]
    BY <1>2, <2>1 DEF Sets
  <2>3. CASE m \in DOMAIN private[k] /\ private'[k][m] = private[k][m]
    <3>1. CASE m \in DOMAIN public[j] /\ public'[j][m] = public[j][m]
      BY <2>3, <3>1 DEF IInv, NeverEarly, Compare
    <3>2. CASE m = n /\ public'[j][m] = nextKey[n]
      BY <1>1, <1>3, <2>3, <3>2 DEF Made
    <3> QED
      BY <2>2, <3>1, <3>2
  <2>4. CASE m = n /\ k = period /\ private'[k][m] = privatekey[n]
    <3>1. CASE m \in DOMAIN public[j] /\ public'[j][m] = public[j][m]
      <4>1. ~(j > period)
        BY <1>1, <2>1, <3>1 DEF Made
      <4>2. j = period
        BY <1>3, <2>1, <2>4, <4>1
      <4> QED
        BY <2>4, <3>1, <4>2 DEF IInv, Fresh
    <3>2. CASE m = n /\ public'[j][m] = nextKey[n]
      BY <1>3, <2>4, <3>2
    <3> QED
      BY <2>2, <3>1, <3>2
  <2> QED
    BY <2>2, <2>3, <2>4
<1> QED
  BY <1>5, <1>7, <1>9, <1>10, <1>11 DEF IInv

\* A vote height that passes without a vote keeps the invariant.
LEMMA SilenceKeeps ==
    ASSUME IInv, NEW n \in Nodes, voted' = voted \cup {n},
           UNCHANGED <<period, restarted, public, private, privatekey, nextKey>>
    PROVE  IInv'
<1>1. Made' /\ Matching' /\ NeverEarly'
  BY DEF IInv, Made, Matching, NeverEarly, Compare
<1>2. Fresh' /\ Held'
  BY DEF IInv, Fresh, Held
<1> QED
  BY <1>1, <1>2 DEF IInv

\* The invariant is inductive.
LEMMA NextKeeps == IInv /\ [Next]_vars => IInv'
<1> SUFFICES ASSUME IInv, [Next]_vars PROVE IInv'
  OBVIOUS
<1>1. ASSUME NEW n \in Nodes, RoleUpdate(n) PROVE IInv'
  <2>1. n \notin voted /\ voted' = voted \cup {n} /\ UNCHANGED <<period, restarted>>
    BY <1>1 DEF RoleUpdate
  <2>2. ASSUME NEW pub \in BOOLEAN, NEW priv \in BOOLEAN, VoteNew(n, pub, priv) PROVE IInv'
    BY <2>1, <2>2, VoteKeeps
  <2>3. CASE UNCHANGED <<public, private, privatekey, nextKey>>
    BY <2>1, <2>3, SilenceKeeps
  <2> QED
    BY <1>1, <2>2, <2>3 DEF RoleUpdate
<1>2. ASSUME NEW n \in Nodes, Restart(n) PROVE IInv'
  BY <1>2, RestartKeeps
<1>3. CASE NextPeriod
  BY <1>3, NextPeriodKeeps
<1>4. CASE UNCHANGED vars
  BY <1>4 DEF vars, IInv, Made, Fresh, Held, Matching, NeverEarly, Compare
<1> QED
  BY <1>1, <1>2, <1>3, <1>4 DEF Next

\* The invariant says that a matching pair of keys contributes.
LEMMA MatchingContributes == IInv => ContributesUnlessRestarted
<1> USE PeriodsAssumption
<1> SUFFICES ASSUME IInv, NEW k \in 2 .. Periods,
                    NEW n \in (DOMAIN public[k - 1] \cap DOMAIN private[k])
                              \ (restarted[k - 1] \cup restarted[k])
             PROVE  n \in Contributors(k)
  BY DEF ContributesUnlessRestarted
<1>1. private[k][n] = public[k - 1][n]
  BY DEF IInv, Matching
<1>2. public[k - 1][n] # NoKey
  BY DEF IInv, Made
<1> QED
  BY <1>1, <1>2 DEF Contributors, CompareMap, RangePrivate, RangePublic, Compare

-------------------------------------------------------------------------------
(***************************************************************************)
(* NeverEarly for every set of nodes and every number of periods: whatever *)
(* transactions are lost and whenever nodes are started again and vote     *)
(* twice in a period, no key is revealed in or before the block that holds *)
(* its public part (RoleUpdateMsgHandle).                                  *)
(***************************************************************************)
THEOREM KeysAreNeverEarly == Spec => []NeverEarly
<1>1. IInv => NeverEarly
  BY DEF IInv
<1> QED
  BY InitIInv, NextKeeps, <1>1, PTL DEF Spec

(***************************************************************************)
(* ContributesUnlessRestarted for every set of nodes and every number of   *)
(* periods: only a restart can separate a key from its public part         *)
(* (newRandomVote forgets the key, CalcbeforeSeedGen compares the two).    *)
(***************************************************************************)
THEOREM KeysContribute == Spec => []ContributesUnlessRestarted
  BY InitIInv, NextKeeps, MatchingContributes, PTL DEF Spec

===============================================================================
