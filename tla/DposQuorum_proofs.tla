--------------------------- MODULE DposQuorum_proofs ---------------------------
(***************************************************************************)
(* Facts about the sign-count target that hold for every number of         *)
(* validators and every full-sign threshold.                               *)
(***************************************************************************)
EXTENDS DposQuorum, FiniteSetTheorems, TLAPS

\* The target of calculateDPOSTarget is a number of signs between two thirds of
\* the validators and all of them, so it can always be met.
LEMMA TargetBounds ==
    ASSUME NEW n \in Nat, n >= 3
    PROVE  /\ TargetCount(n) \in Nat
           /\ TargetCount(n) <= n
           /\ 3 * TargetCount(n) >= 2 * n
           /\ 2 * TargetCount(n) >= n + 2
<1>1. /\ RatioTarget(n) \in Nat
      /\ RatioTarget(n) <= n
      /\ 3 * RatioTarget(n) >= 2 * n
      /\ 2 * RatioTarget(n) >= n + 2
  BY SMT DEF RatioTarget
<1>2. QED
  BY <1>1, FullSignThresholdAssumption DEF TargetCount

\* Two sets of agreeing validators that the DPOS engine accepts have a third of the
\* validators in common, and always at least two.  One is not enough for the
\* argument about a turn: the leader of the turn may have signed two headers of its
\* own, and the second common validator has not.
THEOREM QuorumIntersection ==
    ASSUME NEW V, IsFiniteSet(V), NEW S, NEW T, IsQuorum(S, V), IsQuorum(T, V)
    PROVE  /\ 3 * Cardinality(S \cap T) >= Cardinality(V)
           /\ Cardinality(S \cap T) >= 2
<1> DEFINE n == Cardinality(V)
           q == TargetCount(n)
<1>1. n \in Nat /\ n >= 3
  BY FS_CardinalityType, MinStockCountAssumption DEF IsQuorum
<1>2. q \in Nat /\ q <= n /\ 3 * q >= 2 * n /\ 2 * q >= n + 2
  BY <1>1, TargetBounds
<1>3. /\ IsFiniteSet(S) /\ Cardinality(S) \in Nat /\ Cardinality(S) >= q
      /\ IsFiniteSet(T) /\ Cardinality(T) \in Nat /\ Cardinality(T) >= q
  <2>1. S \in SUBSET V /\ T \in SUBSET V
    BY DEF IsQuorum
  <2>2. IsFiniteSet(S) /\ IsFiniteSet(T)
    BY <2>1, FS_Subset
  <2>3. QED
    BY <2>2, FS_CardinalityType DEF IsQuorum
<1>4. Cardinality(S \cup T) \in Nat /\ Cardinality(S \cup T) <= n
  <2>1. S \cup T \in SUBSET V
    BY DEF IsQuorum
  <2>2. IsFiniteSet(S \cup T) /\ Cardinality(S \cup T) <= n
    BY <2>1, FS_Subset
  <2>3. QED
    BY <2>2, FS_CardinalityType
<1>5. Cardinality(S \cap T) \in Nat
  BY <1>3, FS_Intersection, FS_CardinalityType
<1>6. Cardinality(S \cup T) = Cardinality(S) + Cardinality(T) - Cardinality(S \cap T)
  BY <1>3, FS_Union
<1> HIDE DEF n, q
<1>7. 3 * Cardinality(S \cap T) >= n /\ Cardinality(S \cap T) >= 2
  BY <1>1, <1>2, <1>3, <1>4, <1>5, <1>6
<1>8. QED
  BY <1>7 DEF n

\* Two headers of one leader that the DPOS engine accepts have a signer other than that
\* leader in common.  So they are the same header, unless that signer signed both: what
\* reqCache prevents as long as the node runs (AgreementUnlessRestarted of TurnAgreement,
\* for every number of validators).
THEOREM RivalsShareAFollower ==
    ASSUME NEW V, IsFiniteSet(V), NEW S, NEW T, NEW leader,
           IsQuorum(S, V), IsQuorum(T, V)
    PROVE  \E v \in V \ {leader} : v \in S /\ v \in T
<1>1. Cardinality(S \cap T) >= 2
  BY QuorumIntersection
<1>2. S \cap T \subseteq V
  BY DEF IsQuorum
<1>3. S \cap T # {}
  BY <1>1, FS_EmptySet
<1>4. \A v : S \cap T # {v}
  BY <1>1, FS_Singleton
<1> QED
  BY <1>2, <1>3, <1>4
===============================================================================
