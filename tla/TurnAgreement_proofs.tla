-------------------------- MODULE TurnAgreement_proofs --------------------------
(***************************************************************************)
(* The agreement of a turn, for any number of validators, any headers and  *)
(* any number of restarts.  The invariant ties the three records of a vote *)
(* together: what is on its way, what a validator remembers of it, and what*)
(* was POSed on the strength of it.                                        *)
(***************************************************************************)
EXTENDS TurnAgreement, DposQuorum_proofs

\* Every POSed header had a quorum, and still has it: no vote is called back.
PosedByQuorum == \A h \in posed : IsQuorum(Signers(h), Validators)

\* A validator that has run all the time remembers every header of another leader that
\* it has voted for.
VotesRemembered ==
    \A v \in Validators \ restarted, h \in Headers :
        <<v, h>> \in votes /\ h.leader # v => h \in memory[v]

\* No validator remembers two headers of one leader and turn.
NoRivalsInMemory ==
    \A v \in Validators : \A g, h \in memory[v] : ~Rivals(g, h)

AgreementInv ==
    /\ memory \in [Validators -> SUBSET Headers]
    /\ posed \subseteq Headers
    /\ restarted \subseteq Validators
    /\ PosedByQuorum
    /\ VotesRemembered
    /\ NoRivalsInMemory

\* Further votes leave a quorum a quorum.
LEMMA QuorumsStay ==
    ASSUME NEW S, NEW T, IsQuorum(S, Validators), S \subseteq T, T \subseteq Validators
    PROVE  IsQuorum(T, Validators)
  <1>1. IsFiniteSet(T)
    BY ValidatorsAssumption, FS_Subset
  <1>2. IsFiniteSet(S) /\ Cardinality(S) <= Cardinality(T)
    BY <1>1, FS_Subset
  <1>3. Cardinality(S) \in Nat /\ Cardinality(T) \in Nat
    BY <1>1, <1>2, FS_CardinalityType
  <1>4. Cardinality(Validators) \in Nat /\ Cardinality(Validators) >= 3
    BY ValidatorsAssumption, FS_CardinalityType, MinStockCountAssumption DEF IsQuorum
  <1>5. TargetCount(Cardinality(Validators)) \in Nat
    BY <1>4, TargetBounds
  <1> QED
    BY <1>2, <1>3, <1>5 DEF IsQuorum

\* When votes are only added, every POSed header keeps its quorum.
LEMMA MoreVotes ==
    ASSUME PosedByQuorum, votes \subseteq votes', posed' = posed
    PROVE  PosedByQuorum'
  <1> SUFFICES ASSUME NEW h \in posed
               PROVE  IsQuorum(Signers(h)', Validators)
    BY DEF PosedByQuorum
  <1>1. Signers(h) \subseteq Signers(h)' /\ Signers(h)' \subseteq Validators
    BY DEF Signers
  <1> QED
    BY <1>1, QuorumsStay DEF PosedByQuorum

\* Before the first vote.
LEMMA InitAgreement == Init => AgreementInv
  BY DEF Init, AgreementInv, PosedByQuorum, VotesRemembered, NoRivalsInMemory

\* A vote for a header of another leader: MaySign keeps rivals out of the memory.
LEMMA SignOtherAgreement ==
    ASSUME AgreementInv, NEW v \in Validators, NEW h \in Headers, SignOther(v, h)
    PROVE  AgreementInv'
  <1>1. /\ memory \in [Validators -> SUBSET Headers]
        /\ memory' = [memory EXCEPT ![v] = memory[v] \cup {h}]
        /\ votes' = votes \cup {<<v, h>>} /\ posed' = posed /\ restarted' = restarted
        /\ \A g \in memory[v] : g.leader = h.leader /\ g.turn = h.turn => g = h
    BY DEF AgreementInv, SignOther, Each!MaySign
  <1>2. /\ memory' \in [Validators -> SUBSET Headers]
        /\ memory'[v] = memory[v] \cup {h}
        /\ \A w \in Validators : w # v => memory'[w] = memory[w]
    BY <1>1
  <1>3. PosedByQuorum'
    BY <1>1, MoreVotes DEF AgreementInv
  <1>4. VotesRemembered'
    BY <1>1, <1>2 DEF AgreementInv, VotesRemembered
  <1>5. NoRivalsInMemory'
    BY <1>1, <1>2 DEF AgreementInv, NoRivalsInMemory, Rivals
  <1> QED
    BY <1>1, <1>2, <1>3, <1>4, <1>5 DEF AgreementInv

\* A restart: the memory is gone, and the validator is no longer one that remembers.
LEMMA RestartAgreement ==
    ASSUME AgreementInv, NEW v \in Validators, Restart(v)
    PROVE  AgreementInv'
  <1>1. /\ memory \in [Validators -> SUBSET Headers]
        /\ memory' = [memory EXCEPT ![v] = {}]
        /\ votes' = votes /\ posed' = posed /\ restarted' = restarted \cup {v}
    BY DEF AgreementInv, Restart
  <1>2. /\ memory' \in [Validators -> SUBSET Headers]
        /\ memory'[v] = {}
        /\ \A w \in Validators : w # v => memory'[w] = memory[w]
    BY <1>1
  <1>3. PosedByQuorum'
    BY <1>1, MoreVotes DEF AgreementInv
  <1>4. VotesRemembered'
    BY <1>1, <1>2 DEF AgreementInv, VotesRemembered
  <1>5. NoRivalsInMemory'
    BY <1>2 DEF AgreementInv, NoRivalsInMemory
  <1> QED
    BY <1>1, <1>2, <1>3, <1>4, <1>5 DEF AgreementInv

\* Every step keeps the invariant.
LEMMA NextAgreement == AgreementInv /\ [Next]_vars => AgreementInv'
  <1> SUFFICES ASSUME AgreementInv, [Next]_vars
               PROVE  AgreementInv'
    OBVIOUS
  <1>1. ASSUME NEW v \in Validators, NEW h \in Headers, SignOther(v, h)
        PROVE  AgreementInv'
    BY <1>1, SignOtherAgreement
  <1>2. ASSUME NEW h \in Headers, SignOwn(h)
        PROVE  AgreementInv'
    <2>1. /\ votes' = votes \cup {<<h.leader, h>>}
          /\ memory' = memory /\ posed' = posed /\ restarted' = restarted
      BY <1>2 DEF SignOwn
    <2>2. PosedByQuorum'
      BY <2>1, MoreVotes DEF AgreementInv
    <2> QED
      BY <2>1, <2>2 DEF AgreementInv, VotesRemembered, NoRivalsInMemory
  <1>3. ASSUME NEW h \in Headers, finishedProcess(h)
        PROVE  AgreementInv'
    <2>1. \A g : Signers(g)' = Signers(g)
      BY <1>3 DEF finishedProcess, Signers
    <2> QED
      BY <1>3, <2>1 DEF finishedProcess, AgreementInv, PosedByQuorum, VotesRemembered,
                        NoRivalsInMemory
  <1>4. ASSUME NEW v \in Validators, Restart(v)
        PROVE  AgreementInv'
    BY <1>4, RestartAgreement
  <1>5. CASE UNCHANGED vars
    BY <1>5 DEF vars, AgreementInv, PosedByQuorum, VotesRemembered, NoRivalsInMemory, Signers
  <1> QED
    BY <1>1, <1>2, <1>3, <1>4, <1>5 DEF Next

\* For every number of validators and every full-sign threshold: two headers of one
\* leader and turn are both POSed only if a validator other than the leader was started
\* again and voted for both.  Quorums share a validator that did not make the headers,
\* and as long as it runs reqCache lets it sign one of them only.
THEOREM TurnsAgree == Spec => []AgreementUnlessRestarted
  <1>1. AgreementInv => AgreementUnlessRestarted
    <2> SUFFICES ASSUME AgreementInv, NEW g \in posed, NEW h \in posed, Rivals(g, h)
                 PROVE  \E v \in restarted \ {g.leader} : {<<v, g>>, <<v, h>>} \subseteq votes
      BY DEF AgreementUnlessRestarted
    <2>1. g \in Headers /\ h \in Headers /\ h.leader = g.leader
      BY DEF AgreementInv, Rivals
    <2>2. PICK v \in Validators \ {g.leader} : v \in Signers(g) /\ v \in Signers(h)
      BY RivalsShareAFollower, ValidatorsAssumption DEF AgreementInv, PosedByQuorum
    <2>3. <<v, g>> \in votes /\ <<v, h>> \in votes
      BY <2>2 DEF Signers
    <2>4. v \in restarted
      BY <2>1, <2>2, <2>3 DEF AgreementInv, VotesRemembered, NoRivalsInMemory
    <2> QED
      BY <2>2, <2>3, <2>4
  <1> QED
    BY <1>1, InitAgreement, NextAgreement, PTL DEF Spec
===============================================================================
