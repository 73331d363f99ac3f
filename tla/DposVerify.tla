------------------------------ MODULE DposVerify ------------------------------
(***************************************************************************)
(* One call of the DPOS engine: VerifyHashWithStocks (raw signatures, used *)
(* for headers that arrive with their signature list) and                  *)
(* VerifyHashWithVerifiedSignsAndNumber (votes taken from the vote pool).  *)
(*                                                                         *)
(* The signatures come as a list, with repetitions, from validators and    *)
(* from others, agreeing and disagreeing.  The engine first folds the list *)
(* into a map keyed by account, then ranges over that map.  Go ranges over *)
(* a map in an arbitrary order and the loop has early returns, so the model*)
(* takes the entries in every order.                                       *)
(***************************************************************************)
EXTENDS DposQuorum, Sequences, FiniteSetsExt

CONSTANTS
    Accounts,        \* every account that can have signed
    ValidatorSets,   \* the validator sets to check, subsets of Accounts
    Stock,           \* Stock[a]: the stock of account a when it is a validator
    MaxSigns,        \* bound: length of the signature list
    NoAccount        \* the result of recovering a malformed signature

VARIABLES
    pc,              \* where the call is
    entry,           \* "raw" or "verified": which of the two entry points
    validators,      \* DOMAIN of the stocks map
    signs,           \* the list handed in
    index,           \* position of the parsing loop
    verified,        \* map account -> Validate, the parsed signatures
    todo,            \* accounts of that map the range loop has not visited
    agree,           \* accounts counted in agreeCount, with their signatures
    disagree,        \* accounts counted in disagreeCount
    result           \* "none" while running, then "ok" or the error

vars == <<pc, entry, validators, signs, index, verified, todo, agree,
          disagree, result>>

-------------------------------------------------------------------------------
Sign == [account : Accounts \cup {NoAccount}, validate : BOOLEAN]

\* A malformed signature recovers no account; it only exists in a raw list.
SignOf(e) ==
    {s \in Sign : s.account = NoAccount => e = "raw" /\ s.validate}

StockSum(S) == MapThenSumSet(LAMBDA a : Stock[a], S)

\* calculateDPOSTarget, for a stocks map over the validators V.
TotalStock(V) == StockSum(V)

TargetStock(V) ==
    IF Cardinality(V) <= FullSignThreshold THEN TotalStock(V) ELSE 0

MaxDisagreeCountLow(V) ==      \* mutant: off by one
    Cardinality(V) - TargetCount(Cardinality(V)) - 1

MaxDisagreeCount(V) == Cardinality(V) - TargetCount(Cardinality(V))

MaxDisagreeStock(V) == TotalStock(V) - TargetStock(V)

Target == TargetCount(Cardinality(validators))

-------------------------------------------------------------------------------
Init ==
    /\ pc = "start"
    /\ entry \in {"raw", "verified"}
    /\ validators \in ValidatorSets
    /\ signs \in UNION {[1 .. n -> SignOf(entry)] : n \in 0 .. MaxSigns}
    /\ index = 1
    /\ verified = <<>>
    /\ todo = {}
    /\ agree = {}
    /\ disagree = {}
    /\ result = "none"

Return(r) ==
    /\ pc' = "done"
    /\ result' = r
    /\ UNCHANGED <<entry, validators, signs, index, verified>>

\* The target is computed, then the length of the list is compared with it.
CheckLength ==
    /\ pc = "start"
    /\ \/ /\ Cardinality(validators) < MinStockCount
          /\ Return("errStockCountErr")
       \/ /\ Cardinality(validators) >= MinStockCount
          /\ Len(signs) < Target
          /\ Return("errSignCountErr")
       \/ /\ Cardinality(validators) >= MinStockCount
          /\ Len(signs) >= Target
          /\ pc' = "parse"
          /\ UNCHANGED <<entry, validators, signs, index, verified, result>>
    /\ UNCHANGED <<todo, agree, disagree>>

(***************************************************************************)
(* One round of the loop of parseVerifiedSigns or verifySigns: signatures  *)
(* of no account or of a non-validator are dropped; of the signatures of   *)
(* one validator the first one counts, unless it disagrees and a later one *)
(* agrees.                                                                 *)
(***************************************************************************)
ParsedWithFirst(m, s, V) ==    \* mutant: an agreeing signature replaces nothing
    IF s.account \notin V \/ s.account \in DOMAIN m
    THEN m
    ELSE [a \in DOMAIN m \cup {s.account} |->
            IF a = s.account THEN s.validate ELSE m[a]]

ParsedWith(m, s, V) ==
    IF s.account \notin V
    THEN m
    ELSE IF s.account \in DOMAIN m
         THEN [m EXCEPT ![s.account] = @ \/ s.validate]
         ELSE [a \in DOMAIN m \cup {s.account} |->
                 IF a = s.account THEN s.validate ELSE m[a]]

ParseSign ==
    /\ pc = "parse"
    /\ index <= Len(signs)
    /\ verified' = ParsedWith(verified, signs[index], validators)
    /\ index' = index + 1
    /\ UNCHANGED <<pc, entry, validators, signs, todo, agree, disagree, result>>

\* The parsed map is compared with the target before the range loop starts.
CheckParsed ==
    /\ pc = "parse"
    /\ index > Len(signs)
    /\ \/ /\ Cardinality(DOMAIN verified) < Target
          /\ Return("errSignCountErr")
          /\ UNCHANGED todo
       \/ /\ Cardinality(DOMAIN verified) >= Target
          /\ pc' = "range"
          /\ todo' = DOMAIN verified
          /\ UNCHANGED <<entry, validators, signs, index, verified, result>>
    /\ UNCHANGED <<agree, disagree>>

(***************************************************************************)
(* One round of the range loop of verifyDPOS, on any entry not visited yet.*)
(* Too many disagreeing validators, or too much stock behind them, end the *)
(* call at once.                                                           *)
(***************************************************************************)
CountAgree(a) ==
    /\ verified[a]
    /\ agree' = agree \cup {a}
    /\ UNCHANGED <<pc, entry, validators, signs, index, verified, disagree, result>>

DisagreeOutcome(D) ==
    CASE Cardinality(D) > MaxDisagreeCount(validators) -> "errDisagreeCountErr"
      [] /\ Cardinality(D) <= MaxDisagreeCount(validators)
         /\ StockSum(D) > MaxDisagreeStock(validators) -> "errDisagreeStockErr"
      [] OTHER -> "none"

CountDisagree(a) ==
    /\ ~verified[a]
    /\ disagree' = disagree \cup {a}
    /\ result' = DisagreeOutcome(disagree')
    /\ pc' = IF result' = "none" THEN "range" ELSE "done"
    /\ UNCHANGED <<entry, validators, signs, index, verified, agree>>

RangeStep(a) ==
    /\ pc = "range"
    /\ a \in todo
    /\ todo' = todo \ {a}
    /\ CountAgree(a) \/ CountDisagree(a)

\* After the loop: enough agreeing signatures, with enough stock behind them.
Outcome ==
    CASE Cardinality(agree) < Target -> "errSignCountErr"
      [] /\ Cardinality(agree) >= Target
         /\ StockSum(agree) < TargetStock(validators) -> "errSignStockErr"
      [] OTHER -> "ok"

RangeDone ==
    /\ pc = "range"
    /\ todo = {}
    /\ Return(Outcome)
    /\ UNCHANGED <<todo, agree, disagree>>

Next ==
    \/ CheckLength
    \/ ParseSign
    \/ CheckParsed
    \/ \E a \in Accounts : RangeStep(a)
    \/ RangeDone

Spec == Init /\ [][Next]_vars

-------------------------------------------------------------------------------

\* The validators with at least one agreeing, and with any, signature in the list.
Agreeing ==
    {v \in validators : \E i \in DOMAIN signs :
                          signs[i] = [account |-> v, validate |-> TRUE]}

Signing == {v \in validators : \E i \in DOMAIN signs : signs[i].account = v}

\* verifyDPOS accepts exactly the lists in which a quorum of validators agrees,
\* whatever else the list holds (repetitions, disagreeing duplicates, outsiders,
\* malformed signatures), and the signatures it returns, which become
\* header.Signatures, are one agreeing signature of each of those validators.
AcceptsExactlyQuorums ==
    pc = "done" => /\ (result = "ok") = IsQuorum(Agreeing, validators)
                   /\ result = "ok" => agree = Agreeing

\* What the call returns, error included, as a function of its arguments.
Expected ==
    CASE Cardinality(validators) < MinStockCount -> "errStockCountErr"
      [] OTHER ->
         CASE Cardinality(Signing) < Target -> "errSignCountErr"
           [] OTHER ->
              CASE Cardinality(Signing \ Agreeing) > Cardinality(validators) - Target
                       -> "errDisagreeCountErr"
                [] OTHER -> IF Cardinality(Agreeing) < Target
                            THEN "errSignCountErr" ELSE "ok"

\* The early returns inside verifyDPOS's loop over a Go map do not make its answer
\* depend on the order of the iteration: every order gives the same result.
ResultIgnoresOrder == pc = "done" => result = Expected
===============================================================================
