------------------------------ MODULE DposQuorum ------------------------------
(***************************************************************************)
(* The sign-count target of the DPOS engine (consensus/mtxdpos/mtxdpos.go).*)
(*                                                                         *)
(* A header is agreed on when enough validators of the parent's topology   *)
(* have signed its hash.  The number that is enough depends only on how    *)
(* many validators there are:                                              *)
(*   - fewer than MinStockCount validators: no header is ever accepted;    *)
(*   - up to FullSignThreshold validators: all of them must sign;          *)
(*   - more: the ceiling of 0.66667 times their number.                    *)
(*                                                                         *)
(* The code's values are MinStockCount = 3 and FullSignThreshold = 7.  They*)
(* are parameters here, so that small instances can cross the threshold;   *)
(* everything proved holds for every threshold.                            *)
(***************************************************************************)
EXTENDS Integers, FiniteSets

CONSTANTS
    MinStockCount,       \* DPOSMinStockCount: 3 in the code
    FullSignThreshold    \* DPOSFullSignThreshold: 7 in the code

ASSUME MinStockCountAssumption == MinStockCount \in Nat /\ MinStockCount >= 3
ASSUME FullSignThresholdAssumption == FullSignThreshold \in Nat

(***************************************************************************)
(* int(math.Ceil(float64(n) * 0.66667)).  The product is an integer only   *)
(* for multiples of 100000, so the rounding of the float cannot change the *)
(* ceiling for any number of validators a topology can hold.               *)
(***************************************************************************)
RatioTarget(n) == (n * 66667 + 99999) \div 100000

TargetCount(n) == IF n <= FullSignThreshold THEN n ELSE RatioTarget(n)

\* A set of agreeing validators that verifyDPOS accepts (by sign count).
IsQuorum(S, validators) ==
    /\ Cardinality(validators) >= MinStockCount
    /\ S \subseteq validators
    /\ Cardinality(S) >= TargetCount(Cardinality(validators))
===============================================================================
