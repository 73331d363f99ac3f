------------------------------ MODULE MCHeights ------------------------------
(***************************************************************************)
(* The table of heights, as the block generation uses it (Keep = 1, part   *)
(* "generation") and as the block verification does (part "verification"), *)
(* each explored by itself over the same variables.                        *)
(***************************************************************************)
EXTENDS HeightTable

VARIABLE part

Verification == INSTANCE HeightTable WITH Keep <- 0

MCInit == part \in {"generation", "verification"} /\ Init

MCNext ==
    \/ part = "generation" /\ Next /\ UNCHANGED part
    \/ part = "verification" /\ Verification!Next /\ UNCHANGED part

MCSpec == MCInit /\ [][MCNext]_<<part, vars>>
==============================================================================
