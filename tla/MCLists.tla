------------------------------ MODULE MCLists -------------------------------
(* Instances of Lists: two elements of one rank between two others, so that *)
(* an order that is not stable shows in both directions.                    *)
EXTENDS Lists, TLC

CONSTANTS low, midA, midB, high, w1

MCElems == {low, midA, midB, high}
MCRank == low :> 1 @@ midA :> 2 @@ midB :> 2 @@ high :> 3
=============================================================================
