------------------------------- MODULE MCDict -------------------------------
(* Instances of Dict.  one and true are equal, as 1 and True are; eight has *)
(* the low bits of zero and none that the walk would mix in.  Nothing but   *)
(* equality is ever asked of a value, so the two values are symmetric.     *)
EXTENDS Dict, TLC

CONSTANTS one, true, zero, eight, v1, v2

MCKeys == {one, true, zero, eight}
MCSame == one :> one @@ true :> one @@ zero :> zero @@ eight :> eight
MCHash == one :> 1 @@ true :> 1 @@ zero :> 0 @@ eight :> 8
MCValues == {v1, v2}
MCSymmetry == Permutations(MCValues)
=============================================================================
