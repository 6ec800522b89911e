----------------------------- MODULE MCDictWalk -----------------------------
(* Instances of DictWalk: two keys that start in one slot and part when the *)
(* walk mixes in the higher bits of the hash.                               *)
EXTENDS DictWalk, TLC

CONSTANTS zero, forty, v1

MCKeys == {zero, forty}
MCSame == [k \in MCKeys |-> k]
MCHash == zero :> 0 @@ forty :> 40
MCValues == {v1}
=============================================================================
