---------------------------- MODULE AbstractDict ----------------------------
(***************************************************************************)
(* What the language promises about a dict: a map that remembers the order *)
(* its keys were put in.  Overwriting keeps the place, and the key object, *)
(* that were there first; a deleted key that comes back comes back last.   *)
(***************************************************************************)
EXTENDS Naturals, Sequences

CONSTANTS
  Keys, Values,
  Same,     \* Same[k]: one key chosen for all the keys equal to k (1 and True)
  None      \* what an operation answers when there was nothing there

VARIABLES
  order,    \* the entries, oldest first
  answer    \* what the last operation gave back

vars == <<order, answer>>

At(k) == {i \in DOMAIN order : Same[order[i].key] = Same[k]}
Without(i) == SubSeq(order, 1, i - 1) \o SubSeq(order, i + 1, Len(order))

Init == order = << >> /\ answer = None

Get(k) ==
  /\ answer' = IF At(k) = {} THEN None ELSE order[CHOOSE i \in At(k) : TRUE].value
  /\ UNCHANGED order

Insert(k, v) ==
  \/ /\ At(k) = {}
     /\ order' = Append(order, [key |-> k, value |-> v])
     /\ answer' = None
  \/ \E i \in At(k) :
     /\ order' = [order EXCEPT ![i].value = v]
     /\ answer' = order[i].value

SetDefault(k, v) ==
  \/ At(k) = {} /\ Insert(k, v)
  \/ At(k) # {} /\ Get(k)

Remove(k) ==
  \/ At(k) = {} /\ answer' = None /\ UNCHANGED order
  \/ \E i \in At(k) : order' = Without(i) /\ answer' = order[i].value

PopItem ==
  /\ order # << >>
  /\ order' = Without(Len(order))
  /\ answer' = order[Len(order)].value

Clear == order' = << >> /\ answer' = None

Next ==
  \/ \E k \in Keys : Get(k) \/ Remove(k)
  \/ \E k \in Keys, v \in Values : Insert(k, v) \/ SetDefault(k, v)
  \/ PopItem
  \/ Clear

Spec == Init /\ [][Next]_vars
=============================================================================
