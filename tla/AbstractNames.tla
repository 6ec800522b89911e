--------------------------- MODULE AbstractNames ---------------------------
(***************************************************************************)
(* What a Python program may assume about module globals, whatever the     *)
(* interpreter does to make them fast: one binding per namespace and name, *)
(* changed only by the write that names it, and read back as it is.        *)
(*                                                                         *)
(* There are no calls, frames, modules being laid out or imports in here:  *)
(* none of them may be seen through a binding.                             *)
(***************************************************************************)
CONSTANTS Spaces, Names, Values, Unbound

VARIABLES
  bind,    \* bind[s][n]: what the name n is bound to in the namespace s
  last     \* the last access the program made, and what it was answered

vars == <<bind, last>>

Bound == Values \union {Unbound}

Init ==
  /\ bind = [s \in Spaces |-> [n \in Names |-> Unbound]]
  /\ last = [op |-> "none"]

Load(s, n) ==
  /\ last' = [op |-> "load", space |-> s, name |-> n, value |-> bind[s][n]]
  /\ UNCHANGED bind

\* A write with the value Unbound is a `del`.
Store(s, n, v) ==
  /\ last' = [op |-> "store", space |-> s, name |-> n, value |-> v]
  /\ bind' = [bind EXCEPT ![s][n] = v]

Next ==
  \E s \in Spaces, n \in Names :
    \/ Load(s, n)
    \/ \E v \in Bound : Store(s, n, v)

Spec == Init /\ [][Next]_vars
=============================================================================
