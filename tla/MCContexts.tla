----------------------------- MODULE MCContexts -----------------------------
(* Instances of Contexts: two exceptions that the program raises, keeps and *)
(* raises again, and the one that the machine raises by itself.             *)
EXTENDS Contexts, TLC

CONSTANTS e1, e2, err, g1

Interchangeable == Permutations({e1, e2})
=============================================================================
