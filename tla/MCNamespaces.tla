---------------------------- MODULE MCNamespaces ----------------------------
(* An instance of Namespaces: one machine runs a script twice, and there is *)
(* a file the script can import and two namespaces to read the file into,   *)
(* so that a deleted entry can be read again.                               *)
EXTENDS Namespaces, TLC

CONSTANTS sMain, sA, sB, x, y, u1, fa, v1

MCSpaces == {sMain, sA, sB}
MCNames == {x, y}
MCFiles == {fa}
MCScriptTwice == <<u1, u1>>
MCTable == u1 :> <<x, y>> @@ fa :> <<y>> @@ Idle :> << >>
MCValues == {v1}
=============================================================================
