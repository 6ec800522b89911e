------------------------------- MODULE MCTry -------------------------------
(* Instances of TryMachine.  A program is an exit at the bottom of up to    *)
(* MaxNesting statements, one inside the other, each of them one of the     *)
(* ways a statement can be around another; whatever else is in them marks   *)
(* where control went.                                                      *)
EXTENDS TryMachine

CONSTANTS
  e1, e2,
  MaxNesting

\* What is at the bottom: does nothing, raises, or leaves.
Bottoms(inLoop) ==
  {Mark(<<0, "bottom">>), Raise(e1), Raise(e2), BareRaise, Return("bottom")}
    \union IF inLoop THEN {Break, Continue} ELSE {}

RECURSIVE Bodies(_, _)
Bodies(n, inLoop) ==
  IF n = 0 THEN {<<s>> : s \in Bottoms(inLoop)}
  ELSE
  LET here(what) == Mark(<<n, what>>)
      then(s) == <<s, here("after")>>
      clause == <<Clause({e1}, <<here("clause")>>)>>
      else == <<here("else")>>
      finally == <<here("finally")>>
      raise == <<Raise(e1)>>
      inner == Bodies(n - 1, inLoop)
      exits == {Return("finally")} \union IF inLoop THEN {Break, Continue} ELSE {}
  IN  {then(For(2, Append(b, here("turn")), else)) : b \in Bodies(n - 1, TRUE)}
      \union UNION {
        {then(Try(b, << >>, << >>, finally)),
         then(Try(b, clause, else, << >>)),
         then(Try(b, clause, else, finally)),
         then(Try(raise, <<Clause({e1}, b)>>, << >>, finally)),
         then(Try(raise, <<Clause({e2}, else), Clause({e1, e2}, b)>>, << >>, << >>)),
         then(Try(<<here("body")>>, clause, b, finally)),
         then(Try(<<here("body")>>, << >>, << >>, b)),
         then(Try(raise, << >>, << >>, b))} : b \in inner}
      \union {then(Try(b, << >>, << >>, <<exit>>)) : b \in inner, exit \in exits}

AllPrograms == UNION {Bodies(n, FALSE) : n \in 0 .. MaxNesting}

\* How control can leave a block for good, other than by an exception.
RECURSIVE Exits(_)
Exits(block) ==
  IF block = << >> THEN {}
  ELSE LET s == Head(block)
           first ==
             CASE s.op = "return" -> {"return"}
               [] s.op \in {"break", "continue"} -> {"loop"}
               [] s.op = "for" -> (Exits(s.body) \ {"loop"}) \union Exits(s.orelse)
               [] s.op = "try" -> Exits(s.body) \union Exits(s.orelse) \union Exits(s.finally)
                    \union UNION {Exits(s.clauses[i].body) : i \in DOMAIN s.clauses}
               [] OTHER -> {}
       IN  first \union Exits(Tail(block))

\* A finally clause with an exit of its own is copied at an exit it is left by.
RECURSIVE Replays(_)
Replays(block) ==
  \E i \in DOMAIN block :
    LET s == block[i]
    IN  CASE s.op = "for" -> Replays(s.body) \/ Replays(s.orelse)
          [] s.op = "try" ->
               \/ /\ Exits(s.finally) # {}
                  /\ \/ Exits(s.body) # {} \/ Exits(s.orelse) # {}
                     \/ \E j \in DOMAIN s.clauses : Exits(s.clauses[j].body) # {}
               \/ Replays(s.body) \/ Replays(s.orelse) \/ Replays(s.finally)
               \/ \E j \in DOMAIN s.clauses : Replays(s.clauses[j].body)
          [] OTHER -> FALSE

MCPlain == {p \in AllPrograms : ~Replays(p)}
MCReplaying == {p \in AllPrograms : Replays(p)}
=============================================================================
