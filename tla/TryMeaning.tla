----------------------------- MODULE TryMeaning -----------------------------
(***************************************************************************)
(* What the language says a body of try statements and loops does, with no *)
(* handlers, no jumps and no copies of anything: the reference that the    *)
(* compiled form is held against.                                          *)
(*                                                                         *)
(* A block is a sequence of statements.  The trace is what a body does     *)
(* that a program can see: the points it reached, each with the exception  *)
(* that was being handled there, which is what a bare raise would raise.   *)
(***************************************************************************)
EXTENDS Naturals, Sequences

CONSTANTS
  RuntimeError,   \* what a bare raise raises when nothing is being handled
  NoExc

Mark(label) == [op |-> "mark", label |-> label]
Raise(exc) == [op |-> "raise", exc |-> exc]
BareRaise == [op |-> "bare"]
Return(value) == [op |-> "return", value |-> value]
Break == [op |-> "break"]
Continue == [op |-> "continue"]
For(turns, body, orelse) == [op |-> "for", turns |-> turns, body |-> body, orelse |-> orelse]

\* A clause is the set of exceptions it matches, and what it does.
Clause(matches, body) == [matches |-> matches, body |-> body]
Try(body, clauses, orelse, finally) ==
  [op |-> "try", body |-> body, clauses |-> clauses, orelse |-> orelse, finally |-> finally]

-----------------------------------------------------------------------------
Way(kind, what) == [kind |-> kind, what |-> what]
Normal == Way("normal", NoExc)
Did(way, trace) == [way |-> way, trace |-> trace]
After(first, then) == Did(then.way, first.trace \o then.trace)

RECURSIVE BlockMeans(_, _), StmtMeans(_, _), LoopMeans(_, _, _)

\* What a block does where h is being handled.
BlockMeans(block, h) ==
  IF block = << >> THEN Did(Normal, << >>)
  ELSE LET first == StmtMeans(Head(block), h)
       IN  IF first.way # Normal THEN first
           ELSE After(first, BlockMeans(Tail(block), h))

LoopMeans(s, turns, h) ==
  IF turns = 0 THEN BlockMeans(s.orelse, h)
  ELSE LET turn == BlockMeans(s.body, h)
       IN  CASE turn.way.kind = "break" -> Did(Normal, turn.trace)
             [] turn.way.kind \in {"normal", "continue"} ->
                  After(turn, LoopMeans(s, turns - 1, h))
             [] OTHER -> turn

StmtMeans(s, h) ==
  CASE s.op = "mark"     -> Did(Normal, <<[at |-> s.label, handling |-> h]>>)
    [] s.op = "raise"    -> Did(Way("raise", s.exc), << >>)
    [] s.op = "bare"     -> Did(Way("raise", IF h = NoExc THEN RuntimeError ELSE h), << >>)
    [] s.op = "return"   -> Did(Way("return", s.value), << >>)
    [] s.op = "break"    -> Did(Way("break", NoExc), << >>)
    [] s.op = "continue" -> Did(Way("continue", NoExc), << >>)
    [] s.op = "for"      -> LoopMeans(s, s.turns, h)
    [] s.op = "try"      ->
         LET body == BlockMeans(s.body, h)
             raised == body.way.what
             matching == IF body.way.kind = "raise"
                         THEN {i \in DOMAIN s.clauses : raised \in s.clauses[i].matches}
                         ELSE {}
             first == CHOOSE i \in matching : \A j \in matching : i <= j
             guarded ==
               IF body.way = Normal THEN After(body, BlockMeans(s.orelse, h))
               ELSE IF matching # {} THEN After(body, BlockMeans(s.clauses[first].body, raised))
               ELSE body
             inside == IF guarded.way.kind = "raise" THEN guarded.way.what ELSE h
             finally == BlockMeans(s.finally, inside)
         IN  IF finally.way = Normal THEN Did(guarded.way, guarded.trace \o finally.trace)
             ELSE After(guarded, finally)

Meaning(block) == BlockMeans(block, NoExc)
=============================================================================
