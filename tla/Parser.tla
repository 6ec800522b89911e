------------------------------- MODULE Parser -------------------------------
(***************************************************************************)
(* How an expression is parsed (kohebi-parse, parser.rs): recursive        *)
(* descent over tokens, with a second set of rules that only explain what  *)
(* went wrong, and that parse ahead to find out.                           *)
(*                                                                         *)
(* A token is its text, every name is x.  A tree has a kind, its parts and *)
(* the first and the last token it covers.  c is what a parse is given:    *)
(* the tokens, and whether the explaining rules are quiet.                 *)
(***************************************************************************)
EXTENDS Integers, Sequences, SequencesExt

Node(kind, of, from, to) == [kind |-> kind, of |-> of, from |-> from, to |-> to]
Mark(kind) == Node(kind, << >>, 0, 0)
Nothing == Mark("nothing")
Name(p) == Node("x", << >>, p, p)

Got(tree, pos) == [ok |-> TRUE, tree |-> tree, pos |-> pos]
Refused == [ok |-> FALSE, tree |-> Nothing, pos |-> 0]
After(r, Then(_)) == IF r.ok THEN Then(r) ELSE Refused
Made(kind, of, from, r) == Got(Node(kind, of, from, r.pos - 1), r.pos)

Token(c, p) == IF p <= Len(c.tokens) THEN c.tokens[p] ELSE "end"
Expect(c, r, token) == IF r.ok /\ Token(c, r.pos) = token THEN [r EXCEPT !.pos = @ + 1] ELSE Refused
Quiet(c) == [c EXCEPT !.quiet = TRUE]

\* How many brackets are open in front of a token.
Level(c, p) ==
  LET Count(s) == Len(SelectSeq(SubSeq(c.tokens, 1, p - 1), LAMBDA token : token \in s))
  IN  Count({"(", "[", "{"}) - Count({")", "]", "}"})

EndsExpression == {")", "]", "}", "end", ":", "="}
BeginsExpression == {"x", "(", "[", "{", "-", "await", "lambda", "not"}

RECURSIVE Parse(_, _, _), Comparisons(_, _, _, _), Binary(_, _, _), BinaryRest(_, _, _, _),
          Trailers(_, _, _), Arguments(_, _, _, _, _), ArgumentsAfter(_, _, _, _, _, _), Clauses(_, _, _)

-----------------------------------------------------------------------------
(* Names and displays that can be assigned to.                             *)

RECURSIVE Storable(_)
Storable(tree) ==
  \/ tree.kind \in {"x", "attribute", "subscript"}
  \/ tree.kind \in {"star", "list", "tuple"} /\ \A k \in DOMAIN tree.of : Storable(tree.of[k])
Store(r) == IF r.ok /\ Storable(r.tree) THEN r ELSE Refused

Starred(c, p, r) == After(r, LAMBDA v : Made("star", <<v.tree>>, p, v))
StarNamed(c, p) == IF Token(c, p) = "*" THEN Starred(c, p, Parse("sum", c, p + 1)) ELSE Parse("named", c, p)
StarExpression(c, p) == IF Token(c, p) = "*" THEN Starred(c, p, Parse("sum", c, p + 1)) ELSE Parse("expression", c, p)
StarTarget(c, p) == IF Token(c, p) = "*" THEN Starred(c, p, Parse("star target", c, p + 1)) ELSE Parse("sum", c, p)

\* Elements with commas in between, the last one optional before a token that
\* closes them.
Element(c, p, rule) ==
  CASE rule = "expression" -> Parse("star expression", c, p)
    [] rule = "whole" -> Parse("expression", c, p)
    [] rule = "named" -> Parse("star named", c, p)
    [] rule = "target" -> Parse("star target", c, p)
RECURSIVE Elements(_, _, _, _, _)
Elements(c, rule, closes, elts, pos) ==
  IF Token(c, pos) # "," THEN Got(Node("elements", elts, 0, 0), pos)
  ELSE IF Token(c, pos + 1) \in closes THEN Got(Node("elements", elts, 0, 0), pos + 1)
  ELSE After(Element(c, pos + 1, rule),
             LAMBDA r : Elements(c, rule, closes, Append(elts, r.tree), r.pos))
TupleOr(c, p, rule, closes) ==
  After(Element(c, p, rule), LAMBDA first :
    IF Token(c, first.pos) # "," THEN first
    ELSE After(Elements(c, rule, closes, <<first.tree>>, first.pos),
               LAMBDA r : Made("tuple", r.tree.of, p, r)))

StarExpressions(c, p) == TupleOr(c, p, "expression", EndsExpression)
Target(c, p) == Store(TupleOr(c, p, "target", EndsExpression \union {"in"}))

-----------------------------------------------------------------------------
(* Operators, loosest first.                                               *)

RECURSIVE Joined(_, _, _, _, _)
Joined(c, p, word, values, pos) ==
  IF Token(c, pos) # word THEN Got(Node(word, values, p, pos - 1), pos)
  ELSE After(IF word = "or" THEN Parse("conjunction", c, pos + 1) ELSE Parse("inversion", c, pos + 1),
             LAMBDA r : Joined(c, p, word, Append(values, r.tree), r.pos))
Chain(c, p, word, first) ==
  After(first, LAMBDA r : IF Token(c, r.pos) = word THEN Joined(c, p, word, <<r.tree>>, r.pos) ELSE r)
Conjunction(c, p) == Chain(c, p, "and", Parse("inversion", c, p))
Disjunction(c, p) == Chain(c, p, "or", Parse("conjunction", c, p))

Inversion(c, p) ==
  IF Token(c, p) = "not" THEN After(Parse("inversion", c, p + 1), LAMBDA r : Made("not", <<r.tree>>, p, r))
  ELSE After(Parse("sum", c, p), LAMBDA r : Comparisons(c, p, <<r.tree>>, r.pos))

\* Two of the operators are two words; a not that no in follows is none of them.
CompareOperator(c, p) ==
  IF Token(c, p) \in {"<", "in"} THEN Got(Mark(Token(c, p)), p + 1)
  ELSE IF Token(c, p) = "is"
    THEN IF Token(c, p + 1) = "not" THEN Got(Mark("is not"), p + 2) ELSE Got(Mark("is"), p + 1)
  ELSE IF Token(c, p) = "not" /\ Token(c, p + 1) = "in" THEN Got(Mark("not in"), p + 2)
  ELSE Refused
Compared(c, p, parts, pos, op) ==
  IF op.ok THEN After(Parse("sum", c, op.pos),
                      LAMBDA r : Comparisons(c, p, parts \o <<op.tree, r.tree>>, r.pos))
  ELSE IF Len(parts) = 1 THEN Got(parts[1], pos)
  ELSE Got(Node("compare", parts, p, pos - 1), pos)
Comparisons(c, p, parts, pos) == Compared(c, p, parts, pos, CompareOperator(c, pos))

Precedence == [token \in {"|", "+", "-", "*"} |-> IF token = "|" THEN 1 ELSE IF token = "*" THEN 6 ELSE 5]
\* mutant: the right side takes operators of the same precedence.
BinaryRestRight(c, p, min, left) ==
  IF Token(c, left.pos) \notin DOMAIN Precedence THEN left
  ELSE IF Precedence[Token(c, left.pos)] < min THEN left
  ELSE After(Binary(c, left.pos + 1, Precedence[Token(c, left.pos)]), LAMBDA right :
         BinaryRest(c, p, min, Made(Token(c, left.pos), <<left.tree, right.tree>>, p, right)))
BinaryRest(c, p, min, left) ==
  IF Token(c, left.pos) \notin DOMAIN Precedence THEN left
  ELSE IF Precedence[Token(c, left.pos)] < min THEN left
  ELSE After(Binary(c, left.pos + 1, Precedence[Token(c, left.pos)] + 1), LAMBDA right :
         BinaryRest(c, p, min, Made(Token(c, left.pos), <<left.tree, right.tree>>, p, right)))
Binary(c, p, min) == After(Parse("factor", c, p), LAMBDA left : BinaryRest(c, p, min, left))

AwaitPrimary(c, p) ==
  IF Token(c, p) # "await" THEN Parse("primary", c, p)
  ELSE After(Parse("primary", c, p + 1), LAMBDA r : Made("await", <<r.tree>>, p, r))
Power(c, p) ==
  After(AwaitPrimary(c, p), LAMBDA left :
    IF Token(c, left.pos) # "**" THEN left
    ELSE After(Parse("factor", c, left.pos + 1), LAMBDA right : Made("**", <<left.tree, right.tree>>, p, right)))
Factor(c, p) ==
  IF Token(c, p) = "-" THEN After(Parse("factor", c, p + 1), LAMBDA r : Made("negative", <<r.tree>>, p, r))
  ELSE Power(c, p)

-----------------------------------------------------------------------------
(* Calls.  A call is its function, its arguments and then its keywords.    *)

IsKeyword(tree) == tree.kind \in {"keyword", "double"}
ForAt(c, p) == Token(c, p) = "for" \/ (Token(c, p) = "async" /\ Token(c, p + 1) = "for")

\* One argument.  What explains a name without a value, or a value followed by an
\* assignment or a comprehension, refuses what is refused anyway.
Argument(c, p, seen) ==
  CASE Token(c, p) = "**" -> After(Parse("expression", c, p + 1), LAMBDA r : Made("double", <<r.tree>>, p, r))
    [] Token(c, p) = "*" ->
         IF "double" \in seen /\ ~c.quiet THEN Refused ELSE Starred(c, p, Parse("expression", c, p + 1))
    [] Token(c, p) = "x" /\ Token(c, p + 1) = "=" ->
         After(Parse("expression", c, p + 2), LAMBDA r : Made("keyword", <<r.tree>>, p, r))
    [] OTHER -> Parse("assignment", c, p)

\* A positional argument after a keyword is only refused once the list has been
\* read.
Arguments(c, items, seen, misplaced, pos) ==
  IF Token(c, pos) = ")" THEN
    IF misplaced THEN Refused ELSE Got(Node("arguments", items, 0, 0), pos + 1)
  ELSE ArgumentsAfter(c, items, seen, misplaced, pos, Argument(c, pos, seen))
ArgumentsAfter(c, items, seen, misplaced, from, r) ==
  LET positional == ~IsKeyword(r.tree) /\ r.tree.kind # "star"
      out == misplaced \/ (positional /\ seen # {})
      kinds == seen \union ({r.tree.kind} \intersect {"keyword", "double"})
  IN  IF ~r.ok THEN Refused
      ELSE IF positional /\ ForAt(c, r.pos)
        THEN IF items # << >> THEN Refused
             ELSE After(Expect(c, Parse("clauses", c, r.pos), ")"), LAMBDA all :
                    Got(Node("arguments", <<Node("generator", <<r.tree, all.tree>>, from - 1, all.pos - 1)>>, 0, 0),
                        all.pos))
      ELSE IF Token(c, r.pos) = "," THEN Arguments(c, Append(items, r.tree), kinds, out, r.pos + 1)
      ELSE IF Token(c, r.pos) = ")" THEN Arguments(c, Append(items, r.tree), kinds, out, r.pos)
      ELSE Refused
Call(c, p, func) ==
  After(Arguments(c, << >>, {}, FALSE, func.pos + 1), LAMBDA r :
    Made("call", <<func.tree>> \o SelectSeq(r.tree.of, LAMBDA item : ~IsKeyword(item))
                   \o SelectSeq(r.tree.of, IsKeyword), p, r))

-----------------------------------------------------------------------------
(* Subscripts.  A slice has three parts, and those left out are nothing.   *)

SlicePart(c, p) == IF Token(c, p) \in {":", ",", "]"} THEN Got(Nothing, p) ELSE Parse("expression", c, p)
SliceAfter(c, p, lower) ==
  After(SlicePart(c, lower.pos + 1), LAMBDA upper :
    IF Token(c, upper.pos) # ":" THEN Made("slice", <<lower.tree, upper.tree, Nothing>>, p, upper)
    ELSE After(SlicePart(c, upper.pos + 1), LAMBDA step :
           Made("slice", <<lower.tree, upper.tree, step.tree>>, p, step)))
SliceItem(c, p) ==
  IF Token(c, p) = ":" THEN SliceAfter(c, p, Got(Nothing, p))
  ELSE IF Token(c, p) = "*" THEN Starred(c, p, Parse("sum", c, p + 1))
  ELSE After(Parse("named", c, p), LAMBDA r : IF Token(c, r.pos) = ":" THEN SliceAfter(c, p, r) ELSE r)

RECURSIVE SliceItems(_, _, _)
SliceItems(c, items, pos) ==
  IF Token(c, pos) = "]" THEN Got(Node("items", items, 0, 0), pos)
  ELSE After(SliceItem(c, pos), LAMBDA r :
         IF Token(c, r.pos) = "," THEN SliceItems(c, Append(items, r.tree), r.pos + 1)
         ELSE Got(Node("items", Append(items, r.tree), 0, 0), r.pos))
\* One element without a comma and a star is the subscript; else it is a tuple,
\* over its elements and the last comma.
Subscript(c, p, value) ==
  After(SliceItems(c, << >>, value.pos + 1), LAMBDA r :
    IF Token(c, r.pos) # "]" \/ r.tree.of = << >> THEN Refused
    ELSE Got(Node("subscript",
                  <<value.tree,
                    IF Len(r.tree.of) = 1 /\ Token(c, r.pos - 1) # "," /\ r.tree.of[1].kind # "star"
                      THEN r.tree.of[1]
                    ELSE Node("tuple", r.tree.of, value.pos + 1, r.pos - 1)>>, p, r.pos), r.pos + 1))

Trailers(c, p, r) ==
  IF ~r.ok THEN Refused
  ELSE CASE Token(c, r.pos) = "." ->
              IF Token(c, r.pos + 1) = "x"
                THEN Trailers(c, p, Got(Node("attribute", <<r.tree>>, p, r.pos + 1), r.pos + 2))
              ELSE Refused
         [] Token(c, r.pos) = "(" -> Trailers(c, p, Call(c, p, r))
         [] Token(c, r.pos) = "[" -> Trailers(c, p, Subscript(c, p, r))
         [] OTHER -> r

-----------------------------------------------------------------------------
(* Comprehensions and what is in brackets.                                 *)

RECURSIVE Conditions(_, _, _)
Conditions(c, parts, pos) ==
  IF Token(c, pos) # "if" THEN Got(Node("for", parts, 0, 0), pos)
  ELSE After(Parse("disjunction", c, pos + 1), LAMBDA r : Conditions(c, Append(parts, r.tree), r.pos))
Clauses(c, clauses, pos) ==
  IF ~ForAt(c, pos) THEN Got(Node("clauses", clauses, 0, 0), pos)
  ELSE LET async == Token(c, pos) = "async"
           at == IF async THEN pos + 2 ELSE pos + 1
       IN  After(Expect(c, Target(c, at), "in"), LAMBDA target :
             After(Parse("disjunction", c, target.pos), LAMBDA iter :
               After(Conditions(c, <<target.tree, iter.tree>>, iter.pos), LAMBDA r :
                 Clauses(c, Append(clauses, [r.tree EXCEPT !.kind = IF async THEN "async for" ELSE @]), r.pos))))

\* An element and clauses in brackets, the closing one included.
Comprehension(c, p, kind, parts, pos, close) ==
  After(Expect(c, Parse("clauses", c, pos), close), LAMBDA r :
    Made(kind, Append(parts, r.tree), p, r))
Sequence(c, p, kind, first, close) ==
  After(Expect(c, Elements(c, "named", {close}, <<first.tree>>, first.pos), close), LAMBDA r :
    Made(kind, r.tree.of, p, r))

YieldExpression(c, p) ==
  IF Token(c, p + 1) = "from"
    THEN After(Parse("expression", c, p + 2), LAMBDA r : Made("yield from", <<r.tree>>, p, r))
  ELSE IF Token(c, p + 1) \in EndsExpression THEN Got(Node("yield", << >>, p, p), p + 1)
  ELSE After(StarExpressions(c, p + 1), LAMBDA r : Made("yield", <<r.tree>>, p, r))

\* What is grouped keeps its own place; a tuple takes the brackets'.
Parenthesized(c, p) ==
  IF Token(c, p + 1) = ")" THEN Got(Node("tuple", << >>, p, p + 1), p + 2)
  ELSE IF Token(c, p + 1) = "yield" THEN Expect(c, YieldExpression(c, p + 1), ")")
  ELSE After(Parse("star named", c, p + 1), LAMBDA first :
         IF ForAt(c, first.pos) THEN Comprehension(c, p, "generator", <<first.tree>>, first.pos, ")")
         ELSE IF Token(c, first.pos) = "," THEN Sequence(c, p, "tuple", first, ")")
         ELSE IF Token(c, p + 1) = "*" THEN Refused
         ELSE Expect(c, first, ")"))
Bracketed(c, p) ==
  IF Token(c, p + 1) = "]" THEN Got(Node("list", << >>, p, p + 1), p + 2)
  ELSE After(Parse("star named", c, p + 1), LAMBDA first :
         IF ForAt(c, first.pos) THEN Comprehension(c, p, "listcomp", <<first.tree>>, first.pos, "]")
         ELSE Sequence(c, p, "list", first, "]"))

Pair(key, value) == Node("pair", <<key, value>>, 0, 0)
\* The tree of a quiet reading is kept.
DictKeyAfter(c, p, silent) == IF silent.ok THEN silent ELSE Parse("expression", c, p)
DictKey(c, p) == DictKeyAfter(c, p, Parse("expression", Quiet(c), p))
DictItem(c, p) ==
  IF Token(c, p) = "**"
    THEN After(Parse("sum", c, p + 1), LAMBDA r : Got(Node("mapping", <<r.tree>>, 0, 0), r.pos))
  ELSE After(Expect(c, DictKey(c, p), ":"), LAMBDA key :
         After(Parse("expression", c, key.pos), LAMBDA value : Got(Pair(key.tree, value.tree), value.pos)))
RECURSIVE DictBody(_, _, _, _)
DictBody(c, p, items, pos) ==
  IF Token(c, pos) = "}" THEN Got(Node("dict", items, p, pos), pos + 1)
  ELSE After(DictItem(c, pos), LAMBDA r :
         IF Token(c, r.pos) = "," THEN DictBody(c, p, Append(items, r.tree), r.pos + 1)
         ELSE After(Expect(c, r, "}"), LAMBDA close : Made("dict", Append(items, r.tree), p, close)))
\* One of four, by what is after the first element.
Braced(c, p) ==
  IF Token(c, p + 1) \in {"}", "**"} THEN DictBody(c, p, << >>, p + 1)
  ELSE After(Parse("star named", c, p + 1), LAMBDA first :
         IF Token(c, first.pos) = ":" THEN
           After(Parse("expression", c, first.pos + 1), LAMBDA value :
             IF ForAt(c, value.pos)
               THEN Comprehension(c, p, "dictcomp", <<Pair(first.tree, value.tree)>>, value.pos, "}")
             ELSE IF Token(c, value.pos) = ","
               THEN DictBody(c, p, <<Pair(first.tree, value.tree)>>, value.pos + 1)
             ELSE After(Expect(c, value, "}"), LAMBDA close :
                    Made("dict", <<Pair(first.tree, value.tree)>>, p, close)))
         ELSE IF ForAt(c, first.pos) THEN Comprehension(c, p, "setcomp", <<first.tree>>, first.pos, "}")
         ELSE Sequence(c, p, "set", first, "}"))

Atom(c, p) ==
  CASE Token(c, p) = "x" -> Got(Name(p), p + 1)
    [] Token(c, p) = "(" -> Parenthesized(c, p)
    [] Token(c, p) = "[" -> Bracketed(c, p)
    [] Token(c, p) = "{" -> Braced(c, p)
    [] OTHER -> Refused

-----------------------------------------------------------------------------
(* Parameters of a lambda: where each one is, by its role.                 *)

NoParameters ==
  [posonly |-> << >>, args |-> << >>, vararg |-> << >>, kwonly |-> << >>, kwarg |-> << >>,
   defaults |-> << >>, kwDefaults |-> << >>]

\* One parameter, or one of the two marks; seen are the marks and stars so far.
Plain(c, p, seen, params) ==
  IF Token(c, p) # "x" THEN Refused
  ELSE After(IF Token(c, p + 1) = "=" THEN Parse("expression", c, p + 2) ELSE Got(Nothing, p + 1), LAMBDA default :
         IF "*" \in seen
           THEN Got([params EXCEPT !.kwonly = Append(@, p), !.kwDefaults = Append(@, default.tree)], default.pos)
         ELSE IF default.tree # Nothing
           THEN Got([params EXCEPT !.args = Append(@, p), !.defaults = Append(@, default.tree)], default.pos)
         ELSE IF params.defaults # << >> THEN Refused
         ELSE Got([params EXCEPT !.args = Append(@, p)], p + 1))
BareStar(c, p, params) ==
  IF Token(c, p + 1) = ":" \/ Token(c, p + 2) \in {":", "**"} THEN Refused ELSE Got(params, p + 1)
Parameter(c, p, seen, params) ==
  CASE Token(c, p) = "/" ->
         IF seen # {} \/ params.args = << >> THEN Refused
         ELSE Got([params EXCEPT !.posonly = params.args, !.args = << >>], p + 1)
    [] Token(c, p) = "*" ->
         IF "*" \in seen THEN Refused
         ELSE IF Token(c, p + 1) \in {",", ":"} THEN BareStar(c, p, params)
         ELSE IF Token(c, p + 1) # "x" \/ Token(c, p + 2) = "=" THEN Refused
         ELSE Got([params EXCEPT !.vararg = <<p + 1>>], p + 2)
    [] Token(c, p) = "**" ->
         IF Token(c, p + 1) # "x" \/ Token(c, p + 2) = "=" THEN Refused
         ELSE Got([params EXCEPT !.kwarg = <<p + 1>>], p + 2)
    [] OTHER -> Plain(c, p, seen, params)
RECURSIVE Parameters(_, _, _, _)
Parameters(c, p, seen, params) ==
  IF Token(c, p) = ":" THEN Got(params, p)
  ELSE IF params.kwarg # << >> THEN Refused
  ELSE After(Parameter(c, p, seen, params), LAMBDA r :
         IF Token(c, r.pos) = ","
           THEN Parameters(c, r.pos + 1, seen \union ({Token(c, p)} \intersect {"*", "/"}), r.tree)
         ELSE r)
Lambda(c, p) ==
  After(Expect(c, Parameters(c, p + 1, {}, NoParameters), ":"), LAMBDA params :
    After(Parse("expression", c, params.pos), LAMBDA body : Made("lambda", <<params.tree, body.tree>>, p, body)))

-----------------------------------------------------------------------------
(* An expression, and what explains two of them side by side or a := where *)
(* no name is.                                                             *)

MissingComma(c, pos) ==
  ~c.quiet /\ Level(c, pos) > 0 /\ Token(c, pos) \in BeginsExpression /\ Parse("expression", Quiet(c), pos).ok
Conditional(c, p, body) ==
  IF MissingComma(c, body.pos) THEN Refused
  ELSE IF Token(c, body.pos) # "if" THEN body
  ELSE After(Expect(c, Parse("disjunction", c, body.pos + 1), "else"), LAMBDA test :
         After(Parse("expression", c, test.pos), LAMBDA orelse :
           Made("conditional", <<test.tree, body.tree, orelse.tree>>, p, orelse)))
Expression(c, p) ==
  IF Token(c, p) = "lambda" THEN Lambda(c, p)
  ELSE After(Parse("disjunction", c, p), LAMBDA body : Conditional(c, p, body))

Assignment(c, p) ==
  IF Token(c, p) = "x" /\ Token(c, p + 1) = ":="
    THEN After(Parse("expression", c, p + 2), LAMBDA r : Made("named", <<Name(p), r.tree>>, p, r))
  ELSE Parse("expression", c, p)
Named(c, p) ==
  After(Parse("assignment", c, p), LAMBDA r :
    IF ~c.quiet /\ Token(c, r.pos) \in {":=", "="} THEN Refused ELSE r)

Parse(rule, c, p) ==
  CASE rule = "expression" -> Expression(c, p)
    [] rule = "disjunction" -> Disjunction(c, p)
    [] rule = "conjunction" -> Conjunction(c, p)
    [] rule = "inversion" -> Inversion(c, p)
    [] rule = "sum" -> Binary(c, p, 1)
    [] rule = "factor" -> Factor(c, p)
    [] rule = "primary" -> Trailers(c, p, Atom(c, p))
    [] rule = "clauses" -> Clauses(c, << >>, p)
    [] rule = "assignment" -> Assignment(c, p)
    [] rule = "named" -> Named(c, p)
    [] rule = "star named" -> StarNamed(c, p)
    [] rule = "star expression" -> StarExpression(c, p)
    [] rule = "star target" -> StarTarget(c, p)

\* A whole text of one expression.
ParseExpression(tokens) ==
  LET c == [tokens |-> tokens, quiet |-> FALSE]
  IN  Expect(c, TupleOr(c, 1, "whole", EndsExpression), "end")
=============================================================================
