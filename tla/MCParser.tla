----------------------------- MODULE MCParser -------------------------------
(* The grammar of expressions as productions, the trees it gives a text,    *)
(* and the texts that are parsed.                                           *)
EXTENDS Parser

\* A production is what it makes, of what, and the kind of the tree: "same" is
\* the tree of its one part, "many" is put among the parts of what it is in.
By(made, of, kind) == [made |-> made, of |-> of, kind |-> kind]
Same(made, part) == By(made, <<part>>, "same")
List(list, part, separator) ==
  {By(list, <<part>>, "many"), By(list, separator \o <<list>>, "many")}
Commas(list, part) ==
  List(list, part, <<part, ",">>) \union {By(list, <<part, ",">>, "many")}
TupleWith(made, part) ==
  {By(made, <<part, ",">>, "tuple"), By(made, <<part, ",", made \o "s">>, "tuple")} \union Commas(made \o "s", part)
Left(made, operators, tighter) ==
  {By(made, <<made, op, tighter>>, op) : op \in operators} \union {Same(made, tighter)}
Chained(made, word, rest, tighter) ==
  {Same(made, tighter), By(made, <<tighter, rest>>, word),
   By(rest, <<word, tighter>>, "many"), By(rest, <<word, tighter, rest>>, "many")}

Operators ==
  Chained("disjunction", "or", "ors", "conjunction") \union Chained("conjunction", "and", "ands", "inversion")
    \union {By("inversion", <<"not", "inversion">>, "not"), Same("inversion", "comparison"),
            Same("comparison", "sum"), By("comparison", <<"sum", "compared">>, "compare"),
            By("compared", <<"operator", "sum">>, "many"), By("compared", <<"operator", "sum", "compared">>, "many"),
            By("operator", <<"<">>, "<"), By("operator", <<"in">>, "in"), By("operator", <<"is">>, "is"),
            By("operator", <<"not", "in">>, "not in"), By("operator", <<"is", "not">>, "is not")}
    \union Left("sum", {"|"}, "term") \union Left("term", {"+", "-"}, "product") \union Left("product", {"*"}, "factor")
    \union {By("factor", <<"-", "factor">>, "negative"), Same("factor", "power"),
            Same("power", "awaited"), By("power", <<"awaited", "**", "factor">>, "**"),
            Same("awaited", "primary"), By("awaited", <<"await", "primary">>, "await")}
Primaries ==
  {Same("primary", "atom"), By("primary", <<"primary", ".", "name">>, "attribute"),
   By("primary", <<"primary", "(", ")">>, "call"), By("primary", <<"primary", "sole">>, "call"),
   By("primary", <<"primary", "(", "arguments", ")">>, "call"),
   By("primary", <<"primary", "[", "piece", "]">>, "subscript"),
   By("primary", <<"primary", "[", "pieces", "]">>, "subscript"), By("pieces", <<"*", "sum">>, "starred tuple"),
   Same("part", "piece"), Same("part", "spread"), Same("piece", "slice"), Same("piece", "named"),
   Same("argument", "named"), By("argument", <<"*", "expression">>, "star"),
   By("argument", <<"name", "=", "expression">>, "keyword"), By("argument", <<"**", "expression">>, "double")}
    \union TupleWith("pieces", "part") \union Commas("arguments", "argument")
    \union {By("slice", lower \o <<":">> \o upper \o step, "slice") :
              lower, upper \in {<< >>, <<"expression">>}, step \in {<< >>, <<":">>, <<":", "expression">>}}
Displays ==
  {Same("atom", made) : made \in {"name", "generator", "list", "set", "tuple"}}
    \union {By("name", <<"x">>, "x"), Same("element", "named"), Same("element", "spread"),
            By("spread", <<"*", "sum">>, "star"), By("atom", <<"(", "named", ")">>, "same"),
            By("atom", <<"(", "yielded", ")">>, "same"), By("tuple", <<"(", ")">>, "tuple"),
            By("tuple", <<"(", "element", ",", ")">>, "tuple"),
            By("tuple", <<"(", "element", ",", "elements", ")">>, "tuple"),
            By("list", <<"[", "]">>, "list"), By("list", <<"[", "elements", "]">>, "list"),
            By("set", <<"{", "elements", "}">>, "set"), By("set", <<"{", "}">>, "dict"),
            By("set", <<"{", "first", "}">>, "dict"), By("set", <<"{", "first", ",", "}">>, "dict"),
            By("set", <<"{", "first", ",", "items", "}">>, "dict"), By("set", <<"{", "pair", "clauses", "}">>, "dictcomp"),
            Same("first", "pair"), Same("first", "mapping"), Same("item", "later"), Same("item", "mapping"),
            By("pair", <<"expression", ":", "expression">>, "pair"),
            By("later", <<"expression", ":", "expression">>, "pair"), By("mapping", <<"**", "sum">>, "mapping")}
    \union {Same("generator", "sole"), By("sole", <<"(", "named", "clauses", ")">>, "generator"),
            By("list", <<"[", "named", "clauses", "]">>, "listcomp"),
            By("set", <<"{", "named", "clauses", "}">>, "setcomp")}
    \union Commas("elements", "element") \union Commas("items", "item")
    \union {By("yielded", <<"yield">>, "yield"), By("yielded", <<"yield", "from", "expression">>, "yield from"),
            By("yielded", <<"yield", "value">>, "yield"), By("yielded", <<"yield", "values">>, "yield"),
            Same("value", "expression"), Same("value", "spread")}
    \union TupleWith("values", "value")
Comprehensions ==
  {By("clauses", <<"clause">>, "clauses"), By("clauses", <<"clause", "more">>, "clauses"),
   Same("targets", "target"), Same("target", "sum"), Same("target", "spread")}
    \union List("more", "clause", <<"clause">>) \union TupleWith("targets", "target")
    \union {By("clause", async \o <<"for", "targets", "in", "disjunction">> \o ifs,
               IF async = << >> THEN "for" ELSE "async for") :
              async \in {<< >>, <<"async">>}, ifs \in {<< >>, <<"ifs">>}}
    \union {By("ifs", <<"if", "disjunction">>, "many"), By("ifs", <<"if", "disjunction", "ifs">>, "many")}
Expressions ==
  {Same("whole", "expression"), Same("expression", "disjunction"),
   By("expression", <<"disjunction", "if", "disjunction", "else", "expression">>, "conditional"),
   By("expression", <<"lambda", ":", "expression">>, "lambda"),
   By("expression", <<"lambda", "parameters", ":", "expression">>, "lambda"),
   Same("named", "expression"), Same("named", "walrus"), By("walrus", <<"name", ":=", "expression">>, "named"),
   By("parameter", <<"name">>, "plain"), By("parameter", <<"name", "=", "expression">>, "default"),
   By("parameter", <<"/">>, "/"), By("parameter", <<"*">>, "bare"),
   By("parameter", <<"*", "name">>, "vararg"), By("parameter", <<"**", "name">>, "kwarg")}
    \union TupleWith("whole", "expression") \union Commas("parameters", "parameter")

\* What CPython refuses and this parser reads: a star before clauses, a := or a
\* star as the first key, a := in front of a slice, a star of a star in a target.
Looser ==
  {By("generator", <<"(", "spread", "clauses", ")">>, "generator"),
   By("list", <<"[", "spread", "clauses", "]">>, "listcomp"), By("set", <<"{", "spread", "clauses", "}">>, "setcomp"),
   By("pair", <<"walrus", ":", "expression">>, "pair"), By("pair", <<"spread", ":", "expression">>, "pair"),
   By("stars", <<"*", "spread">>, "star"), By("stars", <<"*", "stars">>, "star"), Same("target", "stars")}
    \union {By("slice", <<"walrus", ":">> \o upper \o step, "slice") :
              upper \in {<< >>, <<"expression">>}, step \in {<< >>, <<":">>, <<":", "expression">>}}

Grammar == Operators \union Primaries \union Displays \union Comprehensions \union Expressions \union Looser
Makes == {rule.made : rule \in Grammar}
Rules == [made \in Makes |-> {rule \in Grammar : rule.made = made}]

\* The words a text of each thing can begin with.
RECURSIVE Leading(_)
Leading(words) ==
  LET more == words \union {Head(rule.of) : rule \in {r \in Grammar : r.made \in words}}
  IN  IF more = words THEN words \ Makes ELSE Leading(more)
Begins == [word \in Makes \union UNION {ToSet(rule.of) : rule \in Grammar} |->
             Leading({word})]

-----------------------------------------------------------------------------
(* What a text derives.                                                    *)

Spliced(parts) ==
  FlattenSeq([k \in DOMAIN parts |->
    IF parts[k].kind = "many" THEN parts[k].of ELSE IF parts[k].kind = ":" THEN << >> ELSE <<parts[k]>>])

\* The part of a slice before its first colon, between the two, or after them.
SlicePartOf(parts, n) ==
  LET Colons(k) == Cardinality({m \in 1 .. k : parts[m].kind = ":"})
      there == {k \in DOMAIN parts : parts[k].kind # ":" /\ Colons(k) = n}
  IN  IF there = {} THEN Nothing ELSE parts[CHOOSE k \in there : TRUE]

InOrder(items) ==
  \A a, b \in DOMAIN items : a < b =>
    /\ IsKeyword(items[a]) => IsKeyword(items[b]) \/ items[b].kind = "star"
    /\ items[a].kind = "double" => items[b].kind # "star"
ParametersInOrder(items) ==
  LET Of(kinds) == {k \in DOMAIN items : items[k].kind \in kinds}
      named == Of({"plain", "default"})
  IN  /\ Cardinality(Of({"/"})) <= 1 /\ Cardinality(Of({"bare", "vararg"})) <= 1
      /\ \A k \in Of({"/"}) : k > 1 /\ \A m \in Of({"bare", "vararg", "kwarg"}) : k < m
      /\ Of({"kwarg"}) \subseteq {Len(items)}
      /\ \A k \in Of({"bare"}) : k + 1 \in named
      /\ \A k \in Of({"default"}), m \in Of({"plain"}) :
           k < m => \E star \in Of({"bare", "vararg"}) : star < m
Roles(items) ==
  LET Following(kinds, k) == \E m \in 1 .. k : items[m].kind \in kinds
      Ahead(kinds, k) == \E m \in k .. Len(items) : items[m].kind \in kinds
      At(P(_)) == LET ks == SelectSeq([k \in DOMAIN items |-> k], P)
                  IN  [k \in DOMAIN ks |-> items[ks[k]].of[1].from]
      Values(P(_)) == LET ks == SelectSeq([k \in DOMAIN items |-> k], P)
                      IN  [k \in DOMAIN ks |-> IF items[ks[k]].kind = "default" THEN items[ks[k]].of[2] ELSE Nothing]
      KindIn(k, kinds) == items[k].kind \in kinds
      stars == {"bare", "vararg"}
      names == {"plain", "default"}
  IN  [posonly |-> At(LAMBDA k : KindIn(k, names) /\ Ahead({"/"}, k)),
       args |-> At(LAMBDA k : KindIn(k, names) /\ ~Ahead({"/"}, k) /\ ~Following(stars, k)),
       vararg |-> At(LAMBDA k : KindIn(k, {"vararg"})), kwarg |-> At(LAMBDA k : KindIn(k, {"kwarg"})),
       kwonly |-> At(LAMBDA k : KindIn(k, names) /\ Following(stars, k)),
       defaults |-> Values(LAMBDA k : KindIn(k, {"default"}) /\ ~Following(stars, k)),
       kwDefaults |-> Values(LAMBDA k : KindIn(k, names) /\ Following(stars, k))]

\* Whether a production may be used for these parts, and the tree it gives.
Allowed(kind, parts) ==
  CASE kind = "call" -> InOrder(Tail(Spliced(parts)))
    [] kind \in {"for", "async for"} -> Storable(parts[1])
    [] kind = "lambda" /\ Len(Spliced(parts)) > 1 -> ParametersInOrder(Front(Spliced(parts)))
    [] OTHER -> TRUE
Tree(kind, parts, i, j) ==
  LET all == Spliced(parts)
  IN  CASE kind = "same" -> all[1]
        [] kind = "x" -> Name(i)
        [] kind \in {"<", "in", "is", "not in", "is not"} -> Mark(kind)
        [] kind \in {"many", "clauses", "for", "async for", "pair", "mapping"} -> Node(kind, all, 0, 0)
        [] kind = "attribute" -> Node(kind, <<all[1]>>, i, j)
        [] kind \in {"named", "keyword"} -> Node(kind, IF kind = "named" THEN all ELSE <<all[2]>>, i, j)
        [] kind = "conditional" -> Node(kind, <<all[2], all[1], all[3]>>, i, j)
        [] kind = "call" -> Node(kind, SelectSeq(all, LAMBDA item : ~IsKeyword(item)) \o SelectSeq(all, IsKeyword), i, j)
        [] kind = "starred tuple" -> Node("tuple", <<Node("star", all, i, j)>>, i, j)
        [] kind = "slice" -> Node(kind, <<SlicePartOf(parts, 0), SlicePartOf(parts, 1), SlicePartOf(parts, 2)>>, i, j)
        [] kind = "lambda" -> Node(kind, <<Roles(Front(all)), Last(all)>>, i, j)
        [] OTHER -> Node(kind, all, i, j)

\* The ways to read the tokens i .. j as these parts one after another, and the
\* trees they have as one thing made.
RECURSIVE Trees(_, _, _, _), Ways(_, _, _, _)
Before(t, made, i, k, rest) ==
  IF rest = {} THEN {} ELSE {<<tree>> \o w : tree \in Trees(t, made, i, k), w \in rest}
Ways(t, of, i, j) ==
  IF of = << >> THEN IF i > j THEN {<< >>} ELSE {}
  ELSE IF i + Len(of) - 1 > j THEN {}
  ELSE IF Head(of) \notin Makes THEN
    IF t[i] # Head(of) THEN {}
    ELSE LET first == IF t[i] = ":" THEN <<Mark(":")>> ELSE << >>
         IN  {first \o w : w \in Ways(t, Tail(of), i + 1, j)}
  ELSE IF Len(of) = 1 THEN {<<tree>> : tree \in Trees(t, Head(of), i, j)}
  ELSE UNION {Before(t, Head(of), i, k, Ways(t, Tail(of), k + 1, j)) :
                k \in {k \in i .. j - Len(of) + 1 : t[k + 1] \in Begins[of[2]]}}
Trees(t, made, i, j) ==
  IF t[i] \notin Begins[made] THEN {}
  ELSE UNION {{Tree(rule.kind, w, i, j) :
                 w \in {w \in Ways(t, rule.of, i, j) : Allowed(rule.kind, w)}} :
                rule \in Rules[made]}
Derived(t) == Trees(t, "whole", 1, Len(t))

\* A tree of a text CPython refuses: a call in a key of a dict, the first one
\* aside, unpacks an iterable after a mapping.
Inside(tree) ==
  IF tree.kind = "lambda" THEN tree.of[1].defaults \o tree.of[1].kwDefaults \o Tail(tree.of) ELSE tree.of
LateStar(tree) ==
  tree.kind = "call" /\ \E a, b \in DOMAIN tree.of :
    tree.of[a].kind = "double" /\ tree.of[b].kind = "star" /\ tree.of[a].from < tree.of[b].from
RECURSIVE HasLateStar(_), KeptQuiet(_)
HasLateStar(tree) == LateStar(tree) \/ \E k \in DOMAIN Inside(tree) : HasLateStar(Inside(tree)[k])
KeptQuiet(tree) ==
  \/ tree.kind = "dict" /\ \E k \in DOMAIN tree.of :
       k > 1 /\ tree.of[k].kind = "pair" /\ HasLateStar(tree.of[k].of[1])
  \/ \E k \in DOMAIN Inside(tree) : KeptQuiet(Inside(tree)[k])

-----------------------------------------------------------------------------
(* Texts, put together of chunks.                                          *)

ForX == <<"for", "x", "in", "x">>
X == <<"x">>
One(tokens) == {<<token>> : token \in tokens}
Text(open, chunks, n, close) == [open |-> open, chunks |-> chunks, n |-> n, close |-> close]
Texts ==
  {Text(<< >>, One({"x", "and", "not", "in", "is", "<"}), 4, << >>),
   Text(<< >>, One({"x", "|", "+", "-", "*"}), 5, << >>), Text(<< >>, One({"x", "-", "**", "await", "."}), 4, << >>),
   Text(<< >>, {X, <<"x", "if", "x">>, <<"if">>, <<"else">>, <<"or">>, <<"lambda", ":">>}, 4, << >>),
   Text(<<"(">>, One({"x", ",", ":=", "*", "yield", "="}) \union {ForX}, 4, <<")">>),
   Text(<<"[">>, One({"x", ",", ":=", "*", "if"}) \union {ForX, <<"async">>}, 4, <<"]">>),
   Text(<<"[", "x", "for">>, One({"x", ",", "*", "(", ")", "in"}), 4, <<"in", "x", "]">>),
   Text(<<"{">>, One({"x", ",", ":=", "*", "**", ":"}) \union {ForX}, 4, <<"}">>),
   Text(<<"x", "[">>, One({"x", ":", ",", "*", ":="}), 4, <<"]">>),
   Text(<<"x", "(">>, {X, <<"x", "=">>, <<",">>, <<"*", "x">>, <<"**", "x">>, <<"x", ":=">>, ForX}, 4, <<")">>),
   Text(<<"{", "x", ":", "x", ",", "x", "(">>, {<<"*", "x">>, <<"**", "x">>, <<",">>, X}, 3, <<")", ":", "x", "}">>),
   Text(<<"{", "x", ":", "x", ",", "x", ":", "x", "(">>, {<<"*", "x">>, <<"**", "x">>, <<",">>, X}, 3, <<")", "}">>),
   Text(<<"lambda">>, {X, <<"=", "x">>, <<"*">>, <<"**">>, <<"/">>, <<",">>}, 5, <<":", "x">>)}
RECURSIVE Put(_)
Put(s) == IF s = << >> THEN << >> ELSE Head(s) \o Put(Tail(s))
SomeTokens(Ask(_)) ==
  \E text \in Texts : \E n \in 0 .. text.n : \E s \in [1 .. n -> text.chunks] :
    text.open \o s # << >> /\ Ask(text.open \o Put(s) \o text.close)
=============================================================================
