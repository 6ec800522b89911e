----------------------------- MODULE MCChecks -------------------------------
(* What Checks is for, said of each construct by what encloses it, and the  *)
(* programs it is asked about.                                              *)
EXTENDS Checks

Wrong(pass, what) == [pass |-> pass, what |-> what]
Only(bad, wrong) == IF bad THEN {wrong} ELSE {}
Twice(named) == \E i, j \in DOMAIN named : i < j /\ named[i].name = named[j].name /\ named[i].name # NoName
Values(keywords) == [i \in DOMAIN keywords |-> keywords[i].value]

\* Something is wrong, or not, that is known not to be looked at as it should be.
Overlooked == Wrong("no pass", "overlooked")

\* Whether evaluating an expression awaits in the scope it is written in.
RECURSIVE Awaits(_)
SomeAwaits(exprs) == \E i \in DOMAIN exprs : Awaits(exprs[i])
IsAsync(c) ==
  c.async \/ SomeAwaits(c.parts) \/ \E i \in DOMAIN c.clauses : c.clauses[i].async \/ SomeAwaits(c.clauses[i].parts)
Awaits(e) ==
  CASE e.kind = "await" -> TRUE
    [] e.kind = "lambda" -> SomeAwaits(e.defaults)
    [] e.kind = "comprehension" -> Awaits(e.iter) \/ (e.of # "generator" /\ IsAsync(e))
    [] e.kind = "call" -> SomeAwaits(e.parts) \/ SomeAwaits(Values(e.keywords))
    [] OTHER -> SomeAwaits(e.parts)

\* Everything that is wrong in an expression written in a scope.
RECURSIVE WrongIn(_, _)
WrongInAll(exprs, scope) == UNION {WrongIn(exprs[i], scope) : i \in DOMAIN exprs}
WrongKeywords(keywords, scope) ==
  LET rest == Values(SelectSeq(keywords, LAMBDA k : k.name = NoName))
  IN  WrongInAll(Values(keywords), scope)
        \union Only(Twice(keywords), Wrong("codegen", "keyword repeated"))
        \union Only(WrongInAll(rest, scope) # {} \/ SomeAwaits(rest), Overlooked)
WrongIn(e, scope) ==
  CASE e.kind = "parts" -> WrongInAll(e.parts, scope)
    [] e.kind = "call" ->
         WrongInAll(e.parts, scope) \union WrongKeywords(e.keywords, scope)
    [] e.kind = "lambda" ->
         WrongInAll(e.defaults, scope) \union WrongInAll(e.parts, "def")
           \union Only(Repeated(e.params), Wrong("symbols", "duplicate argument"))
    [] e.kind = "await" ->
         WrongInAll(e.parts, scope)
           \union Only(scope \in {"module", "class"}, Wrong("symbols", "await outside"))
           \union Only(scope = "def", Wrong("symbols", "await not async"))
    [] e.kind = "yield" ->
         WrongInAll(e.parts, scope)
           \union Only(scope \in {"module", "class"}, Wrong("codegen", "yield outside"))
           \union Only(scope = "async def" /\ e.from, Wrong("codegen", "yield from async"))
           \union Only(scope = "comprehension", Wrong("symbols", "yield inside comprehension"))
    [] e.kind = "comprehension" ->
         WrongIn(e.iter, scope) \union WrongInAll(e.parts, "comprehension")
           \union UNION {WrongInAll(e.clauses[i].parts, "comprehension") : i \in DOMAIN e.clauses}
           \union Only(IsAsync(e) /\ e.of # "generator" /\ scope \notin {"async def", "comprehension"},
                       Wrong("symbols", "asynchronous comprehension"))

\* The bounds and defaults of type parameters, and what a generic class or an
\* alias is made of, are in a scope that may not await or yield; they are walked
\* as if they were in the one around it.
OfScope == {"await outside", "yield outside", "asynchronous comprehension"}
WrongInTypes(exprs, scope) ==
  WrongInAll(exprs, scope)
    \union Only(\E w \in WrongInAll(exprs, "class") : w.what \in OfScope, Overlooked)
WrongTypes(params, scope) ==
  UNION {WrongInTypes(params[i].parts, scope) : i \in DOMAIN params}
    \union Only(Twice(params), Wrong("symbols", "duplicate type parameter"))

\* And in a block in a scope, in a loop of that scope or not.
RECURSIVE WrongStmt(_, _, _)
WrongBlock(body, scope, loop) == UNION {WrongStmt(body[i], scope, loop) : i \in DOMAIN body}
WrongStmt(s, scope, loop) ==
  CASE s.kind = "def" ->
         WrongInAll(s.decorators \o s.defaults \o s.annotations, scope)
           \union WrongBlock(s.body, IF s.async THEN "async def" ELSE "def", FALSE)
           \union Only(Repeated(s.params), Wrong("symbols", "duplicate argument"))
           \union WrongTypes(s.typeParams, scope)
    [] s.kind = "class" ->
         WrongInAll(s.decorators, scope) \union WrongBlock(s.body, "class", FALSE)
           \union WrongInAll(s.bases, scope) \union WrongKeywords(s.keywords, scope)
           \union WrongTypes(s.typeParams, scope)
           \union (IF s.typeParams = << >> THEN {}
                   ELSE WrongInTypes(s.bases \o Values(s.keywords), scope))
    [] s.kind = "loop" ->
         WrongInAll(s.head, scope) \union WrongBlock(s.body, scope, TRUE)
           \union WrongBlock(s.orelse, scope, loop)
           \union Only(s.async /\ scope # "async def", Wrong("symbols", "async for"))
    [] s.kind = "clauses" ->
         UNION {WrongInAll(s.clauses[i].head, scope) \union WrongBlock(s.clauses[i].body, scope, loop) :
                  i \in DOMAIN s.clauses}
           \union Only(s.async /\ scope # "async def", Wrong("symbols", "async with"))
    [] s.kind = "simple" -> WrongInAll(s.parts, scope)
    [] s.kind = "alias" -> WrongTypes(s.typeParams, scope) \union WrongInTypes(s.parts, scope)
    [] s.kind = "return" ->
         WrongInAll(s.parts, scope) \union Only(scope \in {"module", "class"}, Wrong("codegen", "return outside"))
    [] s.kind = "jump" -> Only(~loop, Wrong("codegen", "jump outside loop"))
    [] s.kind = "star" -> Only(scope # "module", Wrong("symbols", "import star"))
    [] s.kind = "nonlocal" -> Only(scope = "module", Wrong("symbols", "nonlocal at module level"))

-----------------------------------------------------------------------------
Plain == [kind |-> "parts", parts |-> << >>]
Both(a, b) == [kind |-> "parts", parts |-> <<a, b>>]
Await(e) == [kind |-> "await", parts |-> <<e>>]
Yielded(from, e) == [kind |-> "yield", from |-> from, parts |-> <<e>>]
Lambda(params, e, body) == [kind |-> "lambda", params |-> params, defaults |-> <<e>>, parts |-> <<body>>]
Call(names, e) ==
  [kind |-> "call", parts |-> <<Plain>>, keywords |-> [i \in DOMAIN names |-> [name |-> names[i], value |-> e]]]
Made(of, async, iter, clauses, e) ==
  [kind |-> "comprehension", of |-> of, async |-> async, iter |-> iter, clauses |-> clauses, parts |-> <<e>>]

Rest(e, f) ==
  [kind |-> "call", parts |-> <<Plain>>, keywords |-> <<[name |-> "a", value |-> e], [name |-> NoName, value |-> f]>>]

Names == {<<"a">>, <<"a", "b">>, <<"a", "a">>}
Once == {Plain, Await(Plain), Yielded(TRUE, Plain), Yielded(FALSE, Plain)}
Nests(inner) ==
  {Made(of, async, iter, << >>, e) : of \in {"list", "generator"}, async \in BOOLEAN, iter \in inner, e \in inner}
Exprs ==
  Once \union Nests(Once) \union {Both(a, b) : a, b \in Once}
    \union {Yielded(FALSE, Await(Plain)), Await(Yielded(FALSE, Plain)), Yielded(TRUE, Yielded(FALSE, Plain))}
    \union {Lambda(params, e, body) : params \in Names, e, body \in Once}
    \union {Call(names, e) : names \in Names \union {<<"a", NoName, "a">>, <<NoName, NoName>>}, e \in Once}
    \union {Rest(e, f) : e, f \in Once} \union {Rest(Plain, Rest(e, Plain)) : e \in Once}
    \union {Made("list", FALSE, Plain, <<[async |-> async, parts |-> <<e>>]>>, Plain) : async \in BOOLEAN, e \in Once}
DeepExprs ==
  {Made(of, async, Plain, << >>, e) : of \in {"list", "generator"}, async \in BOOLEAN, e \in Nests(Once)}
    \union {Made(of, FALSE, iter, << >>, Plain) : of \in {"list", "generator"}, iter \in Nests(Once)}
    \union {Lambda(<<"a">>, Plain, e) : e \in Nests(Once)}

Simple(e) == [kind |-> "simple", parts |-> <<e>>]
Small ==
  {[kind |-> k] : k \in {"jump", "star", "nonlocal"}} \union {[kind |-> "return", parts |-> <<Plain>>]}
    \union {Simple(e) : e \in Once}
\* Type parameters, each with a bound.
Bounded(names, e) == [i \in DOMAIN names |-> [name |-> names[i], parts |-> <<e>>]]
Def(async, e, names, body) ==
  [kind |-> "def", async |-> async, decorators |-> << >>, defaults |-> <<e>>, annotations |-> <<Plain>>,
   params |-> names, typeParams |-> Bounded(<<"T">>, Plain), body |-> body]
Around == {"def", "async def", "class", "loop", "async loop", "else", "if", "async with"}
Loop(async, body, orelse) ==
  [kind |-> "loop", async |-> async, head |-> <<Plain>>, body |-> body, orelse |-> orelse]
Wrap(how, s) ==
  CASE how \in {"def", "async def"} -> Def(how = "async def", Plain, <<"a">>, <<s>>)
    [] how = "class" ->
         [kind |-> "class", decorators |-> << >>, bases |-> << >>, keywords |-> << >>,
          typeParams |-> Bounded(<<"T">>, Plain), body |-> <<s>>]
    [] how \in {"loop", "async loop"} -> Loop(how = "async loop", <<s>>, << >>)
    [] how = "else" -> Loop(FALSE, <<Simple(Plain)>>, <<s>>)
    [] how \in {"if", "async with"} ->
         [kind |-> "clauses", async |-> how = "async with",
          clauses |-> <<[head |-> <<Plain>>, body |-> <<s>>], [head |-> << >>, body |-> <<Simple(Plain)>>]>>]

Bounds == Once \union {Lambda(names, Plain, e) : names \in Names, e \in Once}
            \union {Call(names, Plain) : names \in Names}
Heads ==
  {Def(async, e, names, <<s>>) : async \in BOOLEAN, e \in Once, names \in Names, s \in Small}
    \union {[kind |-> "class", decorators |-> <<e>>, typeParams |-> Bounded(names, Plain), body |-> <<s>>,
             bases |-> <<g>>, keywords |-> <<[name |-> "a", value |-> Plain], [name |-> k, value |-> f]>>] :
              e, f, g \in Once, names \in {<< >>, <<"a">>, <<"a", "a">>}, k \in {"a", "b", NoName},
              s \in {Simple(Plain), [kind |-> "star"]}}
    \union {[Def(FALSE, Plain, <<"a">>, <<Simple(Plain)>>) EXCEPT !.typeParams = Bounded(names, e)] :
              names \in Names, e \in Bounds}
    \union {[kind |-> "alias", typeParams |-> Bounded(names, e), parts |-> <<f>>] : names \in Names, e, f \in Bounds}

SomeProgram(Ask(_)) ==
  \/ \E how \in Around, e \in Exprs \union DeepExprs : Ask(<<Wrap(how, Simple(e))>>)
  \/ \E how, next \in Around, e \in Exprs : Ask(<<Wrap(how, Wrap(next, Simple(e)))>>)
  \/ \E how, next, last \in Around, s \in Small : Ask(<<Wrap(how, Wrap(next, Wrap(last, s)))>>)
  \/ \E how, next \in Around, s, t \in Small : Ask(<<Wrap(how, s), Wrap(next, t)>>)
  \/ \E s \in Heads, t \in Small : Ask(<<s, t>>) \/ Ask(<<Wrap("async def", s), t>>)
=============================================================================
