------------------------------- MODULE Checks -------------------------------
(***************************************************************************)
(* What is refused between the parser and the compiler (kohebi-parse,      *)
(* check.rs): two passes over the tree, each of which keeps the first      *)
(* thing it refuses.                                                       *)
(*                                                                         *)
(* An expression is a record of a kind and the parts it walks, in order;   *)
(* every kind that is only walked through is "parts".  A statement that    *)
(* holds others has clauses, each of expressions and then a block.         *)
(***************************************************************************)
EXTENDS Integers, Sequences, SequencesExt

FunctionLike == {"def", "async def", "comprehension"}
Repeated(names) == ~IsInjective(names)

\* The walk: the pass it is, the first thing refused, and the three answers
\* that a scope of its own resets.
Start(phase) ==
  [phase |-> phase, found |-> "none", scope |-> "module", coroutine |-> FALSE, inLoop |-> FALSE]
Enter(st, scope, coroutine) ==
  [st EXCEPT !.scope = scope, !.coroutine = coroutine, !.inLoop = FALSE]
Leave(inner, saved) == [saved EXCEPT !.found = inner.found]
Refuse(st, phase, bad, message) ==
  IF bad /\ st.phase = phase /\ st.found = "none" THEN [st EXCEPT !.found = message] ELSE st

Parameters(st, names) == Refuse(st, "symbols", Repeated(names), "duplicate argument")

RECURSIVE Expr(_, _)
Each(st, exprs) == FoldLeft(Expr, st, exprs)
Before(named, i) == \E j \in 1 .. i - 1 : named[j].name = named[i].name

\* Each type parameter, and its bound and default after it.
TypeParameters(st, params) ==
  LET Parameter(acc, i) ==
        Each(Refuse(acc, "symbols", Before(params, i), "duplicate type parameter"), params[i].parts)
  IN  FoldLeft(Parameter, st, [i \in DOMAIN params |-> i])

\* Every keyword of a call: one seen before is refused before its value is walked.
\* A **rest has no name, and is passed over with its value.
NoName == "**"
Keywords(st, keywords) ==
  LET Keyword(acc, i) ==
        IF keywords[i].name = NoName THEN acc
        ELSE Expr(Refuse(acc, "codegen", Before(keywords, i), "keyword repeated"), keywords[i].value)
  IN  FoldLeft(Keyword, st, [i \in DOMAIN keywords |-> i])

\* Asked once it is known whether what is inside made it a coroutine; a generator
\* expression is not run where it is written.
AfterComprehension(inner, saved, kind) ==
  LET st == Leave(inner, saved)
  IN  IF ~inner.coroutine \/ kind = "generator" THEN st
      ELSE IF st.scope \in {"async def", "comprehension"} THEN [st EXCEPT !.coroutine = TRUE]
      ELSE Refuse(st, "symbols", TRUE, "asynchronous comprehension")

\* The outermost iterable is walked outside.  The parts of a clause are its target,
\* its iterable but for the first, and its conditions.
Clause(st, clause) ==
  LET after == Each(st, clause.parts)
  IN  [after EXCEPT !.coroutine = @ \/ clause.async]
Comprehension(outside, e) ==
  LET inside == Enter(outside, "comprehension", e.async)
  IN  AfterComprehension(Each(FoldLeft(Clause, inside, e.clauses), e.parts), outside, e.of)

\* An await is asked about before what it awaits; in a comprehension it makes it
\* a coroutine.
Awaited(st, e) ==
  LET asked == Refuse(Refuse(st, "symbols", st.scope \notin FunctionLike, "await outside"),
                      "symbols", st.scope = "def", "await not async")
  IN  [Each(asked, e.parts) EXCEPT !.coroutine = TRUE]

\* A yield in a comprehension is refused after its value, so the inner one first.
Yield(st, e) ==
  LET outside == Refuse(st, "codegen", st.scope \notin FunctionLike, "yield outside")
      from == Refuse(outside, "codegen", e.from /\ st.scope = "async def", "yield from async")
      after == Each(from, e.parts)
  IN  Refuse(after, "symbols", after.scope = "comprehension", "yield inside comprehension")

Expr(st, e) ==
  CASE e.kind = "parts" -> Each(st, e.parts)
    [] e.kind = "call" -> Keywords(Each(st, e.parts), e.keywords)
    [] e.kind = "lambda" ->
         LET outside == Parameters(Each(st, e.defaults), e.params)
         IN  Leave(Each(Enter(outside, "def", FALSE), e.parts), outside)
    [] e.kind = "await" -> Awaited(st, e)
    [] e.kind = "yield" -> Yield(st, e)
    [] e.kind = "comprehension" -> Comprehension(Expr(st, e.iter), e)

-----------------------------------------------------------------------------
RECURSIVE Stmt(_, _)
Block(st, body) == FoldLeft(Stmt, st, body)

\* mutant: not put back.
LoopingOn(st, body) == Block([st EXCEPT !.inLoop = TRUE], body)

\* A body with a loop around it, and what it was before afterwards; the else of
\* a loop comes after that.
Looping(st, body) == [Block([st EXCEPT !.inLoop = TRUE], body) EXCEPT !.inLoop = st.inLoop]

NeedsCoroutine(st, async, message) == Refuse(st, "symbols", async /\ ~st.coroutine, message)

\* Defaults come before the type parameters and annotations in one pass, and
\* after them in the other.
Function(st, s) ==
  LET codegen == IF st.phase = "codegen" THEN Each(st, s.defaults) ELSE st
      typed == Each(TypeParameters(codegen, s.typeParams), s.annotations)
      outside == IF st.phase = "symbols" THEN Parameters(Each(typed, s.defaults), s.params) ELSE typed
  IN  Leave(Block(Enter(outside, IF s.async THEN "async def" ELSE "def", s.async), s.body), outside)

Class(st, s) ==
  LET outside == Keywords(Each(TypeParameters(st, s.typeParams), s.bases), s.keywords)
  IN  Leave(Block(Enter(outside, "class", FALSE), s.body), outside)

Stmt(st, s) ==
  CASE s.kind = "def" -> Function(Each(st, s.decorators), s)
    [] s.kind = "class" -> Class(Each(st, s.decorators), s)
    [] s.kind = "loop" ->
         Block(Looping(Each(NeedsCoroutine(st, s.async, "async for"), s.head), s.body), s.orelse)
    [] s.kind = "clauses" ->
         LET In(acc, clause) == Block(Each(acc, clause.head), clause.body)
         IN  FoldLeft(In, NeedsCoroutine(st, s.async, "async with"), s.clauses)
    [] s.kind = "simple" -> Each(st, s.parts)
    [] s.kind = "alias" -> Each(TypeParameters(st, s.typeParams), s.parts)
    [] s.kind = "return" ->
         Each(Refuse(st, "codegen", st.scope \notin FunctionLike, "return outside"), s.parts)
    [] s.kind = "jump" -> Refuse(st, "codegen", ~st.inLoop, "jump outside loop")
    [] s.kind = "star" -> Refuse(st, "symbols", st.scope # "module", "import star")
    [] s.kind = "nonlocal" -> Refuse(st, "symbols", st.scope = "module", "nonlocal at module level")

\* The second pass is walked only if the first refused nothing.
Passes(body) ==
  LET first == Block(Start("symbols"), body).found
  IN  IF first # "none" THEN first ELSE Block(Start("codegen"), body).found
=============================================================================
