---------------------------- MODULE ExprMeaning ----------------------------
(***************************************************************************)
(* Expressions and the statements made of them, and what the language says *)
(* of them: operands are evaluated from left to right, and a name is read  *)
(* when its turn comes.                                                    *)
(*                                                                         *)
(* An expression is an operator and its parts.  A name is a local of the   *)
(* frame, a cell the frame shares with another one, or a global.  Calling  *)
(* T or F gives something true or false, and calling B rebinds the cell    *)
(* and the global, as any call may.                                        *)
(***************************************************************************)
EXTENDS Naturals, Sequences, FiniteSets, SequencesExt

Names == {"local", "cell", "global"}
Shared == {"cell", "global"}

Name(n) == [op |-> "name", name |-> n, parts |-> << >>]
Call(f) == [op |-> "call", name |-> f, parts |-> << >>]
Walrus(n, e) == [op |-> "walrus", name |-> n, parts |-> <<e>>]
\* An operator with one name for all: group is a binary operation, a call, a
\* tuple, a list or a set; loose is a dict or a slice.  A subscript is by itself.
Node(op, parts) == [op |-> op, name |-> "", parts |-> parts]

\* A target is a name, an item (an attribute is an item of one part), or
\* several that take a value apart; which of them has the star, 0 if none has.
Item(object, index) == Node("item", <<object, index>>)
Spread(star, targets) == [op |-> "spread", star |-> star, parts |-> targets]

\* A value goes in one target after another, over what is there or (aug)
\* combined with it.
Assigns(targets, e) == [op |-> "assign", targets |-> targets, value |-> e]
Assign(target, e) == Assigns(<<target>>, e)
Augment(target, e) == [op |-> "aug", target |-> target, value |-> e]
\* A target with an annotation, and a value or none.
Annotated(target, es) == [op |-> "annotate", target |-> target, value |-> es]
Delete(targets) == [op |-> "delete", targets |-> targets]
\* An expression by itself, a return, or a raise with its cause.
Plain(op, es) == [op |-> op, parts |-> es]
Asserting(test, message) == [op |-> "assert", test |-> test, message |-> message]
\* def with its defaults, or class with its base.
Define(kind, decorators, es, n) ==
  [op |-> "define", kind |-> kind, decorators |-> decorators, parts |-> es, name |-> n]
\* import m as n or import m, and from m import ..., with a name for each.
Import(m, as, n) == [op |-> "import", module |-> m, as |-> as, name |-> n]
From(m, names) == [op |-> "from", module |-> m, names |-> names]
Branch(op, test, then, orelse) == [op |-> op, test |-> test, then |-> then, orelse |-> orelse]
For(target, e, body, orelse) ==
  [op |-> "for", target |-> target, value |-> e, then |-> body, orelse |-> orelse]
\* A comprehension, as the frame of its own that it is: the element (or key and
\* value), and for each clause a target, what it loops over and its conditions.
Collect(es, clauses) == [op |-> "collect", parts |-> es, clauses |-> clauses]
Clause(target, e, ifs) == [target |-> target, value |-> e, ifs |-> ifs]

-----------------------------------------------------------------------------
(* A value is what made it and out of what; one can be true or not.        *)

Value(made, true, of) == [made |-> made, true |-> true, of |-> of]
Initially(n) == Value(n, n # "cell", << >>)
Bumped == Value("bumped", TRUE, << >>)
Made(op, vs) ==
  Value(op, IF op = "compare" THEN vs[Len(vs)].true ELSE TRUE, vs)
Negated(v) == Value("not", ~v.true, << >>)

\* What a program does: the names, and the calls, operations and stores so far.
World == [names |-> [n \in Names |-> Initially(n)], did |-> << >>]

Did(w, what, vs) == [w EXCEPT !.did = Append(@, [what |-> what, vs |-> vs])]
Bind(w, n, v) == [w EXCEPT !.names[n] = v]
Called(w, f) ==
  LET after == Did(w, f, << >>)
  IN  IF f = "B" THEN [after EXCEPT !.names = [n \in Names |->
                         IF n \in Shared THEN Bumped ELSE @[n]]]
      ELSE after
Result(f) == Value(f, f # "F", << >>)

With(w, v) == [world |-> w, v |-> v]

RECURSIVE Eval(_, _), EvalAll(_, _), EvalChain(_, _, _)

\* Some expressions one after the other, and the values of all.
EvalAll(es, w) ==
  IF es = << >> THEN With(w, << >>)
  ELSE LET first == Eval(Head(es), w)
           rest == EvalAll(Tail(es), first.world)
       IN  With(rest.world, <<first.v>> \o rest.v)

\* left < e < ...: each operand once, up to the first answer that is false.
EvalChain(left, es, w) ==
  LET right == Eval(Head(es), w)
      answer == Made("compare", <<left, right.v>>)
      compared == Did(right.world, "compare", <<left, right.v>>)
  IN  IF answer.true /\ Len(es) > 1 THEN EvalChain(right.v, Tail(es), compared)
      ELSE With(compared, answer)

Eval(e, w) ==
  CASE e.op = "name" -> With(w, w.names[e.name])
    [] e.op = "call" -> With(Called(w, e.name), Result(e.name))
    [] e.op = "walrus" ->
         LET r == Eval(e.parts[1], w) IN With(Bind(r.world, e.name, r.v), r.v)
    [] e.op = "not" -> LET r == Eval(e.parts[1], w) IN With(r.world, Negated(r.v))
    [] e.op \in {"and", "or"} ->
         LET r == Eval(e.parts[1], w)
         IN  IF r.v.true = (e.op = "and") THEN Eval(e.parts[2], r.world) ELSE r
    [] e.op = "if" ->
         LET r == Eval(e.parts[1], w)
         IN  Eval(IF r.v.true THEN e.parts[2] ELSE e.parts[3], r.world)
    [] e.op = "compare" ->
         LET r == Eval(e.parts[1], w) IN EvalChain(r.v, Tail(e.parts), r.world)
    [] e.op \in {"group", "subscript", "loose"} ->
         LET r == EvalAll(e.parts, w) IN With(Did(r.world, e.op, r.v), Made(e.op, r.v))

-----------------------------------------------------------------------------
(* Statements.                                                             *)

Numerals == <<"0", "1", "2", "3", "4", "5", "6", "7", "8", "9">>
Numeral(n) == Value(Numerals[n + 1], TRUE, << >>)
Plan(t) == LET n == Len(t.parts)
           IN  IF t.star = 0 THEN <<Numeral(n), Numeral(0), Numeral(0)>>
               ELSE <<Numeral(t.star - 1), Numeral(1), Numeral(n - t.star)>>
Part(v, n) == Made("part", <<v, Numeral(n - 1)>>)
Deleted == Value("deleted", FALSE, << >>)
Assertion == Value("assertion", TRUE, << >>)

\* Every value can be walked over, for two items; what can be walked over only
\* once is given back as it is.
Times(w, what) == Cardinality({i \in DOMAIN w.did : w.did[i].what = what})
Iterated(w, v) ==
  IF v.made = "iter" THEN With(w, v)
  ELSE With(Did(w, "iter", <<v>>), Made("iter", <<v, Numeral(Times(w, "iter"))>>))
Taken(w, it) == Cardinality({i \in DOMAIN w.did : w.did[i] = [what |-> "next", vs |-> <<it>>]})
Ended == Value("ended", FALSE, << >>)
Next2(w, it) ==
  With(Did(w, "next", <<it>>),
       IF Taken(w, it) = 2 THEN Ended ELSE Made("item", <<it, Numeral(Taken(w, it))>>))

\* Importing a module that was imported is finding it.  Without an as, the name
\* that is bound is the first of a dotted one.
Package(m) == IF m = "a.b" THEN "a" ELSE m
Imported(w, m) ==
  LET v == Value(m, TRUE, << >>)
      new == \A i \in DOMAIN w.did : w.did[i] # [what |-> "import", vs |-> <<v>>]
  IN  With(IF new THEN Did(w, "import", <<v>>) ELSE w, v)
Members == <<"one", "two">>
Member(v, k) == Made("from", <<v, Value(Members[k], TRUE, << >>)>>)

Stopped(w) == w.did # << >> /\ Last(w.did).what \in {"return", "raise"}

RECURSIVE PutIn(_, _, _)
PutIn(t, v, w) ==
  CASE t.op = "name" -> Bind(w, t.name, v)
    [] t.op = "item" ->
         LET at == EvalAll(t.parts, w) IN Did(at.world, "store", at.v \o <<v>>)
    [] t.op = "spread" ->
         LET laid == Made("unpack", <<v>> \o Plan(t))
         IN  FoldLeft(LAMBDA sofar, k : PutIn(t.parts[k], Part(laid, k), sofar),
                      Did(w, "unpack", <<v>> \o Plan(t)), [k \in DOMAIN t.parts |-> k])

Removed(w, t) ==
  IF t.op = "name" THEN Bind(w, t.name, Deleted)
  ELSE LET at == EvalAll(t.parts, w) IN Did(at.world, "delete", at.v)

\* The target's place first, what is in it next, then the value.
Summed(was, r) == With(Did(r.world, "inplace", <<was, r.v>>), Made("inplace", <<was, r.v>>))
PutBack(t, at, sum) ==
  IF t.op = "name" THEN Bind(sum.world, t.name, sum.v)
  ELSE Did(sum.world, "store", at \o <<sum.v>>)
AugmentedAt(s, at) ==
  PutBack(s.target, at.v, Summed(Made("load", at.v), Eval(s.value, Did(at.world, "load", at.v))))
Augmented(s, w) ==
  IF s.target.op = "name"
    THEN PutBack(s.target, << >>, Summed(w.names[s.target.name], Eval(s.value, w)))
  ELSE AugmentedAt(s, EvalAll(s.target.parts, w))

\* Decorators in the order they are written, applied from the last one.
Grouped(d, r) == With(Did(r.world, "group", <<d, r.v>>), Made("group", <<d, r.v>>))
Building(s, es) == With(Did(es.world, s.kind, es.v), Made(s.kind, es.v))
Named(n, r) == Bind(r.world, n, r.v)
DefinedWith(s, ds) ==
  Named(s.name, FoldRight(Grouped, ds.v, Building(s, EvalAll(s.parts, ds.world))))
Defined(s, w) == DefinedWith(s, EvalAll(s.decorators, w))

RECURSIVE Do(_, _), Loop(_, _), Steps(_, _, _), Clauses(_, _, _)
DoAll(ss, w) == FoldLeft(LAMBDA sofar, s : IF Stopped(sofar) THEN sofar ELSE Do(s, sofar), w, ss)

Chosen(s, test) == DoAll(IF test.v.true THEN s.then ELSE s.orelse, test.world)
Turned(s, w) == IF Stopped(w) THEN w ELSE Loop(s, w)
Tested(s, test) ==
  IF test.v.true THEN Turned(s, DoAll(s.then, test.world)) ELSE DoAll(s.orelse, test.world)
Loop(s, w) == Tested(s, Eval(s.test, w))

\* A for, for what is left of its iterator.
Stepped(s, it, w) == IF Stopped(w) THEN w ELSE Steps(s, it, w)
Given(s, it, step) ==
  IF step.v = Ended THEN DoAll(s.orelse, step.world)
  ELSE Stepped(s, it, DoAll(s.then, PutIn(s.target, step.v, step.world)))
Steps(s, it, w) == Given(s, it, Next2(w, it))

\* The clauses from the k-th on; new is an iterator that has just been made.
Holding(c, w) ==
  FoldLeft(LAMBDA sofar, e : IF ~sofar.v THEN sofar
                             ELSE [Eval(e, sofar.world) EXCEPT !.v = @.true],
           With(w, TRUE), c.ifs)
Gather(es) == Did(es.world, "collect", es.v)
Over(r) == Iterated(r.world, r.v)
Within(s, k, tested) ==
  IF ~tested.v THEN tested.world
  ELSE IF k = Len(s.clauses) THEN Gather(EvalAll(s.parts, tested.world))
  ELSE Clauses(s, k + 1, Over(Eval(s.clauses[k + 1].value, tested.world)))
Taking(s, k, it, step) ==
  IF step.v = Ended THEN step.world
  ELSE Clauses(s, k, With(Within(s, k, Holding(s.clauses[k], PutIn(s.clauses[k].target, step.v, step.world))), it))
Clauses(s, k, new) == Taking(s, k, new.v, Next2(new.world, new.v))

StepsOf(s, new) == Steps(s, new.v, new.world)

Do(s, w) ==
  CASE s.op = "assign" ->
         LET r == Eval(s.value, w)
         IN  FoldLeft(LAMBDA sofar, t : PutIn(t, r.v, sofar), r.world, s.targets)
    [] s.op = "aug" -> Augmented(s, w)
    [] s.op = "annotate" ->
         IF s.value = << >> THEN EvalAll(s.target.parts, w).world
         ELSE LET r == Eval(s.value[1], w) IN PutIn(s.target, r.v, r.world)
    [] s.op = "delete" -> FoldLeft(Removed, w, s.targets)
    [] s.op \in {"return", "raise"} ->
         LET r == EvalAll(s.parts, w) IN Did(r.world, s.op, r.v)
    [] s.op = "eval" -> EvalAll(s.parts, w).world
    [] s.op = "assert" ->
         LET test == Eval(s.test, w)
             said == EvalAll(s.message, test.world)
             vs == <<Assertion>> \o said.v
         IN  IF test.v.true THEN test.world
             ELSE IF s.message = << >> THEN Did(said.world, "raise", vs)
             ELSE Did(Did(said.world, "group", vs), "raise", <<Made("group", vs)>>)
    [] s.op = "define" -> Defined(s, w)
    [] s.op = "import" ->
         LET whole == Imported(w, s.module)
             head == Imported(whole.world, Package(s.module))
         IN  IF s.as THEN Bind(whole.world, s.name, whole.v) ELSE Bind(head.world, s.name, head.v)
    [] s.op = "from" ->
         LET m == Imported(w, s.module)
         IN  FoldLeft(LAMBDA sofar, k : Bind(Did(sofar, "from", Member(m.v, k).of), s.names[k], Member(m.v, k)),
                      m.world, [k \in DOMAIN s.names |-> k])
    [] s.op = "if" -> Chosen(s, Eval(s.test, w))
    [] s.op = "while" -> Loop(s, w)
    [] s.op = "for" -> StepsOf(s, Over(Eval(s.value, w)))
    [] s.op = "collect" -> Clauses(s, 1, Over(Eval(s.clauses[1].value, w)))

Meaning(s) == Do(s, World)
=============================================================================
