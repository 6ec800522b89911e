--------------------------- MODULE MCExpressions ---------------------------
(* The statements ExprCompile is checked on: every expression up to two     *)
(* operators deep, with one operator below the first, and targets; and      *)
(* every other statement over a few expressions of each sort.               *)
EXTENDS ExprCompile

Leaves == {Name(n) : n \in Names} \union {Call("B"), Call("F")}
Few == {Name("local"), Name("cell"), Call("B")}

\* The operators, and which part of each is the one that may be deep.
Forms == {<<op, 1, at>> : op \in {"not"}, at \in {1}}
           \union {<<op, 2, at>> : op \in {"group", "subscript", "loose", "and", "or", "compare"}, at \in 1 .. 2}
           \union {<<op, 3, at>> : op \in {"if", "compare"}, at \in 1 .. 3}

Formed(form, e, a, b) ==
  LET others == <<a, b>>
  IN  Node(form[1], [i \in 1 .. form[2] |->
                       IF i = form[3] THEN e ELSE IF i < form[3] THEN others[i] ELSE others[i - 1]])

Shallow ==
  Leaves \union {Formed(form, e, a, b) : form \in Forms, e \in Leaves, a \in Few, b \in Few}
         \union {Walrus(n, e) : n \in {"local", "cell"}, e \in Leaves}

\* What branches in an index.
Indexed == {Node("subscript", <<a, e>>) :
              a \in {Name("local"), Call("B")},
              e \in {Walrus("local", Call("F")), Walrus("cell", Name("local")),
                     Node("and", <<Name("local"), Call("B")>>)}}

SomeAssignment(Such(_)) ==
  \/ \E form \in Forms, e \in Shallow \union Indexed, a \in Few, b \in Few :
       Such(Assign(Name("local"), Formed(form, e, a, b)))
  \/ \E n \in {"local", "cell"}, e \in Shallow : Such(Assign(Name("local"), Walrus(n, e)))
  \/ \E n \in Names, e \in Shallow : Such(Assign(Name(n), e)) \/ Such(Augment(Name(n), e))
  \/ \E e \in Shallow, a \in Few, b \in Few :
       \/ Such(Assign(Item(e, a), b)) \/ Such(Assign(Item(a, e), b))
       \/ Such(Augment(Item(a, e), b)) \/ Such(Augment(Item(a, b), e))
       \/ Such(Annotated(Item(a, e), <<b>>))
  \/ \E e \in Indexed, a \in Few :
       \/ Such(Assign(Node("item", <<e>>), a)) \/ Such(Augment(Item(a, a), e))
       \/ Such(Annotated(Node("item", <<e>>), <<a>>)) \/ Such(Plain("raise", <<a, e>>))
       \/ Such(Define("function", <<a>>, <<e>>, "local")) \/ Such(Define("class", <<e>>, << >>, "cell"))

Tiny == {Name("local"), Name("cell"), Call("B"), Walrus("cell", Name("local"))}
Small == Tiny \union {Name("global"), Call("F"), Walrus("local", Call("F")),
                     Node("and", <<Name("local"), Call("B")>>)}
UpTo(n, es) == UNION {[1 .. k -> es] : k \in 0 .. n}

Places == {Item(a, b) : a \in {Name("cell"), Walrus("local", Call("F"))}, b \in {Call("B"), Name("local")}}
            \union {Node("item", <<Call("B")>>)}
NameTargets == {Name(n) : n \in Names}
Targets ==
  NameTargets \union Places
    \union {Spread(star, ts) : star \in 0 .. 2,
                              ts \in {<<Name("local"), Name("cell")>>,
                                     <<Item(Name("cell"), Call("B")), Name("local")>>,
                                     <<Spread(0, <<Name("global")>>), Name("cell"), Name("local")>>}}

ToNowhere == Assign(Name("local"), Call("F"))
Copy(from, to) == Assign(Name(to), Name(from))
Leave(n) == Plain("return", <<Name(n)>>)
Blocks == {<<Copy("local", "cell")>>, <<Leave("cell")>>, <<ToNowhere, Copy("cell", "global")>>,
           <<Branch("if", Name("local"), <<Leave("local")>>, <<ToNowhere>>), Copy("local", "global")>>}
Elses == {<< >>, <<Copy("cell", "global")>>, <<Leave("global")>>}

\* Tests that are true as long as the local is.
Tests == {Name("local"), Node("and", <<Call("B"), Name("local")>>), Node("or", <<Call("F"), Name("local")>>),
          Node("compare", <<Name("cell"), Name("local")>>), Node("not", <<Node("not", <<Name("local")>>)>>)}

\* In a comprehension the local is what it loops over, and a walrus binds a
\* variable of another frame.
Elements == {<<e>> : e \in Tiny} \union {<<k, v>> : k \in Tiny, v \in Tiny}
Conditions == UpTo(1, {Call("F"), Walrus("cell", Name("local"))})
                \union {<<Name("local"), e>> : e \in {Call("F"), Node("and", <<Name("local"), Call("B")>>)}}
First == {Clause(t, e, ifs) : t \in {Name("local"), Spread(1, <<Name("local"), Item(Name("cell"), Call("B"))>>)},
                              e \in {Call("B"), Name("global")}, ifs \in Conditions}
Second == {Clause(Name("local"), e, ifs) : e \in {Name("cell"), Walrus("cell", Name("local"))},
                                           ifs \in {<< >>, <<Call("B")>>}}

\* Some statement is such.
SomeStatement(Such(_)) ==
  \/ SomeAssignment(Such)
  \/ \E t, u \in Targets, e \in Small : Such(Assign(t, e)) \/ Such(Assigns(<<t, u>>, e))
  \/ \E t \in NameTargets \union Places, es \in UpTo(1, Small) : Such(Annotated(t, es))
  \/ \E t, u \in Places \union {Name("global")} : Such(Delete(<<t>>)) \/ Such(Delete(<<t, u, Name("cell"), Name("local")>>))
  \/ \E es \in UpTo(2, Small) \ {<< >>}, op \in {"eval", "return", "raise"} :
       (Len(es) = 1 \/ op = "raise") /\ Such(Plain(op, es))
  \/ \E e \in Small, m \in UpTo(1, Small) : Such(Asserting(e, m))
  \/ \E ds, es \in UpTo(2, Tiny), n \in {"local", "cell"} :
       \/ Such(Define("function", ds, es, n))
       \/ Len(es) < 2 /\ Such(Define("class", ds, es, n))
  \/ \E m \in {"a", "a.b"}, n, o \in Names, as \in BOOLEAN :
       Such(Import(m, as, n)) \/ Such(From(m, <<n>>)) \/ Such(From(m, <<n, o>>))
  \/ \E test \in Small, then \in Blocks, orelse \in Blocks \union {<< >>} : Such(Branch("if", test, then, orelse))
  \/ \E test \in Tests, then \in {<<ToNowhere>>, <<Copy("local", "cell"), ToNowhere>>, <<Leave("cell")>>}, orelse \in Elses :
       Such(Branch("while", test, then, orelse))
  \/ \E t \in Targets, e \in Small, body \in Blocks, orelse \in Elses : Such(For(t, e, body, orelse))
  \/ \E es \in Elements, c \in First : Such(Collect(es, <<c>>)) \/ \E d \in Second : Such(Collect(es, <<c, d>>))

-----------------------------------------------------------------------------
(* Where the order is known to be lost: a part is left unread while a later *)
(* part, whose statements come first, does something to it.                 *)

\* The names an evaluation may bind.
RECURSIVE Binds(_)
Binds(e) ==
  (IF e.op = "walrus" THEN {e.name} ELSE IF e = Call("B") THEN Shared ELSE {})
    \union UNION {Binds(e.parts[i]) : i \in DOMAIN e.parts}

\* The slot of the frame that is read for it after all.
RECURSIVE LeftIn(_)
LeftIn(e) == IF e.op = "walrus" THEN LeftIn(e.parts[1])
             ELSE IF e.op = "name" /\ e.name # "global" THEN {e.name} ELSE {}

Overtaken(parts) == \E i, j \in DOMAIN parts :
                      i < j /\ LeftIn(parts[i]) \intersect Binds(parts[j]) # {}

\* What emits statements, an index of it included; Branches does not look there.
RECURSIVE Emits(_)
Emits(e) == Branches(e) \/ \E i \in DOMAIN e.parts : Emits(e.parts[i])
Jumped(parts) == \E j \in DOMAIN parts : j > 1 /\ Emits(parts[j])

\* The operands that are held, or would have to be.
Held(e) ==
  \/ e.op = "compare" /\ Len(e.parts) = 3
  \/ \E i \in DOMAIN e.parts : Branches(e.parts[i])

RECURSIVE LosesOrder(_)
LosesOrder(e) ==
  \/ /\ e.op \in {"group", "subscript", "compare"}
     /\ IF Held(e) THEN Overtaken(e.parts) ELSE Jumped(e.parts)
  \/ e.op \in {"loose", "item"} /\ Jumped(e.parts)
  \/ e.op = "item" /\ Held(e) /\ Overtaken(e.parts)
  \/ \E i \in DOMAIN e.parts : LosesOrder(e.parts[i])

\* What a target changes besides putting the value of the statement in a name.
RECURSIVE Changes(_, _)
Changes(t, whole) ==
  CASE t.op = "name" -> IF whole THEN {} ELSE {t.name}
    [] t.op = "item" -> Binds(t)
    [] t.op = "spread" -> UNION {Changes(t.parts[i], FALSE) : i \in DOMAIN t.parts}

OneOf(Is(_), es) == \E i \in DOMAIN es : Is(es[i])

\* A value that is held, or not, while the parts of its targets are evaluated.
AssignmentLosesOrder(targets, e, held) ==
  \/ LosesOrder(e) \/ OneOf(LosesOrder, targets)
  \/ IF held THEN \E i \in DOMAIN targets : LeftIn(e) \intersect Changes(targets[i], TRUE) # {}
     ELSE targets[1].op = "item" /\ Emits(targets[1])

StatementLosesOrder(s) ==
  CASE s.op = "assign" ->
         AssignmentLosesOrder(s.targets, s.value, Len(s.targets) > 1 \/ OneOf(Branches, s.targets))
    [] s.op = "annotate" ->
         IF s.value = << >> THEN \E i \in DOMAIN s.target.parts : s.target.parts[i].op # "name"
         ELSE AssignmentLosesOrder(<<s.target>>, s.value[1], Branches(s.target))
    [] s.op = "aug" ->
         \/ LosesOrder(s.value) \/ LosesOrder(s.target)
         \/ Emits(s.value) /\ (s.target.op = "item" \/ s.target.name \in Binds(s.value))
         \/ s.target.op = "item" /\ Overtaken(s.target.parts \o <<s.value>>)
    [] s.op = "delete" -> OneOf(LosesOrder, s.targets)
    [] s.op \in {"eval", "return", "raise"} -> OneOf(LosesOrder, s.parts) \/ Jumped(s.parts)
    [] s.op = "assert" -> LosesOrder(s.test) \/ OneOf(LosesOrder, s.message)
    [] s.op = "define" ->
         \/ OneOf(LosesOrder, s.decorators \o s.parts)
         \/ Overtaken(s.decorators) \/ Jumped(s.parts)
         \/ OneOf(Emits, s.parts) /\ Overtaken(s.decorators \o s.parts)
    [] s.op \in {"import", "from"} -> FALSE
    [] s.op \in {"if", "while"} -> LosesOrder(s.test)
    [] s.op = "for" -> LosesOrder(s.value) \/ LosesOrder(s.target)
    [] s.op = "collect" -> Jumped(s.parts) \/ \E i \in DOMAIN s.clauses : LosesOrder(s.clauses[i].target)
=============================================================================
