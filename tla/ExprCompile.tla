---------------------------- MODULE ExprCompile ----------------------------
(***************************************************************************)
(* From expressions and statements to instructions: what lower.rs makes of *)
(* them (HIR, whose expressions do not branch) and what compile.rs makes   *)
(* of that, and one frame of the machine that runs it.  TryCompile has the *)
(* statements that jump out of others.                                     *)
(*                                                                         *)
(* The slots of the frame are its local (1), its cell (2) and the          *)
(* temporaries of the lowering; the scratch registers come after them.     *)
(***************************************************************************)
EXTENDS ExprMeaning

LocalSlot == 1
CellSlot == 2
FirstTemp == 3

Slot(n) == [op |-> "slot", slot |-> n]
Global == [op |-> "global", slot |-> 0]
\* An instruction may say more than its operands: the shape of an unpacking, a
\* module or an attribute.
HirOf(op, of, plan) == [op |-> op, of |-> of, plan |-> plan]
Hir(op, of) == HirOf(op, of, << >>)

Store(place, e) == [op |-> "store", place |-> place, value |-> e]
IfThen(test, then, orelse) == [op |-> "if", test |-> test, then |-> then, orelse |-> orelse]
TempPlace(n) == [op |-> "slot", slot |-> n]

-----------------------------------------------------------------------------
(* Lowering: the statements emitted so far, the next slot and the value.   *)

Low(out, next, value) == [out |-> out, next |-> next, value |-> value]
StoreAt(place, l) == [l EXCEPT !.out = Append(@, Store(place, l.value))]
Push(l, stmt) == [l EXCEPT !.out = Append(@, stmt)]

\* children: the parts that are looked into, which an index is not.
Children(e) == IF e.op \in {"subscript", "item"} THEN <<e.parts[1]>> ELSE e.parts

\* branches: what emits statements, or is seen to have such a part.
RECURSIVE Branches(_)
Branches(e) ==
  \/ e.op \in {"and", "or", "if", "compare", "walrus"}
  \/ \E i \in DOMAIN Children(e) : Branches(e.parts[i])

\* pin: hold the value in a temporary, unless it is the read of a slot.
Pin(l) ==
  IF l.value.op = "slot" THEN l
  ELSE Low(Append(l.out, Store(TempPlace(l.next), l.value)), l.next + 1, Slot(l.next))

\* read and write: where a name is.
Read(n) == CASE n = "local" -> Slot(LocalSlot) [] n = "cell" -> Slot(CellSlot)
             [] OTHER -> Global

Truthy(e) == IF e.op \in {"not", "compare"} THEN e ELSE Hir("truthy", <<e>>)

\* The value of l in the temporary at, the statements inside of a branch, and
\* the branch whose two sides have become then and orelse.
Into(at, l) == Low(Append(l.out, Store(TempPlace(at), l.value)), l.next, Slot(at))
Inside(l) == Low(<< >>, l.next, Global)
Branched(l, test, then, orelse) ==
  Low(Append(l.out, IfThen(test, then.out, orelse.out)), orelse.next, then.value)
As(op, l) == [l EXCEPT !.value = Hir(op, @)]
Effect(op, es) == Push(es, [op |-> op, of |-> es.value])

RECURSIVE Lower(_, _), LowerEach(_, _, _), LowerBool(_, _, _), LowerLinks(_, _, _, _)

\* Some expressions one after the other, each of them pinned or none.
Gathered(l, one) == Low(one.out, one.next, Append(l.value, one.value))
LowerEach(es, l, pinning) ==
  FoldLeft(LAMBDA sofar, e :
             LET one == Lower(e, Low(sofar.out, sofar.next, Global))
             IN  Gathered(sofar, IF pinning THEN Pin(one) ELSE one),
           Low(l.out, l.next, << >>), es)

\* mutant: only the operands that branch themselves are held.
LowerGroupOwn(es, l) ==
  FoldLeft(LAMBDA sofar, e :
             LET one == Lower(e, Low(sofar.out, sofar.next, Global))
             IN  Gathered(sofar, IF Branches(e) THEN Pin(one) ELSE one),
           Low(l.out, l.next, << >>), es)

\* lower_group: when one of them branches all of them are pinned.
LowerGroup(es, l) == LowerEach(es, l, \E i \in DOMAIN es : Branches(es[i]))

\* lower_boolop_from, into the slot at.
SecondPart(e, at, first) ==
  LET read == Truthy(Slot(at))
      second == Into(at, Lower(e.parts[2], Inside(first)))
  IN  Branched(first, IF e.op = "and" THEN read ELSE Hir("not", <<read>>), second, Inside(second))
LowerBool(e, at, l) == SecondPart(e, at, Into(at, Lower(e.parts[1], l)))

\* The links of a chain of comparisons, each inside the test of the one before.
Linked(carried, right, rest, at) ==
  LET here == Low(Append(right.out, Store(TempPlace(at), Hir("compare", <<carried, right.value>>))),
                  right.next, Slot(at))
      inner == LowerLinks(right.value, rest, at, right.next)
  IN  IF rest = << >> THEN here ELSE Branched(here, Truthy(Slot(at)), inner, Inside(inner))
LowerLinks(carried, es, at, next) ==
  Linked(carried, Pin(Lower(Head(es), Low(<< >>, next, Global))), Tail(es), at)

Chained(first, es) ==
  LET links == LowerLinks(first.value, es, first.next, first.next + 1)
  IN  [links EXCEPT !.out = first.out \o @]
LowerCompare(e, l) ==
  IF Len(e.parts) = 2 THEN As("compare", LowerGroup(e.parts, l))
  ELSE Chained(Pin(Lower(e.parts[1], l)), Tail(e.parts))

OrElse(e, at, test, then) ==
  Branched(test, Truthy(test.value), then, Into(at, Lower(e.parts[3], Inside(then))))
Arms(e, at, test) == OrElse(e, at, test, Into(at, Lower(e.parts[2], Inside(test))))
LowerIf(e, l) == Arms(e, l.next, Lower(e.parts[1], Low(l.out, l.next + 1, Global)))

\* lower_expr.
Lower(e, l) ==
  CASE e.op = "name" -> Low(l.out, l.next, Read(e.name))
    [] e.op = "call" -> Low(l.out, l.next, [op |-> "call", name |-> e.name])
    [] e.op = "walrus" -> StoreAt(Read(e.name), Pin(Lower(e.parts[1], l)))
    [] e.op = "not" ->
         [Lower(e.parts[1], l) EXCEPT !.value = Hir("not", <<Hir("truthy", <<@>>)>>)]
    [] e.op \in {"and", "or"} -> LowerBool(e, l.next, Low(l.out, l.next + 1, Global))
    [] e.op = "if" -> LowerIf(e, l)
    [] e.op = "compare" -> LowerCompare(e, l)
    [] e.op \in {"group", "subscript"} -> As(e.op, LowerGroup(e.parts, l))
    [] e.op = "loose" -> As("loose", LowerEach(e.parts, l, FALSE))

\* lower_place, whose parts are held when it is used twice.
LowerPlace(target, twice, l) ==
  IF target.op = "name" THEN Low(l.out, l.next, Read(target.name))
  ELSE As("item", LowerEach(target.parts, l, twice))

ReadOf(place) == IF place.op = "item" THEN Hir("load", place.of) ELSE place

StoreIn(place, e) == Push(place, Store(place.value, e))
AugmentAt(place, value) ==
  LET v == Lower(value, place)
  IN  [v EXCEPT !.out = Append(@, Store(place.value, Hir("inplace", <<ReadOf(place.value), v.value>>)))]

\* lower_target: what several targets are given is laid out first.
RECURSIVE LowerTarget(_, _, _)
LowerParts(ts, laid) ==
  FoldLeft(LAMBDA sofar, k :
             LowerTarget(ts[k], HirOf("part", <<laid.value>>, <<Numeral(k - 1)>>), sofar),
           laid, [k \in DOMAIN ts |-> k])
LowerTarget(t, v, l) ==
  IF t.op # "spread" THEN StoreIn(LowerPlace(t, FALSE, l), v)
  ELSE LET n == Len(t.parts)
           before == IF t.star = 0 THEN n ELSE t.star - 1
           after == IF t.star = 0 THEN 0 ELSE n - before - 1
           shape == <<Numeral(before), Numeral(IF t.star = 0 THEN 0 ELSE 1), Numeral(after)>>
       IN  LowerParts(t.parts, Pin([l EXCEPT !.value = HirOf("unpack", <<v>>, shape)]))

\* lower_assign.
LowerTargets(ts, v) == FoldLeft(LAMBDA sofar, t : LowerTarget(t, v.value, sofar), v, ts)
LowerAssign(s, l) ==
  LET v == Lower(s.value, l)
      pinning == Len(s.targets) > 1 \/ \E k \in DOMAIN s.targets : Branches(s.targets[k])
  IN  LowerTargets(s.targets, IF pinning THEN Pin(v) ELSE v)

\* An annotated assignment, which without a value is nothing.
StoreAnnotated(t, v) == StoreIn(LowerPlace(t, FALSE, v), v.value)
LowerAnnotated(s, l) ==
  IF s.value = << >> THEN l
  ELSE LET v == Lower(s.value[1], l)
       IN  StoreAnnotated(s.target, IF Branches(s.target) THEN Pin(v) ELSE v)

LowerTest(e, l) == [Lower(e, l) EXCEPT !.value = Truthy(@)]

\* lower_assert: the message is inside the branch.
Failing(test, said) ==
  LET class == Hir("assertion", << >>)
      exc == IF said.value = << >> THEN class ELSE Hir("group", <<class>> \o said.value)
  IN  Branched(test, Hir("not", <<test.value>>),
               Push(said, [op |-> "raise", of |-> <<exc>>]), Inside(said))
Asserted(s, test) == Failing(test, LowerEach(s.message, Inside(test), FALSE))
LowerAssert(s, l) == Asserted(s, LowerTest(s.test, l))

\* The defaults of a def, and the bases of a class.
LowerFunction(s, l) == As("function", LowerEach(s.parts, l, FALSE))
LowerClass(s, l) == As("class", LowerEach(s.parts, l, FALSE))

\* A def or a class: decorators first and applied last, the last one first.
Decorated(ds, built) ==
  [built EXCEPT !.value = FoldRight(LAMBDA d, v : Hir("group", <<d, v>>), ds.value, @)]
DefineWith(s, ds) ==
  Decorated(ds, IF s.kind = "class" THEN LowerClass(s, ds) ELSE LowerFunction(s, ds))
LowerDefine(s, l) == StoreAt(Read(s.name), DefineWith(s, LowerEach(s.decorators, l, TRUE)))

\* lower_import and lower_import_from.
LowerImport(s, l) ==
  LET import(m) == HirOf("import", << >>, <<Value(m, TRUE, << >>)>>)
      bound == IF s.as THEN s.module ELSE Package(s.module)
      whole == IF bound = s.module THEN l ELSE Push(l, [op |-> "eval", of |-> <<import(s.module)>>])
  IN  Push(whole, Store(Read(s.name), import(bound)))
LowerFrom(s, l) ==
  LET found == Pin([l EXCEPT !.value = HirOf("import", << >>, <<Value(s.module, TRUE, << >>)>>)])
      take(k) == HirOf("from", <<found.value>>, <<Value(Members[k], TRUE, << >>)>>)
  IN  FoldLeft(LAMBDA sofar, k : Push(sofar, Store(Read(s.names[k]), take(k))),
               found, [k \in DOMAIN s.names |-> k])

\* A loop: setup ends in the test's value, and what is before it is out.
Looping(out, setup, body, orelse) ==
  Low(Append(out, [op |-> "loop", setup |-> setup.out, test |-> setup.value,
                   then |-> body.out, orelse |-> orelse.out]), orelse.next, Global)

\* A for over the iterable of l, up to where the body begins: the loop steps its
\* iterator before the test.
StartFor(target, l) ==
  LET it == TempPlace(l.next)
      step == TempPlace(l.next + 1)
  IN  [before |-> Append(l.out, Store(it, Hir("iter", <<l.value>>))),
       setup |-> Low(<<Store(step, Hir("next", <<it>>))>>, l.next + 2,
                     Hir("not", <<Hir("exhausted", <<step>>)>>)),
       body |-> LowerTarget(target, step, Low(<< >>, l.next + 2, Global))]

\* lower_clause and lower_condition: the clauses from the k-th on and, inside of
\* the last, what is collected; the conditions of each nest.
RECURSIVE LowerClause(_, _, _), LowerConditions(_, _, _, _)
Conditioned(test, then) == Branched(test, test.value, then, Inside(then))
Under(s, k, ifs, test) == Conditioned(test, LowerConditions(s, k, ifs, Inside(test)))
LowerConditions(s, k, ifs, l) ==
  IF ifs # << >> THEN Under(s, k, Tail(ifs), LowerTest(Head(ifs), l))
  ELSE IF k = Len(s.clauses) THEN Effect("collect", LowerEach(s.parts, l, FALSE))
  ELSE LowerClause(s, k + 1, Lower(s.clauses[k + 1].value, l))
ClauseOf(s, k, start) ==
  LET body == LowerConditions(s, k, s.clauses[k].ifs, start.body)
  IN  Looping(start.before, start.setup, body, Inside(body))
LowerClause(s, k, l) == ClauseOf(s, k, StartFor(s.clauses[k].target, l))

\* What the comprehension loops over is an iterator before its frame begins.
LowerCollect(s, l) ==
  LowerClause(s, 1, Pin([Lower(s.clauses[1].value, l) EXCEPT !.value = Hir("iter", <<@>>)]))

RECURSIVE LowerStmt(_, _)
LowerAll(ss, l) == FoldLeft(LAMBDA sofar, s : LowerStmt(s, sofar), l, ss)
LowerBlock(ss, l) == LowerAll(ss, Inside(l))

\* An if, a while and a for, each given what comes before its blocks.
IfElse(s, test, then) == Branched(test, test.value, then, LowerBlock(s.orelse, then))
LowerIfStmt(s, test) == IfElse(s, test, LowerBlock(s.then, test))
LoopElse(s, out, setup, body) == Looping(out, setup, body, LowerBlock(s.orelse, body))
LowerWhile(s, out, setup) == LoopElse(s, out, setup, LowerBlock(s.then, setup))
LowerFor(s, start) == LoopElse(s, start.before, start.setup, LowerAll(s.then, start.body))

Unbind(place) == Push(place, [op |-> "delete", place |-> place.value])

LowerStmt(s, l) ==
  CASE s.op = "assign" -> LowerAssign(s, l)
    [] s.op = "annotate" -> LowerAnnotated(s, l)
    [] s.op = "aug" -> AugmentAt(LowerPlace(s.target, TRUE, l), s.value)
    [] s.op = "delete" ->
         FoldLeft(LAMBDA sofar, t : Unbind(LowerPlace(t, FALSE, sofar)), l, s.targets)
    [] s.op \in {"eval", "return", "raise"} -> Effect(s.op, LowerEach(s.parts, l, FALSE))
    [] s.op = "assert" -> LowerAssert(s, l)
    [] s.op = "define" -> LowerDefine(s, l)
    [] s.op = "import" -> LowerImport(s, l)
    [] s.op = "from" -> LowerFrom(s, l)
    [] s.op = "if" -> LowerIfStmt(s, LowerTest(s.test, l))
    [] s.op = "while" -> LowerWhile(s, l.out, LowerTest(s.test, Inside(l)))
    [] s.op = "for" -> LowerFor(s, StartFor(s.target, Lower(s.value, l)))
    [] s.op = "collect" -> LowerCollect(s, l)

-----------------------------------------------------------------------------
(* The compiler: the instructions so far and the next scratch register.    *)

Emit(c, instr) == [c EXCEPT !.code = Append(@, instr)]
PatchTo(c, at) == [c EXCEPT !.code[at].to = Len(c.code) + 1]
Jump(op, test) == [op |-> op, src |-> test, to |-> 0]
Back(c, mark) == [c EXCEPT !.scratch = mark]

RECURSIVE WriteInto(_, _, _), Operand(_, _), Operands(_, _)

\* operand: a slot that is no cell is its own register.
Operand(c, e) ==
  IF e.op = "slot" /\ e.slot # CellSlot THEN [c |-> c, reg |-> e.slot]
  ELSE LET dst == c.scratch
       IN  [c |-> WriteInto([c EXCEPT !.scratch = dst + 1], e, dst), reg |-> dst]

Operands(c, es) ==
  FoldLeft(LAMBDA sofar, e : LET one == Operand(sofar.c, e)
                             IN  [c |-> one.c, regs |-> Append(sofar.regs, one.reg)],
           [c |-> c, regs |-> << >>], es)

\* write_into: the scratch registers of the operands are free again after it.
WriteInto(c, e, dst) ==
  CASE e.op = "slot" /\ e.slot = CellSlot -> Emit(c, [op |-> "loadcell", dst |-> dst])
    [] e.op = "slot" /\ e.slot # CellSlot ->
         IF e.slot = dst THEN c ELSE Emit(c, [op |-> "move", dst |-> dst, src |-> e.slot])
    [] e.op = "global" -> Emit(c, [op |-> "loadglobal", dst |-> dst])
    [] e.op = "call" -> Emit(c, [op |-> "call", name |-> e.name, dst |-> dst])
    [] OTHER -> LET o == Operands(c, e.of)
                IN  Back(Emit(o.c, [op |-> e.op, dst |-> dst, srcs |-> o.regs, plan |-> e.plan]),
                         c.scratch)

\* store: a local is written in place, and the value goes before the target.
CompileStore(c, place, e) ==
  IF place.op = "slot" /\ place.slot # CellSlot THEN WriteInto(c, e, place.slot)
  ELSE LET v == Operand(c, e)
       IN  IF place.op = "item"
             THEN LET at == Operands(v.c, place.of)
                  IN  Emit(at.c, [op |-> "store", srcs |-> at.regs \o <<v.reg>>])
           ELSE Emit(v.c, [op |-> IF place.op = "global" THEN "storeglobal" ELSE "storecell",
                           src |-> v.reg])

\* accumulate: what a comprehension collects, key before value.
Accumulate(c, es) ==
  LET o == Operands(c, es) IN Emit(o.c, [op |-> "collect", srcs |-> o.regs])

\* jump_unless: a not around the test turns the jump around.
RECURSIVE JumpUnless(_, _, _)
JumpUnless(c, test, negated) ==
  IF test.op = "not" THEN JumpUnless(c, test.of[1], ~negated)
  ELSE LET t == Operand(c, test)
       IN  Emit(t.c, Jump(IF negated THEN "jumpiftrue" ELSE "jumpiffalse", t.reg))

RECURSIVE CompileBlock(_, _), CompileStmt(_, _)
CompileBlock(c, block) ==
  FoldLeft(LAMBDA sofar, stmt : Back(CompileStmt(sofar, stmt), sofar.scratch), c, block)

CompileIf(c, stmt) ==
  LET tested == Back(JumpUnless(c, stmt.test, FALSE), c.scratch)
      overThen == Len(tested.code)
      then == CompileBlock(tested, stmt.then)
      jumped == Emit(then, Jump("jump", 0))
      orelse == CompileBlock(PatchTo(jumped, overThen), stmt.orelse)
  IN  IF stmt.orelse = << >> THEN PatchTo(then, overThen)
      ELSE PatchTo(orelse, Len(jumped.code))

\* compile_loop: back to the setup, and a test that fails goes to the else.
CompileLoop(c, stmt) ==
  LET top == Len(c.code) + 1
      setup == CompileBlock(c, stmt.setup)
      tested == Back(JumpUnless(setup, stmt.test, FALSE), setup.scratch)
      body == Emit(CompileBlock(tested, stmt.then), [Jump("jump", 0) EXCEPT !.to = top])
  IN  CompileBlock(PatchTo(body, Len(tested.code)), stmt.orelse)

\* delete: a name by itself, an item by its place.
CompileDelete(c, place) ==
  IF place.op = "item"
    THEN LET at == Operands(c, place.of) IN Emit(at.c, [op |-> "delete", srcs |-> at.regs])
  ELSE Emit(c, [op |-> "deletename",
                name |-> CASE place.op = "global" -> "global" [] place = Slot(CellSlot) -> "cell"
                           [] OTHER -> "local"])

CompileStmt(c, stmt) ==
  CASE stmt.op = "store" -> CompileStore(c, stmt.place, stmt.value)
    [] stmt.op = "delete" -> CompileDelete(c, stmt.place)
    [] stmt.op = "eval" -> Operands(c, stmt.of).c
    [] stmt.op = "collect" -> Accumulate(c, stmt.of)
    [] stmt.op \in {"return", "raise"} ->
         LET o == Operands(c, stmt.of) IN Emit(o.c, [op |-> stmt.op, srcs |-> o.regs])
    [] stmt.op = "if" -> CompileIf(c, stmt)
    [] stmt.op = "loop" -> CompileLoop(c, stmt)

CompileLowered(low) == CompileBlock([code |-> << >>, scratch |-> low.next], low.out).code
Compile(s) == CompileLowered(LowerStmt(s, Low(<< >>, FirstTemp, Global)))

-----------------------------------------------------------------------------
(* The machine: a frame's registers over the world the calls see.          *)

Unset == Value("unset", FALSE, << >>)

\* One instruction: the world and the registers after it.
Put(i, regs, w, v) == [world |-> w, regs |-> [regs EXCEPT ![i.dst] = v]]
Found(i, regs, r) == Put(i, regs, r.world, r.v)
Only(regs, w) == [world |-> w, regs |-> regs]
Sources(i, regs) == [k \in DOMAIN i.srcs |-> regs[i.srcs[k]]]

\* The names of the frame and around it.
NameOps == {"loadcell", "loadglobal", "move", "storecell", "storeglobal", "deletename"}
StepName(i, w, regs) ==
  CASE i.op = "loadcell" -> Put(i, regs, w, w.names["cell"])
    [] i.op = "loadglobal" -> Put(i, regs, w, w.names["global"])
    [] i.op = "move" -> Put(i, regs, w, regs[i.src])
    [] i.op = "storecell" -> Only(regs, Bind(w, "cell", regs[i.src]))
    [] i.op = "storeglobal" -> Only(regs, Bind(w, "global", regs[i.src]))
    [] i.op = "deletename" ->
         IF i.name = "local" THEN Only([regs EXCEPT ![LocalSlot] = Deleted], w)
         ELSE Only(regs, Bind(w, i.name, Deleted))

\* What changes something and gives nothing: items, and leaving the frame.
DoOps == {"store", "delete", "collect", "return", "raise"}
StepDo(i, w, regs) == Only(regs, Did(w, i.op, Sources(i, regs)))

\* Walking over a value, and taking one apart.
WalkOps == {"iter", "next", "exhausted", "unpack", "part"}
StepWalk(i, w, regs) ==
  LET vs == Sources(i, regs)
  IN  CASE i.op = "iter" -> Found(i, regs, Iterated(w, vs[1]))
        [] i.op = "next" -> Found(i, regs, Next2(w, vs[1]))
        [] i.op = "exhausted" -> Put(i, regs, w, Value("exhausted", vs[1] = Ended, << >>))
        [] i.op = "unpack" -> Put(i, regs, Did(w, "unpack", vs \o i.plan), Made("unpack", vs \o i.plan))
        [] i.op = "part" -> Put(i, regs, w, Made("part", vs \o i.plan))

\* The rest makes a value of values: every operation, call and display.
StepValue(i, w, regs) ==
  LET vs == Sources(i, regs)
  IN  CASE i.op = "truthy" -> Put(i, regs, w, vs[1])
        [] i.op = "not" -> Put(i, regs, w, Negated(vs[1]))
        [] i.op = "assertion" -> Put(i, regs, w, Assertion)
        [] i.op = "import" -> Found(i, regs, Imported(w, i.plan[1].made))
        [] OTHER -> Put(i, regs, Did(w, i.op, vs \o i.plan), Made(i.op, vs \o i.plan))

Step(i, w, regs) ==
  CASE i.op = "call" -> Put(i, regs, Called(w, i.name), Result(i.name))
    [] i.op \in NameOps -> StepName(i, w, regs)
    [] i.op \in DoOps -> StepDo(i, w, regs)
    [] i.op \in WalkOps -> StepWalk(i, w, regs)
    [] OTHER -> StepValue(i, w, regs)

RECURSIVE RunFrom(_, _, _, _)
RunFrom(code, pc, w, regs) ==
  IF pc > Len(code) \/ Stopped(w) THEN Bind(w, "local", regs[LocalSlot])
  ELSE LET i == code[pc]
           after == Step(i, w, regs)
       IN  CASE i.op = "jump" -> RunFrom(code, i.to, w, regs)
             [] i.op = "jumpiffalse" ->
                  RunFrom(code, IF regs[i.src].true THEN pc + 1 ELSE i.to, w, regs)
             [] i.op = "jumpiftrue" ->
                  RunFrom(code, IF regs[i.src].true THEN i.to ELSE pc + 1, w, regs)
             [] OTHER -> RunFrom(code, pc + 1, after.world, after.regs)

Registers == 40
Run(code) ==
  RunFrom(code, 1, World,
          [r \in 1 .. Registers |-> IF r = LocalSlot THEN Initially("local") ELSE Unset])
=============================================================================
