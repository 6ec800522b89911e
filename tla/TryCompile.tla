----------------------------- MODULE TryCompile -----------------------------
(***************************************************************************)
(* From try statements and loops to instructions: what lower.rs makes of   *)
(* them (HIR) and what compile.rs makes of that (bytecode).                *)
(*                                                                         *)
(* An exit (a return, a break or a continue) that leaves a try statement   *)
(* takes its handlers off and runs a copy of its finally clause first, and *)
(* the guards are how the compiler knows which statements it is inside.    *)
(*                                                                         *)
(* An instruction's place counts from 1.  The register of a caught         *)
(* exception is named after the statement it belongs to.                   *)
(***************************************************************************)
EXTENDS TryMeaning

-----------------------------------------------------------------------------
(* Lowering.                                                               *)

HirTry(body, catch, orelse, finally, handles) ==
  [op |-> "try", body |-> body, catch |-> catch, orelse |-> orelse,
   finally |-> finally, handles |-> handles]

RECURSIVE LowerBlock(_, _), LowerStmt(_, _), LowerChain(_, _, _)

LowerBlock(block, path) ==
  [i \in DOMAIN block |-> LowerStmt(block[i], Append(path, i))]

\* The clauses as a chain of ifs, which ends by passing the exception on.
LowerChain(clauses, caught, path) ==
  IF clauses = << >> THEN <<[op |-> "reraise", reg |-> caught]>>
  ELSE LET n == Len(clauses)
       IN  <<[op |-> "match", reg |-> caught, matches |-> Head(clauses).matches,
              then |-> LowerBlock(Head(clauses).body, Append(path, n)),
              orelse |-> LowerChain(Tail(clauses), caught, path)]>>

\* lower_handlers: the chain is inside a finally that ends the handling.
LowerHandlers(clauses, path) ==
  LET caught == Append(path, 0)
      chain == LowerChain(clauses, caught, Append(path, 2))
  IN  [reg |-> caught,
       block |-> <<[op |-> "handling", reg |-> caught],
                   HirTry(chain, << >>, << >>, <<[op |-> "handled"]>>, FALSE)>>]

LowerStmt(s, path) ==
  CASE s.op = "try" ->
         HirTry(LowerBlock(s.body, Append(path, 1)),
                IF s.clauses = << >> THEN << >> ELSE <<LowerHandlers(s.clauses, path)>>,
                LowerBlock(s.orelse, Append(path, 3)),
                LowerBlock(s.finally, Append(path, 4)), TRUE)
    [] s.op = "for" ->
         [op |-> "for", reg |-> path, turns |-> s.turns,
          body |-> LowerBlock(s.body, Append(path, 1)),
          orelse |-> LowerBlock(s.orelse, Append(path, 2))]
    [] OTHER -> s

-----------------------------------------------------------------------------
(* The compiler: the code so far, the loops and the try statements it is   *)
(* inside, and whether it has panicked.                                    *)

Start == [code |-> << >>, loops |-> << >>, guards |-> << >>, panic |-> FALSE]

Unset == 0
Here(c) == Len(c.code) + 1
Emit(c, instr) == [c EXCEPT !.code = Append(@, instr)]
Patch(c, at) == [c EXCEPT !.code[at].to = Here(c)]
Jump(to) == [op |-> "jump", to |-> to]
PushGuard(c, live, handled, finally) ==
  [c EXCEPT !.guards = Append(@, [live |-> live, handled |-> handled, finally |-> finally])]
PopGuard(c) == [c EXCEPT !.guards = SubSeq(@, 1, Len(@) - 1)]

\* One handler fewer is live in the innermost statement.
LessLive(c) == [c EXCEPT !.guards[Len(c.guards)].live = @ - 1]

RECURSIVE EmitTimes(_, _, _)
EmitTimes(c, instr, n) == IF n = 0 THEN c ELSE EmitTimes(Emit(c, instr), instr, n - 1)

RECURSIVE PatchAll(_, _)
PatchAll(c, ats) == IF ats = << >> THEN c ELSE PatchAll(Patch(c, Head(ats)), Tail(ats))

RECURSIVE Block(_, _), Stmt(_, _), Leave(_, _), LeaveEach(_, _)

Block(c, block) == IF block = << >> THEN c ELSE Block(Stmt(c, Head(block)), Tail(block))

\* mutant: an exit from a finally clause goes on handling the exception.
LeaveEachHandling(c, left) ==
  IF left = << >> THEN c
  ELSE LET guard == left[Len(left)]
           popped == EmitTimes(c, [op |-> "pophandler"], guard.live)
       IN  LeaveEach(Block(popped, guard.finally), SubSeq(left, 1, Len(left) - 1))

\* The guards of left, from the innermost out.
LeaveEach(c, left) ==
  IF left = << >> THEN c
  ELSE LET guard == left[Len(left)]
           popped == EmitTimes(EmitTimes(c, [op |-> "pophandler"], guard.live),
                               [op |-> "pophandled"], guard.handled)
       IN  LeaveEach(Block(popped, guard.finally), SubSeq(left, 1, Len(left) - 1))

\* leave: out of every try statement down to a depth.  All the guards that are
\* left are off while the clauses are written, and Vec::split_off panics when
\* there are fewer guards than the depth.
Leave(c, depth) ==
  IF depth > Len(c.guards) THEN [c EXCEPT !.panic = TRUE]
  ELSE LET left == SubSeq(c.guards, depth + 1, Len(c.guards))
           out == LeaveEach([c EXCEPT !.guards = SubSeq(@, 1, depth)], left)
       IN  [out EXCEPT !.guards = @ \o left]

InnermostLoop(c) == c.loops[Len(c.loops)]

\* mutant: a break leaves the try statements around its loop as well.
CompileBreakDeep(c) ==
  LET left == Leave(c, 0)
      at == Here(left)
      n == Len(left.loops)
  IN  [Emit(left, Jump(Unset)) EXCEPT !.loops[n].breaks = Append(@, at)]

CompileBreak(c) ==
  LET left == Leave(c, InnermostLoop(c).guards)
      at == Here(left)
      n == Len(left.loops)
  IN  [Emit(left, Jump(Unset)) EXCEPT !.loops[n].breaks = Append(@, at)]

\* mutant: a continue does not take the next step.
CompileContinueIn(c) ==
  LET left == Leave(c, InnermostLoop(c).guards)
  IN  Emit(left, Jump(InnermostLoop(c).top + 1))

CompileContinue(c) ==
  LET left == Leave(c, InnermostLoop(c).guards)
  IN  Emit(left, Jump(InnermostLoop(c).top))

\* if caught matches: then else: orelse
CompileMatch(c, s) ==
  LET test == Here(c)
      then == Block(Emit(c, [op |-> "match", reg |-> s.reg, matches |-> s.matches, to |-> Unset]),
                    s.then)
      over == Here(then)
      else == Block(Patch(Emit(then, Jump(Unset)), test), s.orelse)
  IN  Patch(else, over)

\* compile_loop, with the setup that steps the iterator and the test of it.
CompileFor(c, s) ==
  LET iter == Emit(c, [op |-> "iter", reg |-> s.reg, turns |-> s.turns])
      top == Here(iter)
      stepped == Emit(iter, [op |-> "next", reg |-> s.reg, to |-> Unset])
      entered == [stepped EXCEPT !.loops =
                    Append(@, [top |-> top, breaks |-> << >>, guards |-> Len(c.guards)])]
      body == Emit(Block(entered, s.body), Jump(top))
      breaks == InnermostLoop(body).breaks
      left == [body EXCEPT !.loops = SubSeq(@, 1, Len(@) - 1)]
  IN  PatchAll(Block(Patch(left, top), s.orelse), breaks)

CompileTry(c, s) ==
  LET hasFinally == s.finally # << >>
      hasCatch == s.catch # << >>
      pending == <<0, Here(c)>>
      toFinally == Here(c)
      opened == IF hasFinally
                  THEN Emit(c, [op |-> "pushhandler", to |-> Unset, reg |-> pending])
                  ELSE c
      toHandler == Here(opened)
      both == IF hasCatch
                THEN Emit(opened, [op |-> "pushhandler", to |-> Unset, reg |-> s.catch[1].reg])
                ELSE opened
      live == (IF hasFinally THEN 1 ELSE 0) + (IF hasCatch THEN 1 ELSE 0)
      body == Block(PushGuard(both, live, 0, s.finally), s.body)
      guarded ==
        IF ~hasCatch THEN Block(body, s.orelse)
        ELSE LET orelse == Block(LessLive(Emit(body, [op |-> "pophandler"])), s.orelse)
                 over == Here(orelse)
                 caught == Patch(Emit(orelse, Jump(Unset)), toHandler)
             IN  Patch(Block(caught, s.catch[1].block), over)
      \* The way out that worked ...
      worked == Block(PopGuard(Emit(guarded, [op |-> "pophandler"])), s.finally)
      over == Here(worked)
      arrived == Patch(Emit(worked, Jump(Unset)), toFinally)
      \* ... and the way out that did not.
      interrupted ==
        IF s.handles
          THEN LET pushed == Emit(arrived, [op |-> "pushhandled", reg |-> pending])
                   clause == Block(PushGuard(pushed, 0, 1, << >>), s.finally)
               IN  Emit(PopGuard(clause), [op |-> "pophandled"])
          ELSE Block(arrived, s.finally)
      passed == Emit(interrupted, [op |-> "reraise", reg |-> pending])
  IN  IF hasFinally THEN Patch(passed, over) ELSE PopGuard(guarded)

Stmt(c, s) ==
  CASE c.panic          -> c
    [] s.op = "return"   -> Emit(Leave(c, 0), s)
    [] s.op = "break"    -> CompileBreak(c)
    [] s.op = "continue" -> CompileContinue(c)
    [] s.op = "for"      -> CompileFor(c, s)
    [] s.op = "match"    -> CompileMatch(c, s)
    [] s.op = "try"      -> CompileTry(c, s)
    [] s.op = "handling" -> Emit(c, [op |-> "pushhandled", reg |-> s.reg])
    [] s.op = "handled"  -> Emit(c, [op |-> "pophandled"])
    [] OTHER             -> Emit(c, s)

\* A body that runs off its end returns None, which is NoExc here.
Compiled(block) == Emit(Block(Start, LowerBlock(block, << >>)), Return(NoExc))
=============================================================================
