------------------------------- MODULE Machine -------------------------------
(***************************************************************************)
(* The machine's frames, and exceptions on their way through them (vm.rs,  *)
(* generator.rs).                                                          *)
(*                                                                         *)
(* A frame keeps the handlers of the regions it is inside.  What is being  *)
(* handled is a stack of the machine's own, because a function called from *)
(* an except clause is still inside that clause.  A generator's frame      *)
(* leaves at a yield, with its handlers, and comes back at the next step,  *)
(* perhaps from somewhere else altogether.                                 *)
(*                                                                         *)
(* What a program does is any nesting of the regions the compiler lays out *)
(* (compile_try, lower_handlers), so a frame has a scope here: the regions *)
(* its program counter is inside.  Only the compiler knows it; the machine *)
(* has the handlers.  The regions are                                      *)
(*   try        the body of a try statement with except clauses            *)
(*   guarded    the part of a try statement its finally clause guards      *)
(*   clause     the except clauses, after the try caught something         *)
(*   interrupt  a finally clause that an exception ran                     *)
(* A finally clause reached without an exception is plain code, and so is  *)
(* an else clause.                                                         *)
(***************************************************************************)
EXTENDS Naturals, Sequences, FiniteSets

CONSTANTS
  Gens,            \* the generators
  Excs,            \* the exceptions a program raises by itself
  RuntimeError,    \* what a bare raise raises when nothing is being handled
  RecursionError,  \* what a call past the limit raises
  ValueError,      \* what stepping a running generator raises
  NoExc, NoGen,
  Limit,           \* how many frames there may be, which vm.rs sets to 1000
  YieldIn,         \* the kinds of region that programs yield inside of
  MaxScope,        \* how many regions of one frame are explored
  MaxHandled       \* how far the handled stack is explored

Exceptions == Excs \union {RuntimeError, RecursionError, ValueError}
Kinds == {"try", "guarded", "clause", "interrupt"}

ASSUME NamesAssumption == NoExc \notin Exceptions /\ NoGen \notin Gens
ASSUME YieldInAssumption == YieldIn \subseteq Kinds
ASSUME BoundsAssumption ==
  Limit \in Nat \ {0} /\ MaxScope \in Nat /\ MaxHandled \in Nat

VARIABLES
  stack,    \* the frames, innermost last
  handled,  \* the exceptions being handled, innermost last
  gens,     \* the state of every generator
  depth,    \* how many calls are on the stack, as the machine counts them
  raising   \* the exception on its way out of the innermost frame

vars == <<stack, handled, gens, depth, raising>>

Region == [kind : Kinds, exc : Exceptions \union {NoExc}]
Handler == [to : {"except", "finally", "cleanup"}, handled : Nat]
Frame == [gen : Gens \union {NoGen}, scope : Seq(Region),
          handlers : Seq(Handler), outer : Nat]
GenState == [state : {"suspended"}, scope : Seq(Region), handlers : Seq(Handler)]
            \union [state : {"running", "done"}]

TypeOK ==
  /\ stack \in Seq(Frame)
  /\ handled \in Seq(Exceptions)
  /\ gens \in [Gens -> GenState]
  /\ depth \in 0 .. Limit
  /\ raising \in Exceptions \union {NoExc}

Top == stack[Len(stack)]
Below == SubSeq(stack, 1, Len(stack) - 1)
WithTop(f) == [stack EXCEPT ![Len(stack)] = f]
Front(s) == SubSeq(s, 1, Len(s) - 1)
Last(s) == s[Len(s)]
Truncate(s, n) == IF n < Len(s) THEN SubSeq(s, 1, n) ELSE s

\* Code of the innermost frame is running, with nothing on its way out.
Running == stack # << >> /\ raising = NoExc
InRegion(kind) == Top.scope # << >> /\ Last(Top.scope).kind = kind

-----------------------------------------------------------------------------
(* The regions of a frame.                                                 *)

\* PushHandler at the head of a try statement, one for its except clauses and
\* one for its finally clause.
Open(kind, to) ==
  /\ Running
  /\ Len(Top.scope) < MaxScope
  /\ stack' = WithTop([Top EXCEPT
       !.scope = Append(@, [kind |-> kind, exc |-> NoExc]),
       !.handlers = Append(@, [to |-> to, handled |-> Len(handled)])])
  /\ UNCHANGED <<handled, gens, depth, raising>>

OpenTry == Open("try", "except")
OpenGuarded == Open("guarded", "finally")

\* PopHandler where the region ends, or where a return, a break or a continue
\* leaves it (Compiler::leave).
Close ==
  /\ Running
  /\ InRegion("try") \/ InRegion("guarded")
  /\ stack' = WithTop([Top EXCEPT !.scope = Front(@), !.handlers = Front(@)])
  /\ UNCHANGED <<handled, gens, depth, raising>>

\* PopHandler and the finally [Handled] that lower_handlers puts around the
\* clauses, when a clause is over or is left.
EndClause ==
  /\ Running
  /\ InRegion("clause")
  /\ stack' = WithTop([Top EXCEPT !.scope = Front(@), !.handlers = Front(@)])
  /\ handled' = Front(handled)
  /\ UNCHANGED <<gens, depth, raising>>

\* A finally clause that an exception ran is over: PopHandled and Reraise.
EndInterrupt ==
  /\ Running
  /\ InRegion("interrupt")
  /\ raising' = Last(Top.scope).exc
  /\ stack' = WithTop([Top EXCEPT !.scope = Front(@)])
  /\ handled' = Front(handled)
  /\ UNCHANGED <<gens, depth>>

\* It is left by a return, a break or a continue, and the exception with it.
AbandonInterrupt ==
  /\ Running
  /\ InRegion("interrupt")
  /\ stack' = WithTop([Top EXCEPT !.scope = Front(@)])
  /\ handled' = Front(handled)
  /\ UNCHANGED <<gens, depth, raising>>

-----------------------------------------------------------------------------
(* Raising.                                                                *)

\* A raise that names its exception, and everything that fails.
RaiseNew(e) ==
  /\ Running
  /\ raising' = e
  /\ UNCHANGED <<stack, handled, gens, depth>>

\* Reraise at the end of a chain of except clauses none of which matched.
NoMatch ==
  /\ Running
  /\ InRegion("clause")
  /\ raising' = Last(Top.scope).exc
  /\ UNCHANGED <<stack, handled, gens, depth>>

\* A bare raise: what is being handled, by this frame or by a caller of it.
BareRaise ==
  /\ Running
  /\ raising' = IF handled = << >> THEN RuntimeError ELSE Last(handled)
  /\ UNCHANGED <<stack, handled, gens, depth>>

\* What the handler that took an exception does first.
Land(h, f, cut) ==
  LET rest == Front(f.scope)
      Into(kind) == Append(rest, [kind |-> kind, exc |-> raising])
  IN  CASE h.to = "except" ->
             \* Handling(caught), then the guard that takes it off again.
             /\ handled' = Append(cut, raising)
             /\ stack' = WithTop([f EXCEPT
                  !.scope = Into("clause"),
                  !.handlers = Append(@, [to |-> "cleanup", handled |-> Len(cut) + 1])])
             /\ raising' = NoExc
        [] h.to = "finally" ->
             /\ handled' = Append(cut, raising)
             /\ stack' = WithTop([f EXCEPT !.scope = Into("interrupt")])
             /\ raising' = NoExc
        [] h.to = "cleanup" ->
             \* [Handled], and the exception goes on.
             /\ handled' = Front(cut)
             /\ stack' = WithTop([f EXCEPT !.scope = rest])
             /\ UNCHANGED raising

\* The regions of an interrupted finally clause have no handler: the machine
\* passes them without knowing of them.
Passed(scope) ==
  LET guards == {i \in DOMAIN scope : scope[i].kind # "interrupt"}
  IN  IF guards = {} THEN << >>
      ELSE SubSeq(scope, 1, CHOOSE i \in guards : \A j \in guards : j <= i)

\* mutant: the handler that takes an exception stays where it is.
CatchKeepsHandler ==
  /\ raising # NoExc /\ stack # << >> /\ Top.handlers # << >>
  /\ LET h == Last(Top.handlers)
     IN  Land(h, [Top EXCEPT !.scope = Passed(@)], Truncate(handled, h.handled))
  /\ UNCHANGED <<gens, depth>>

\* run_frame, with an exception: the innermost handler of the frame takes it.
Catch ==
  /\ raising # NoExc /\ stack # << >> /\ Top.handlers # << >>
  /\ LET h == Last(Top.handlers)
     IN  Land(h, [Top EXCEPT !.handlers = Front(@), !.scope = Passed(@)],
              Truncate(handled, h.handled))
  /\ UNCHANGED <<gens, depth>>

\* mutant: what the frame left on the handled stack stays on it.
UnwindUntruncated ==
  /\ raising # NoExc /\ stack # << >> /\ Top.handlers = << >>
  /\ stack' = Below
  /\ depth' = depth - 1
  /\ gens' = IF Top.gen = NoGen THEN gens
             ELSE [gens EXCEPT ![Top.gen] = [state |-> "done"]]
  /\ UNCHANGED <<handled, raising>>

\* mutant: a generator that raised is not marked as finished.
UnwindUnfinished ==
  /\ raising # NoExc /\ stack # << >> /\ Top.handlers = << >>
  /\ handled' = Truncate(handled, Top.outer)
  /\ stack' = Below
  /\ depth' = depth - 1
  /\ UNCHANGED <<gens, raising>>

\* run_frame, with an exception and no handler: out of the frame, with what it
\* left on the handled stack, into the frame that called it.
Unwind ==
  /\ raising # NoExc /\ stack # << >> /\ Top.handlers = << >>
  /\ handled' = Truncate(handled, Top.outer)
  /\ stack' = Below
  /\ depth' = depth - 1
  /\ gens' = IF Top.gen = NoGen THEN gens
             ELSE [gens EXCEPT ![Top.gen] = [state |-> "done"]]
  /\ UNCHANGED raising

-----------------------------------------------------------------------------
(* Calls, returns and generators.                                          *)

NewFrame(g, scope, handlers) ==
  [gen |-> g, scope |-> scope, handlers |-> handlers, outer |-> Len(handled)]

\* mutant: the limit is checked one call too late.
CallUnchecked ==
  /\ Running
  /\ IF depth <= Limit
       THEN /\ stack' = Append(stack, NewFrame(NoGen, << >>, << >>))
            /\ depth' = depth + 1
            /\ UNCHANGED raising
       ELSE /\ raising' = RecursionError
            /\ UNCHANGED <<stack, depth>>
  /\ UNCHANGED <<handled, gens>>

\* A call of a function, a method or a class body.
Call ==
  /\ Running
  /\ IF depth < Limit
       THEN /\ stack' = Append(stack, NewFrame(NoGen, << >>, << >>))
            /\ depth' = depth + 1
            /\ UNCHANGED raising
       ELSE /\ raising' = RecursionError
            /\ UNCHANGED <<stack, depth>>
  /\ UNCHANGED <<handled, gens>>

\* A return, or the end of the body.  The regions were left before it.
Return ==
  /\ Running
  /\ Top.scope = << >>
  /\ stack' = Below
  /\ depth' = depth - 1
  /\ gens' = IF Top.gen = NoGen THEN gens
             ELSE [gens EXCEPT ![Top.gen] = [state |-> "done"]]
  /\ UNCHANGED <<handled, raising>>

\* Step a generator: a for loop, next(), or an unpacking.  The depth is counted
\* before the frame is taken out.
Resume(g) ==
  /\ Running
  /\ Len(handled) < MaxHandled
  /\ IF depth = Limit
       THEN raising' = RecursionError /\ UNCHANGED <<stack, gens, depth>>
     ELSE IF gens[g].state = "running"
       THEN raising' = ValueError /\ UNCHANGED <<stack, gens, depth>>
     ELSE IF gens[g].state = "done"
       THEN UNCHANGED <<stack, gens, depth, raising>>
     ELSE /\ stack' = Append(stack, NewFrame(g, gens[g].scope, gens[g].handlers))
          /\ gens' = [gens EXCEPT ![g] = [state |-> "running"]]
          /\ depth' = depth + 1
          /\ UNCHANGED raising
  /\ UNCHANGED handled

\* mutant: a step that ends at a yield does not give its depth back.
YieldKeepsDepth ==
  /\ Running
  /\ Top.gen # NoGen
  /\ \A i \in DOMAIN Top.scope : Top.scope[i].kind \in YieldIn
  /\ gens' = [gens EXCEPT ![Top.gen] =
       [state |-> "suspended", scope |-> Top.scope, handlers |-> Top.handlers]]
  /\ stack' = Below
  /\ UNCHANGED <<handled, depth, raising>>

\* mutant: the handlers stay behind when the frame leaves.
YieldBare ==
  /\ Running
  /\ Top.gen # NoGen
  /\ \A i \in DOMAIN Top.scope : Top.scope[i].kind \in YieldIn
  /\ gens' = [gens EXCEPT ![Top.gen] =
       [state |-> "suspended", scope |-> Top.scope, handlers |-> << >>]]
  /\ stack' = Below
  /\ depth' = depth - 1
  /\ UNCHANGED <<handled, raising>>

\* The frame goes back into the generator as it is.
Yield ==
  /\ Running
  /\ Top.gen # NoGen
  /\ \A i \in DOMAIN Top.scope : Top.scope[i].kind \in YieldIn
  /\ gens' = [gens EXCEPT ![Top.gen] =
       [state |-> "suspended", scope |-> Top.scope, handlers |-> Top.handlers]]
  /\ stack' = Below
  /\ depth' = depth - 1
  /\ UNCHANGED <<handled, raising>>

-----------------------------------------------------------------------------
Init ==
  /\ handled = << >>
  /\ stack = <<NewFrame(NoGen, << >>, << >>)>>
  /\ gens = [g \in Gens |-> [state |-> "suspended", scope |-> << >>, handlers |-> << >>]]
  /\ depth = 1
  /\ raising = NoExc

Next ==
  \/ OpenTry \/ OpenGuarded \/ Close
  \/ EndClause \/ EndInterrupt \/ AbandonInterrupt
  \/ \E e \in Excs : RaiseNew(e)
  \/ NoMatch \/ BareRaise
  \/ Catch \/ Unwind
  \/ Call \/ Return
  \/ \E g \in Gens : Resume(g)
  \/ Yield

\* The loop of run_frame always goes on with an exception that was raised.
Fairness == WF_vars(Catch \/ Unwind)
Spec == Init /\ [][Next]_vars /\ Fairness

-----------------------------------------------------------------------------
Caught(r) == r.kind \in {"clause", "interrupt"}
HasHandler(r) == r.kind # "interrupt"
LandsOn(kind) ==
  CASE kind = "try" -> "except" [] kind = "guarded" -> "finally" [] kind = "clause" -> "cleanup"

\* How many of the first p regions have a handler, and how many hold an
\* exception that is being handled.
Guards(scope, p) == Cardinality({i \in 1 .. p : HasHandler(scope[i])})
Clauses(scope, p) == Cardinality({i \in 1 .. p : Caught(scope[i])})

\* Handlers are those of the regions of a scope.
Follows(handlers, scope) ==
  /\ Len(handlers) = Guards(scope, Len(scope))
  /\ \A p \in DOMAIN scope :
       HasHandler(scope[p]) => handlers[Guards(scope, p)].to = LandsOn(scope[p].kind)

\* Where the exceptions of frame k begin on the handled stack.
Base(k) == IF k > Len(stack) THEN Len(handled) ELSE stack[k].outer

(* What is being handled is exactly what the open except clauses and the   *)
(* interrupted finally clauses of the frames on the stack have caught, in  *)
(* order: nothing that is over is left on it and nothing that is open has  *)
(* been dropped, however control left and came back.                       *)
HandledIsOpenClauses ==
  \A k \in DOMAIN stack :
    LET scope == stack[k].scope
    IN  /\ Base(k + 1) = Base(k) + Clauses(scope, Len(scope))
        /\ \A p \in DOMAIN scope :
             Caught(scope[p]) => handled[Base(k) + Clauses(scope, p)] = scope[p].exc

(* A frame has the handlers of the regions it is inside, and no others, so *)
(* an exception lands in the innermost statement that is open where it was *)
(* raised.                                                                 *)
HandlersFollowScope ==
  \A k \in DOMAIN stack : Follows(stack[k].handlers, stack[k].scope)

(* A generator is running exactly while its one frame is on the stack, so  *)
(* a step that finds it running has found a generator that asked for       *)
(* itself, and one that was left at a yield can be stepped again.          *)
RunningIsOnStack ==
  \A g \in Gens :
    LET frames == {k \in DOMAIN stack : stack[k].gen = g}
    IN  IF gens[g].state = "running" THEN \E k \in frames : frames = {k} ELSE frames = {}

(* The depth that is held against the limit is the number of frames, on    *)
(* every way out of one: an exception through many of them gives back what *)
(* each took (Vm::enter).                                                  *)
DepthIsFrames == depth = Len(stack)

(* A bare raise finds what the innermost open clause has caught, in the    *)
(* frame that is running or in the callers of it, and nothing when there   *)
(* is no such clause (vm.rs, "Exceptions").                                *)
InnermostClause ==
  LET holders == {k \in DOMAIN stack : \E i \in DOMAIN stack[k].scope : Caught(stack[k].scope[i])}
      innermost == CHOOSE k \in holders : \A j \in holders : j <= k
  IN  IF holders = {} THEN NoExc ELSE Last(SelectSeq(stack[innermost].scope, Caught)).exc
BareRaiseFindsClause ==
  Running => InnermostClause = IF handled = << >> THEN NoExc ELSE Last(handled)

(* An exception on its way out arrives: at a handler, or out of the        *)
(* program.  No arrangement of handlers sends it round in circles.         *)
ExceptionsArrive == raising # NoExc ~> Running \/ stack = << >>
=============================================================================
