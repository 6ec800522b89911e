------------------------------ MODULE Contexts ------------------------------
(***************************************************************************)
(* What an exception was raised while handling (exception.rs, vm.rs).      *)
(*                                                                         *)
(* Every exception has a context, the exception that was being handled     *)
(* when it was raised, and a traceback is printed by following it.  A      *)
(* raise statement writes it; for a failure that comes out of Rust the     *)
(* machine writes it at the first frame the failure passes, and it looks   *)
(* at every frame after that too.  Machine has the frames, the handlers    *)
(* and what is being handled; this module adds the links.                  *)
(*                                                                         *)
(* A program may keep any exception and raise it again, and what fails     *)
(* makes a new one: a member of Exceptions that nothing refers to is what  *)
(* the next failure makes.                                                 *)
(***************************************************************************)
EXTENDS Machine

VARIABLES
  context,  \* of every exception, what it was raised while handling
  answer,   \* history: what was being handled when it was last raised
  cut       \* history: the exceptions that have lost their context since

contextVars == <<vars, context, answer, cut>>
Same == UNCHANGED <<context, answer, cut>>

-----------------------------------------------------------------------------
\* The exceptions a walk from e along the contexts comes by.
Chain(c, e) ==
  {x \in Exceptions :
     \A S \in SUBSET Exceptions :
       (e \in S /\ \A y \in S : c[y] \in S \union {NoExc}) => x \in S}

\* mutant: the link that would close a ring is left in place.
WhileHandlingUncut(c, new, old) ==
  IF new = old THEN c ELSE [c EXCEPT ![new] = old]

\* mutant: the cut is made at the exception being handled, not where the ring
\* would close.
WhileHandlingCutFirst(c, new, old) ==
  IF new = old THEN c ELSE [c EXCEPT ![old] = NoExc, ![new] = old]

\* The contexts after `new` is raised while `old` is handled.  The walk stops
\* at the first link to `new`, and a chain has one such link at most.
WhileHandling(c, new, old) ==
  IF new = old THEN c
  ELSE [x \in Exceptions |->
          IF x = new THEN old
          ELSE IF c[x] = new /\ x \in Chain(c, old) THEN NoExc
          ELSE c[x]]

\* mutant: every look decides again.
InContextAgain(c, e) == IF handled = << >> THEN c ELSE WhileHandling(c, e, Last(handled))

\* What run_frame does first with every failure, at every frame.
InContext(c, e) ==
  IF handled = << >> \/ c[e] # NoExc THEN c ELSE WhileHandling(c, e, Last(handled))

-----------------------------------------------------------------------------
InScope(e, scope) == \E i \in DOMAIN scope : scope[i].exc = e

\* Nothing refers to e, so that a failure may be given its place.
Unused(e) ==
  /\ raising # e
  /\ \A i \in DOMAIN handled : handled[i] # e
  /\ \A k \in DOMAIN stack : ~InScope(e, stack[k].scope)
  /\ \A g \in Gens : gens[g].state = "suspended" => ~InScope(e, gens[g].scope)
  /\ \A x \in Exceptions : context[x] # e

Now == IF handled = << >> THEN NoExc ELSE Last(handled)

Lost == {x \in Exceptions : context[x] # NoExc /\ context'[x] = NoExc}

\* A failure out of Rust: a new exception, with no context yet.
Failed(e) ==
  /\ Unused(e)
  /\ context' = [context EXCEPT ![e] = NoExc]
  /\ answer' = [x \in Exceptions |-> IF x = e THEN Now
                                     ELSE IF answer[x] = e THEN NoExc ELSE answer[x]]
  /\ cut' = cut \ {e}

Fail(e) == RaiseNew(e) /\ Failed(e)

\* A raise statement that names an exception, which may have been raised
\* before, decides afresh when something is being handled.
Raise(e) ==
  /\ RaiseNew(e)
  /\ context' = IF handled = << >> THEN context ELSE WhileHandling(context, e, Last(handled))
  /\ answer' = IF Now \in {NoExc, e} THEN answer ELSE [answer EXCEPT ![e] = Now]
  /\ cut' = IF Now \in {NoExc, e} THEN cut ELSE (cut \union Lost) \ {e}

\* A bare raise puts back what is being handled, which is not raised while
\* handling itself.
RaiseAgain ==
  /\ BareRaise
  /\ IF handled = << >> THEN Failed(RuntimeError) ELSE Same

CallOrFail ==
  /\ Call
  /\ IF depth < Limit THEN Same ELSE Failed(RecursionError)

ResumeOrFail(g) ==
  /\ Resume(g)
  /\ IF raising' = NoExc THEN Same ELSE Failed(raising')

\* A frame that fails looks for the context before it looks for a handler.
Pass ==
  /\ Catch \/ Unwind
  /\ context' = InContext(context, raising)
  /\ cut' = cut \union Lost
  /\ UNCHANGED answer

\* What neither raises nor fails.
Quiet ==
  /\ OpenTry \/ OpenGuarded \/ Close \/ EndClause \/ EndInterrupt \/ AbandonInterrupt
       \/ NoMatch \/ Return \/ Yield
  /\ Same

ContextInit ==
  /\ Init
  /\ context = [e \in Exceptions |-> NoExc]
  /\ answer = context
  /\ cut = {}

ContextNext ==
  \/ \E e \in Excs : Fail(e) \/ Raise(e)
  \/ RaiseAgain
  \/ CallOrFail
  \/ \E g \in Gens : ResumeOrFail(g)
  \/ Pass
  \/ Quiet

ContextSpec == ContextInit /\ [][ContextNext]_contextVars

-----------------------------------------------------------------------------
(* The chain is a chain: no set of exceptions has all its contexts in      *)
(* itself, so a traceback ends, and so does the walk that looks for the    *)
(* link to cut (raised_while_handling, "it refuses to close a ring").      *)
NoRing ==
  \A S \in SUBSET Exceptions : S # {} => \E e \in S : context[e] \notin S

(* The context of an exception is what was being handled when it was       *)
(* raised, whatever it passed on its way since; until the first frame has  *)
(* looked it has none.  An exception whose link was cut is not spoken of,  *)
(* and this is said of programs whose generators do not yield inside a     *)
(* region: what is being handled goes wrong there (BareRaiseFindsClause).  *)
RightAnswer ==
  \A e \in Exceptions \ cut :
    context[e] = answer[e] \/ (context[e] = NoExc /\ e = raising)

(* The first answer wins (vm.rs, in_context): an exception that has lost   *)
(* its link is not given another one on its way, only by a raise.          *)
FirstAnswerWins == \A e \in cut : context[e] = NoExc

(* A link is only cut where it would have closed a ring: the exception     *)
(* that loses its context is above the one it was raised while handling.   *)
CutsOnlyRings ==
  [][\A e \in Exceptions :
       context[e] # NoExc /\ context'[e] = NoExc /\ ~Unused(e)
         => e \in Chain(context', context[e])]_contextVars
=============================================================================
