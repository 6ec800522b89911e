----------------------------- MODULE TryMachine -----------------------------
(***************************************************************************)
(* One frame of the machine (vm.rs) running what TryCompile made of a      *)
(* body, one instruction a step, beside what the language says of it.      *)
(***************************************************************************)
EXTENDS TryCompile

CONSTANTS
  Programs,   \* the bodies that are run
  Panicked    \* how the compilation of a body ended that has no code

VARIABLES
  prog,       \* the body
  code,       \* its instructions
  pc,         \* the next of them
  handlers,   \* the regions the frame is inside, innermost last
  handled,    \* the exceptions being handled, innermost last
  regs,       \* what is in a register: an exception, or the turns left
  trace,      \* what the body has done
  way         \* how it ended, or Running

vars == <<prog, code, pc, handlers, handled, regs, trace, way>>

Running == Way("running", NoExc)

Instr == code[pc]
Is(op) == way = Running /\ Instr.op = op
Innermost(s) == s[Len(s)]
Less(s) == SubSeq(s, 1, Len(s) - 1)
Handling == IF handled = << >> THEN NoExc ELSE Innermost(handled)
Set(reg, value) == [r \in DOMAIN regs \union {reg} |-> IF r = reg THEN value ELSE regs[r]]

\* An exception raised by the running instruction: the innermost handler takes
\* it, and what the region left on the handled stack goes.
Raised(exc) ==
  IF handlers = << >>
    THEN /\ way' = Way("raise", exc)
         /\ handled' = << >>
         /\ UNCHANGED <<prog, code, pc, handlers, regs, trace>>
    ELSE LET h == Innermost(handlers)
         IN  /\ handlers' = Less(handlers)
             /\ handled' = IF h.handled < Len(handled) THEN SubSeq(handled, 1, h.handled)
                                                       ELSE handled
             /\ regs' = Set(h.reg, exc)
             /\ pc' = h.to
             /\ UNCHANGED <<prog, code, trace, way>>

-----------------------------------------------------------------------------
StepMark ==
  /\ Is("mark")
  /\ trace' = Append(trace, [at |-> Instr.label, handling |-> Handling])
  /\ pc' = pc + 1
  /\ UNCHANGED <<prog, code, handlers, handled, regs, way>>

StepRaise == Is("raise") /\ Raised(Instr.exc)

\* Raise without an exception.
StepBare == Is("bare") /\ Raised(IF handled = << >> THEN RuntimeError ELSE Handling)

StepReraise == Is("reraise") /\ Raised(regs[Instr.reg])

StepPushHandler ==
  /\ Is("pushhandler")
  /\ handlers' = Append(handlers, [to |-> Instr.to, reg |-> Instr.reg, handled |-> Len(handled)])
  /\ pc' = pc + 1
  /\ UNCHANGED <<prog, code, handled, regs, trace, way>>

StepPopHandler ==
  /\ Is("pophandler")
  /\ handlers' = Less(handlers)
  /\ pc' = pc + 1
  /\ UNCHANGED <<prog, code, handled, regs, trace, way>>

StepPushHandled ==
  /\ Is("pushhandled")
  /\ handled' = Append(handled, regs[Instr.reg])
  /\ pc' = pc + 1
  /\ UNCHANGED <<prog, code, handlers, regs, trace, way>>

StepPopHandled ==
  /\ Is("pophandled")
  /\ handled' = Less(handled)
  /\ pc' = pc + 1
  /\ UNCHANGED <<prog, code, handlers, regs, trace, way>>

\* Matches and the jumpunless that reads what it set.
StepMatch ==
  /\ Is("match")
  /\ pc' = IF regs[Instr.reg] \in Instr.matches THEN pc + 1 ELSE Instr.to
  /\ UNCHANGED <<prog, code, handlers, handled, regs, trace, way>>

\* GetIter
StepIter ==
  /\ Is("iter")
  /\ regs' = Set(Instr.reg, Instr.turns)
  /\ pc' = pc + 1
  /\ UNCHANGED <<prog, code, handlers, handled, trace, way>>

\* Next, Exhausted and the jump out of the loop.
StepNext ==
  /\ Is("next")
  /\ IF regs[Instr.reg] = 0
       THEN pc' = Instr.to /\ UNCHANGED regs
       ELSE pc' = pc + 1 /\ regs' = Set(Instr.reg, regs[Instr.reg] - 1)
  /\ UNCHANGED <<prog, code, handlers, handled, trace, way>>

StepJump ==
  /\ Is("jump")
  /\ pc' = Instr.to
  /\ UNCHANGED <<prog, code, handlers, handled, regs, trace, way>>

\* The frame goes with whatever is on its handler stack.
StepReturn ==
  /\ Is("return")
  /\ way' = Way("return", Instr.value)
  /\ UNCHANGED <<prog, code, pc, handlers, handled, regs, trace>>

-----------------------------------------------------------------------------
Init ==
  /\ prog \in Programs
  /\ LET compiled == Compiled(prog)
     IN  /\ code = compiled.code
         /\ way = IF compiled.panic THEN Way(Panicked, NoExc) ELSE Running
  /\ pc = 1
  /\ handlers = << >>
  /\ handled = << >>
  /\ regs = << >>
  /\ trace = << >>

Next ==
  \/ StepMark \/ StepRaise \/ StepBare \/ StepReraise
  \/ StepPushHandler \/ StepPopHandler \/ StepPushHandled \/ StepPopHandled
  \/ StepMatch \/ StepIter \/ StepNext \/ StepJump \/ StepReturn

\* The loop of run_frame goes on until the frame ends.
Spec == Init /\ [][Next]_vars /\ WF_vars(Next)

-----------------------------------------------------------------------------
Ended == way # Running

\* The end of a body is a return of None.
Expected ==
  LET meaning == Meaning(prog)
  IN  IF meaning.way = Normal THEN Did(Way("return", NoExc), meaning.trace) ELSE meaning

(* A body does what the language says it does, and ends the way it says,   *)
(* whichever way control leaves the try statements and loops in it: every  *)
(* finally clause runs once on its way out, and what is being handled at   *)
(* each point is what the clauses around it have caught (compile.rs, Guard *)
(* and compile_try).                                                       *)
RunsAsWritten == Ended => Did(way, trace) = Expected

(* A body that is over has left nothing being handled, so a bare raise of  *)
(* its caller means what it meant before the call, and no handler that a   *)
(* region should have taken off; nor has any been taken off that was not   *)
(* there: every region that was entered was left once (Guard::live).       *)
NothingLeftBehind ==
  /\ Ended => handled = << >>
  /\ way.kind = "return" => handlers = << >>
  /\ Is("pophandler") => handlers # << >>
  /\ Is("pophandled") => handled # << >>

(* Every body comes to an end: a continue takes the next step of its       *)
(* iterator, and no handler sends an exception back into its own region.   *)
Ends == <>Ended
=============================================================================
