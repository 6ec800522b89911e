------------------------------ MODULE Binding -------------------------------
(***************************************************************************)
(* What a call puts in which parameter (kohebi-interp, function.rs).       *)
(*                                                                         *)
(* A function's registers begin with its parameters: the positional ones,  *)
(* the *args if there is one, the keyword-only ones and the **kwargs.  A   *)
(* shape says how many of each there are.  The values of a call are told   *)
(* apart by where they were written: the receiver, the n-th positional     *)
(* argument, the keyword.                                                  *)
(***************************************************************************)
EXTENDS Naturals, Sequences, FiniteSets, SequencesExt

Unset == [is |-> "unset", at |-> 0]
Receiver == [is |-> "receiver", at |-> 0]
Position(n) == [is |-> "position", at |-> n]
Keyword(name) == [is |-> "keyword", at |-> name]
Leftovers == [is |-> "tuple", at |-> 0]
Default(slot) == [is |-> "default", at |-> slot]

\* Parameters are named by their slot.  A name that is no parameter's is 0.
NoName == 0

StarSlot(f) == f.positional + 1
KeywordSlots(f) == LET first == f.positional + (IF f.star THEN 1 ELSE 0) + 1
                   IN  first .. first + f.kwOnly - 1
PositionalSlots(f) == 1 .. f.positional
Named(f) == PositionalSlots(f) \union KeywordSlots(f)
LastSlot(f) == f.positional + f.kwOnly + (IF f.star THEN 1 ELSE 0)

\* By position: the receiver counts, and what does not fit is left over.
Given(call) == (IF call.bound THEN <<Receiver>> ELSE << >>)
                 \o [n \in 1 .. call.args |-> Position(n)]
ByPosition(f, call) ==
  [registers |-> [s \in 1 .. LastSlot(f) |->
                    IF s <= f.positional /\ s <= Len(Given(call)) THEN Given(call)[s] ELSE Unset],
   extra |-> SubSeq(Given(call), f.positional + 1, Len(Given(call))),
   collected |-> {}, misplaced |-> {}, error |-> "none"]

\* Where a keyword looks: not at the positional-only parameters.
Reachable(f) == (f.posOnly + 1 .. f.positional) \union KeywordSlots(f)

\* mutant: a keyword that names a parameter that is filled replaces its value.
TakeKeywordAgain(f, b, name) ==
  IF b.error # "none" THEN b
  ELSE IF name \in Reachable(f) THEN [b EXCEPT !.registers[name] = Keyword(name)]
  ELSE IF f.doubleStar THEN [b EXCEPT !.collected = @ \union {name}]
  ELSE IF name \in 1 .. f.posOnly THEN [b EXCEPT !.misplaced = @ \union {name}]
  ELSE [b EXCEPT !.error = "unexpected"]

\* One keyword argument.  The first one that is wrong ends the call, but for
\* those that name positional-only parameters, which are all named together.
TakeKeyword(f, b, name) ==
  IF b.error # "none" THEN b
  ELSE IF name \in Reachable(f)
    THEN IF b.registers[name] # Unset THEN [b EXCEPT !.error = "multiple"]
         ELSE [b EXCEPT !.registers[name] = Keyword(name)]
  ELSE IF f.doubleStar THEN [b EXCEPT !.collected = @ \union {name}]
  ELSE IF name \in 1 .. f.posOnly THEN [b EXCEPT !.misplaced = @ \union {name}]
  ELSE [b EXCEPT !.error = "unexpected"]

ByName(f, b, names) ==
  LET took[k \in 0 .. Len(names)] == IF k = 0 THEN b ELSE TakeKeyword(f, took[k - 1], names[k])
  IN  took[Len(names)]

\* What is left over goes to *args, or is too many.
Gather(f, b) ==
  IF f.star THEN [b EXCEPT !.registers[StarSlot(f)] = Leftovers]
  ELSE IF b.extra # << >> THEN [b EXCEPT !.error = "toomany"] ELSE b

\* mutant: the defaults are laid along the parameters from the left.
FillLeft(f, b) ==
  [b EXCEPT !.registers = [s \in DOMAIN @ |->
     IF @[s] # Unset THEN @[s]
     ELSE IF s \in PositionalSlots(f) /\ s <= f.defaults THEN Default(s)
     ELSE IF s \in KeywordSlots(f) /\ s \in f.kwDefaults THEN Default(s)
     ELSE Unset]]

\* Defaults fill from the right, keyword-only ones each its own parameter.
Fill(f, b) ==
  [b EXCEPT !.registers = [s \in DOMAIN @ |->
     IF @[s] # Unset THEN @[s]
     ELSE IF s \in PositionalSlots(f) /\ s > f.positional - f.defaults THEN Default(s)
     ELSE IF s \in KeywordSlots(f) /\ s \in f.kwDefaults THEN Default(s)
     ELSE Unset]]

MissingIn(b, slots) == \E s \in slots : b.registers[s] = Unset

\* Function::bind.  Its complaints come in the order they are made here.
Bind(f, call) ==
  LET named == ByName(f, ByPosition(f, call), call.names)
      gathered == Gather(f, named)
      filled == Fill(f, gathered)
      Refuse(why) == [error |-> why, registers |-> << >>, extra |-> << >>, collected |-> {}]
  IN  IF named.error # "none" THEN Refuse(named.error)
      ELSE IF named.misplaced # {} THEN Refuse("misplaced")
      ELSE IF gathered.error # "none" THEN Refuse(gathered.error)
      ELSE IF MissingIn(filled, PositionalSlots(f)) THEN Refuse("missing")
      ELSE IF MissingIn(filled, KeywordSlots(f)) THEN Refuse("missing keyword")
      ELSE [error |-> "none", registers |-> filled.registers, extra |-> filled.extra,
            collected |-> filled.collected]

-----------------------------------------------------------------------------
(* What the language says: every parameter has the arguments that are      *)
(* meant for it, the call is right when that is one at most for each, and  *)
(* at least one or a default, and nothing is left over that nobody takes.  *)

MeantFor(f, call, s) ==
  (IF s \in PositionalSlots(f) /\ s <= Len(Given(call)) THEN {Given(call)[s]} ELSE {})
    \union (IF s \in Reachable(f) /\ Contains(call.names, s) THEN {Keyword(s)} ELSE {})

HasDefault(f, s) ==
  \/ s \in PositionalSlots(f) /\ f.positional - s < f.defaults
  \/ s \in KeywordSlots(f) /\ s \in f.kwDefaults

Unclaimed(f, call) == {n \in ToSet(call.names) : n \notin Reachable(f)}

Legal(f, call) ==
  /\ \A s \in Named(f) : Cardinality(MeantFor(f, call, s)) <= 1
  /\ \A s \in Named(f) : MeantFor(f, call, s) = {} => HasDefault(f, s)
  /\ f.star \/ Len(Given(call)) <= f.positional
  /\ f.doubleStar \/ Unclaimed(f, call) = {}

\* A call that is right gives every parameter what is meant for it.
BoundRight(f, call, b) ==
  /\ \A s \in Named(f) : b.registers[s] = IF MeantFor(f, call, s) = {} THEN Default(s)
                                           ELSE CHOOSE v \in MeantFor(f, call, s) : TRUE
  /\ f.star => /\ b.registers[StarSlot(f)] = Leftovers
               /\ b.extra = SubSeq(Given(call), f.positional + 1, Len(Given(call)))
  /\ b.collected = Unclaimed(f, call)

\* A complaint about a keyword comes before one about the number of arguments,
\* and that before one about a parameter that is missing.
Blamed(f, call, why) ==
  LET keywordWrong == \/ \E s \in Named(f) : Cardinality(MeantFor(f, call, s)) > 1
                      \/ ~f.doubleStar /\ Unclaimed(f, call) # {}
      crowded == ~f.star /\ Len(Given(call)) > f.positional
  IN  IF keywordWrong THEN why \in {"multiple", "unexpected", "misplaced"}
      ELSE IF crowded THEN why = "toomany"
      ELSE why \in {"missing", "missing keyword"}
=============================================================================
