------------------------------- MODULE Scopes -------------------------------
(***************************************************************************)
(* Where a name is (kohebi-hir, lower.rs): in a slot of the frame, in a    *)
(* cell of an enclosing one, in the namespace a class body fills, or in    *)
(* the module.                                                             *)
(*                                                                         *)
(* One name is enough, as two names do not meet.  A frame is a function, a *)
(* class body or a comprehension; it may take the name as a parameter (or  *)
(* loop over it) or declare it, and its body reads it, writes it (with a   *)
(* walrus in a comprehension) and has frames inside.  A frame is lowered   *)
(* in the order it is written, and what a frame inside of it captures is   *)
(* noted in the frames around as it goes.                                  *)
(***************************************************************************)
EXTENDS Naturals, Sequences, FiniteSetsExt, SequencesExt

Frame(kind, takes, declares, body) ==
  [item |-> "frame", kind |-> kind, takes |-> takes, declares |-> declares, body |-> body]
ReadIt == [item |-> "read"]
WriteIt == [item |-> "write"]
\* A walrus in an index, or in a default of a lambda.
HiddenWrite == [item |-> "hidden write"]

\* Where a site finds the name: the depth of the frame that owns it, 1 for the
\* module, and whether a namespace is looked at first.
InCell(depth) == [is |-> "slot", depth |-> depth]
InModule == [is |-> "module", depth |-> 1]
InName == [is |-> "name", depth |-> 0]
InNameOrCell(depth) == [is |-> "name or cell", depth |-> depth]
Refused == [is |-> "refused", depth |-> 0]

\* What a frame is found to bind, a walrus of a comprehension in it included;
\* Binder does not look into an index or a lambda.
RECURSIVE Binding(_)
Binding(body) ==
  \E i \in DOMAIN body :
    \/ body[i].item = "write"
    \/ body[i].item = "frame" /\ body[i].kind = "comp" /\ Binding(body[i].body)

-----------------------------------------------------------------------------
(* The lowering: the scopes, innermost last, and the sites so far.         *)

Scope(kind) == [kind |-> kind, slot |-> FALSE, free |-> FALSE, declared |-> FALSE,
                nonlocal |-> FALSE, bound |-> FALSE]
Module == Scope("module")
TopOf(scopes) == scopes[Len(scopes)]
HasSlot(scope) == scope.slot \/ scope.free

\* Found or not, and the scopes as the search leaves them.
Found(scopes, found) == [scopes |-> scopes, found |-> found]

\* mutant: a frame on the way that declares the name global is stepped over.
CapturePast(scopes) ==
  LET stops == {at \in 2 .. Len(scopes) - 1 : scopes[at].kind # "class" /\ HasSlot(scopes[at])}
  IN  IF stops = {} THEN Found(scopes, FALSE)
      ELSE Found([k \in DOMAIN scopes |->
                    IF k > Max(stops) THEN [scopes[k] EXCEPT !.free = TRUE] ELSE scopes[k]], TRUE)

\* capture: the nearest function that has it, and a slot for the cell in every
\* frame from there to here.
Capture(scopes) ==
  LET here == Len(scopes)
      stops == {at \in 2 .. here - 1 : /\ scopes[at].kind # "class"
                                       /\ scopes[at].declared \/ HasSlot(scopes[at])}
      owner == Max(stops)
  IN  IF stops = {} \/ scopes[owner].declared THEN Found(scopes, FALSE)
      ELSE Found([k \in DOMAIN scopes |->
                    IF k > owner THEN [scopes[k] EXCEPT !.free = TRUE] ELSE scopes[k]], TRUE)

Resolve(scopes) ==
  IF HasSlot(TopOf(scopes)) THEN Found(scopes, TRUE)
  ELSE IF TopOf(scopes).declared THEN Found(scopes, FALSE)
  ELSE Capture(scopes)

\* Whose slot it is in the end: a free one is handed on by the frame around.
OwnerOf(scopes) == Max({k \in DOMAIN scopes : scopes[k].slot})

TakenOut(scope) == scope.declared \/ scope.nonlocal

Site(st, scopes, where) == [st EXCEPT !.scopes = scopes, !.sites = Append(@, where)]

InSlotOrModule(st, r) ==
  Site(st, r.scopes, IF r.found THEN InCell(OwnerOf(r.scopes)) ELSE InModule)

\* read.
ReadName(st) ==
  LET r == Resolve(st.scopes)
      top == TopOf(st.scopes)
  IN  IF top.kind # "class" \/ TakenOut(top) THEN InSlotOrModule(st, r)
      ELSE IF top.bound THEN Site(st, st.scopes, InName)
      ELSE Site(st, r.scopes, IF r.found THEN InNameOrCell(OwnerOf(r.scopes)) ELSE InName)

\* write.
WriteName(st) ==
  LET top == TopOf(st.scopes)
  IN  IF top.kind = "class" /\ ~TakenOut(top) THEN Site(st, st.scopes, InName)
      ELSE InSlotOrModule(st, Resolve(st.scopes))

\* take_names: the declarations first, then a slot for what the frame binds.
TakeNames(scopes, frame) ==
  LET at == Len(scopes)
      declared == [scopes EXCEPT ![at].declared = frame.declares = "global"]
      captured == Capture(declared)
      after == IF frame.declares # "nonlocal" THEN declared
               ELSE [captured.scopes EXCEPT ![at].nonlocal = TRUE]
  IN  IF frame.declares = "nonlocal" /\ ~captured.found THEN Found(scopes, FALSE)
      ELSE Found(
             IF frame.kind = "class" THEN [after EXCEPT ![at].bound = Binding(frame.body)]
             ELSE [after EXCEPT ![at].slot = \/ @
                                             \/ /\ Binding(frame.body)
                                                /\ ~after[at].declared /\ ~after[at].free],
             TRUE)

RECURSIVE LowerFrame(_, _), LowerItem(_, _)
LowerItem(st, item) ==
  IF st.refused THEN st
  ELSE CASE item.item = "read" -> ReadName(st)
         [] item.item \in {"write", "hidden write"} -> WriteName(st)
         [] item.item = "frame" -> LowerFrame(st, item)

\* frame: a scope of its own, with the parameters in the first slots.
LowerFrame(st, frame) ==
  LET own == [Scope(frame.kind) EXCEPT !.slot = frame.takes]
      entered == Append(st.scopes, own)
      names == IF frame.kind = "comp" THEN Found(entered, TRUE) ELSE TakeNames(entered, frame)
      done == FoldLeft(LowerItem, [st EXCEPT !.scopes = names.scopes], frame.body)
  IN  IF ~names.found THEN [st EXCEPT !.refused = TRUE, !.sites = Append(@, Refused)]
      ELSE [done EXCEPT !.scopes = SubSeq(@, 1, Len(st.scopes))]

Sites(frame) ==
  LowerFrame([scopes |-> <<Module>>, sites |-> << >>, refused |-> FALSE], frame).sites

-----------------------------------------------------------------------------
(* What the language says, of the frames around a site from the outermost. *)

Depth(frames) == Len(frames) + 1

\* A frame binds what is written in it, wherever.
RECURSIVE Binds(_)
Binds(body) ==
  \E i \in DOMAIN body :
    \/ body[i].item \in {"write", "hidden write"}
    \/ body[i].item = "frame" /\ body[i].kind = "comp" /\ Binds(body[i].body)
Own(frame) == /\ frame.declares = "none"
              /\ frame.takes \/ (frame.kind # "comp" /\ Binds(frame.body))

\* The variable that is meant by a frame that does not bind it: that of the
\* nearest function or comprehension around it which does.
Enclosing(frames) ==
  LET around == {k \in 1 .. Len(frames) - 1 :
                   /\ frames[k].kind # "class"
                   /\ frames[k].declares = "global" \/ Own(frames[k])}
      k == Max(around)
  IN  IF around = {} \/ frames[k].declares = "global" THEN InModule ELSE InCell(k + 1)

Meant(frames) ==
  LET f == frames[Len(frames)]
      outside == Enclosing(frames)
  IN  IF f.declares = "global" THEN InModule
      ELSE IF f.declares = "nonlocal" \/ f.kind # "class"
        THEN IF Own(f) THEN InCell(Depth(frames)) ELSE outside
      ELSE IF Own(f) \/ outside = InModule THEN InName
      ELSE InNameOrCell(outside.depth)

\* A walrus writes in the frame around the comprehensions it is in.
RECURSIVE MeantToWrite(_)
MeantToWrite(frames) ==
  LET f == frames[Len(frames)]
  IN  IF f.kind = "comp"
        THEN IF Len(frames) = 1 THEN InModule ELSE MeantToWrite(SubSeq(frames, 1, Len(frames) - 1))
      ELSE IF f.kind = "class" /\ f.declares = "none" THEN InName
      ELSE Meant(frames)

Baseless(frames) ==
  frames[Len(frames)].declares = "nonlocal" /\ Enclosing(frames) = InModule

RECURSIVE MeantBy(_, _)
MeantBy(item, around) ==
  CASE item.item = "read" -> <<Meant(around)>>
    [] item.item \in {"write", "hidden write"} -> <<MeantToWrite(around)>>
    [] item.item = "frame" ->
         LET frames == Append(around, item)
         IN  IF Baseless(frames) THEN <<Refused>>
             ELSE FlattenSeq([i \in DOMAIN item.body |-> MeantBy(item.body[i], frames)])

\* Nothing is lowered after a refusal.
UpToRefusal(sites) ==
  LET at == {i \in DOMAIN sites : sites[i] = Refused}
  IN  IF at = {} THEN sites ELSE SubSeq(sites, 1, Min(at))

-----------------------------------------------------------------------------
(* Programs that are refused before they are lowered, and the two sorts    *)
(* that are got wrong.                                                     *)

\* A walrus in a comprehension may not be in a class body, and may not rebind
\* what a comprehension it is in loops over.
RECURSIVE MayWrite(_)
MayWrite(frames) ==
  LET f == frames[Len(frames)]
  IN  IF f.kind # "comp" THEN TRUE
      ELSE ~f.takes /\ (Len(frames) = 1 \/ (/\ frames[Len(frames) - 1].kind # "class"
                                            /\ MayWrite(SubSeq(frames, 1, Len(frames) - 1))))

\* In a comprehension there are no statements: a function is a lambda there.
IsExpression(frame) == frame.kind # "class" /\ frame.declares = "none"

RECURSIVE Legal(_, _)
Legal(item, around) ==
  CASE item.item = "read" -> TRUE
    [] item.item \in {"write", "hidden write"} -> MayWrite(around)
    [] item.item = "frame" ->
         /\ around # << >> /\ around[Len(around)].kind = "comp" => IsExpression(item)
         /\ \A i \in DOMAIN item.body : Legal(item.body[i], Append(around, item))

\* A class body that declares the name global, after a frame inside of it took
\* the name through it from outside.
RECURSIVE Hijacked(_)
Hijacked(item) ==
  /\ item.item = "frame"
  /\ \/ /\ item.kind = "class" /\ item.declares = "global"
        /\ \E i, j \in DOMAIN item.body :
             i < j /\ item.body[i].item = "frame" /\ item.body[j].item # "frame"
     \/ \E i \in DOMAIN item.body : Hijacked(item.body[i])

\* A frame that binds the name only where it is not looked for; in a class body
\* only a read of it minds.
RECURSIVE Unseen(_)
Unseen(item) ==
  /\ item.item = "frame"
  /\ \/ /\ Own(item) /\ ~item.takes /\ ~Binding(item.body)
        /\ item.kind = "class" => \E i \in DOMAIN item.body : item.body[i] = ReadIt
     \/ \E i \in DOMAIN item.body : Unseen(item.body[i])

-----------------------------------------------------------------------------
(* The programs Scopes is checked on: a frame, up to two more inside of it, *)
(* and what is read and written before and after the one inside.            *)

Heads ==
  {<<"function", takes, "none">> : takes \in BOOLEAN}
    \union {<<kind, FALSE, d>> : kind \in {"function", "class"}, d \in {"global", "nonlocal"}}
    \union {<<"class", FALSE, "none">>, <<"comp", FALSE, "none">>, <<"comp", TRUE, "none">>}

Headed(head, body) == Frame(head[1], head[2], head[3], body)

Innermost == {Headed(h, b) : h \in Heads, b \in {<<ReadIt>>, <<WriteIt>>, <<ReadIt, WriteIt>>, <<HiddenWrite, ReadIt>>}}

Bodies(inner) ==
  {<<inner>>, <<inner, ReadIt>>, <<inner, WriteIt>>, <<WriteIt, inner>>, <<ReadIt, inner, inner>>,
   <<HiddenWrite, inner, WriteIt>>}

Middle == UNION {{Headed(h, b) : b \in Bodies(f)} : h \in Heads, f \in Innermost}

Lawful(p) == Legal(p, << >>) = TRUE
SomeProgram(Such(_)) ==
  \/ \E f \in Innermost : Lawful(f) /\ Such(f)
  \/ \E f \in Middle : Lawful(f) /\ Such(f)
  \/ \E h \in Heads, f \in Middle : \E b \in Bodies(f) :
       LET p == Headed(h, b) IN Lawful(p) /\ Such(p)
=============================================================================
