-------------------------------- MODULE Sets --------------------------------
(***************************************************************************)
(* The methods of a set (kohebi-interp, method/set.rs), and the operators  *)
(* on sets, lists and tuples, in place and not (kohebi-core, ops.rs, and   *)
(* kohebi-interp, vm.rs).                                                  *)
(*                                                                         *)
(* A member is an object that is equal to those of its kind, and a set is  *)
(* its members in the order of its table, which Dict.tla has.  An argument *)
(* of a method is walked, and a walk may run Python: it is a sequence of   *)
(* steps that give an element, change the set the method was called on, or *)
(* raise.                                                                  *)
(***************************************************************************)
EXTENDS Naturals, FiniteSets, FiniteSetsExt, SequencesExt

AnyMember == [kind : Nat, copy : Nat, hashable : {TRUE}]
\* No two members of a set are equal.
AnySet == {s \in Seq(AnyMember) : \A i, j \in DOMAIN s : s[i].kind = s[j].kind => i = j}
AnyStep == [does : {"give", "add", "discard", "raised", "unhashable"}, m : AnyMember]
AnyOther == [is : {"walk", "self", "not iterable"}, steps : Seq(AnyStep)]
AnyThing ==
  [type : {"list", "tuple", "int", "generator"}, items : Seq(AnyMember), count : Nat]
    \union [type : {"set"}, items : AnySet, count : Nat]

HasKind(set, kind) == \E i \in DOMAIN set : set[i].kind = kind
Insert(set, m) == IF HasKind(set, m.kind) THEN set ELSE Append(set, m)

\* What is at some of the places, in its order.
Picked(set, places) ==
  LET picked[k \in 0 .. Len(set)] ==
        IF k = 0 THEN << >> ELSE IF k \in places THEN Append(picked[k - 1], set[k]) ELSE picked[k - 1]
  IN  picked[Len(set)]
TakeOut(set, m) == Picked(set, {i \in DOMAIN set : set[i].kind # m.kind})
InBoth(x, y) == Picked(x, {i \in DOMAIN x : HasKind(y, x[i].kind)})
OnlyIn(x, y) == Picked(x, {i \in DOMAIN x : ~HasKind(y, x[i].kind)})

\* One member after the other.
InsertAll(set, members) ==
  LET into[k \in 0 .. Len(members)] == IF k = 0 THEN set ELSE Insert(into[k - 1], members[k])
  IN  into[Len(members)]
TakeOutAll(set, members) ==
  LET left[k \in 0 .. Len(members)] == IF k = 0 THEN set ELSE TakeOut(left[k - 1], members[k])
  IN  left[Len(members)]
SetOf(members) == InsertAll(<< >>, members)

-----------------------------------------------------------------------------
(* read, every and single.                                                 *)

\* One step of an argument's walk; nothing is asked for after a failure.
ReadStep(r, step) ==
  IF r.error # "none" THEN r
  ELSE IF step.does = "give" THEN [r EXCEPT !.taken[Len(r.taken)] = Append(@, step.m)]
  ELSE IF step.does = "add" THEN [r EXCEPT !.held = Insert(@, step.m)]
  ELSE IF step.does = "discard" THEN [r EXCEPT !.held = TakeOut(@, step.m)]
  ELSE [r EXCEPT !.error = step.does]

ReadSteps(r, steps) ==
  LET read[k \in 0 .. Len(steps)] == IF k = 0 THEN r ELSE ReadStep(read[k - 1], steps[k])
  IN  read[Len(steps)]

\* An argument is the set itself, something that is not iterable, or a walk.
Read(r, other) ==
  IF r.error # "none" THEN r
  ELSE IF other.is = "not iterable" THEN [r EXCEPT !.error = "not iterable"]
  ELSE IF other.is = "self" THEN [r EXCEPT !.taken = Append(@, r.held)]
  ELSE ReadSteps([r EXCEPT !.taken = Append(@, << >>)], other.steps)

Every(held, others) ==
  LET every[k \in 0 .. Len(others)] ==
        IF k = 0 THEN [held |-> held, taken |-> << >>, error |-> "none"] ELSE Read(every[k - 1], others[k])
  IN  every[Len(others)]

-----------------------------------------------------------------------------
(* The methods: what the set is afterwards, and what is given back.        *)

\* What is in one of the two and not in both.
Either(built, other) == InsertAll(OnlyIn(built, other), OnlyIn(other, built))

AnyNumber == {"union", "update", "difference", "difference_update", "intersection", "intersection_update"}
Single == {"symmetric_difference", "symmetric_difference_update", "isdisjoint", "issubset", "issuperset"}
Updating == {"update", "difference_update", "intersection_update", "symmetric_difference_update"}

\* Everything is read before anything changes; then it is one argument after
\* the other.
Combine(method, built, other) ==
  IF method \in {"union", "update"} THEN InsertAll(built, other)
  ELSE IF method \in {"difference", "difference_update"} THEN TakeOutAll(built, other)
  ELSE IF method \in {"intersection", "intersection_update"} THEN InBoth(built, SetOf(other))
  ELSE Either(built, SetOf(other))
Combined(method, held, taken) ==
  LET built[k \in 0 .. Len(taken)] == IF k = 0 THEN held ELSE Combine(method, built[k - 1], taken[k])
  IN  built[Len(taken)]

Test(method, held, other) ==
  IF method = "isdisjoint" THEN \A i \in DOMAIN other : ~HasKind(held, other[i].kind)
  ELSE IF method = "issubset" THEN \A i \in DOMAIN held : HasKind(SetOf(other), held[i].kind)
  ELSE \A i \in DOMAIN other : HasKind(held, other[i].kind)

Nothing(held, error) == [held |-> held, error |-> error, gives |-> << >>]
Gives1(held, what) == [held |-> held, error |-> "none", gives |-> <<what>>]
Method(method, held, others) ==
  LET r == Every(held, others)
  IN  IF method \in Single /\ Len(others) # 1 THEN Nothing(held, "takes one")
      ELSE IF r.error # "none" THEN Nothing(r.held, r.error)
      ELSE IF method \in Updating THEN Nothing(Combined(method, r.held, r.taken), "none")
      ELSE IF method \in AnyNumber \union {"symmetric_difference"}
        THEN Gives1(r.held, Combined(method, r.held, r.taken))
      ELSE Gives1(r.held, Test(method, r.held, r.taken[1]))

\* add, remove, discard, pop, clear and copy, on one element that may have no
\* hash.
MemberMethods == {"add", "remove", "discard", "pop", "clear", "copy"}
OneMember(method, held, m) ==
  IF method \in {"add", "remove", "discard"} /\ ~m.hashable THEN Nothing(held, "unhashable")
  ELSE IF method = "add" THEN Nothing(Insert(held, m), "none")
  ELSE IF method = "discard" \/ (method = "remove" /\ HasKind(held, m.kind)) THEN Nothing(TakeOut(held, m), "none")
  ELSE IF method = "clear" THEN Nothing(<< >>, "none")
  ELSE IF method = "copy" THEN Gives1(held, held)
  ELSE IF method = "remove" \/ held = << >> THEN Nothing(held, "KeyError")
  ELSE [Gives1(held, held[1]) EXCEPT !.held = TakeOut(held, held[1])]

-----------------------------------------------------------------------------
(* Operators.  A value is a list, a tuple, a set, an integer, or a         *)
(* generator, which stands for all that has to be stepped.                 *)

Refused == [type |-> "refused", items |-> << >>]
Built(type, items) == [type |-> type, items |-> items]
Repeated(items, n) == FlattenSeq([k \in 1 .. n |-> items])

\* What a bitwise operator makes of two sets.
BitwiseOnSets(op, x, y) ==
  IF op = "&" THEN SetOf(InBoth(x, y))
  ELSE IF op = "|" THEN SetOf(x \o y)
  ELSE SetOf(OnlyIn(x, y) \o OnlyIn(y, x))

Binary(op, a, b) ==
  LET both == IF a.type = b.type THEN a.type ELSE "two"
  IN  IF op = "+" /\ both \in {"list", "tuple"} THEN Built(both, a.items \o b.items)
      ELSE IF op = "*" /\ b.type = "int" /\ a.type \in {"list", "tuple"} THEN Built(a.type, Repeated(a.items, b.count))
      ELSE IF op = "*" /\ a.type = "int" /\ b.type \in {"list", "tuple"} THEN Built(b.type, Repeated(b.items, a.count))
      ELSE IF op = "-" /\ both = "set" THEN Built("set", SetOf(OnlyIn(a.items, b.items)))
      ELSE IF op \in {"&", "|", "^"} /\ both = "set" THEN Built("set", BitwiseOnSets(op, a.items, b.items))
      ELSE Refused

\* A set is ordered by what it holds.
SetOrder(op, a, b) ==
  LET subset == Len(a) <= Len(b) /\ \A i \in DOMAIN a : HasKind(b, a[i].kind)
      superset == Len(b) <= Len(a) /\ \A i \in DOMAIN b : HasKind(a, b[i].kind)
  IN  IF op = "<" THEN subset /\ ~superset
      ELSE IF op = "<=" THEN subset
      ELSE IF op = ">" THEN superset /\ ~subset
      ELSE superset

\* What an operator leaves: the objects, and which of them it answers with.
Unchanged(objects) == [objects |-> objects, is |-> "nothing", value |-> Refused]
Fresh(objects, value) == [objects |-> objects, is |-> "new", value |-> value]
Into(objects, name, items) ==
  LET after == [objects EXCEPT ![name].items = items]
  IN  [objects |-> after, is |-> name, value |-> after[name]]

\* An augmented assignment to the object of one name, from that of another.
InPlace(op, objects, left, right) ==
  LET a == objects[left]
      b == objects[right]
      value == Binary(op, a, b)
  IN  IF op = "+" /\ a.type = "list"
        THEN IF b.type \in {"list", "tuple", "set"} THEN Into(objects, left, a.items \o b.items)
             ELSE Unchanged(objects)
      ELSE IF op = "|" /\ a.type = "set" /\ b.type = "set" THEN Into(objects, left, InsertAll(a.items, b.items))
      ELSE IF op = "-" /\ a.type = "set" /\ b.type = "set" THEN Into(objects, left, TakeOutAll(a.items, b.items))
      ELSE IF value = Refused THEN Unchanged(objects)
      ELSE IF a.type \in {"list", "set"} THEN Into(objects, left, value.items)
      ELSE Fresh(objects, value)

-----------------------------------------------------------------------------
(* What the methods and operators of sets promise: of every kind of member *)
(* whether it is there and which copy of it, said of the history of the    *)
(* steps that ran and not of how it was done.                              *)

Methods == AnyNumber \union Single
KindsOf(members) == {m.kind : m \in members}

\* The steps of all arguments, one after the other.
Event(arg, does, m) == [arg |-> arg, does |-> does, m |-> m]
NoMember == [kind |-> 0, copy |-> 0, hashable |-> FALSE]
EventsOf(i, other) ==
  IF other.is = "walk"
    THEN [k \in DOMAIN other.steps |-> Event(i, other.steps[k].does, other.steps[k].m)]
  ELSE <<Event(i, other.is, NoMember)>>
Events(others) == FlattenSeq([i \in DOMAIN others |-> EventsOf(i, others[i])])
Failures == {"raised", "unhashable", "not iterable"}
\* Where the first failure is, behind the last step if there is none.
Failure(events) == Min({i \in DOMAIN events : events[i].does \in Failures} \union {Len(events) + 1})

\* The set before a step: its kinds, and the copy of each.
Changes(events, at, kind) ==
  {i \in 1 .. at - 1 : events[i].does \in {"add", "discard"} /\ events[i].m.kind = kind}
CopyBefore(events, held, at, kind) ==
  LET changes == Changes(events, at, kind)
      gone == {i \in changes : events[i].does = "discard"}
      adds == IF gone = {} THEN changes ELSE {i \in changes : i > Max(gone)}
      first == {m \in ToSet(held) : m.kind = kind}
  IN  IF gone = {} /\ first # {} THEN first
      ELSE {events[i].m : i \in {i \in adds : \A j \in adds : i <= j}}
SetBefore(events, held, at) ==
  {m \in ToSet(held) \union {events[i].m : i \in DOMAIN events} : m \in CopyBefore(events, held, at, m.kind)}

\* What one step gives: nothing, an element, or the whole set.
GivenBy(events, held, i) ==
  CASE events[i].does = "give" -> {events[i].m}
    [] events[i].does = "self" -> SetBefore(events, held, i)
    [] OTHER -> {}
Giving(events, held, kind) == {i \in DOMAIN events : kind \in KindsOf(GivenBy(events, held, i))}
GivenIn(events, held, arg) ==
  KindsOf(UNION {GivenBy(events, held, i) : i \in {i \in DOMAIN events : events[i].arg = arg}})
FirstGiven(events, held, kind) ==
  {m \in GivenBy(events, held, Min(Giving(events, held, kind))) : m.kind = kind}

\* The kinds a method answers with, of the set and of what was given.
Wanted(method, there, given) ==
  CASE method \in {"union", "update"} -> there \union UNION {given[i] : i \in DOMAIN given}
    [] method \in {"difference", "difference_update"} -> {k \in there : \A i \in DOMAIN given : k \notin given[i]}
    [] method \in {"intersection", "intersection_update"} -> {k \in there : \A i \in DOMAIN given : k \in given[i]}
    [] method \in {"symmetric_difference", "symmetric_difference_update"} ->
         (there \ given[1]) \union (given[1] \ there)
Truth(method, there, given) ==
  CASE method = "isdisjoint" -> there \intersect given = {}
    [] method = "issubset" -> there \subseteq given
    [] method = "issuperset" -> given \subseteq there

\* A sequence holds these members, each of them once.
Holding(set, members) == IsInjective(set) /\ ToSet(set) = members

MethodAsMeant(method, held, others, r) ==
  LET events == Events(others)
      fails == Failure(events)
      members == SetBefore(events, held, fails)
      given == [i \in DOMAIN others |-> GivenIn(events, held, i)]
      kinds == Wanted(method, KindsOf(members), given)
      result == {m \in members : m.kind \in kinds}
                  \union UNION {FirstGiven(events, held, k) : k \in kinds \ KindsOf(members)}
  IN  IF method \in Single /\ Len(others) # 1 THEN r = Nothing(held, "takes one")
      ELSE IF fails <= Len(events)
        THEN r.error = events[fails].does /\ r.gives = << >> /\ Holding(r.held, members)
      ELSE /\ r.error = "none"
           /\ IF method \in Updating THEN r.gives = << >> /\ Holding(r.held, result)
              ELSE /\ Holding(r.held, members)
                   /\ IF method \in Single /\ method # "symmetric_difference"
                        THEN r.gives = <<Truth(method, KindsOf(members), given[1])>>
                      ELSE Holding(r.gives[1], result)

MemberAsMeant(held, m, r) ==
  LET here == ToSet(held)
      same == {x \in here : x.kind = m.kind}
      Does1(method, error, after) == r[method].error = error /\ Holding(r[method].held, after)
  IN  /\ \A method \in {"add", "remove", "discard"} : ~m.hashable => r[method] = Nothing(held, "unhashable")
      /\ m.hashable =>
           /\ Does1("add", "none", IF same = {} THEN here \union {m} ELSE here)
           /\ Does1("discard", "none", here \ same)
           /\ Does1("remove", IF same = {} THEN "KeyError" ELSE "none", here \ same)
      /\ IF here = {} THEN r["pop"] = Nothing(held, "KeyError")
         ELSE \E x \in here : r["pop"].gives = <<x>> /\ Does1("pop", "none", here \ {x})
      /\ Does1("clear", "none", {})
      /\ Does1("copy", "none", here) /\ Holding(r["copy"].gives[1], here)

-----------------------------------------------------------------------------
Operators == {"+", "*", "-", "&", "|", "^"}

\* Whether a value is what two others make.
Both(a, b, type) == a.type = type /\ b.type = type
Repeats(items, n, v) ==
  Len(v) = n * Len(items) /\ \A i \in DOMAIN v : v[i] = items[((i - 1) % Len(items)) + 1]
SetWanted(op, a, b) ==
  CASE op = "-" -> a \ b [] op = "&" -> a \intersect b
    [] op = "|" -> a \union b [] op = "^" -> (a \ b) \union (b \ a)
Makes(op, a, b, v) ==
  LET left == ToSet(a.items)
      wanted == SetWanted(op, KindsOf(left), KindsOf(ToSet(b.items)))
  IN  CASE op = "+" /\ (Both(a, b, "list") \/ Both(a, b, "tuple")) -> v.type = a.type /\ v.items = a.items \o b.items
        [] op = "*" /\ a.type \in {"list", "tuple"} /\ b.type = "int" -> v.type = a.type /\ Repeats(a.items, b.count, v.items)
        [] op = "*" /\ b.type \in {"list", "tuple"} /\ a.type = "int" -> v.type = b.type /\ Repeats(b.items, a.count, v.items)
        [] op \in {"-", "&", "|", "^"} /\ Both(a, b, "set") ->
             /\ v.type = "set"
             /\ Holding(v.items, {m \in left \union ToSet(b.items) :
                                    /\ m.kind \in wanted
                                    /\ m \in left \/ m.kind \notin KindsOf(left)})
        [] OTHER -> v = Refused

\* In place the object of the left name is the answer, holds what the operator
\* makes, and is all that changes: where the type has that, and else nothing
\* changes.  A list takes in what is no list too; whether it takes in a generator
\* is left open (vm.rs:2059, "nothing else can produce a value yet").
InPlaceAsMeant(op, objects, right, r) ==
  LET a == objects.x
      b == objects[right]
      mutable == a.type \in {"list", "set"}
      takesIn == op = "+" /\ a.type = "list"
  IN  IF takesIn /\ b.type \in {"tuple", "set"}
        THEN r.is = "x" /\ r.objects.x.items = a.items \o b.items /\ r.objects.x.type = "list" /\ r.objects.y = objects.y
      ELSE IF takesIn /\ b.type = "generator" THEN r.objects.y = objects.y
      ELSE IF r.is = "nothing" THEN Makes(op, a, b, Refused) /\ r.objects = objects
      ELSE /\ r.objects.y = objects.y /\ Makes(op, a, b, r.value)
           /\ IF mutable THEN r.is = "x" /\ r.objects.x = r.value
              ELSE r.is = "new" /\ r.objects = objects

OrderAsMeant(a, b, r) ==
  LET ka == KindsOf(ToSet(a.items))
      kb == KindsOf(ToSet(b.items))
  IN  /\ r["<="] <=> ka \subseteq kb
      /\ r["<"] <=> ka \subseteq kb /\ ka # kb
      /\ r[">="] <=> kb \subseteq ka
      /\ r[">"] <=> kb \subseteq ka /\ ka # kb
=============================================================================
