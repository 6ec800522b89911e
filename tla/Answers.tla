------------------------------- MODULE Answers -------------------------------
(***************************************************************************)
(* Questions to the parts of the system that are functions: a question is  *)
(* chosen, the code answers it, and the answer is compared with what it    *)
(* should be.  Here are the questions about integers, ranges, map, calls,  *)
(* attributes, items and sets, for which there are theorems; MCFunctions   *)
(* has the rest.                                                           *)
(***************************************************************************)
EXTENDS Values, Rounds, Objects, Items, Sets

VARIABLES question, answer   \* the answer is empty until there is one
functionVars == <<question, answer>>

Asked(about) == answer = << >> /\ question.about = about
Answered(about) == answer # << >> /\ question.about = about
Answer(a) == answer' = <<a>> /\ UNCHANGED question
It == answer[1]

-----------------------------------------------------------------------------
(* Integers.                                                               *)

AnswerInts ==
  /\ Asked("ints")
  /\ LET a == question.a
         b == question.b
     IN  Answer([add |-> IntAdd(a, b), sub |-> IntSub(a, b), mul |-> IntMul(a, b),
                 neg |-> Neg(a), inv |-> Invert(a), abs |-> Abs(a),
                 divmod |-> IF b.n = 0 THEN << >> ELSE DivMod(a, b),
                 pow |-> Pow(a, b), shl |-> ShiftLeft(a, b), shr |-> ShiftRight(a, b),
                 less |-> IntLess(a, b)])

(* Every operation gives the number Python gives, in the arm it belongs in, *)
(* at both ends of the word: the division floors, and the least word has a  *)
(* negation and a quotient by -1.  A power or a shift is right whenever it  *)
(* is answered, and is kept back only for a negative count, for one beyond  *)
(* what the code counts with, and for a number longer than MaxBits that is  *)
(* no word.  A right shift is never too long; of one by a count beyond the  *)
(* word nothing is said (int.rs; ops.rs:283 means it to give 0 or -1).      *)
IntsAreNumbers ==
  Answered("ints") =>
    LET a == question.a.n
        b == question.b.n
        Right(r, v, refused) == IF b < 0 \/ refused THEN r = NoInt ELSE Is(r, v)
    IN  /\ Is(It.add, a + b) /\ Is(It.sub, a - b) /\ Is(It.mul, a * b)
        /\ Is(It.neg, -a) /\ Is(It.inv, -a - 1) /\ Is(It.abs, Magnitude(a))
        /\ It.less <=> a < b
        /\ b # 0 => /\ Normal(It.divmod[1]) /\ Normal(It.divmod[2])
                    /\ FloorOf(a, b, It.divmod[1].n, It.divmod[2].n)
        /\ Right(It.pow, IF b < 0 THEN 0 ELSE Power(a, b),
                 b > ExponentMax \/ (Bits(a) * b > MaxBits /\ Power(a, b) \notin Word))
        /\ Right(It.shl, IF b < 0 THEN 0 ELSE a * Power(2, b),
                 b > WordMax \/ (a # 0 /\ Bits(a) + b > MaxBits))
        /\ b <= WordMax => Right(It.shr, IF b < 0 THEN 0 ELSE a \div Power(2, b), FALSE)

-----------------------------------------------------------------------------
(* Ranges.                                                                 *)

AnswerRange ==
  /\ Asked("range")
  /\ LET q == question
     IN  Answer([count |-> Count(q.start, q.stop, q.step),
                 walk |-> RangeWalk(q.start, q.stop, q.step, q.walked)])

(* A range says it has as many values as a walk over it gives, which never  *)
(* counts, and they are the ones Python gives, in order (Range::count).     *)
RangeCounts ==
  Answered("range") =>
    LET q == question
        values == RangeValues(q.start.n, q.stop.n, q.step.n)
    IN  /\ Is(It.count, Len(It.walk))
        /\ {It.walk[i].n : i \in DOMAIN It.walk} = values
        /\ Cardinality(values) = Len(It.walk)
        /\ \A i \in DOMAIN It.walk : Is(It.walk[i], q.start.n + (i - 1) * q.step.n)

-----------------------------------------------------------------------------
(* map.                                                                    *)

AnswerMap == Asked("map") /\ Answer(MapAsked(question.sources, question.strict, question.asked))

(* A map gives the k-th values of its sources together, for as long as the  *)
(* shortest one lasts.  Asked again after the end it takes from the sources *)
(* before the one that ended, and from no other.  With strict=True it ends  *)
(* if its sources have one length, and else names the argument that is the  *)
(* odd one out (lazy.rs, "past it" and uneven).                             *)
MapKeepsStep ==
  Answered("map") =>
    LET s == question.sources
        short == Shortest(s)
    IN  /\ Len(It.answers) = question.asked
        /\ \A k \in DOMAIN It.answers :
             k <= short => It.answers[k] = Value([i \in DOMAIN s |-> k])
        /\ ~question.strict =>
             /\ \A k \in DOMAIN It.answers : k > short => It.answers[k] = End
             /\ \A i \in DOMAIN s : It.taken[i] = TakenOf(s, i, question.asked)
        /\ question.strict /\ question.asked > short => It.answers[short + 1] = Verdict(s)

-----------------------------------------------------------------------------
(* Calls and attributes.                                                   *)

AnswerBind == Asked("bind") /\ Answer(Bind(question.f, question))
AnswerObject ==
  \/ /\ Asked("attributes")
     /\ LET s == After(question.history)
        IN  Answer([refused |-> s.refused,
                    found |-> [o \in DOMAIN s.own |-> [n \in Names |-> Attribute(s.own, question.based, o, n)]]])
  \/ Asked("call") /\ Answer(Invoke(question.callee, question.args, question.written))

(* A call is refused exactly when the language says it is wrong, a right    *)
(* one gives every parameter its argument or its default, and the complaint *)
(* is about the first thing that is wrong (Function::bind).  What is no     *)
(* function is refused before its keywords are looked at, those before the  *)
(* arguments are bound, and a class gives its instance whatever its         *)
(* __init__ returns; of an __init__ that is no function nothing is said.    *)
(* An attribute is what was last bound under its name, on the object or     *)
(* else on the nearest class that has it, where a function becomes a        *)
(* method, and is deleted only where it was bound (invoke, attribute).      *)
BindsAsWritten ==
  /\ Answered("bind") =>
       /\ It.error = "none" <=> Legal(question.f, question)
       /\ IF It.error = "none" THEN BoundRight(question.f, question, It)
          ELSE Blamed(question.f, question, It.error)
  /\ Answered("call") => CallsAsMeant(question.callee, question.args, question.written, It)
  /\ Answered("attributes") =>
       /\ It.refused = RefusedMeant(question.history)
       /\ \A o \in DOMAIN It.found, n \in Names :
            LET meant == AttributeMeant(question.history, question.based, o, n)
            IN  IF meant = {} THEN It.found[o][n] = Missing ELSE meant = {It.found[o][n]}

-----------------------------------------------------------------------------
(* A list of n elements, each told apart by its place, and what is written  *)
(* over a slice of it.                                                      *)
Letters(n) == [k \in 1 .. n |-> k]
News(n) == [k \in 1 .. n |-> -k]

AnswerItem ==
  /\ Asked("item")
  /\ LET s == Letters(question.len)
         i == question.index
     IN  Answer([get |-> GetItem(s, i), set |-> SetItem(s, i, 0), del |-> DelItem(s, i)])
AnswerCut ==
  /\ Asked("cut")
  /\ LET s == Letters(question.len)
     IN  Answer([get |-> GetSlice(s, question), del |-> DelSlice(s, question),
                 set |-> SetSlice(s, question, News(question.new))])
AnswerUnpack ==
  /\ Asked("unpack") /\ (question.star \/ question.after = 0)
  /\ Answer(Unpack(question.n, question.before, question.star, question.after))
AnswerSet ==
  \/ /\ Asked("set")
     /\ Answer([method \in Methods |-> Method(method, question.held, question.others)])
  \/ /\ Asked("member")
     /\ Answer([method \in MemberMethods |-> OneMember(method, question.held, question.m)])
  \/ /\ Asked("operands")
     /\ LET a == question.objects.x
            b == question.objects[question.right]
        IN  Answer([inplace |-> [op \in Operators |-> InPlace(op, question.objects, "x", question.right)],
                    order |-> IF a.type = "set" /\ b.type = "set"
                                THEN {[op \in {"<", "<=", ">", ">="} |-> SetOrder(op, a.items, b.items)]} ELSE {}])

\* One list is another without what is at some of its places.
Leaves(t, s, gone) ==
  /\ Len(t) = Len(s) - Cardinality(gone)
  /\ \A k \in DOMAIN s \ gone : t[k - Cardinality({j \in gone : j < k})] = s[k]

\* An element by its index, which counts from the end when it is negative.
ItemAsMeant(s, n, r) ==
  LET k == IF n < 0 THEN n + Len(s) + 1 ELSE n + 1
  IN  IF k \in DOMAIN s
        THEN /\ r.get = Gives(<<s[k]>>) /\ r.set = Gives([i \in DOMAIN s |-> IF i = k THEN 0 ELSE s[i]])
             /\ r.del.error = "none" /\ Leaves(r.del.items, s, {k})
      ELSE \A how \in {"get", "set", "del"} : r[how].error = IF n \in Word THEN "out of range" ELSE "no index"

\* What a slice selects, or where it is when that is nothing.
CutAsMeant(s, new, slice, r) ==
  LET chosen == {j + 1 : j \in Selected(slice, Len(s))}
      backwards == slice.step # Absent /\ slice.step.n < 0
      run == slice.step = Absent \/ slice.step.n = 1
      from == Points(slice.start, Len(s), 0)
      place == IF chosen # {} THEN Min(chosen) - 1 ELSE Max({0, Min({from, Len(s)})})
      Turn(k) == Cardinality({j \in chosen : IF backwards THEN j >= k ELSE j <= k})
  IN  /\ {r.get.items[i] : i \in DOMAIN r.get.items} = chosen
      /\ \A i, j \in DOMAIN r.get.items :
           i < j => IF backwards THEN r.get.items[i] > r.get.items[j] ELSE r.get.items[i] < r.get.items[j]
      /\ Leaves(r.del.items, s, chosen)
      /\ IF run THEN r.set.items = SubSeq(s, 1, place) \o new \o SubSeq(s, place + Cardinality(chosen) + 1, Len(s))
         ELSE IF Len(new) # Cardinality(chosen) THEN r.set.error = "other size"
         ELSE r.set.items = [k \in DOMAIN s |-> IF k \in chosen THEN new[Turn(k)] ELSE s[k]]

UnpackAsMeant(n, before, star, after, r) ==
  LET fixed == before + after
  IN  IF IF star THEN n >= fixed ELSE n = fixed
        THEN /\ r.error = "none" /\ Len(r.targets) = fixed + (IF star THEN 1 ELSE 0)
             /\ \A k \in DOMAIN r.targets : ~(star /\ k = before + 1) => Len(r.targets[k]) = 1
             /\ FlattenSeq(r.targets) = Letters(n)
      ELSE r.error = (IF n < fixed THEN "few" ELSE "many") /\ r.counted = n

(* A slice of a list reads what it selects, deletes just that, and writes   *)
(* over just that: one by one, or a run in one place whatever its length    *)
(* and even when it selects nothing; an index does it for one element.      *)
(* Unpacking gives every target one element from its end, a star all of     *)
(* those in between, in order and none twice; or it says which way the      *)
(* number is wrong and what it is (get_item, set_item, del_item, unpack).   *)
(* A method of a set reads its arguments to the end before it changes       *)
(* anything, and works on the set that their Python left; the copy that is  *)
(* there is the one that stays.  An operator in place changes the object    *)
(* that every other name of it sees, and no other, and none when it is      *)
(* refused, with one object on both sides too (every, inplace).             *)
ItemsAsMeant ==
  /\ Answered("item") => ItemAsMeant(Letters(question.len), question.index.n, It)
  /\ Answered("cut") => CutAsMeant(Letters(question.len), News(question.new), question, It)
  /\ Answered("unpack") => UnpackAsMeant(question.n, question.before, question.star, question.after, It)
  /\ Answered("set") =>
       \A method \in Methods : MethodAsMeant(method, question.held, question.others, It[method])
  /\ Answered("member") => MemberAsMeant(question.held, question.m, It)
  /\ Answered("operands") =>
       /\ \A op \in Operators : InPlaceAsMeant(op, question.objects, question.right, It.inplace[op])
       /\ \A order \in It.order : OrderAsMeant(question.objects.x, question.objects[question.right], order)

-----------------------------------------------------------------------------
(* Values.                                                                 *)

AnswerValues ==
  /\ Asked("values")
  /\ LET a == question.a
         b == question.b
     IN  Answer([equal |-> Equals(a, b), hashes |-> <<Hash(a), Hash(b)>>,
                 order |-> Order(a, b)])

\* Of two values: whether they are equal, their hashes and their four orders.
PairAsMeant(a, b, r) ==
  LET Less(op) == r.order[op].is
      nan == IsNan(a) \/ IsNan(b)
      Consistent == /\ Less("<=") <=> Less("<") \/ r.equal
                    /\ Less(">=") <=> Less(">") \/ r.equal
  IN  /\ r.equal =>
           /\ r.hashes[1].hashable /\ r.hashes[2].hashable => r.hashes[1] = r.hashes[2]
           /\ IsNumber(a) => r.hashes[1].hashable /\ r.hashes[2].hashable
      /\ IF IsNumber(a) /\ IsNumber(b)
           THEN /\ r.equal <=> ~nan /\ SameNumber(a, b)
                /\ Less("<") <=> ~nan /\ Below(a, b)
                /\ Less(">") <=> ~nan /\ Below(b, a)
                /\ Consistent
         ELSE /\ \A op, other \in Ops : r.order[op].error = r.order[other].error
              /\ ~r.order["<"].error =>
                   /\ Consistent
                   /\ ~(Less("<") /\ r.equal) /\ ~(Less(">") /\ r.equal) /\ ~(Less("<") /\ Less(">"))

(* Two values that are equal have the same hash, if they have any, so an    *)
(* entry filed under one is found under the other: integers of either arm,  *)
(* booleans, floats and tuples of them.  Numbers of every type are ordered  *)
(* as numbers, exactly; and for any two values that have an order, <= is <  *)
(* or the same, > is < turned round, and no two of <, the same and > are    *)
(* true together (hash.rs, compare, order).                                 *)
ComparesAsMeant == Answered("values") => PairAsMeant(question.a, question.b, It)

-----------------------------------------------------------------------------
(* Every question that can be asked: an integer is in the arm it belongs   *)
(* in, a range has a step, which is not zero, and is walked to its end,    *)
(* a map has a source, and no keyword comes to a function twice.           *)

AnyInts == [about : {"ints"}, a : Ints(Int), b : Ints(Int)]
AnyRange ==
  {q \in [about : {"range"}, start : Ints(Int), stop : Ints(Int), step : Ints(Int \ {0}),
          walked : Nat] : q.walked >= Magnitude(q.stop.n - q.start.n)}
AnyMap == [about : {"map"}, sources : Seq(Nat) \ {<< >>}, strict : BOOLEAN, asked : Nat]

AnyShape ==
  {f \in [positional : Nat, posOnly : Nat, star : BOOLEAN, kwOnly : Nat, doubleStar : BOOLEAN,
          defaults : Nat, kwDefaults : SUBSET Nat, generator : BOOLEAN] :
     f.posOnly <= f.positional /\ f.defaults <= f.positional /\ f.kwDefaults \subseteq KeywordSlots(f)}
AnyBind ==
  {q \in [about : {"bind"}, f : AnyShape, bound : BOOLEAN, args : Nat, names : Seq(Nat)] :
     IsInjective(q.names)}
AnyCallee ==
  [is : {"function", "method", "class", "number", "builtin", "exception"},
   init : {"none", "function", "other"}, f : AnyShape]
AnyWritten == [is : {"named", "mapping", "other"}, keys : Seq(Nat \union {NoString})]
AnyCall == [about : {"call"}, callee : AnyCallee, args : Nat, written : Seq(AnyWritten)]
AnyValue == [is : {"function", "other"}, at : Nat]
AnyOperation == [do : {"set", "delete"}, on : Holders, name : Names, value : AnyValue]
AnyHistory == [about : {"attributes"}, history : Seq(AnyOperation), based : BOOLEAN]

Lengths == 0 .. WordMax
Parts == Ints(Int) \union {Absent}
AnyItem == [about : {"item"}, len : Lengths, index : Ints(Int)]
AnyCut ==
  [about : {"cut"}, len : Lengths, start : Parts, stop : Parts, step : Ints(Int \ {0}) \union {Absent}, new : Nat]
AnyUnpack == [about : {"unpack"}, n : Nat, before : Nat, star : BOOLEAN, after : Nat]
AnyMethod == [about : {"set"}, held : AnySet, others : Seq(AnyOther)]
AnyOne == [about : {"member"}, held : AnySet, m : [kind : Nat, copy : Nat, hashable : BOOLEAN]]
AnyOperands ==
  {q \in [about : {"operands"}, objects : [x : AnyThing, y : AnyThing], right : {"x", "y"}] :
     q.objects.x.type # "int" \/ q.objects[q.right].type # "int"}
AnyPair == [about : {"values"}, a : AllValues, b : AllValues]

Asking ==
  /\ question \in AnyInts \union AnyRange \union AnyMap \union AnyBind \union AnyCall \union AnyHistory
                    \union AnyItem \union AnyCut \union AnyUnpack \union AnyMethod \union AnyOne \union AnyOperands
                    \union AnyPair
  /\ answer = << >>
Answering ==
  \/ AnswerInts \/ AnswerRange \/ AnswerMap \/ AnswerBind \/ AnswerObject
  \/ AnswerItem \/ AnswerCut \/ AnswerUnpack \/ AnswerSet \/ AnswerValues
AnswersSpec == Asking /\ [][Answering]_functionVars
=============================================================================
