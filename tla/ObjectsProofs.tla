---------------------------- MODULE ObjectsProofs ---------------------------
(***************************************************************************)
(* What a call puts in which parameter is what the language says, for any  *)
(* shape of a function and any arguments; so is what a call does with its  *)
(* keywords, and what an attribute is after any history of bindings.  What *)
(* the methods and the operators of sets promise holds for any set, any    *)
(* arguments and any Python that runs while they are read.                 *)
(***************************************************************************)
EXTENDS Answers, Recursion, FiniteSetTheorems, SequenceTheorems

-----------------------------------------------------------------------------
(* The parameters and the arguments.                                       *)

Things == [is : {"unset", "receiver", "position", "keyword", "tuple", "default"}, at : Nat]
Bindings(f) ==
  [registers : [1 .. LastSlot(f) -> Things], extra : Seq(Things), collected : SUBSET Nat,
   misplaced : SUBSET Nat, error : {"none", "multiple", "unexpected", "toomany"}]

AreArguments(call) ==
  /\ call.bound \in BOOLEAN /\ call.args \in Nat
  /\ call.names \in Seq(Nat) /\ IsInjective(call.names)

LEMMA ShapeIs ==
  ASSUME NEW f \in AnyShape
  PROVE  /\ f.positional \in Nat /\ f.posOnly \in Nat /\ f.kwOnly \in Nat /\ f.defaults \in Nat
         /\ f.star \in BOOLEAN /\ f.doubleStar \in BOOLEAN /\ f.posOnly <= f.positional /\ f.defaults <= f.positional
         /\ LastSlot(f) \in Nat
         /\ Named(f) = PositionalSlots(f) \union KeywordSlots(f)
         /\ PositionalSlots(f) = 1 .. f.positional
         /\ Reachable(f) \subseteq Named(f) /\ Named(f) \subseteq 1 .. LastSlot(f)
         /\ PositionalSlots(f) \intersect KeywordSlots(f) = {}
         /\ f.star => StarSlot(f) \in 1 .. LastSlot(f) /\ StarSlot(f) \notin Named(f)
<1>1. /\ f.positional \in Nat /\ f.posOnly \in Nat /\ f.kwOnly \in Nat /\ f.defaults \in Nat
      /\ f.star \in BOOLEAN /\ f.doubleStar \in BOOLEAN
      /\ f.posOnly <= f.positional /\ f.defaults <= f.positional
  BY DEF AnyShape
<1> DEFINE more == IF f.star THEN 1 ELSE 0
<1>2. more \in 0 .. 1 /\ (f.star <=> more = 1)
  BY <1>1
<1>3. /\ LastSlot(f) = f.positional + f.kwOnly + more
      /\ KeywordSlots(f) = f.positional + more + 1 .. (f.positional + more + 1) + f.kwOnly - 1
  BY DEF LastSlot, KeywordSlots
<1> HIDE DEF more
<1>4. /\ Named(f) = PositionalSlots(f) \union KeywordSlots(f) /\ PositionalSlots(f) = 1 .. f.positional
      /\ Reachable(f) = (f.posOnly + 1 .. f.positional) \union KeywordSlots(f) /\ StarSlot(f) = f.positional + 1
  BY DEF Named, PositionalSlots, Reachable, StarSlot
<1>5. LastSlot(f) \in Nat /\ Named(f) \subseteq 1 .. LastSlot(f) /\ (f.star => StarSlot(f) \in 1 .. LastSlot(f))
  BY <1>1, <1>2, <1>3, <1>4, SMTT(20)
<1>6. Reachable(f) \subseteq Named(f) /\ PositionalSlots(f) \intersect KeywordSlots(f) = {}
  BY <1>1, <1>2, <1>3, <1>4
<1>7. f.star => StarSlot(f) \notin Named(f)
  BY <1>1, <1>2, <1>3, <1>4
<1> QED BY <1>1, <1>4, <1>5, <1>6, <1>7

LEMMA GivenIs ==
  ASSUME NEW call, AreArguments(call)
  PROVE  /\ Given(call) \in Seq(Things) /\ Len(Given(call)) \in Nat
         /\ \A s \in 1 .. Len(Given(call)) :
              Given(call)[s] \in Things /\ Given(call)[s].is \in {"receiver", "position"}
<1> DEFINE first == IF call.bound THEN <<Receiver>> ELSE << >>
           rest == [n \in 1 .. call.args |-> Position(n)]
<1>1. call.bound \in BOOLEAN /\ call.args \in Nat
  BY DEF AreArguments
<1>2. /\ first \in Seq(Things) /\ Len(first) \in Nat
      /\ \A s \in 1 .. Len(first) : first[s] \in Things /\ first[s].is \in {"receiver", "position"}
  <2>1. Receiver \in Things /\ Receiver.is = "receiver"
    BY DEF Receiver, Things
  <2>2. CASE call.bound
    BY <2>1, <2>2
  <2>3. CASE ~call.bound
    BY <2>3
  <2> QED BY <2>2, <2>3
<1>3. \A n \in 1 .. call.args : rest[n] \in Things /\ rest[n].is \in {"receiver", "position"}
  BY DEF Position, Things
<1>4. rest \in Seq(Things) /\ Len(rest) = call.args
  <2> HIDE DEF Things
  <2>1. DOMAIN rest = 1 .. call.args
    OBVIOUS
  <2>2. rest \in [1 .. call.args -> Things]
    BY <1>3
  <2> QED BY <1>1, <2>1, <2>2, SeqDef, LenProperties
<1> HIDE DEF first, rest
<1>5. Given(call) = first \o rest
  BY DEF Given, first, rest
<1>6. /\ first \o rest \in Seq(Things) /\ Len(first \o rest) = Len(first) + Len(rest)
      /\ \A i \in 1 .. Len(first) + Len(rest) :
           (first \o rest)[i] = IF i <= Len(first) THEN first[i] ELSE rest[i - Len(first)]
  BY <1>2, <1>4, ConcatProperties
<1>7. ASSUME NEW s \in 1 .. Len(first \o rest)
      PROVE  (first \o rest)[s] \in Things /\ (first \o rest)[s].is \in {"receiver", "position"}
  <2>1. CASE s <= Len(first)
    <3>1. s \in 1 .. Len(first) /\ (first \o rest)[s] = first[s]
      BY <1>1, <1>2, <1>4, <1>6, <2>1
    <3> QED BY <1>2, <3>1
  <2>2. CASE ~(s <= Len(first))
    <3>1. s - Len(first) \in 1 .. call.args /\ (first \o rest)[s] = rest[s - Len(first)]
      BY <1>1, <1>2, <1>4, <1>6, <2>2
    <3> QED BY <1>3, <3>1
  <2> QED BY <2>1, <2>2
<1> QED BY <1>1, <1>2, <1>4, <1>5, <1>6, <1>7

LEMMA KindsDiffer ==
  /\ \A n, m : Keyword(n) # Unset /\ Default(n) # Unset /\ Leftovers # Unset
  /\ \A n : Keyword(n).is = "keyword" /\ Unset.is = "unset" /\ Default(n).is = "default"
  /\ \A n \in Nat : Keyword(n) \in Things /\ Default(n) \in Things
  /\ Unset \in Things /\ Leftovers \in Things
  /\ \A n, m \in Nat : Keyword(n) = Keyword(m) => n = m
<1>1. \A n : Keyword(n).is = "keyword" /\ Unset.is = "unset" /\ Default(n).is = "default" /\ Leftovers.is = "tuple"
  BY DEF Keyword, Unset, Default, Leftovers
<1>2. \A n \in Nat : Keyword(n) \in Things /\ Default(n) \in Things
  BY DEF Keyword, Default, Things
<1>3. Unset \in Things /\ Leftovers \in Things
  BY DEF Unset, Leftovers, Things
<1>4. \A n, m \in Nat : Keyword(n) = Keyword(m) => n = m
  BY DEF Keyword
<1>5. \A n : Keyword(n) # Unset /\ Default(n) # Unset /\ Leftovers # Unset
  BY <1>1
<1> QED BY <1>1, <1>2, <1>3, <1>4, <1>5

-----------------------------------------------------------------------------
(* The keywords, one after the other.                                      *)

LEMMA TakeKeywordType ==
  ASSUME NEW f \in AnyShape, NEW b \in Bindings(f), NEW n \in Nat
  PROVE  TakeKeyword(f, b, n) \in Bindings(f)
<1>1. Reachable(f) \subseteq 1 .. LastSlot(f)
  BY ShapeIs
<1>2. Keyword(n) \in Things
  BY KindsDiffer
<1>3. CASE b.error # "none"
  BY <1>3 DEF TakeKeyword
<1>4. CASE b.error = "none" /\ n \in Reachable(f)
  <2>1. [b EXCEPT !.registers[n] = Keyword(n)] \in Bindings(f)
    BY <1>1, <1>2, <1>4 DEF Bindings
  <2>2. [b EXCEPT !.error = "multiple"] \in Bindings(f)
    BY DEF Bindings
  <2> QED BY <1>4, <2>1, <2>2 DEF TakeKeyword
<1>5. CASE b.error = "none" /\ n \notin Reachable(f)
  <2>1. [b EXCEPT !.collected = @ \union {n}] \in Bindings(f)
    BY DEF Bindings
  <2>2. [b EXCEPT !.misplaced = @ \union {n}] \in Bindings(f)
    BY DEF Bindings
  <2>3. [b EXCEPT !.error = "unexpected"] \in Bindings(f)
    BY DEF Bindings
  <2> QED BY <1>5, <2>1, <2>2, <2>3 DEF TakeKeyword
<1> QED BY <1>3, <1>4, <1>5

LEMMA ByNameIs ==
  ASSUME NEW f \in AnyShape, NEW b \in Bindings(f), NEW names \in Seq(Nat)
  PROVE  \E took : /\ took[0] = b /\ ByName(f, b, names) = took[Len(names)]
                   /\ \A k \in 0 .. Len(names) : took[k] \in Bindings(f)
                   /\ \A k \in 1 .. Len(names) : took[k] = TakeKeyword(f, took[k - 1], names[k])
<1> DEFINE n == Len(names)
           V == Bindings(f)
           Recurs(t) == t = [k \in 0 .. n |-> IF k = 0 THEN b ELSE TakeKeyword(f, t[k - 1], names[k])]
           step == [i \in Nat |-> [v \in V |-> IF i + 1 \in 1 .. n THEN TakeKeyword(f, v, names[i + 1]) ELSE v]]
<1>1. n \in Nat /\ \A i \in 1 .. n : names[i] \in Nat
  BY LenProperties
<1>2. step \in Steps(V)
  <2> SUFFICES ASSUME NEW i \in Nat, NEW v \in V, i + 1 \in 1 .. n
               PROVE  TakeKeyword(f, v, names[i + 1]) \in V
    BY DEF Steps
  <2> QED BY <1>1, TakeKeywordType
<1>3. \A i \in Nat, v \in V : step[i][v] = IF i + 1 \in 1 .. n THEN TakeKeyword(f, v, names[i + 1]) ELSE v
  OBVIOUS
<1> HIDE DEF V, step, n
<1>4. PICK h : /\ h = [k \in 0 .. n |-> h[k]] /\ h[0] = b /\ \A k \in 0 .. n : h[k] \in V
               /\ \A k \in 1 .. n : h[k] = step[k - 1][h[k - 1]]
  BY <1>1, <1>2, RecursiveUpto DEF V
<1>5. \A k \in 1 .. n : h[k] = TakeKeyword(f, h[k - 1], names[k])
  <2> SUFFICES ASSUME NEW k \in 1 .. n PROVE h[k] = TakeKeyword(f, h[k - 1], names[k])
    OBVIOUS
  <2>1. k - 1 \in Nat /\ k - 1 \in 0 .. n /\ (k - 1) + 1 = k
    BY <1>1
  <2> QED BY <1>3, <1>4, <2>1, ZenonT(30)
<1>6. Recurs(h)
  <2>1. ASSUME NEW k \in 0 .. n PROVE h[k] = IF k = 0 THEN b ELSE TakeKeyword(f, h[k - 1], names[k])
    <3>1. k = 0 \/ k \in 1 .. n
      BY <1>1
    <3> QED BY <1>4, <1>5, <3>1
  <2> QED BY <1>4, <2>1
<1> DEFINE took == CHOOSE t : Recurs(t)
<1>7. Recurs(took)
  <2> HIDE DEF Recurs
  <2> QED BY <1>6
<1>8. ByName(f, b, names) = took[n]
  BY DEF ByName, n
<1> HIDE DEF took
<1>9. took[0] = b /\ \A k \in 1 .. n : took[k] = TakeKeyword(f, took[k - 1], names[k])
  <2>1. \A k \in 0 .. n : took[k] = IF k = 0 THEN b ELSE TakeKeyword(f, took[k - 1], names[k])
    BY <1>7
  <2> QED BY <1>1, <2>1
<1> HIDE DEF Recurs
<1> DEFINE S == {k \in Nat : k <= n => took[k] \in V}
<1>10. S = Nat
  <2>1. 0 \in S
    BY <1>9 DEF V
  <2>2. ASSUME NEW k \in S PROVE k + 1 \in S
    <3> SUFFICES ASSUME k + 1 <= n PROVE took[k + 1] \in V
      OBVIOUS
    <3>1. k + 1 \in 1 .. n /\ took[k] \in V /\ (k + 1) - 1 = k
      BY <1>1
    <3>2. took[k + 1] = TakeKeyword(f, took[k], names[k + 1])
      BY <1>9, <3>1
    <3> QED BY <1>1, <3>1, <3>2, TakeKeywordType DEF V
  <2> HIDE DEF S
  <2>3. S \subseteq Nat
    BY DEF S
  <2> QED BY <2>1, <2>2, <2>3, Induction
<1>11. \A k \in 0 .. n : took[k] \in V
  BY <1>1, <1>10
<1> QED BY <1>8, <1>9, <1>11 DEF V, n

(* Where the call is after some of its keywords.  Nothing is wrong with    *)
(* them, and every one is in its register, among the rest or among those   *)
(* that came to positional-only parameters; or one of them is wrong.       *)
Filled(f, start, before, b) ==
  /\ b.error = "none"
  /\ \A s \in 1 .. LastSlot(f) :
       b.registers[s] = IF s \in Reachable(f) /\ s \in before THEN Keyword(s) ELSE start.registers[s]
  /\ b.extra = start.extra
  /\ b.collected = IF f.doubleStar THEN before \ Reachable(f) ELSE {}
  /\ b.misplaced = IF f.doubleStar THEN {} ELSE before \ Reachable(f)
  /\ \A n \in before \intersect Reachable(f) : start.registers[n] = Unset
Stuck(f, start, before, b) ==
  /\ b.error \in {"multiple", "unexpected"}
  /\ \/ \E n \in before \intersect Reachable(f) : start.registers[n] # Unset
     \/ ~f.doubleStar /\ before \ Reachable(f) # {}

LEMMA KeywordFills ==
  ASSUME NEW f \in AnyShape, NEW start, NEW before, NEW b \in Bindings(f), NEW n \in Nat \ before,
         Filled(f, start, before, b)
  PROVE  \/ Filled(f, start, before \union {n}, TakeKeyword(f, b, n))
         \/ Stuck(f, start, before \union {n}, TakeKeyword(f, b, n))
<1> DEFINE after == before \union {n}
           c == TakeKeyword(f, b, n)
<1>1. Reachable(f) \subseteq 1 .. LastSlot(f) /\ f.doubleStar \in BOOLEAN
  BY ShapeIs
<1>2. DOMAIN b.registers = 1 .. LastSlot(f) /\ b = [registers |-> b.registers, extra |-> b.extra,
        collected |-> b.collected, misplaced |-> b.misplaced, error |-> b.error]
  BY DEF Bindings
<1>3. CASE n \in Reachable(f)
  <2>1. b.registers[n] = start.registers[n]
    BY <1>1, <1>3 DEF Filled
  <2>2. CASE start.registers[n] # Unset
    <3>1. c.error = "multiple"
      BY <1>2, <1>3, <2>1, <2>2 DEF TakeKeyword, Filled
    <3> QED BY <1>3, <2>2, <3>1 DEF Stuck
  <2>3. CASE start.registers[n] = Unset
    <3>1. c = [b EXCEPT !.registers[n] = Keyword(n)]
      BY <1>3, <2>1, <2>3 DEF TakeKeyword, Filled
    <3>2. /\ c.error = b.error /\ c.extra = b.extra /\ c.collected = b.collected /\ c.misplaced = b.misplaced
          /\ c.registers = [b.registers EXCEPT ![n] = Keyword(n)]
      BY <1>2, <3>1
    <3> HIDE DEF c
    <3>3. after \ Reachable(f) = before \ Reachable(f)
      BY <1>3
    <3>4. \A s \in 1 .. LastSlot(f) :
            c.registers[s] = IF s \in Reachable(f) /\ s \in after THEN Keyword(s) ELSE start.registers[s]
      BY <1>2, <1>3, <3>2 DEF Filled
    <3>5. \A m \in after \intersect Reachable(f) : start.registers[m] = Unset
      BY <2>3 DEF Filled
    <3> HIDE DEF after
    <3>6. Filled(f, start, after, c)
      BY <3>2, <3>3, <3>4, <3>5 DEF Filled
    <3> QED BY <3>6 DEF c, after
  <2> QED BY <2>2, <2>3
<1>4. CASE n \notin Reachable(f)
  <2>1. after \intersect Reachable(f) = before \intersect Reachable(f)
    BY <1>4
  <2>2. after \ Reachable(f) = (before \ Reachable(f)) \union {n}
    BY <1>4
  <2>3. ASSUME c.error = b.error, c.extra = b.extra, c.registers = b.registers,
               c.collected = IF f.doubleStar THEN b.collected \union {n} ELSE b.collected,
               c.misplaced = IF f.doubleStar THEN b.misplaced ELSE b.misplaced \union {n}
        PROVE  Filled(f, start, after, c)
    <3> HIDE DEF c
    <3>1. \A s \in 1 .. LastSlot(f) :
            c.registers[s] = IF s \in Reachable(f) /\ s \in after THEN Keyword(s) ELSE start.registers[s]
      BY <1>4, <2>3 DEF Filled
    <3> HIDE DEF after
    <3> QED BY <1>1, <2>1, <2>2, <2>3, <3>1 DEF Filled
  <2>4. CASE f.doubleStar
    <3>1. c = [b EXCEPT !.collected = @ \union {n}]
      BY <1>4, <2>4 DEF TakeKeyword, Filled
    <3>2. /\ c.error = b.error /\ c.extra = b.extra /\ c.registers = b.registers
          /\ c.collected = b.collected \union {n} /\ c.misplaced = b.misplaced
      BY <1>2, <3>1
    <3> HIDE DEF c, after
    <3>3. Filled(f, start, after, c)
      BY <2>3, <2>4, <3>2
    <3> QED BY <3>3 DEF c, after
  <2>5. CASE ~f.doubleStar /\ n \in 1 .. f.posOnly
    <3>1. c = [b EXCEPT !.misplaced = @ \union {n}]
      BY <1>4, <2>5 DEF TakeKeyword, Filled
    <3>2. /\ c.error = b.error /\ c.extra = b.extra /\ c.registers = b.registers
          /\ c.collected = b.collected /\ c.misplaced = b.misplaced \union {n}
      BY <1>2, <3>1
    <3> HIDE DEF c, after
    <3>3. Filled(f, start, after, c)
      BY <2>3, <2>5, <3>2
    <3> QED BY <3>3 DEF c, after
  <2>6. CASE ~f.doubleStar /\ n \notin 1 .. f.posOnly
    <3>1. c = [b EXCEPT !.error = "unexpected"]
      BY <1>4, <2>6 DEF TakeKeyword, Filled
    <3>2. c.error = "unexpected"
      BY <1>2, <3>1
    <3> HIDE DEF c
    <3>3. Stuck(f, start, after, c)
      BY <2>2, <2>6, <3>2 DEF Stuck
    <3> QED BY <3>3 DEF c
  <2> QED BY <2>4, <2>5, <2>6
<1> QED BY <1>3, <1>4

LEMMA KeywordsFill ==
  ASSUME NEW f \in AnyShape, NEW start \in Bindings(f), NEW names \in Seq(Nat), IsInjective(names),
         Filled(f, start, {}, start)
  PROVE  \/ Filled(f, start, ToSet(names), ByName(f, start, names))
         \/ Stuck(f, start, ToSet(names), ByName(f, start, names))
<1> DEFINE n == Len(names)
           Before(k) == {names[i] : i \in 1 .. k}
<1>1. n \in Nat /\ DOMAIN names = 1 .. n /\ \A i \in 1 .. n : names[i] \in Nat
  BY LenProperties
<1>2. PICK took : /\ took[0] = start /\ ByName(f, start, names) = took[n]
                  /\ \A k \in 0 .. n : took[k] \in Bindings(f)
                  /\ \A k \in 1 .. n : took[k] = TakeKeyword(f, took[k - 1], names[k])
  BY ByNameIs
<1> DEFINE FilledOr(k) == Filled(f, start, Before(k), took[k]) \/ Stuck(f, start, Before(k), took[k])
           S == {k \in Nat : k <= n => FilledOr(k)}
<1>3. 0 \in S
  <2>1. Before(0) = {}
    OBVIOUS
  <2> QED BY <1>2, <2>1
<1>4. ASSUME NEW k \in S PROVE k + 1 \in S
  <2> SUFFICES ASSUME k + 1 <= n PROVE FilledOr(k + 1)
    OBVIOUS
  <2> DEFINE before == Before(k)
             b == took[k]
             m == names[k + 1]
             c == took[k + 1]
  <2>1. k \in Nat /\ k + 1 \in 1 .. n /\ k \in 0 .. n /\ (k + 1) - 1 = k
    BY <1>1
  <2>2. Before(k + 1) = before \union {m}
    BY <2>1
  <2>3. c = TakeKeyword(f, b, m) /\ b \in Bindings(f) /\ m \in Nat
    BY <1>1, <1>2, <2>1
  <2>4. m \notin before
    <3> SUFFICES ASSUME NEW i \in 1 .. k, names[i] = names[k + 1] PROVE FALSE
      OBVIOUS
    <3>1. i \in DOMAIN names /\ k + 1 \in DOMAIN names /\ i # k + 1
      BY <1>1, <2>1
    <3> QED BY <3>1 DEF IsInjective
  <2>5. Filled(f, start, before, b) \/ Stuck(f, start, before, b)
    OBVIOUS
  <2> HIDE DEF before, b, m, c
  <2>6. Filled(f, start, before \union {m}, c) \/ Stuck(f, start, before \union {m}, c)
    <3>1. CASE Filled(f, start, before, b)
      BY <2>3, <2>4, <3>1, KeywordFills
    <3>2. CASE Stuck(f, start, before, b)
      <4>1. c = b
        BY <2>3, <3>2 DEF TakeKeyword, Stuck
      <4> QED BY <3>2, <4>1 DEF Stuck
    <3> QED BY <2>5, <3>1, <3>2
  <2> QED BY <2>2, <2>6 DEF before, m, c
<1>5. S = Nat
  <2> HIDE DEF S
  <2>1. S \subseteq Nat
    BY DEF S
  <2> QED BY <1>3, <1>4, <2>1, Induction
<1>6. FilledOr(n)
  <2>1. n \in S
    <3> HIDE DEF S
    <3> QED BY <1>1, <1>5
  <2> HIDE DEF FilledOr
  <2> QED BY <1>1, <2>1
<1>7. Before(n) = ToSet(names)
  BY <1>1 DEF ToSet
<1> QED BY <1>2, <1>6, <1>7

-----------------------------------------------------------------------------
(* What a call comes to, and what it should.                               *)

HasPos(f, call, s) == s \in PositionalSlots(f) /\ s <= Len(Given(call))
HasKey(f, call, s) == s \in Reachable(f) /\ s \in ToSet(call.names)

LEMMA MeantIs ==
  ASSUME NEW f \in AnyShape, NEW call, AreArguments(call), NEW s \in Named(f)
  PROVE  /\ MeantFor(f, call, s) = {} <=> ~HasPos(f, call, s) /\ ~HasKey(f, call, s)
         /\ Cardinality(MeantFor(f, call, s)) <= 1 <=> ~(HasPos(f, call, s) /\ HasKey(f, call, s))
         /\ HasPos(f, call, s) /\ ~HasKey(f, call, s) =>
              (CHOOSE v \in MeantFor(f, call, s) : TRUE) = Given(call)[s]
         /\ HasKey(f, call, s) /\ ~HasPos(f, call, s) =>
              (CHOOSE v \in MeantFor(f, call, s) : TRUE) = Keyword(s)
<1> DEFINE g == Given(call)[s]
           k == Keyword(s)
           P == HasPos(f, call, s)
           K == HasKey(f, call, s)
           M == MeantFor(f, call, s)
<1>1. M = (IF P THEN {g} ELSE {}) \union (IF K THEN {k} ELSE {})
  <2>1. Contains(call.names, s) <=> s \in ToSet(call.names)
    BY LenProperties DEF Contains, ToSet, AreArguments
  <2> QED BY <2>1 DEF MeantFor, HasPos, HasKey
<1>2. P => g # k
  <2>1. P => s \in 1 .. Len(Given(call))
    BY ShapeIs, GivenIs DEF HasPos
  <2> QED BY <2>1, GivenIs, KindsDiffer
<1> HIDE DEF P, K, g, k, M
<1>3. CASE ~P /\ ~K
  <2>1. M = {}
    BY <1>1, <1>3
  <2>2. Cardinality(M) = 0
    BY <2>1, FS_EmptySet
  <2> QED BY <1>3, <2>1, <2>2 DEF P, K, M
<1>4. CASE P /\ ~K
  <2>1. M = {g}
    BY <1>1, <1>4
  <2>2. Cardinality(M) = 1
    BY <2>1, FS_Singleton
  <2>3. (CHOOSE v \in M : TRUE) = g
    BY <2>1
  <2> QED BY <1>4, <2>1, <2>2, <2>3 DEF P, K, M, g
<1>5. CASE ~P /\ K
  <2>1. M = {k}
    BY <1>1, <1>5
  <2>2. Cardinality(M) = 1
    BY <2>1, FS_Singleton
  <2>3. (CHOOSE v \in M : TRUE) = k
    BY <2>1
  <2> QED BY <1>5, <2>1, <2>2, <2>3 DEF P, K, M, k
<1>6. CASE P /\ K
  <2>1. M = {g} \union {k}
    BY <1>1, <1>6
  <2>2. IsFiniteSet({g}) /\ Cardinality({g}) = 1 /\ k \notin {g}
    BY <1>2, <1>6, FS_Singleton
  <2>3. Cardinality({g} \union {k}) = 2
    BY <2>2, FS_AddElement, SMTT(20)
  <2> QED BY <1>6, <2>1, <2>3 DEF P, K, M
<1> QED BY <1>3, <1>4, <1>5, <1>6

LEMMA ByPositionIs ==
  ASSUME NEW f \in AnyShape, NEW call, AreArguments(call)
  PROVE  LET start == ByPosition(f, call)
         IN  /\ start \in Bindings(f) /\ Filled(f, start, {}, start)
             /\ start.extra = SubSeq(Given(call), f.positional + 1, Len(Given(call)))
             /\ start.extra # << >> <=> Len(Given(call)) > f.positional
             /\ \A s \in 1 .. LastSlot(f) :
                  /\ start.registers[s] = IF HasPos(f, call, s) THEN Given(call)[s] ELSE Unset
                  /\ start.registers[s] # Unset <=> HasPos(f, call, s)
<1> DEFINE start == ByPosition(f, call)
           given == Given(call)
           extra == SubSeq(given, f.positional + 1, Len(given))
<1>1. /\ given \in Seq(Things) /\ Len(given) \in Nat
      /\ \A s \in 1 .. Len(given) : given[s] \in Things /\ given[s].is \in {"receiver", "position"}
  BY GivenIs
<1>2. f.positional \in Nat /\ LastSlot(f) \in Nat /\ PositionalSlots(f) = 1 .. f.positional
  BY ShapeIs
<1>3. /\ start.registers = [s \in 1 .. LastSlot(f) |-> IF s <= f.positional /\ s <= Len(given) THEN given[s] ELSE Unset]
      /\ start.extra = extra /\ start.collected = {} /\ start.misplaced = {} /\ start.error = "none"
      /\ start = [registers |-> start.registers, extra |-> start.extra, collected |-> start.collected,
                  misplaced |-> start.misplaced, error |-> start.error]
  BY DEF ByPosition
<1> HIDE DEF start, given
<1>4. ASSUME NEW s \in 1 .. LastSlot(f)
      PROVE  /\ start.registers[s] = IF HasPos(f, call, s) THEN given[s] ELSE Unset
             /\ start.registers[s] # Unset <=> HasPos(f, call, s)
             /\ start.registers[s] \in Things
  <2>1. HasPos(f, call, s) <=> s <= f.positional /\ s <= Len(given)
    BY <1>2 DEF HasPos, given
  <2>2. start.registers[s] = IF HasPos(f, call, s) THEN given[s] ELSE Unset
    BY <1>3, <2>1
  <2>3. HasPos(f, call, s) => s \in 1 .. Len(given)
    BY <1>1, <1>2, <2>1
  <2> QED BY <1>1, <2>2, <2>3, KindsDiffer
<1>5. extra \in Seq(Things) /\ (extra # << >> <=> Len(given) > f.positional)
  <2>1. CASE f.positional + 1 <= Len(given)
    <3>1. \A i \in f.positional + 1 .. Len(given) : given[i] \in Things
      BY <1>1, <1>2
    <3>2. extra \in Seq(Things) /\ Len(extra) = Len(given) - (f.positional + 1) + 1
      BY <1>1, <1>2, <2>1, <3>1, SubSeqProperties
    <3>3. Len(extra) > 0
      <4> HIDE DEF extra
      <4> QED BY <1>1, <1>2, <2>1, <3>2
    <3>4. extra # << >>
      <4> HIDE DEF extra
      <4> QED BY <3>3
    <3> QED BY <1>1, <1>2, <2>1, <3>2, <3>4
  <2>2. CASE ~(f.positional + 1 <= Len(given))
    <3>1. f.positional + 1 > Len(given)
      BY <1>1, <1>2, <2>2
    <3>2. extra = << >>
      BY <1>1, <1>2, <3>1, SubSeqEmpty
    <3> QED BY <1>1, <1>2, <2>2, <3>2, EmptySeq
  <2> QED BY <2>1, <2>2
<1> HIDE DEF extra
<1>6. start \in Bindings(f)
  <2>1. start.registers \in [1 .. LastSlot(f) -> Things]
    BY <1>3, <1>4
  <2> QED BY <1>3, <1>5, <2>1 DEF Bindings
<1>7. Filled(f, start, {}, start)
  BY <1>3 DEF Filled
<1> QED BY <1>3, <1>4, <1>5, <1>6, <1>7 DEF start, given, extra

(* Keywords are wrong when one is for a parameter that has a value or for  *)
(* none at all.                                                            *)
KeywordWrong(f, call) ==
  \/ \E s \in Named(f) : HasPos(f, call, s) /\ HasKey(f, call, s)
  \/ ~f.doubleStar /\ Unclaimed(f, call) # {}
Crowded(f, call) == ~f.star /\ Len(Given(call)) > f.positional
Lacking(f, call, s) == ~HasPos(f, call, s) /\ ~HasKey(f, call, s) /\ ~HasDefault(f, s)

LEMMA LegalIs ==
  ASSUME NEW f \in AnyShape, NEW call, AreArguments(call)
  PROVE  /\ Legal(f, call) <=> /\ ~KeywordWrong(f, call) /\ ~Crowded(f, call)
                               /\ \A s \in Named(f) : ~Lacking(f, call, s)
         /\ \A why : Blamed(f, call, why) <=>
              IF KeywordWrong(f, call) THEN why \in {"multiple", "unexpected", "misplaced"}
              ELSE IF Crowded(f, call) THEN why = "toomany"
              ELSE why \in {"missing", "missing keyword"}
<1>1. \A s \in Named(f) :
        /\ MeantFor(f, call, s) = {} <=> ~HasPos(f, call, s) /\ ~HasKey(f, call, s)
        /\ Cardinality(MeantFor(f, call, s)) <= 1 <=> ~(HasPos(f, call, s) /\ HasKey(f, call, s))
  BY MeantIs
<1>2. Len(Given(call)) \in Nat /\ f.positional \in Nat /\ f.star \in BOOLEAN /\ f.doubleStar \in BOOLEAN
  BY GivenIs, ShapeIs
<1>3. \A s \in Named(f) : Cardinality(MeantFor(f, call, s)) > 1 <=> HasPos(f, call, s) /\ HasKey(f, call, s)
  <2> SUFFICES ASSUME NEW s \in Named(f)
               PROVE  Cardinality(MeantFor(f, call, s)) > 1 <=> ~(Cardinality(MeantFor(f, call, s)) <= 1)
    BY <1>1
  <2> DEFINE P == IF HasPos(f, call, s) THEN {Given(call)[s]} ELSE {}
             K == IF HasKey(f, call, s) THEN {Keyword(s)} ELSE {}
  <2>1. MeantFor(f, call, s) = P \union K
    <3>1. Contains(call.names, s) <=> s \in ToSet(call.names)
      BY LenProperties DEF Contains, ToSet, AreArguments
    <3> QED BY <3>1 DEF MeantFor, HasPos, HasKey
  <2>2. IsFiniteSet(P) /\ IsFiniteSet(K)
    BY FS_EmptySet, FS_Singleton
  <2>3. Cardinality(P \union K) \in Nat
    <3> HIDE DEF P, K
    <3> QED BY <2>2, FS_Union, FS_CardinalityType
  <2> QED BY <2>1, <2>3
<1>4. KeywordWrong(f, call) <=> \/ \E s \in Named(f) : Cardinality(MeantFor(f, call, s)) > 1
                                \/ ~f.doubleStar /\ Unclaimed(f, call) # {}
  BY <1>3 DEF KeywordWrong
<1>5. Legal(f, call) <=> /\ ~KeywordWrong(f, call) /\ ~Crowded(f, call)
                         /\ \A s \in Named(f) : ~Lacking(f, call, s)
  <2>1. (f.star \/ Len(Given(call)) <= f.positional) <=> ~Crowded(f, call)
    BY <1>2 DEF Crowded
  <2>2. (\A s \in Named(f) : MeantFor(f, call, s) = {} => HasDefault(f, s)) <=> \A s \in Named(f) : ~Lacking(f, call, s)
    BY <1>1 DEF Lacking
  <2>3. (\A s \in Named(f) : Cardinality(MeantFor(f, call, s)) <= 1) /\ (f.doubleStar \/ Unclaimed(f, call) = {})
          <=> ~KeywordWrong(f, call)
    BY <1>1 DEF KeywordWrong
  <2> QED BY <2>1, <2>2, <2>3 DEF Legal
<1>6. ASSUME NEW why
      PROVE  Blamed(f, call, why) <=>
               IF KeywordWrong(f, call) THEN why \in {"multiple", "unexpected", "misplaced"}
               ELSE IF Crowded(f, call) THEN why = "toomany"
               ELSE why \in {"missing", "missing keyword"}
  BY <1>4 DEF Blamed, Crowded
<1> QED BY <1>5, <1>6

(* The defaults, where a register is still free.                           *)
LEMMA FillIs ==
  ASSUME NEW f \in AnyShape, NEW b, DOMAIN b.registers = 1 .. LastSlot(f),
         b = [registers |-> b.registers, extra |-> b.extra, collected |-> b.collected,
              misplaced |-> b.misplaced, error |-> b.error]
  PROVE  LET filled == Fill(f, b)
         IN  /\ filled.extra = b.extra /\ filled.collected = b.collected
             /\ \A s \in 1 .. LastSlot(f) :
                  filled.registers[s] = IF b.registers[s] # Unset THEN b.registers[s]
                                        ELSE IF HasDefault(f, s) THEN Default(s) ELSE Unset
<1> DEFINE filled == Fill(f, b)
           Put(s) == IF b.registers[s] # Unset THEN b.registers[s]
                     ELSE IF s \in PositionalSlots(f) /\ s > f.positional - f.defaults THEN Default(s)
                     ELSE IF s \in KeywordSlots(f) /\ s \in f.kwDefaults THEN Default(s)
                     ELSE Unset
<1>1. filled = [b EXCEPT !.registers = [s \in DOMAIN b.registers |-> Put(s)]]
  BY DEF Fill
<1> HIDE DEF filled
<1>2. filled.extra = b.extra /\ filled.collected = b.collected
  BY <1>1
<1>3. filled.registers = [s \in DOMAIN b.registers |-> Put(s)]
  BY <1>1
<1>4. ASSUME NEW s \in 1 .. LastSlot(f)
      PROVE  filled.registers[s] = IF b.registers[s] # Unset THEN b.registers[s]
                                   ELSE IF HasDefault(f, s) THEN Default(s) ELSE Unset
  <2>1. f.positional \in Nat /\ f.defaults \in Nat /\ f.defaults <= f.positional /\ PositionalSlots(f) = 1 .. f.positional
    BY ShapeIs
  <2>2. s \in PositionalSlots(f) => (s > f.positional - f.defaults <=> f.positional - s < f.defaults)
    BY <2>1
  <2>3. HasDefault(f, s) <=> \/ s \in PositionalSlots(f) /\ s > f.positional - f.defaults
                             \/ s \in KeywordSlots(f) /\ s \in f.kwDefaults
    BY <2>2 DEF HasDefault
  <2>4. filled.registers[s] = Put(s)
    BY <1>3
  <2> QED BY <2>3, <2>4
<1> QED BY <1>2, <1>4 DEF filled

(* Whether the keywords were all right.                                    *)
LEMMA KeywordsJudged ==
  ASSUME NEW f \in AnyShape, NEW call, AreArguments(call)
  PROVE  LET named == ByName(f, ByPosition(f, call), call.names)
         IN  \/ /\ named.error \in {"multiple", "unexpected"} /\ KeywordWrong(f, call)
             \/ /\ named.error = "none" /\ named.misplaced # {} /\ KeywordWrong(f, call)
             \/ /\ named.error = "none" /\ named.misplaced = {} /\ ~KeywordWrong(f, call)
                /\ named.extra = SubSeq(Given(call), f.positional + 1, Len(Given(call)))
                /\ named.extra # << >> <=> Len(Given(call)) > f.positional
                /\ named.collected = Unclaimed(f, call)
                /\ \A s \in 1 .. LastSlot(f) :
                     named.registers[s] = IF HasKey(f, call, s) THEN Keyword(s)
                                          ELSE IF HasPos(f, call, s) THEN Given(call)[s] ELSE Unset
<1> DEFINE start == ByPosition(f, call)
           N == ToSet(call.names)
           named == ByName(f, start, call.names)
<1>1. /\ start \in Bindings(f) /\ Filled(f, start, {}, start)
      /\ start.extra = SubSeq(Given(call), f.positional + 1, Len(Given(call)))
      /\ start.extra # << >> <=> Len(Given(call)) > f.positional
      /\ \A s \in 1 .. LastSlot(f) :
           /\ start.registers[s] = IF HasPos(f, call, s) THEN Given(call)[s] ELSE Unset
           /\ start.registers[s] # Unset <=> HasPos(f, call, s)
  BY ByPositionIs
<1>2. call.names \in Seq(Nat) /\ IsInjective(call.names)
  BY DEF AreArguments
<1> HIDE DEF start
<1>3. Filled(f, start, N, named) \/ Stuck(f, start, N, named)
  BY <1>1, <1>2, KeywordsFill
<1>4. /\ Reachable(f) \subseteq Named(f) /\ Named(f) \subseteq 1 .. LastSlot(f)
      /\ f.doubleStar \in BOOLEAN
  BY ShapeIs
<1> HIDE DEF named
<1>5. Unclaimed(f, call) = N \ Reachable(f)
  BY DEF Unclaimed
<1>6. \A s : HasKey(f, call, s) <=> s \in N \intersect Reachable(f)
  BY DEF HasKey
<1> HIDE DEF N
<1>7. (\E s \in Named(f) : HasPos(f, call, s) /\ HasKey(f, call, s))
        <=> \E s \in N \intersect Reachable(f) : start.registers[s] # Unset
  BY <1>1, <1>4, <1>6
<1>8. CASE Stuck(f, start, N, named)
  <2>1. KeywordWrong(f, call)
    BY <1>5, <1>7, <1>8 DEF Stuck, KeywordWrong
  <2> QED BY <1>8, <2>1 DEF Stuck, named, start
<1>9. CASE Filled(f, start, N, named)
  <2>1. /\ named.error = "none" /\ named.extra = start.extra
        /\ \A s \in N \intersect Reachable(f) : start.registers[s] = Unset
        /\ named.collected = IF f.doubleStar THEN N \ Reachable(f) ELSE {}
        /\ named.misplaced = IF f.doubleStar THEN {} ELSE N \ Reachable(f)
    BY <1>9 DEF Filled
  <2>2. KeywordWrong(f, call) <=> named.misplaced # {}
    BY <1>4, <1>5, <1>7, <2>1 DEF KeywordWrong
  <2>3. named.misplaced = {} => named.collected = Unclaimed(f, call)
    BY <1>4, <1>5, <2>1
  <2>4. ASSUME NEW s \in 1 .. LastSlot(f)
        PROVE  named.registers[s] = IF HasKey(f, call, s) THEN Keyword(s)
                                    ELSE IF HasPos(f, call, s) THEN Given(call)[s] ELSE Unset
    BY <1>1, <1>6, <1>9 DEF Filled
  <2> QED BY <1>1, <2>1, <2>2, <2>3, <2>4 DEF named, start
<1> QED BY <1>3, <1>8, <1>9

(* Function::bind.                                                         *)
LEMMA BindIsRight ==
  ASSUME NEW f \in AnyShape, NEW call, AreArguments(call)
  PROVE  LET b == Bind(f, call)
         IN  /\ b.error = "none" <=> Legal(f, call)
             /\ IF b.error = "none" THEN BoundRight(f, call, b) ELSE Blamed(f, call, b.error)
<1> DEFINE b == Bind(f, call)
           named == ByName(f, ByPosition(f, call), call.names)
           gathered == Gather(f, named)
           filled == Fill(f, gathered)
           given == Given(call)
           L == LastSlot(f)
           Refuse(why) == [error |-> why, registers |-> << >>, extra |-> << >>, collected |-> {}]
<1>1. b = IF named.error # "none" THEN Refuse(named.error)
          ELSE IF named.misplaced # {} THEN Refuse("misplaced")
          ELSE IF gathered.error # "none" THEN Refuse(gathered.error)
          ELSE IF MissingIn(filled, PositionalSlots(f)) THEN Refuse("missing")
          ELSE IF MissingIn(filled, KeywordSlots(f)) THEN Refuse("missing keyword")
          ELSE [error |-> "none", registers |-> filled.registers, extra |-> filled.extra,
                collected |-> filled.collected]
  BY DEF Bind
<1>2. /\ Legal(f, call) <=> /\ ~KeywordWrong(f, call) /\ ~Crowded(f, call)
                            /\ \A s \in Named(f) : ~Lacking(f, call, s)
      /\ \A why : Blamed(f, call, why) <=>
           IF KeywordWrong(f, call) THEN why \in {"multiple", "unexpected", "misplaced"}
           ELSE IF Crowded(f, call) THEN why = "toomany"
           ELSE why \in {"missing", "missing keyword"}
  BY LegalIs
<1>3. \/ /\ named.error \in {"multiple", "unexpected"} /\ KeywordWrong(f, call)
      \/ /\ named.error = "none" /\ named.misplaced # {} /\ KeywordWrong(f, call)
      \/ /\ named.error = "none" /\ named.misplaced = {} /\ ~KeywordWrong(f, call)
         /\ named.extra = SubSeq(given, f.positional + 1, Len(given))
         /\ named.extra # << >> <=> Len(given) > f.positional
         /\ named.collected = Unclaimed(f, call)
         /\ \A s \in 1 .. L :
              named.registers[s] = IF HasKey(f, call, s) THEN Keyword(s)
                                   ELSE IF HasPos(f, call, s) THEN given[s] ELSE Unset
  BY KeywordsJudged
<1>4. named \in Bindings(f)
  <2>1. ByPosition(f, call) \in Bindings(f)
    BY ByPositionIs
  <2>2. call.names \in Seq(Nat) /\ Len(call.names) \in Nat
    BY LenProperties DEF AreArguments
  <2> HIDE DEF named
  <2>3. PICK took : named = took[Len(call.names)] /\ \A k \in 0 .. Len(call.names) : took[k] \in Bindings(f)
    BY <2>1, <2>2, ByNameIs DEF named
  <2> QED BY <2>2, <2>3
<1>5. /\ L \in Nat /\ f.star \in BOOLEAN /\ f.positional \in Nat
      /\ Named(f) = PositionalSlots(f) \union KeywordSlots(f)
      /\ Named(f) \subseteq 1 .. L
      /\ f.star => StarSlot(f) \in 1 .. L /\ StarSlot(f) \notin Named(f)
  BY ShapeIs
<1>6. /\ named = [registers |-> named.registers, extra |-> named.extra, collected |-> named.collected,
                  misplaced |-> named.misplaced, error |-> named.error]
      /\ DOMAIN named.registers = 1 .. L
  <2> HIDE DEF named
  <2> QED BY <1>4 DEF Bindings
<1> HIDE DEF named, b
<1>7. CASE named.error \in {"multiple", "unexpected"} /\ KeywordWrong(f, call)
  <2>1. b.error = named.error
    BY <1>1, <1>7
  <2> QED BY <1>2, <1>7, <2>1 DEF b
<1>8. CASE named.error = "none" /\ named.misplaced # {} /\ KeywordWrong(f, call)
  <2>1. b.error = "misplaced"
    BY <1>1, <1>8
  <2> QED BY <1>2, <1>8, <2>1 DEF b
<1>9. CASE /\ named.error = "none" /\ named.misplaced = {} /\ ~KeywordWrong(f, call)
           /\ named.extra = SubSeq(given, f.positional + 1, Len(given))
           /\ named.extra # << >> <=> Len(given) > f.positional
           /\ named.collected = Unclaimed(f, call)
           /\ \A s \in 1 .. L :
                named.registers[s] = IF HasKey(f, call, s) THEN Keyword(s)
                                     ELSE IF HasPos(f, call, s) THEN given[s] ELSE Unset
  <2>1. CASE Crowded(f, call)
    <3>1. gathered = [named EXCEPT !.error = "toomany"]
      BY <1>9, <2>1 DEF Gather, Crowded
    <3>2. gathered.error = "toomany"
      BY <1>6, <3>1
    <3> HIDE DEF gathered
    <3>3. b.error = "toomany"
      BY <1>1, <1>9, <3>2
    <3> QED BY <1>2, <1>9, <2>1, <3>3 DEF b
  <2>2. CASE ~Crowded(f, call)
    <3>1. gathered = IF f.star THEN [named EXCEPT !.registers[StarSlot(f)] = Leftovers] ELSE named
      BY <1>9, <2>2 DEF Gather, Crowded
    <3>2. /\ gathered = [registers |-> gathered.registers, extra |-> gathered.extra, collected |-> gathered.collected,
                         misplaced |-> gathered.misplaced, error |-> gathered.error]
          /\ gathered.error = "none" /\ gathered.extra = named.extra /\ gathered.collected = named.collected
          /\ DOMAIN gathered.registers = 1 .. L
          /\ f.star => gathered.registers[StarSlot(f)] = Leftovers
          /\ \A s \in Named(f) : gathered.registers[s] = named.registers[s]
      <4>1. CASE f.star
        <5>1. gathered = [named EXCEPT !.registers = [named.registers EXCEPT ![StarSlot(f)] = Leftovers]]
          BY <3>1, <4>1
        <5> HIDE DEF gathered
        <5>2. /\ gathered.registers = [named.registers EXCEPT ![StarSlot(f)] = Leftovers]
              /\ gathered.extra = named.extra /\ gathered.collected = named.collected
              /\ gathered.misplaced = named.misplaced /\ gathered.error = named.error
              /\ gathered = [registers |-> gathered.registers, extra |-> gathered.extra, collected |-> gathered.collected,
                             misplaced |-> gathered.misplaced, error |-> gathered.error]
          BY <1>6, <5>1
        <5>3. /\ DOMAIN gathered.registers = 1 .. L /\ gathered.registers[StarSlot(f)] = Leftovers
              /\ \A s \in Named(f) : gathered.registers[s] = named.registers[s]
          BY <1>5, <1>6, <4>1, <5>2
        <5> QED BY <1>9, <5>2, <5>3
      <4>2. CASE ~f.star
        <5>1. gathered = named
          BY <3>1, <4>2
        <5> HIDE DEF gathered
        <5> QED BY <1>6, <1>9, <4>2, <5>1
      <4> QED BY <4>1, <4>2
    <3> HIDE DEF gathered
    <3>3. /\ filled.extra = gathered.extra /\ filled.collected = gathered.collected
          /\ \A s \in 1 .. L :
               filled.registers[s] = IF gathered.registers[s] # Unset THEN gathered.registers[s]
                                     ELSE IF HasDefault(f, s) THEN Default(s) ELSE Unset
      BY <3>2, FillIs
    <3> HIDE DEF filled
    <3>4. ASSUME NEW s \in Named(f)
          PROVE  /\ filled.registers[s] = IF HasKey(f, call, s) THEN Keyword(s)
                                          ELSE IF HasPos(f, call, s) THEN given[s]
                                          ELSE IF HasDefault(f, s) THEN Default(s) ELSE Unset
                 /\ filled.registers[s] = Unset <=> Lacking(f, call, s)
      <4>1. s \in 1 .. L
        BY <1>5
      <4>2. gathered.registers[s] = IF HasKey(f, call, s) THEN Keyword(s)
                                    ELSE IF HasPos(f, call, s) THEN given[s] ELSE Unset
        BY <1>9, <3>2, <4>1
      <4>3. HasPos(f, call, s) => given[s] # Unset
        <5>1. HasPos(f, call, s) => s \in 1 .. Len(given)
          BY ShapeIs, GivenIs DEF HasPos
        <5> QED BY <5>1, GivenIs, KindsDiffer
      <4> HIDE DEF given
      <4> QED BY <3>3, <4>1, <4>2, <4>3, KindsDiffer DEF Lacking
    <3>5. CASE \E s \in Named(f) : Lacking(f, call, s)
      <4>1. MissingIn(filled, PositionalSlots(f)) \/ MissingIn(filled, KeywordSlots(f))
        BY <1>5, <3>4, <3>5 DEF MissingIn
      <4>2. b.error \in {"missing", "missing keyword"}
        BY <1>1, <1>9, <3>2, <4>1
      <4> QED BY <1>2, <1>9, <2>2, <3>5, <4>2 DEF b
    <3>6. CASE \A s \in Named(f) : ~Lacking(f, call, s)
      <4>1. ~MissingIn(filled, PositionalSlots(f)) /\ ~MissingIn(filled, KeywordSlots(f))
        BY <1>5, <3>4, <3>6 DEF MissingIn
      <4>2. b = [error |-> "none", registers |-> filled.registers, extra |-> filled.extra,
                 collected |-> filled.collected]
        BY <1>1, <1>9, <3>2, <4>1
      <4>3. /\ b.error = "none" /\ b.registers = filled.registers
            /\ b.extra = SubSeq(given, f.positional + 1, Len(given)) /\ b.collected = Unclaimed(f, call)
        BY <1>9, <3>2, <3>3, <4>2
      <4>4. ASSUME NEW s \in Named(f)
            PROVE  b.registers[s] = IF MeantFor(f, call, s) = {} THEN Default(s)
                                    ELSE CHOOSE v \in MeantFor(f, call, s) : TRUE
        <5>1. ~(HasPos(f, call, s) /\ HasKey(f, call, s)) /\ ~Lacking(f, call, s)
          BY <1>9, <3>6 DEF KeywordWrong
        <5>2. b.registers[s] = IF HasKey(f, call, s) THEN Keyword(s)
                               ELSE IF HasPos(f, call, s) THEN given[s] ELSE Default(s)
          BY <3>4, <4>3, <5>1 DEF Lacking
        <5> HIDE DEF given
        <5>3. /\ MeantFor(f, call, s) = {} <=> ~HasPos(f, call, s) /\ ~HasKey(f, call, s)
              /\ HasPos(f, call, s) /\ ~HasKey(f, call, s) =>
                   (CHOOSE v \in MeantFor(f, call, s) : TRUE) = given[s]
              /\ HasKey(f, call, s) /\ ~HasPos(f, call, s) =>
                   (CHOOSE v \in MeantFor(f, call, s) : TRUE) = Keyword(s)
          BY MeantIs DEF given
        <5> QED BY <5>1, <5>2, <5>3
      <4>5. f.star => b.registers[StarSlot(f)] = Leftovers
        <5> SUFFICES ASSUME f.star PROVE filled.registers[StarSlot(f)] = Leftovers
          BY <4>3
        <5> QED BY <1>5, <3>2, <3>3, KindsDiffer
      <4>6. BoundRight(f, call, b)
        BY <4>3, <4>4, <4>5 DEF BoundRight
      <4>7. Legal(f, call)
        BY <1>2, <1>9, <2>2, <3>6
      <4> QED BY <4>3, <4>6, <4>7 DEF b
    <3> QED BY <3>5, <3>6
  <2> QED BY <2>1, <2>2
<1> QED BY <1>3, <1>7, <1>8, <1>9

-----------------------------------------------------------------------------
(* The keywords of a call, as they are offered one after the other.        *)

Entry(name) == [is |-> IF name = NoString THEN "not a string" ELSE "name", name |-> name]
NoMapping == [is |-> "not a mapping", name |-> NoString]
Entries == [is : {"not a string", "name", "not a mapping"}, name : Nat \union {NoString}]
EntriesOf(w) == IF w.is = "other" THEN <<NoMapping>> ELSE [j \in DOMAIN w.keys |-> Entry(w.keys[j])]
Collected ==
  [names : Seq(Nat), error : {"none", "not a string", "multiple values", "not a mapping"}]

(* All that was offered is a name of its own, and is kept; or the first    *)
(* thing that is wrong is why the call is refused.                         *)
Sorted(offered, k) ==
  IF Wrong(offered) = {} THEN k.error = "none" /\ k.names = [i \in 1 .. Len(offered) |-> offered[i].name]
  ELSE \E i \in Wrong(offered) : (\A j \in Wrong(offered) : i <= j) /\ k.error = WhyWrong(offered, i)

LEMMA OneIs ==
  ASSUME NEW S, NEW e \in S
  PROVE  <<e>> \in Seq(S) /\ Len(<<e>>) = 1 /\ <<e>>[1] = e
OBVIOUS

LEMMA OneAfter ==
  ASSUME NEW S, NEW u \in Seq(S), NEW e \in S
  PROVE  /\ u \o <<e>> \in Seq(S) /\ Len(u \o <<e>>) = Len(u) + 1 /\ Len(u) \in Nat
         /\ \A i \in 1 .. Len(u) : (u \o <<e>>)[i] = u[i]
         /\ (u \o <<e>>)[Len(u) + 1] = e
<1> DEFINE app == Append(u, e)
<1>1. app \in Seq(S) /\ Len(app) = Len(u) + 1 /\ (\A i \in 1 .. Len(u) : app[i] = u[i]) /\ app[Len(u) + 1] = e
  BY AppendProperties
<1>2. app = u \o <<e>>
  BY AppendIsConcat
<1>3. Len(u) \in Nat
  BY LenProperties
<1> HIDE DEF app
<1> QED BY <1>1, <1>2, <1>3

LEMMA Grown ==
  ASSUME NEW S, NEW u \in Seq(S), NEW v \in Seq(S), NEW m \in Nat, Len(u) = m, Len(v) = m + 1,
         \A i \in 1 .. m : v[i] = u[i]
  PROVE  v = u \o <<v[m + 1]>>
<1> DEFINE e == v[m + 1]
           w == u \o <<e>>
<1>1. e \in S
  <2>1. m + 1 \in 1 .. Len(v)
    OBVIOUS
  <2> QED BY <2>1, ElementOfSeq
<1> HIDE DEF e
<1>2. w \in Seq(S) /\ Len(w) = m + 1 /\ (\A i \in 1 .. m : w[i] = u[i]) /\ w[m + 1] = e
  BY <1>1, OneAfter
<1> HIDE DEF w
<1>3. ASSUME NEW i \in 1 .. m + 1 PROVE w[i] = v[i]
  <2>1. i \in 1 .. m \/ i = m + 1
    OBVIOUS
  <2> QED BY <1>2, <2>1 DEF e
<1>4. w = v
  BY <1>2, <1>3, SeqEqual
<1> QED BY <1>4 DEF w, e

LEMMA WrongIs ==
  ASSUME NEW offered \in Seq(Entries), NEW rest \in Seq(Entries)
  PROVE  /\ offered \o rest \in Seq(Entries) /\ Len(offered) \in Nat /\ Len(rest) \in Nat
         /\ Len(offered \o rest) = Len(offered) + Len(rest)
         /\ Wrong(offered) \subseteq 1 .. Len(offered)
         /\ Wrong(offered) = Wrong(offered \o rest) \intersect (1 .. Len(offered))
         /\ Wrong(offered \o rest) \subseteq 1 .. Len(offered) + Len(rest)
         /\ \A i \in 1 .. Len(offered) : (offered \o rest)[i] = offered[i]
<1> DEFINE both == offered \o rest
           n == Len(offered)
<1>1. /\ both \in Seq(Entries) /\ n \in Nat /\ Len(rest) \in Nat
      /\ Len(both) = n + Len(rest)
      /\ \A i \in 1 .. n + Len(rest) : both[i] = IF i <= n THEN offered[i] ELSE rest[i - n]
  BY LenProperties, ConcatProperties
<1>2. DOMAIN both = 1 .. n + Len(rest) /\ DOMAIN offered = 1 .. n
  BY <1>1, LenProperties
<1> HIDE DEF both, n
<1>3. \A i \in 1 .. n : both[i] = offered[i]
  BY <1>1
<1>4. ASSUME NEW i \in 1 .. n PROVE i \in Wrong(both) <=> i \in Wrong(offered)
  <2>1. i \in DOMAIN both /\ i \in DOMAIN offered /\ \A j \in 1 .. i - 1 : j \in 1 .. n
    BY <1>1, <1>2
  <2> QED BY <1>3, <2>1 DEF Wrong
<1>5. Wrong(offered) \subseteq 1 .. n /\ Wrong(both) \subseteq 1 .. n + Len(rest)
  BY <1>2 DEF Wrong
<1> QED BY <1>1, <1>3, <1>4, <1>5 DEF both, n

(* What comes after something wrong changes nothing.                       *)
LEMMA SortedStays ==
  ASSUME NEW offered \in Seq(Entries), NEW rest \in Seq(Entries), NEW k, Sorted(offered, k), k.error # "none"
  PROVE  Sorted(offered \o rest, k)
<1> DEFINE both == offered \o rest
           n == Len(offered)
<1>1. /\ n \in Nat /\ Len(rest) \in Nat /\ Wrong(offered) \subseteq 1 .. n
      /\ Wrong(offered) = Wrong(both) \intersect (1 .. n)
      /\ Wrong(both) \subseteq 1 .. n + Len(rest)
      /\ \A i \in 1 .. n : both[i] = offered[i]
  BY WrongIs
<1> HIDE DEF both, n
<1>2. PICK i \in Wrong(offered) : (\A j \in Wrong(offered) : i <= j) /\ k.error = WhyWrong(offered, i)
  BY DEF Sorted
<1>3. i \in Wrong(both) /\ i \in 1 .. n
  BY <1>1
<1>4. ASSUME NEW j \in Wrong(both) PROVE i <= j
  <2>1. CASE j \in 1 .. n
    BY <1>1, <1>2, <2>1
  <2>2. CASE j \notin 1 .. n
    BY <1>1, <1>3, <2>2
  <2> QED BY <2>1, <2>2
<1>5. WhyWrong(both, i) = WhyWrong(offered, i)
  BY <1>1, <1>3 DEF WhyWrong
<1>6. Sorted(both, k)
  BY <1>2, <1>3, <1>4, <1>5 DEF Sorted
<1> QED BY <1>6 DEF both

(* One more of them.                                                       *)
LEMMA SortedOne ==
  ASSUME NEW offered \in Seq(Entries), NEW e \in Entries, NEW k, Sorted(offered, k), k.error = "none"
  PROVE  /\ Wrong(offered) = {}
         /\ offered \o <<e>> \in Seq(Entries) /\ Len(offered) \in Nat
         /\ Len(offered \o <<e>>) = Len(offered) + 1 /\ (offered \o <<e>>)[Len(offered) + 1] = e
         /\ \A i \in 1 .. Len(offered) : (offered \o <<e>>)[i] = offered[i] /\ offered[i] \in Entries
                                         /\ offered[i].is = "name"
         /\ Wrong(offered \o <<e>>) = IF e.is # "name" \/ \E j \in 1 .. Len(offered) : offered[j] = e
                                      THEN {Len(offered) + 1} ELSE {}
<1> DEFINE both == offered \o <<e>>
           n == Len(offered)
<1>1. both \in Seq(Entries) /\ n \in Nat /\ Len(both) = n + 1 /\ (\A i \in 1 .. n : both[i] = offered[i]) /\ both[n + 1] = e
  BY OneAfter
<1>2. Wrong(offered) = Wrong(both) \intersect (1 .. n) /\ Wrong(both) \subseteq 1 .. n + 1
  <2> DEFINE one == <<e>>
  <2>1. one \in Seq(Entries) /\ Len(one) = 1
    BY OneIs
  <2> HIDE DEF one
  <2>2. /\ Wrong(offered) = Wrong(offered \o one) \intersect (1 .. n)
        /\ Wrong(offered \o one) \subseteq 1 .. n + 1
    BY <2>1, WrongIs
  <2> QED BY <2>2 DEF one
<1>3. DOMAIN both = 1 .. n + 1
  <2> HIDE DEF both
  <2> QED BY <1>1, LenProperties
<1>4. \A i \in 1 .. n : offered[i] \in Entries
  BY ElementOfSeq
<1>5. DOMAIN offered = 1 .. n
  BY LenProperties
<1> HIDE DEF both, n
<1>6. Wrong(offered) = {}
  <2> SUFFICES ASSUME NEW i \in Wrong(offered), k.error = WhyWrong(offered, i) PROVE FALSE
    BY DEF Sorted
  <2>1. offered[i] \in Entries
    BY <1>4, <1>5 DEF Wrong
  <2>2. offered[i].is \in {"not a string", "name", "not a mapping"}
    BY <2>1 DEF Entries
  <2> QED BY <2>2 DEF WhyWrong
<1>7. \A i \in 1 .. n : offered[i].is = "name"
  BY <1>5, <1>6 DEF Wrong
<1>8. \A j \in 1 .. n : both[j] = both[n + 1] <=> offered[j] = e
  BY <1>1
<1>9. n + 1 \in Wrong(both) <=> e.is # "name" \/ \E j \in 1 .. n : offered[j] = e
  <2>1. n + 1 \in DOMAIN both /\ (n + 1) - 1 = n
    BY <1>1, <1>3
  <2>2. n + 1 \in Wrong(both) <=> both[n + 1].is # "name" \/ \E j \in 1 .. (n + 1) - 1 : both[j] = both[n + 1]
    BY <2>1 DEF Wrong
  <2> QED BY <1>1, <1>8, <2>1, <2>2
<1>10. \A i \in Wrong(both) : i = n + 1
  BY <1>1, <1>2, <1>6
<1>11. Wrong(both) = IF e.is # "name" \/ \E j \in 1 .. n : offered[j] = e THEN {n + 1} ELSE {}
  BY <1>9, <1>10
<1> QED BY <1>1, <1>4, <1>6, <1>7, <1>11 DEF both, n

LEMMA WrongOne ==
  ASSUME NEW offered \in Seq(Entries), NEW e \in Entries, NEW k, Sorted(offered, k), k.error = "none", e.is # "name"
  PROVE  /\ Len(offered) \in Nat /\ (offered \o <<e>>)[Len(offered) + 1] = e
         /\ Wrong(offered \o <<e>>) = {Len(offered) + 1}
<1>1. Len(offered) \in Nat /\ (offered \o <<e>>)[Len(offered) + 1] = e
  BY SortedOne
<1>2. Wrong(offered \o <<e>>) = IF e.is # "name" \/ \E j \in 1 .. Len(offered) : offered[j] = e
                               THEN {Len(offered) + 1} ELSE {}
  BY SortedOne, Zenon
<1> QED BY <1>1, <1>2

LEMMA EntryIs ==
  ASSUME NEW name \in Nat \union {NoString}
  PROVE  /\ Entry(name) \in Entries /\ Entry(name).name = name
         /\ Entry(name).is = IF name = NoString THEN "not a string" ELSE "name"
         /\ \A e \in Entries : e.is = "name" => (e = Entry(name) <=> name # NoString /\ e.name = name)
<1>1. /\ Entry(name) \in Entries /\ Entry(name).name = name
      /\ Entry(name).is = IF name = NoString THEN "not a string" ELSE "name"
  BY DEF Entry, Entries
<1>2. ASSUME NEW e \in Entries, e.is = "name" PROVE e = Entry(name) <=> name # NoString /\ e.name = name
  <2>1. e = [is |-> e.is, name |-> e.name]
    BY DEF Entries
  <2>2. CASE name = NoString
    BY <1>1, <1>2, <2>2
  <2>3. CASE name # NoString
    BY <1>1, <1>2, <2>1, <2>3 DEF Entry
  <2> QED BY <2>2, <2>3
<1> QED BY <1>1, <1>2

(* Sorted, said of the state after something wrong or something right.     *)
LEMMA SortedWrong ==
  ASSUME NEW offered, NEW n, Wrong(offered) = {n}, n \in Nat, NEW k, k.error = WhyWrong(offered, n)
  PROVE  Sorted(offered, k)
BY DEF Sorted

LEMMA PushKeywordSorts ==
  ASSUME NEW offered \in Seq(Entries), NEW k \in Collected, Sorted(offered, k),
         NEW name \in Nat \union {NoString}
  PROVE  PushKeyword(k, name) \in Collected /\ Sorted(offered \o <<Entry(name)>>, PushKeyword(k, name))
<1> DEFINE e == Entry(name)
           both == offered \o <<e>>
           n == Len(offered)
           p == PushKeyword(k, name)
<1>0. /\ e \in Entries /\ e.name = name /\ e.is = IF name = NoString THEN "not a string" ELSE "name"
      /\ \A x \in Entries : x.is = "name" => (x = e <=> name # NoString /\ x.name = name)
  BY EntryIs
<1>1. k.names \in Seq(Nat) /\ k = [names |-> k.names, error |-> k.error]
  BY DEF Collected
<1> HIDE DEF e
<1>2. CASE k.error # "none"
  <2>1. p = k
    BY <1>2 DEF PushKeyword
  <2>2. <<e>> \in Seq(Entries)
    BY <1>0, OneIs
  <2>3. Sorted(both, k)
    <3> DEFINE one == <<e>>
    <3> HIDE DEF one
    <3> QED BY <1>2, <2>2, SortedStays DEF one
  <2> QED BY <2>1, <2>3 DEF e
<1>3. CASE k.error = "none"
  <2>1. /\ Wrong(offered) = {}
        /\ both \in Seq(Entries) /\ n \in Nat /\ Len(both) = n + 1 /\ both[n + 1] = e
        /\ \A i \in 1 .. n : both[i] = offered[i] /\ offered[i] \in Entries /\ offered[i].is = "name"
        /\ Wrong(both) = IF e.is # "name" \/ \E j \in 1 .. n : offered[j] = e THEN {n + 1} ELSE {}
    BY <1>0, <1>3, SortedOne
  <2>2. k.names = [i \in 1 .. n |-> offered[i].name]
    BY <2>1 DEF Sorted
  <2>3. Len(k.names) = n /\ \A i \in 1 .. n : k.names[i] = offered[i].name
    <3>1. DOMAIN k.names = 1 .. n
      BY <2>2
    <3> QED BY <1>1, <2>1, <2>2, <3>1, LenProperties
  <2>4. Contains(k.names, name) <=> \E i \in 1 .. n : offered[i].name = name
    BY <2>3 DEF Contains
  <2> HIDE DEF both, n, p
  <2>5. CASE name = NoString
    <3>1. p = [names |-> k.names, error |-> "not a string"]
      BY <1>1, <1>3, <2>5 DEF PushKeyword, p
    <3>2. p \in Collected /\ p.error = "not a string"
      BY <1>1, <3>1 DEF Collected
    <3>3. Wrong(both) = {n + 1} /\ WhyWrong(both, n + 1) = "not a string" /\ n + 1 \in Nat
      <4>1. e.is = "not a string"
        BY <1>0, <2>5
      <4>2. Wrong(both) = {n + 1}
        BY <2>1, <4>1
      <4>3. both[n + 1] = e /\ n + 1 \in Nat
        BY <2>1
      <4> QED BY <4>1, <4>2, <4>3 DEF WhyWrong
    <3>4. Sorted(both, p)
      BY <3>2, <3>3, SortedWrong
    <3> QED BY <3>2, <3>4 DEF p, both, e
  <2>6. CASE name # NoString /\ Contains(k.names, name)
    <3>1. p = [names |-> k.names, error |-> "multiple values"]
      BY <1>1, <1>3, <2>6 DEF PushKeyword, p
    <3>2. p \in Collected /\ p.error = "multiple values"
      BY <1>1, <3>1 DEF Collected
    <3>3. \E j \in 1 .. n : offered[j] = e
      BY <1>0, <2>1, <2>4, <2>6
    <3>4. Wrong(both) = {n + 1} /\ WhyWrong(both, n + 1) = "multiple values" /\ n + 1 \in Nat
      <4>1. e.is = "name"
        BY <1>0, <2>6
      <4>2. Wrong(both) = {n + 1}
        BY <2>1, <3>3
      <4>3. both[n + 1].is = "name" /\ n + 1 \in Nat
        BY <2>1, <4>1
      <4> QED BY <4>2, <4>3 DEF WhyWrong
    <3>5. Sorted(both, p)
      BY <3>2, <3>4, SortedWrong
    <3> QED BY <3>2, <3>5 DEF p, both, e
  <2>7. CASE name # NoString /\ ~Contains(k.names, name)
    <3>1. p = [names |-> Append(k.names, name), error |-> "none"]
      BY <1>1, <1>3, <2>7 DEF PushKeyword, p
    <3>2. name \in Nat
      BY <2>7
    <3>3. /\ Append(k.names, name) \in Seq(Nat) /\ Len(Append(k.names, name)) = n + 1
          /\ \A i \in 1 .. n : Append(k.names, name)[i] = k.names[i]
          /\ Append(k.names, name)[n + 1] = name
      BY <1>1, <2>3, <3>2, AppendProperties
    <3>4. p \in Collected /\ p.error = "none" /\ p.names = Append(k.names, name)
      BY <3>1, <3>3 DEF Collected
    <3>5. Wrong(both) = {}
      BY <1>0, <2>1, <2>4, <2>7
    <3> DEFINE app == Append(k.names, name)
    <3> HIDE DEF app
    <3>6. DOMAIN app = 1 .. n + 1 /\ app = [i \in DOMAIN app |-> app[i]]
      BY <3>3, LenProperties DEF app
    <3>7. \A i \in 1 .. n + 1 : app[i] = both[i].name
      <4> SUFFICES ASSUME NEW i \in 1 .. n + 1 PROVE app[i] = both[i].name
        OBVIOUS
      <4>1. i \in 1 .. n \/ i = n + 1
        BY <2>1
      <4> QED BY <1>0, <2>1, <2>3, <3>3, <4>1 DEF app
    <3>8. app = [i \in 1 .. n + 1 |-> both[i].name]
      BY <3>6, <3>7
    <3>9. Sorted(both, p)
      BY <2>1, <3>4, <3>5, <3>8 DEF Sorted, app
    <3> QED BY <3>4, <3>9 DEF p, both, e
  <2> QED BY <2>5, <2>6, <2>7
<1> QED BY <1>2, <1>3 DEF Collected

LEMMA PushKeywordType ==
  ASSUME NEW k \in Collected, NEW name \in Nat \union {NoString}
  PROVE  PushKeyword(k, name) \in Collected
<1>1. k.names \in Seq(Nat) /\ k = [names |-> k.names, error |-> k.error]
  BY DEF Collected
<1>2. [k EXCEPT !.error = "not a string"] \in Collected /\ [k EXCEPT !.error = "multiple values"] \in Collected
  BY DEF Collected
<1>3. name # NoString => [k EXCEPT !.names = Append(@, name)] \in Collected
  <2>1. name # NoString => Append(k.names, name) \in Seq(Nat)
    BY <1>1, AppendProperties
  <2> DEFINE app == Append(k.names, name)
  <2> HIDE DEF app
  <2>2. name # NoString => [k EXCEPT !.names = app] \in Collected
    BY <2>1 DEF Collected, app
  <2> QED BY <2>2 DEF app
<1> QED BY <1>2, <1>3 DEF PushKeyword

LEMMA PushedIs ==
  ASSUME NEW k \in Collected, NEW keys \in Seq(Nat \union {NoString}), NEW w, w.keys = keys,
         k.error = "none", w.is # "other"
  PROVE  \E pushed : /\ pushed[0] = k /\ FoldOne(k, w) = pushed[Len(keys)]
                     /\ \A j \in 1 .. Len(keys) : pushed[j] = PushKeyword(pushed[j - 1], keys[j])
<1> DEFINE n == Len(keys)
           V == Collected
           Recurs(t) == t = [j \in 0 .. n |-> IF j = 0 THEN k ELSE PushKeyword(t[j - 1], keys[j])]
           step == [i \in Nat |-> [v \in V |-> IF i + 1 \in 1 .. n THEN PushKeyword(v, keys[i + 1]) ELSE v]]
<1>1. n \in Nat /\ \A i \in 1 .. n : keys[i] \in Nat \union {NoString}
  BY LenProperties
<1>2. step \in Steps(V)
  <2> SUFFICES ASSUME NEW i \in Nat, NEW v \in V, i + 1 \in 1 .. n
               PROVE  PushKeyword(v, keys[i + 1]) \in V
    BY DEF Steps
  <2>1. keys[i + 1] \in Nat \union {NoString}
    BY <1>1
  <2> QED BY <2>1, PushKeywordType
<1>3. \A i \in Nat, v \in V : step[i][v] = IF i + 1 \in 1 .. n THEN PushKeyword(v, keys[i + 1]) ELSE v
  OBVIOUS
<1> HIDE DEF V, step, n
<1>4. PICK h : /\ h = [j \in 0 .. n |-> h[j]] /\ h[0] = k /\ \A j \in 0 .. n : h[j] \in V
               /\ \A j \in 1 .. n : h[j] = step[j - 1][h[j - 1]]
  BY <1>1, <1>2, RecursiveUpto DEF V
<1>5. \A j \in 1 .. n : h[j] = PushKeyword(h[j - 1], keys[j])
  <2> SUFFICES ASSUME NEW j \in 1 .. n PROVE h[j] = PushKeyword(h[j - 1], keys[j])
    OBVIOUS
  <2>1. j - 1 \in Nat /\ j - 1 \in 0 .. n /\ (j - 1) + 1 = j
    BY <1>1
  <2> QED BY <1>3, <1>4, <2>1, ZenonT(30)
<1>6. Recurs(h)
  <2>1. ASSUME NEW j \in 0 .. n PROVE h[j] = IF j = 0 THEN k ELSE PushKeyword(h[j - 1], keys[j])
    <3>1. j = 0 \/ j \in 1 .. n
      BY <1>1
    <3> QED BY <1>4, <1>5, <3>1
  <2> QED BY <1>4, <2>1
<1> DEFINE pushed == CHOOSE t : Recurs(t)
<1>7. Recurs(pushed)
  <2> HIDE DEF Recurs
  <2> QED BY <1>6
<1>8. FoldOne(k, w) = pushed[n]
  BY DEF FoldOne, n
<1> HIDE DEF pushed
<1>9. pushed[0] = k /\ \A j \in 1 .. n : pushed[j] = PushKeyword(pushed[j - 1], keys[j])
  <2>1. \A j \in 0 .. n : pushed[j] = IF j = 0 THEN k ELSE PushKeyword(pushed[j - 1], keys[j])
    BY <1>7
  <2> QED BY <1>1, <2>1
<1> QED BY <1>8, <1>9 DEF n

LEMMA FoldOneSorts ==
  ASSUME NEW offered \in Seq(Entries), NEW k \in Collected, Sorted(offered, k), NEW w \in AnyWritten
  PROVE  /\ FoldOne(k, w) \in Collected /\ EntriesOf(w) \in Seq(Entries)
         /\ Sorted(offered \o EntriesOf(w), FoldOne(k, w))
<1> DEFINE rest == EntriesOf(w)
           both == offered \o rest
           keys == w.keys
           n == Len(keys)
           p == FoldOne(k, w)
<1>1. /\ keys \in Seq(Nat \union {NoString}) /\ n \in Nat /\ DOMAIN keys = 1 .. n
      /\ \A i \in 1 .. n : keys[i] \in Nat \union {NoString}
  <2>1. keys \in Seq(Nat \union {NoString})
    BY DEF AnyWritten
  <2> HIDE DEF keys
  <2> QED BY <2>1, LenProperties
<1>2. k = [names |-> k.names, error |-> k.error] /\ k.names \in Seq(Nat)
  BY DEF Collected
<1> DEFINE Firsts(m) == [i \in 1 .. m |-> Entry(keys[i])]
<1> HIDE DEF keys
<1>3. ASSUME NEW m \in 0 .. n PROVE Firsts(m) \in Seq(Entries) /\ Len(Firsts(m)) = m
  <2>1. ASSUME NEW i \in 1 .. m PROVE Entry(keys[i]) \in Entries
    <3>1. keys[i] \in Nat \union {NoString}
      BY <1>1
    <3> QED BY <3>1, EntryIs
  <2>2. Firsts(m) \in [1 .. m -> Entries] /\ DOMAIN Firsts(m) = 1 .. m /\ m \in Nat
    BY <1>1, <2>1
  <2> HIDE DEF Firsts
  <2> QED BY <2>2, SeqDef, LenProperties
<1>4. rest = IF w.is = "other" THEN <<NoMapping>> ELSE Firsts(n)
  BY <1>1 DEF EntriesOf, keys
<1>5. NoMapping \in Entries /\ NoMapping.is = "not a mapping"
  BY DEF NoMapping, Entries
<1>6. rest \in Seq(Entries)
  <2>1. <<NoMapping>> \in Seq(Entries)
    BY <1>5, OneIs
  <2> HIDE DEF Firsts, rest
  <2> QED BY <1>1, <1>3, <1>4, <2>1
<1>7. CASE k.error # "none"
  <2>1. p = k
    BY <1>7 DEF FoldOne
  <2> HIDE DEF rest, p
  <2> QED BY <1>6, <1>7, <2>1, SortedStays DEF rest, p
<1>8. CASE k.error = "none" /\ w.is = "other"
  <2>1. p = [names |-> k.names, error |-> "not a mapping"]
    BY <1>2, <1>8 DEF FoldOne
  <2> HIDE DEF p
  <2>2. p \in Collected /\ p.error = "not a mapping"
    BY <1>2, <2>1 DEF Collected
  <2>3. Wrong(offered \o <<NoMapping>>) = {Len(offered) + 1} /\ Len(offered) + 1 \in Nat
        /\ (offered \o <<NoMapping>>)[Len(offered) + 1] = NoMapping
    <3> DEFINE e == NoMapping
    <3>1. e \in Entries /\ e.is # "name"
      BY <1>5
    <3>0. k.error = "none"
      BY <1>8
    <3> HIDE DEF e
    <3>2. /\ Len(offered) \in Nat /\ (offered \o <<e>>)[Len(offered) + 1] = e
          /\ Wrong(offered \o <<e>>) = {Len(offered) + 1}
      BY <3>0, <3>1, WrongOne
    <3> QED BY <3>2 DEF e
  <2> HIDE DEF rest, Firsts
  <2>4. rest = <<NoMapping>>
    BY <1>4, <1>8
  <2> HIDE DEF both
  <2>5. both = offered \o <<NoMapping>>
    BY <2>4 DEF both
  <2>6. Sorted(both, p)
    <3>1. both[Len(offered) + 1].is = "not a mapping"
      BY <1>5, <2>3, <2>5
    <3>2. WhyWrong(both, Len(offered) + 1) = "not a mapping"
      BY <3>1 DEF WhyWrong
    <3> QED BY <2>2, <2>3, <2>5, <3>2, SortedWrong
  <2> QED BY <1>6, <2>2, <2>6 DEF p, both, rest
<1>9. CASE k.error = "none" /\ w.is # "other"
  <2>1. PICK pushed : /\ pushed[0] = k /\ p = pushed[n]
                      /\ \A j \in 1 .. n : pushed[j] = PushKeyword(pushed[j - 1], keys[j])
    BY <1>1, <1>9, PushedIs DEF keys
  <2> HIDE DEF p
  <2> DEFINE S == {m \in Nat : m <= n => pushed[m] \in Collected /\ Sorted(offered \o Firsts(m), pushed[m])}
  <2>2. 0 \in S
    <3>1. Firsts(0) = << >>
      OBVIOUS
    <3> HIDE DEF Firsts
    <3>2. offered \o Firsts(0) = offered
      BY <3>1, ConcatEmptySeq
    <3> QED BY <2>1, <3>2
  <2>3. ASSUME NEW m \in S PROVE m + 1 \in S
    <3> SUFFICES ASSUME m + 1 <= n
                 PROVE  pushed[m + 1] \in Collected /\ Sorted(offered \o Firsts(m + 1), pushed[m + 1])
      OBVIOUS
    <3>1. m \in Nat /\ m \in 0 .. n /\ m + 1 \in 1 .. n /\ m + 1 \in 0 .. n /\ (m + 1) - 1 = m
      BY <1>1
    <3>2. pushed[m] \in Collected /\ Sorted(offered \o Firsts(m), pushed[m])
      BY <3>1
    <3>3. pushed[m + 1] = PushKeyword(pushed[m], keys[m + 1])
      BY <2>1, <3>1
    <3> DEFINE one == <<Entry(keys[m + 1])>>
    <3>4. Entry(keys[m + 1]) \in Entries /\ keys[m + 1] \in Nat \union {NoString}
      BY <1>1, <3>1, EntryIs
    <3>5. one \in Seq(Entries) /\ Len(one) = 1 /\ one[1] = Entry(keys[m + 1])
      BY <3>4, OneIs
    <3>6. Firsts(m) \in Seq(Entries) /\ Len(Firsts(m)) = m /\ Firsts(m + 1) \in Seq(Entries) /\ Len(Firsts(m + 1)) = m + 1
      BY <1>3, <3>1
    <3>7. /\ \A i \in 1 .. m : Firsts(m)[i] = Entry(keys[i])
          /\ \A i \in 1 .. m + 1 : Firsts(m + 1)[i] = Entry(keys[i])
      OBVIOUS
    <3> HIDE DEF Firsts, one, S
    <3>8. Firsts(m + 1) = Firsts(m) \o one
      <4> DEFINE u == Firsts(m)
                 v == Firsts(m + 1)
      <4>1. u \in Seq(Entries) /\ v \in Seq(Entries) /\ Len(u) = m /\ Len(v) = m + 1
        BY <3>6
      <4>2. \A i \in 1 .. m : v[i] = u[i]
        BY <3>1, <3>7
      <4>3. v[m + 1] = Entry(keys[m + 1])
        BY <3>1, <3>7
      <4> HIDE DEF u, v
      <4>4. v = u \o <<v[m + 1]>>
        BY <3>1, <4>1, <4>2, Grown
      <4>5. v = u \o one
        BY <4>3, <4>4 DEF one
      <4> QED BY <4>5 DEF u, v
    <3>9. offered \o Firsts(m + 1) = (offered \o Firsts(m)) \o one
      <4> DEFINE u == Firsts(m)
      <4>1. u \in Seq(Entries) /\ one \in Seq(Entries)
        BY <3>5, <3>6
      <4> HIDE DEF u
      <4>2. offered \o (u \o one) = (offered \o u) \o one
        BY <4>1, ConcatAssociative
      <4> QED BY <3>8, <4>2 DEF u
    <3>10. offered \o Firsts(m) \in Seq(Entries)
      BY <3>6, ConcatProperties
    <3> DEFINE soFar == offered \o Firsts(m)
               key == keys[m + 1]
    <3> HIDE DEF soFar, key
    <3>11. PushKeyword(pushed[m], key) \in Collected /\ Sorted(soFar \o <<Entry(key)>>, PushKeyword(pushed[m], key))
      BY <3>2, <3>4, <3>10, PushKeywordSorts DEF soFar, key
    <3> QED BY <3>3, <3>9, <3>11 DEF soFar, key, one
  <2> HIDE DEF S
  <2>4. S \subseteq Nat
    BY DEF S
  <2>5. S = Nat
    BY <2>2, <2>3, <2>4, Induction
  <2>6. pushed[n] \in Collected /\ Sorted(offered \o Firsts(n), pushed[n])
    <3>1. n \in S /\ n <= n
      BY <1>1, <2>5
    <3> HIDE DEF Firsts
    <3> QED BY <3>1 DEF S
  <2> HIDE DEF rest, Firsts
  <2>7. rest = Firsts(n)
    BY <1>4, <1>9
  <2> QED BY <1>6, <2>1, <2>6, <2>7 DEF rest, p
<1> QED BY <1>7, <1>8, <1>9

LEMMA SortedNothing ==
  ASSUME NEW k, k.error = "none", k.names = << >>
  PROVE  << >> \in Seq(Entries) /\ Sorted(<< >>, k)
<1> DEFINE none == << >>
<1>1. none \in Seq(Entries) /\ Len(none) = 0 /\ DOMAIN none = {}
  OBVIOUS
<1>2. [i \in 1 .. 0 |-> none[i].name] = none
  OBVIOUS
<1> HIDE DEF none
<1>3. Wrong(none) = {}
  BY <1>1 DEF Wrong
<1>4. Sorted(none, k)
  BY <1>1, <1>2, <1>3 DEF Sorted, none
<1> QED BY <1>1, <1>4 DEF none

LEMMA FoldOneType ==
  ASSUME NEW k \in Collected, NEW w \in AnyWritten
  PROVE  FoldOne(k, w) \in Collected
<1>1. k = [names |-> k.names, error |-> k.error] /\ k.names \in Seq(Nat)
  BY DEF Collected
<1>2. CASE k.error # "none"
  BY <1>2 DEF FoldOne
<1>3. CASE k.error = "none" /\ w.is = "other"
  <2>1. FoldOne(k, w) = [k EXCEPT !.error = "not a mapping"]
    BY <1>3 DEF FoldOne
  <2>2. [k EXCEPT !.error = "not a mapping"] \in Collected
    BY DEF Collected
  <2> QED BY <2>1, <2>2
<1>4. CASE k.error = "none" /\ w.is # "other"
  <2> DEFINE keys == w.keys
             n == Len(keys)
  <2>1. keys \in Seq(Nat \union {NoString})
    BY DEF AnyWritten
  <2>2. n \in Nat /\ \A i \in 1 .. n : keys[i] \in Nat \union {NoString}
    <3> HIDE DEF keys
    <3> QED BY <2>1, LenProperties
  <2>3. PICK pushed : /\ pushed[0] = k /\ FoldOne(k, w) = pushed[n]
                      /\ \A j \in 1 .. n : pushed[j] = PushKeyword(pushed[j - 1], keys[j])
    BY <1>4, <2>1, PushedIs
  <2> HIDE DEF keys, n
  <2> DEFINE S == {m \in Nat : m <= n => pushed[m] \in Collected}
  <2>4. S = Nat
    <3>1. 0 \in S
      BY <2>3
    <3>2. ASSUME NEW m \in S PROVE m + 1 \in S
      <4> SUFFICES ASSUME m + 1 <= n PROVE pushed[m + 1] \in Collected
        OBVIOUS
      <4>1. m + 1 \in 1 .. n /\ (m + 1) - 1 = m /\ pushed[m] \in Collected
        BY <2>2
      <4>2. pushed[m + 1] = PushKeyword(pushed[m], keys[m + 1]) /\ keys[m + 1] \in Nat \union {NoString}
        BY <2>2, <2>3, <4>1
      <4> QED BY <4>1, <4>2, PushKeywordType
    <3> HIDE DEF S
    <3>3. S \subseteq Nat
      BY DEF S
    <3> QED BY <3>1, <3>2, <3>3, Induction
  <2>5. n \in S
    BY <2>2, <2>4
  <2> QED BY <2>2, <2>3, <2>5
<1> QED BY <1>2, <1>3, <1>4

LEMMA FoldedIs ==
  ASSUME NEW written \in Seq(AnyWritten)
  PROVE  \E folded : /\ folded[0] = [names |-> << >>, error |-> "none"]
                     /\ Fold(written) = folded[Len(written)]
                     /\ \A j \in 1 .. Len(written) : folded[j] = FoldOne(folded[j - 1], written[j])
<1> DEFINE n == Len(written)
           V == Collected
           start == [names |-> << >>, error |-> "none"]
           Recurs(t) == t = [j \in 0 .. n |-> IF j = 0 THEN start ELSE FoldOne(t[j - 1], written[j])]
           step == [i \in Nat |-> [v \in V |-> IF i + 1 \in 1 .. n THEN FoldOne(v, written[i + 1]) ELSE v]]
<1>1. n \in Nat /\ \A i \in 1 .. n : written[i] \in AnyWritten
  BY LenProperties
<1>2. step \in Steps(V)
  <2> SUFFICES ASSUME NEW i \in Nat, NEW v \in V, i + 1 \in 1 .. n
               PROVE  FoldOne(v, written[i + 1]) \in V
    BY DEF Steps
  <2>1. written[i + 1] \in AnyWritten
    BY <1>1
  <2> QED BY <2>1, FoldOneType
<1>3. \A i \in Nat, v \in V : step[i][v] = IF i + 1 \in 1 .. n THEN FoldOne(v, written[i + 1]) ELSE v
  OBVIOUS
<1>4. start \in V
  <2>1. << >> \in Seq(Nat)
    OBVIOUS
  <2> QED BY <2>1 DEF Collected
<1> HIDE DEF V, step, n, start
<1>5. PICK h : /\ h = [j \in 0 .. n |-> h[j]] /\ h[0] = start /\ \A j \in 0 .. n : h[j] \in V
               /\ \A j \in 1 .. n : h[j] = step[j - 1][h[j - 1]]
  BY <1>1, <1>2, <1>4, RecursiveUpto
<1>6. \A j \in 1 .. n : h[j] = FoldOne(h[j - 1], written[j])
  <2> SUFFICES ASSUME NEW j \in 1 .. n PROVE h[j] = FoldOne(h[j - 1], written[j])
    OBVIOUS
  <2>1. j - 1 \in Nat /\ j - 1 \in 0 .. n /\ (j - 1) + 1 = j
    BY <1>1
  <2> QED BY <1>3, <1>5, <2>1, ZenonT(30)
<1>7. Recurs(h)
  <2>1. ASSUME NEW j \in 0 .. n PROVE h[j] = IF j = 0 THEN start ELSE FoldOne(h[j - 1], written[j])
    <3>1. j = 0 \/ j \in 1 .. n
      BY <1>1
    <3> QED BY <1>5, <1>6, <3>1
  <2> QED BY <1>5, <2>1
<1> DEFINE folded == CHOOSE t : Recurs(t)
<1>8. Recurs(folded)
  <2> HIDE DEF Recurs
  <2> QED BY <1>7
<1>9. Fold(written) = folded[n]
  BY DEF Fold, n, start
<1> HIDE DEF folded
<1>10. folded[0] = start /\ \A j \in 1 .. n : folded[j] = FoldOne(folded[j - 1], written[j])
  <2>1. \A j \in 0 .. n : folded[j] = IF j = 0 THEN start ELSE FoldOne(folded[j - 1], written[j])
    BY <1>8
  <2> QED BY <1>1, <2>1
<1> QED BY <1>9, <1>10 DEF n, start

LEMMA EntriesType ==
  ASSUME NEW w \in AnyWritten
  PROVE  EntriesOf(w) \in Seq(Entries)
<1> DEFINE k == [names |-> << >>, error |-> "none"]
<1>1. k \in Collected /\ k.error = "none" /\ k.names = << >>
  <2>1. << >> \in Seq(Nat)
    OBVIOUS
  <2> QED BY <2>1 DEF Collected
<1> HIDE DEF k
<1>2. << >> \in Seq(Entries) /\ Sorted(<< >>, k)
  BY <1>1, SortedNothing
<1> QED BY <1>1, <1>2, FoldOneSorts

LEMMA OfferedIs ==
  ASSUME NEW written \in Seq(AnyWritten)
  PROVE  \E flatten : /\ flatten[0] = << >> /\ Offered(written) = flatten[Len(written)]
                      /\ \A i \in 0 .. Len(written) : flatten[i] \in Seq(Entries)
                      /\ \A i \in 1 .. Len(written) : flatten[i] = flatten[i - 1] \o EntriesOf(written[i])
<1> DEFINE n == Len(written)
           V == Seq(Entries)
           each == [i \in DOMAIN written |-> EntriesOf(written[i])]
           Recurs(t) == t = [i \in 1 .. n |-> IF i = 1 THEN each[i] ELSE t[i - 1] \o each[i]]
           step == [i \in Nat |-> [v \in V |-> IF i + 1 \in 1 .. n THEN v \o EntriesOf(written[i + 1]) ELSE v]]
<1>1. n \in Nat /\ DOMAIN written = 1 .. n /\ \A i \in 1 .. n : written[i] \in AnyWritten
  BY LenProperties
<1>2. \A i \in 1 .. n : EntriesOf(written[i]) \in V
  BY <1>1, EntriesType
<1>3. step \in Steps(V)
  <2> SUFFICES ASSUME NEW i \in Nat, NEW v \in V, i + 1 \in 1 .. n
               PROVE  v \o EntriesOf(written[i + 1]) \in V
    BY DEF Steps
  <2> DEFINE more == EntriesOf(written[i + 1])
  <2>1. more \in V
    BY <1>2
  <2> HIDE DEF more
  <2>2. v \o more \in V
    BY <2>1, ConcatProperties
  <2> QED BY <2>2 DEF more
<1>4. \A i \in Nat, v \in V : step[i][v] = IF i + 1 \in 1 .. n THEN v \o EntriesOf(written[i + 1]) ELSE v
  OBVIOUS
<1>5. << >> \in V
  OBVIOUS
<1>6. \A i \in 1 .. n : each[i] = EntriesOf(written[i])
  BY <1>1
<1>7. Offered(written) = FlattenSeq(each)
  BY DEF Offered, EntriesOf, Entry, NoMapping
<1>8. Len(each) = n
  <2>1. DOMAIN each = 1 .. n
    BY <1>1
  <2>2. each \in Seq(V)
    <3>1. each \in [1 .. n -> V]
      BY <1>1, <1>2
    <3> HIDE DEF each, V
    <3> QED BY <1>1, <3>1, SeqDef
  <2> HIDE DEF each, V
  <2> QED BY <1>1, <2>1, <2>2, LenProperties
<1> HIDE DEF V, step, n, each
<1>9. PICK h : /\ h[0] = << >> /\ \A j \in 0 .. n : h[j] \in V
               /\ \A j \in 1 .. n : h[j] = step[j - 1][h[j - 1]]
  BY <1>1, <1>3, <1>5, RecursiveUpto
<1>10. \A j \in 1 .. n : h[j] = h[j - 1] \o EntriesOf(written[j])
  <2> SUFFICES ASSUME NEW j \in 1 .. n PROVE h[j] = h[j - 1] \o EntriesOf(written[j])
    OBVIOUS
  <2>1. j - 1 \in Nat /\ j - 1 \in 0 .. n /\ (j - 1) + 1 = j
    BY <1>1
  <2> QED BY <1>4, <1>9, <2>1
<1> DEFINE t == [i \in 1 .. n |-> h[i]]
<1>11. Recurs(t)
  <2>1. ASSUME NEW i \in 1 .. n PROVE t[i] = IF i = 1 THEN each[i] ELSE t[i - 1] \o each[i]
    <3>1. CASE i = 1
      <4>1. h[i] = << >> \o EntriesOf(written[i])
        <5>1. i - 1 = 0
          BY <3>1
        <5> QED BY <1>9, <1>10, <5>1
      <4> DEFINE more == EntriesOf(written[i])
      <4>2. more \in Seq(Entries)
        BY <1>2 DEF V
      <4> HIDE DEF more
      <4>3. << >> \o more = more
        BY <4>2, ConcatEmptySeq
      <4> QED BY <1>6, <3>1, <4>1, <4>3 DEF more
    <3>2. CASE i # 1
      <4>1. i - 1 \in 1 .. n
        BY <1>1, <3>2
      <4> QED BY <1>6, <1>10, <3>2, <4>1
    <3> QED BY <3>1, <3>2
  <2>2. DOMAIN t = 1 .. n
    OBVIOUS
  <2> HIDE DEF t
  <2>3. t = [i \in 1 .. n |-> t[i]]
    BY DEF t
  <2> QED BY <2>1, <2>3
<1> DEFINE flatten == CHOOSE u : Recurs(u)
<1>12. Recurs(flatten)
  <2> HIDE DEF Recurs, t
  <2> QED BY <1>11
<1>13. n # 0 => Offered(written) = flatten[n]
  BY <1>7, <1>8 DEF FlattenSeq
<1> HIDE DEF flatten
<1>14. \A i \in 1 .. n : flatten[i] = IF i = 1 THEN each[i] ELSE flatten[i - 1] \o each[i]
  BY <1>12
<1> HIDE DEF Recurs
<1> DEFINE S == {i \in Nat : i \in 1 .. n => flatten[i] = h[i]}
<1>15. S = Nat
  <2>1. 0 \in S
    OBVIOUS
  <2>2. ASSUME NEW m \in S PROVE m + 1 \in S
    <3> SUFFICES ASSUME m + 1 \in 1 .. n PROVE flatten[m + 1] = h[m + 1]
      OBVIOUS
    <3>1. (m + 1) - 1 = m /\ m \in Nat
      OBVIOUS
    <3>2. t[m + 1] = h[m + 1] /\ t[m + 1] = IF m + 1 = 1 THEN each[m + 1] ELSE t[m] \o each[m + 1]
      <4>1. \A i \in 1 .. n : t[i] = IF i = 1 THEN each[i] ELSE t[i - 1] \o each[i]
        <5> HIDE DEF t
        <5> QED BY <1>11 DEF Recurs
      <4> QED BY <3>1, <4>1
    <3>3. CASE m = 0
      BY <1>14, <3>1, <3>2, <3>3
    <3>4. CASE m # 0
      <4>1. m \in 1 .. n
        BY <1>1, <3>1, <3>4
      <4>2. flatten[m] = h[m] /\ t[m] = h[m]
        BY <4>1
      <4> QED BY <1>14, <3>1, <3>2, <3>4, <4>2
    <3> QED BY <3>3, <3>4
  <2> HIDE DEF S
  <2>3. S \subseteq Nat
    BY DEF S
  <2> QED BY <2>1, <2>2, <2>3, Induction
<1>16. Offered(written) = h[n]
  <2>1. CASE n = 0
    <3>1. Offered(written) = each
      BY <1>7, <1>8, <2>1 DEF FlattenSeq
    <3>2. each = << >>
      <4>1. each = [i \in 1 .. 0 |-> EntriesOf(written[i])]
        BY <1>1, <2>1 DEF each
      <4> QED BY <4>1
    <3> QED BY <1>9, <2>1, <3>1, <3>2
  <2>2. CASE n # 0
    <3>1. n \in 1 .. n
      BY <1>1, <2>2
    <3> QED BY <1>13, <1>15, <2>2, <3>1
  <2> QED BY <2>1, <2>2
<1> QED BY <1>9, <1>10, <1>16 DEF V, n

LEMMA FoldSorts ==
  ASSUME NEW written \in Seq(AnyWritten)
  PROVE  /\ Offered(written) \in Seq(Entries) /\ Fold(written) \in Collected
         /\ Sorted(Offered(written), Fold(written))
<1> DEFINE n == Len(written)
<1>1. n \in Nat /\ \A i \in 1 .. n : written[i] \in AnyWritten
  BY LenProperties
<1>2. PICK folded : /\ folded[0] = [names |-> << >>, error |-> "none"] /\ Fold(written) = folded[n]
                    /\ \A j \in 1 .. n : folded[j] = FoldOne(folded[j - 1], written[j])
  BY FoldedIs
<1>3. PICK flatten : /\ flatten[0] = << >> /\ Offered(written) = flatten[n]
                     /\ \A i \in 0 .. n : flatten[i] \in Seq(Entries)
                     /\ \A i \in 1 .. n : flatten[i] = flatten[i - 1] \o EntriesOf(written[i])
  BY OfferedIs
<1> HIDE DEF n
<1> DEFINE S == {m \in Nat : m <= n => folded[m] \in Collected /\ Sorted(flatten[m], folded[m])}
<1>4. S = Nat
  <2>1. 0 \in S
    <3>1. folded[0] \in Collected /\ folded[0].names = << >> /\ folded[0].error = "none"
      <4>1. << >> \in Seq(Nat)
        OBVIOUS
      <4> QED BY <1>2, <4>1 DEF Collected
    <3>2. Sorted(<< >>, folded[0])
      BY <3>1, SortedNothing
    <3> QED BY <1>3, <3>1, <3>2
  <2>2. ASSUME NEW m \in S PROVE m + 1 \in S
    <3> SUFFICES ASSUME m + 1 <= n
                 PROVE  folded[m + 1] \in Collected /\ Sorted(flatten[m + 1], folded[m + 1])
      OBVIOUS
    <3>1. m \in 0 .. n /\ m + 1 \in 1 .. n /\ (m + 1) - 1 = m
      BY <1>1
    <3>2. folded[m] \in Collected /\ Sorted(flatten[m], folded[m])
      BY <3>1
    <3>3. folded[m + 1] = FoldOne(folded[m], written[m + 1]) /\ flatten[m + 1] = flatten[m] \o EntriesOf(written[m + 1])
      BY <1>2, <1>3, <3>1
    <3>4. written[m + 1] \in AnyWritten /\ flatten[m] \in Seq(Entries)
      BY <1>1, <1>3, <3>1
    <3> HIDE DEF S
    <3> QED BY <3>2, <3>3, <3>4, FoldOneSorts
  <2> HIDE DEF S
  <2>3. S \subseteq Nat
    BY DEF S
  <2> QED BY <2>1, <2>2, <2>3, Induction
<1>5. n \in 0 .. n /\ n \in S
  BY <1>1, <1>4
<1> QED BY <1>2, <1>3, <1>5

(* The names that are offered, when nothing is wrong with them.            *)
LEMMA NamesOffered ==
  ASSUME NEW offered \in Seq(Entries), NEW k \in Collected, Sorted(offered, k), Wrong(offered) = {}
  PROVE  /\ k.error = "none" /\ k.names \in Seq(Nat) /\ IsInjective(k.names)
         /\ k.names = [i \in DOMAIN offered |-> offered[i].name]
<1> DEFINE n == Len(offered)
<1>1. n \in Nat /\ DOMAIN offered = 1 .. n /\ \A i \in 1 .. n : offered[i] \in Entries
  BY LenProperties
<1>2. k.error = "none" /\ k.names = [i \in 1 .. n |-> offered[i].name]
  BY DEF Sorted
<1>3. k.names \in Seq(Nat)
  BY DEF Collected
<1> HIDE DEF n
<1>4. \A i \in 1 .. n : offered[i] = [is |-> "name", name |-> k.names[i]]
  <2> SUFFICES ASSUME NEW i \in 1 .. n PROVE offered[i] = [is |-> "name", name |-> k.names[i]]
    OBVIOUS
  <2>1. offered[i].is = "name"
    BY <1>1 DEF Wrong
  <2>2. offered[i] = [is |-> offered[i].is, name |-> offered[i].name]
    BY <1>1 DEF Entries
  <2>3. k.names[i] = offered[i].name
    BY <1>2
  <2> QED BY <2>1, <2>2, <2>3
<1>5. ASSUME NEW i \in 1 .. n, NEW j \in 1 .. n, k.names[i] = k.names[j], i < j PROVE FALSE
  <2>1. offered[i] = offered[j]
    BY <1>4, <1>5
  <2>2. i \in 1 .. j - 1 /\ j \in DOMAIN offered
    BY <1>1, <1>5
  <2>3. j \in Wrong(offered)
    BY <2>1, <2>2 DEF Wrong
  <2> QED BY <2>3
<1>6. ASSUME NEW i \in 1 .. n, NEW j \in 1 .. n, k.names[i] = k.names[j] PROVE i = j
  <2>1. i < j \/ j < i \/ i = j
    BY <1>1
  <2> QED BY <1>5, <1>6, <2>1
<1>7. IsInjective(k.names)
  <2>1. DOMAIN k.names = 1 .. n
    BY <1>2
  <2> QED BY <1>6, <2>1 DEF IsInjective
<1> QED BY <1>1, <1>2, <1>3, <1>7

(* A function that is called: its own, that of a method or of a class.     *)
LEMMA RunIsRight ==
  ASSUME NEW callee \in AnyCallee, NEW args \in Nat, NEW names \in Seq(Nat), IsInjective(names), HasFunction(callee)
  PROVE  LET r == RunFunction(callee, args, names)
             call == [bound |-> callee.is # "function", args |-> args, names |-> names]
         IN  /\ r.error = "none" <=> Legal(callee.f, call)
             /\ r.error = "none" => /\ BoundRight(callee.f, call, r.bound[1])
                                    /\ r.body = IF callee.f.generator THEN "suspended" ELSE "run"
                                    /\ r.gives = IF callee.is = "class" THEN "instance"
                                                 ELSE IF callee.f.generator THEN "generator" ELSE "returned"
             /\ r.error # "none" => Blamed(callee.f, call, r.error)
<1> DEFINE call == [bound |-> callee.is # "function", args |-> args, names |-> names]
           f == callee.f
           b == Bind(f, call)
           r == RunFunction(callee, args, names)
<1>1. f \in AnyShape
  BY DEF AnyCallee
<1>2. callee.is \in {"function", "method", "class"}
  BY DEF HasFunction
<1>3. CallOf(callee, args, names) = call
  <2>1. (callee.is \in {"method", "class"}) = (callee.is # "function")
    BY <1>2
  <2> QED BY <2>1 DEF CallOf
<1>4. AreArguments(call)
  <2>1. (callee.is # "function") \in BOOLEAN
    OBVIOUS
  <2> QED BY <2>1 DEF AreArguments
<1> HIDE DEF f, call
<1>5. /\ b.error = "none" <=> Legal(f, call)
      /\ IF b.error = "none" THEN BoundRight(f, call, b) ELSE Blamed(f, call, b.error)
  BY <1>1, <1>4, BindIsRight
<1>6. r = IF b.error # "none" THEN Fails(b.error)
          ELSE IF f.generator
            THEN Done(IF callee.is = "class" THEN "instance" ELSE "generator", "suspended", names, <<b>>)
          ELSE Done(IF callee.is = "class" THEN "instance" ELSE "returned", "run", names, <<b>>)
  BY <1>3 DEF RunFunction, f
<1> HIDE DEF b, r
<1>7. CASE b.error # "none"
  <2>1. r.error = b.error
    BY <1>6, <1>7 DEF Fails
  <2> QED BY <1>5, <1>7, <2>1 DEF f, r, call
<1>8. CASE b.error = "none"
  <2> DEFINE what == IF callee.is = "class" THEN "instance"
                     ELSE IF f.generator THEN "generator" ELSE "returned"
             body == IF f.generator THEN "suspended" ELSE "run"
  <2>1. r = [error |-> "none", gives |-> what, body |-> body, names |-> names, bound |-> <<b>>]
    BY <1>6, <1>8 DEF Done
  <2>2. r.error = "none" /\ r.gives = what /\ r.body = body /\ r.bound[1] = b
    <3> HIDE DEF what, body
    <3>1. r.error = "none" /\ r.gives = what /\ r.body = body /\ r.bound = <<b>>
      BY <2>1
    <3> QED BY <3>1
  <2> QED BY <1>5, <1>8, <2>2 DEF f, r, call
<1> QED BY <1>7, <1>8

(* A call is refused for what is wrong with it first, and does what it     *)
(* calls, with the arguments where the language puts them.                 *)
LEMMA CallIsRight ==
  ASSUME NEW callee \in AnyCallee, NEW args \in Nat, NEW written \in Seq(AnyWritten)
  PROVE  CallsAsMeant(callee, args, written, Invoke(callee, args, written))
<1> DEFINE offered == Offered(written)
           wrong == Wrong(offered)
           k == Fold(written)
           r == Invoke(callee, args, written)
           names == [i \in DOMAIN offered |-> offered[i].name]
           call == [bound |-> callee.is # "function", args |-> args, names |-> names]
<1>1. offered \in Seq(Entries) /\ k \in Collected /\ Sorted(offered, k)
  BY FoldSorts
<1>2. wrong \subseteq 1 .. Len(offered) /\ Len(offered) \in Nat
  BY <1>1, LenProperties DEF Wrong
<1>3. callee.is \in {"function", "method", "class", "number", "builtin", "exception"}
  BY DEF AnyCallee
<1>4. r = IF callee.is = "number" THEN Fails("not callable")
          ELSE IF k.error # "none" THEN Fails(k.error)
          ELSE IF callee.is = "builtin" THEN Done("returned", "run", k.names, << >>)
          ELSE IF callee.is = "exception"
            THEN IF k.names # << >> THEN Fails("no keywords") ELSE Done("instance", "not run", << >>, << >>)
          ELSE IF HasFunction(callee) THEN RunFunction(callee, args, k.names)
          ELSE IF args > 0 \/ k.names # << >> THEN Fails("no arguments")
          ELSE Done("instance", "not run", << >>, << >>)
  BY DEF Invoke
<1> HIDE DEF offered, wrong, k, r
<1>5. CASE callee.is = "number"
  <2>1. r.error = "not callable"
    BY <1>4, <1>5 DEF Fails
  <2> QED BY <1>5, <2>1 DEF CallsAsMeant, r
<1>6. CASE callee.is # "number" /\ wrong # {}
  <2> DEFINE first == CHOOSE i \in wrong : \A j \in wrong : i <= j
  <2>1. PICK i \in wrong : (\A j \in wrong : i <= j) /\ k.error = WhyWrong(offered, i)
    BY <1>1, <1>6 DEF Sorted, wrong
  <2>2. first \in wrong /\ \A j \in wrong : first <= j
    BY <2>1
  <2> HIDE DEF first
  <2>3. first = i
    <3>1. first <= i /\ i <= first /\ first \in Int /\ i \in Int
      BY <1>2, <2>1, <2>2
    <3> QED BY <3>1
  <2>4. k.error # "none"
    <3>1. offered[i].is \in {"not a string", "name", "not a mapping"}
      <4>1. offered[i] \in Entries
        BY <1>1, <1>2, LenProperties
      <4> QED BY <4>1 DEF Entries
    <3> QED BY <2>1, <3>1 DEF WhyWrong
  <2>5. r.error = WhyWrong(offered, first)
    BY <1>4, <1>6, <2>1, <2>3, <2>4 DEF Fails
  <2> QED BY <1>6, <2>5 DEF CallsAsMeant, r, wrong, offered, first
<1>7. CASE callee.is # "number" /\ wrong = {} /\ OtherInit(callee)
  BY <1>7 DEF CallsAsMeant, wrong, offered
<1>8. CASE callee.is # "number" /\ wrong = {} /\ ~OtherInit(callee)
  <2>1. k.error = "none" /\ k.names \in Seq(Nat) /\ IsInjective(k.names) /\ k.names = names
    BY <1>1, <1>8, NamesOffered DEF wrong
  <2> HIDE DEF names
  <2> DEFINE Given1 == IF callee.is \in {"class", "exception"} THEN "instance"
                      ELSE IF HasFunction(callee) /\ callee.f.generator THEN "generator" ELSE "returned"
             Fine == CASE HasFunction(callee) -> Legal(callee.f, call)
                       [] callee.is = "builtin" -> TRUE
                       [] callee.is = "exception" -> names = << >>
                       [] OTHER -> args = 0 /\ names = << >>
             Goal == /\ r.error = "none" => r.gives = Given1
                     /\ r.error = "none" <=> Fine
                     /\ HasFunction(callee) =>
                          IF r.error = "none"
                            THEN /\ BoundRight(callee.f, call, r.bound[1])
                                 /\ r.body = IF callee.f.generator THEN "suspended" ELSE "run"
                          ELSE Blamed(callee.f, call, r.error)
  <2> SUFFICES Goal
    BY <1>8 DEF CallsAsMeant, r, wrong, offered, names
  <2>2. CASE HasFunction(callee)
    <3>1. callee.is \in {"function", "method", "class"}
      BY <2>2 DEF HasFunction
    <3>2. r = RunFunction(callee, args, names)
      BY <1>4, <2>1, <2>2, <3>1
    <3> HIDE DEF call
    <3>3. /\ r.error = "none" <=> Legal(callee.f, call)
          /\ r.error = "none" => /\ BoundRight(callee.f, call, r.bound[1])
                                 /\ r.body = IF callee.f.generator THEN "suspended" ELSE "run"
                                 /\ r.gives = IF callee.is = "class" THEN "instance"
                                              ELSE IF callee.f.generator THEN "generator" ELSE "returned"
          /\ r.error # "none" => Blamed(callee.f, call, r.error)
      BY <2>1, <2>2, <3>2, RunIsRight DEF call
    <3>4. Fine <=> Legal(callee.f, call)
      BY <2>2, <3>1
    <3>5. r.error = "none" => r.gives = Given1
      BY <2>2, <3>1, <3>3
    <3> HIDE DEF Fine, Given1
    <3> QED BY <2>2, <3>3, <3>4, <3>5
  <2>3. CASE ~HasFunction(callee) /\ callee.is = "builtin"
    <3>1. r = Done("returned", "run", k.names, << >>)
      BY <1>4, <2>1, <2>3
    <3>2. r.error = "none" /\ r.gives = "returned"
      BY <3>1 DEF Done
    <3> QED BY <2>3, <3>2
  <2>4. CASE ~HasFunction(callee) /\ callee.is = "exception"
    <3>1. r = IF names # << >> THEN Fails("no keywords") ELSE Done("instance", "not run", << >>, << >>)
      BY <1>4, <2>1, <2>4
    <3>2. IF names # << >> THEN r.error = "no keywords" ELSE r.error = "none" /\ r.gives = "instance"
      BY <3>1 DEF Done, Fails
    <3> QED BY <2>4, <3>2
  <2>5. CASE ~HasFunction(callee) /\ callee.is \notin {"builtin", "exception"}
    <3>1. callee.is = "class"
      BY <1>3, <1>8, <2>5 DEF HasFunction
    <3>2. r = IF args > 0 \/ names # << >> THEN Fails("no arguments") ELSE Done("instance", "not run", << >>, << >>)
      BY <1>4, <2>1, <2>5, <3>1
    <3>3. IF args > 0 \/ names # << >> THEN r.error = "no arguments" ELSE r.error = "none" /\ r.gives = "instance"
      BY <3>2 DEF Done, Fails
    <3>4. args > 0 <=> args # 0
      OBVIOUS
    <3> QED BY <2>5, <3>1, <3>3, <3>4
  <2> QED BY <1>3, <2>2, <2>3, <2>4, <2>5
<1> QED BY <1>5, <1>6, <1>7, <1>8

-----------------------------------------------------------------------------
(* Attributes, after any history of what was bound and deleted.            *)

Storable == [is : {"missing", "function", "other"}, at : Nat]
States == [own : [Holders -> [Names -> Storable]], refused : Seq(BOOLEAN)]

LEMMA PerformIs ==
  ASSUME NEW s \in States, NEW op \in AnyOperation
  PROVE  LET t == Perform(s, op)
         IN  /\ t \in States
             /\ \A o \in Holders, n \in Names :
                  t.own[o][n] = IF op.on = o /\ op.name = n
                                  THEN IF op.do = "set" THEN op.value ELSE Missing
                                ELSE s.own[o][n]
             /\ t.refused = Append(s.refused, op.do = "delete" /\ s.own[op.on][op.name] = Missing)
<1> DEFINE t == Perform(s, op)
           v == IF op.do = "set" THEN op.value ELSE Missing
           own == [s.own EXCEPT ![op.on][op.name] = v]
           no == op.do = "delete" /\ s.own[op.on][op.name] = Missing
<1>1. /\ op.on \in Holders /\ op.name \in Names /\ op.value \in AnyValue
      /\ s.own \in [Holders -> [Names -> Storable]] /\ s.refused \in Seq(BOOLEAN)
  BY DEF AnyOperation, States
<1>2. v \in Storable
  <2>1. op.value \in Storable
    BY <1>1 DEF AnyValue, Storable
  <2>2. Missing \in Storable
    BY DEF Missing, Storable
  <2> QED BY <2>1, <2>2
<1>3. no \in BOOLEAN
  OBVIOUS
<1>4. t = [own |-> own, refused |-> Append(s.refused, no)]
  BY DEF Perform
<1> HIDE DEF v, no
<1>5. own \in [Holders -> [Names -> Storable]]
  BY <1>1, <1>2
<1>6. \A o \in Holders, n \in Names : own[o][n] = IF op.on = o /\ op.name = n THEN v ELSE s.own[o][n]
  BY <1>1
<1> DEFINE app == Append(s.refused, no)
<1>7. app \in Seq(BOOLEAN)
  BY <1>1, <1>3, AppendProperties
<1> HIDE DEF own, app, t
<1>8. t \in States /\ t.own = own /\ t.refused = app
  BY <1>4, <1>5, <1>7 DEF States, app
<1> QED BY <1>6, <1>8 DEF t, v, app, no

LEMMA AfterIs ==
  ASSUME NEW history \in Seq(AnyOperation)
  PROVE  \E after : /\ after[0] = NothingYet /\ After(history) = after[Len(history)]
                    /\ \A k \in 0 .. Len(history) : after[k] \in States
                    /\ \A k \in 1 .. Len(history) : after[k] = Perform(after[k - 1], history[k])
<1> DEFINE n == Len(history)
           V == States
           Recurs(t) == t = [k \in 0 .. n |-> IF k = 0 THEN NothingYet ELSE Perform(t[k - 1], history[k])]
           step == [i \in Nat |-> [v \in V |-> IF i + 1 \in 1 .. n THEN Perform(v, history[i + 1]) ELSE v]]
<1>1. n \in Nat /\ \A i \in 1 .. n : history[i] \in AnyOperation
  BY LenProperties
<1>2. step \in Steps(V)
  <2> SUFFICES ASSUME NEW i \in Nat, NEW v \in V, i + 1 \in 1 .. n
               PROVE  Perform(v, history[i + 1]) \in V
    BY DEF Steps
  <2>1. history[i + 1] \in AnyOperation
    BY <1>1
  <2> QED BY <2>1, PerformIs
<1>3. \A i \in Nat, v \in V : step[i][v] = IF i + 1 \in 1 .. n THEN Perform(v, history[i + 1]) ELSE v
  OBVIOUS
<1>4. NothingYet \in V
  <2>1. << >> \in Seq(BOOLEAN)
    OBVIOUS
  <2>2. Missing \in Storable
    BY DEF Missing, Storable
  <2>3. [o \in Holders |-> [m \in Names |-> Missing]] \in [Holders -> [Names -> Storable]]
    BY <2>2
  <2> QED BY <2>1, <2>3 DEF NothingYet, States
<1> HIDE DEF V, step, n
<1>5. PICK h : /\ h = [k \in 0 .. n |-> h[k]] /\ h[0] = NothingYet /\ \A k \in 0 .. n : h[k] \in V
               /\ \A k \in 1 .. n : h[k] = step[k - 1][h[k - 1]]
  BY <1>1, <1>2, <1>4, RecursiveUpto
<1>6. \A k \in 1 .. n : h[k] = Perform(h[k - 1], history[k])
  <2> SUFFICES ASSUME NEW k \in 1 .. n PROVE h[k] = Perform(h[k - 1], history[k])
    OBVIOUS
  <2>1. k - 1 \in Nat /\ k - 1 \in 0 .. n /\ (k - 1) + 1 = k
    BY <1>1
  <2> QED BY <1>3, <1>5, <2>1, ZenonT(30)
<1>7. Recurs(h)
  <2>1. ASSUME NEW k \in 0 .. n PROVE h[k] = IF k = 0 THEN NothingYet ELSE Perform(h[k - 1], history[k])
    <3>1. k = 0 \/ k \in 1 .. n
      BY <1>1
    <3> QED BY <1>5, <1>6, <3>1
  <2> QED BY <1>5, <2>1
<1> DEFINE after == CHOOSE t : Recurs(t)
<1>8. Recurs(after)
  <2> HIDE DEF Recurs
  <2> QED BY <1>7
<1>9. After(history) = after[n]
  BY DEF After, n
<1> HIDE DEF after
<1>10. after[0] = NothingYet /\ \A k \in 1 .. n : after[k] = Perform(after[k - 1], history[k])
  <2>1. \A k \in 0 .. n : after[k] = IF k = 0 THEN NothingYet ELSE Perform(after[k - 1], history[k])
    BY <1>8
  <2> QED BY <1>1, <2>1
<1> HIDE DEF Recurs
<1> DEFINE S == {k \in Nat : k <= n => after[k] \in V}
<1>11. S = Nat
  <2>1. 0 \in S
    BY <1>4, <1>10
  <2>2. ASSUME NEW k \in S PROVE k + 1 \in S
    <3> SUFFICES ASSUME k + 1 <= n PROVE after[k + 1] \in V
      OBVIOUS
    <3>1. k + 1 \in 1 .. n /\ after[k] \in V /\ (k + 1) - 1 = k
      BY <1>1
    <3>2. after[k + 1] = Perform(after[k], history[k + 1])
      BY <1>10, <3>1
    <3> QED BY <1>1, <3>1, <3>2, PerformIs DEF V
  <2> HIDE DEF S
  <2>3. S \subseteq Nat
    BY DEF S
  <2> QED BY <2>1, <2>2, <2>3, Induction
<1>12. \A k \in 0 .. n : after[k] \in V
  BY <1>1, <1>11
<1> QED BY <1>9, <1>10, <1>12 DEF V, n

(* The last operation on a name decides what is bound under it.            *)
Newly(past, op, o, n) ==
  IF op.on = o /\ op.name = n THEN IF op.do = "set" THEN {op.value} ELSE {} ELSE BoundOn(past, o, n)

LEMMA BoundIs ==
  ASSUME NEW past \in Seq(AnyOperation), NEW op \in AnyOperation, NEW o, NEW n, NEW both, both = past \o <<op>>
  PROVE  BoundOn(both, o, n) = Newly(past, op, o, n)
<1> DEFINE m == Len(past)
<1>1. both \in Seq(AnyOperation) /\ m \in Nat /\ Len(both) = m + 1 /\ (\A i \in 1 .. m : both[i] = past[i]) /\ both[m + 1] = op
  BY OneAfter
<1>2. m \in Nat /\ DOMAIN past = 1 .. m
  BY LenProperties
<1>3. Len(both) = m + 1 /\ DOMAIN both = 1 .. m + 1 /\ both[m + 1] = op /\ \A i \in 1 .. m : both[i] = past[i]
  BY <1>1, LenProperties
<1> HIDE DEF m
<1>4. ASSUME NEW i PROVE i \in Latest(both, o, n) <=> IF op.on = o /\ op.name = n THEN i = m + 1 ELSE i \in Latest(past, o, n)
  <2>1. i \in Latest(both, o, n) <=>
          /\ i \in 1 .. m + 1 /\ both[i].on = o /\ both[i].name = n
          /\ \A j \in i + 1 .. m + 1 : both[j].on # o \/ both[j].name # n
    BY <1>3 DEF Latest
  <2>2. i \in Latest(past, o, n) <=>
          /\ i \in 1 .. m /\ past[i].on = o /\ past[i].name = n
          /\ \A j \in i + 1 .. m : past[j].on # o \/ past[j].name # n
    BY <1>2 DEF Latest, m
  <2>3. CASE i = m + 1
    <3>1. ~(i \in 1 .. m) /\ i \in 1 .. m + 1 /\ \A j : ~(j \in i + 1 .. m + 1)
      BY <1>2, <2>3
    <3>2. both[i] = op
      BY <1>3, <2>3
    <3> QED BY <2>1, <2>2, <2>3, <3>1, <3>2
  <2>4. CASE i \in 1 .. m
    <3>1. i \in 1 .. m + 1 /\ i # m + 1 /\ m + 1 \in i + 1 .. m + 1
      BY <1>2, <2>4
    <3>2. \A j \in i + 1 .. m : both[j] = past[j] /\ j \in i + 1 .. m + 1
      BY <1>2, <1>3, <2>4
    <3>3. \A j \in i + 1 .. m + 1 : j \in i + 1 .. m \/ j = m + 1
      BY <1>2, <2>4
    <3>4. both[i] = past[i]
      BY <1>3, <2>4
    <3> QED BY <1>3, <2>1, <2>2, <2>4, <3>1, <3>2, <3>3, <3>4
  <2>5. CASE i \notin 1 .. m /\ i # m + 1
    <3>1. i \notin 1 .. m + 1
      BY <1>2, <2>5
    <3> QED BY <2>1, <2>2, <2>5, <3>1
  <2> QED BY <2>3, <2>4, <2>5
<1>5. CASE op.on = o /\ op.name = n
  <2>1. Latest(both, o, n) = {m + 1}
    BY <1>4, <1>5
  <2>2. BoundOn(both, o, n) = IF op.do = "set" THEN {op.value} ELSE {}
    BY <1>3, <2>1 DEF BoundOn
  <2> QED BY <1>5, <2>2 DEF Newly
<1>6. CASE ~(op.on = o /\ op.name = n)
  <2>1. Latest(both, o, n) = Latest(past, o, n)
    BY <1>4, <1>6
  <2>2. \A i \in Latest(past, o, n) : both[i] = past[i]
    BY <1>2, <1>3 DEF Latest
  <2>3. BoundOn(both, o, n) = BoundOn(past, o, n)
    BY <2>1, <2>2 DEF BoundOn
  <2> QED BY <1>6, <2>3 DEF Newly
<1> QED BY <1>5, <1>6

Holds(past, own) ==
  \A o \in Holders, n \in Names :
    IF BoundOn(past, o, n) = {} THEN own[o][n] = Missing
    ELSE BoundOn(past, o, n) = {own[o][n]} /\ own[o][n] # Missing

LEMMA AfterHolds ==
  ASSUME NEW history \in Seq(AnyOperation)
  PROVE  /\ DOMAIN After(history).own = Holders
         /\ Holds(history, After(history).own) /\ After(history).refused = RefusedMeant(history)
<1> DEFINE n == Len(history)
           Past(k) == SubSeq(history, 1, k)
<1>1. n \in Nat /\ DOMAIN history = 1 .. n /\ \A i \in 1 .. n : history[i] \in AnyOperation
  BY LenProperties
<1>2. PICK after : /\ after[0] = NothingYet /\ After(history) = after[n]
                   /\ \A k \in 0 .. n : after[k] \in States
                   /\ \A k \in 1 .. n : after[k] = Perform(after[k - 1], history[k])
  BY AfterIs
<1> DEFINE Why(k) == history[k].do = "delete" /\ BoundOn(Past(k - 1), history[k].on, history[k].name) = {}
           Fine(k) == /\ Holds(Past(k), after[k].own)
                      /\ Len(after[k].refused) = k
                      /\ \A i \in 1 .. k : after[k].refused[i] = Why(i)
<1> HIDE DEF n
<1>3. ASSUME NEW k \in 0 .. n PROVE Past(k) \in Seq(AnyOperation) /\ Len(Past(k)) = k
  <2>1. \A i \in 1 .. k : i \in 1 .. n
    BY <1>1
  <2>2. Past(k) \in Seq(AnyOperation) /\ Len(Past(k)) = IF 1 <= k THEN (k - 1) + 1 ELSE 0
    BY <1>1, <2>1, SubSeqProperties DEF n
  <2> QED BY <1>1, <2>2
<1>4. ASSUME NEW k \in 0 .. n - 1 PROVE Past(k + 1) = Past(k) \o <<history[k + 1]>>
  <2> DEFINE u == Past(k)
             v == Past(k + 1)
  <2>1. u \in Seq(AnyOperation) /\ Len(u) = k /\ v \in Seq(AnyOperation) /\ Len(v) = k + 1
    BY <1>1, <1>3
  <2>2. \A i \in 1 .. k : u[i] = history[i]
    BY <1>1, <1>4, SubSeqProperties DEF n
  <2>3. \A i \in 1 .. k + 1 : v[i] = history[i]
    BY <1>1, <1>4, SubSeqProperties DEF n
  <2> HIDE DEF u, v
  <2>4. \A i \in 1 .. k : v[i] = u[i]
    BY <1>1, <2>2, <2>3
  <2>5. v = u \o <<v[k + 1]>> /\ v[k + 1] = history[k + 1]
    BY <1>1, <2>1, <2>3, <2>4, Grown
  <2> QED BY <2>5 DEF u, v
<1> DEFINE S == {k \in Nat : k <= n => Fine(k)}
<1>5. S = Nat
  <2>1. 0 \in S
    <3>1. after[0].refused = << >> /\ \A o \in Holders, m \in Names : after[0].own[o][m] = Missing
      BY <1>2 DEF NothingYet
    <3>2. Past(0) = << >>
      BY SubSeqEmpty, <1>1
    <3>3. \A o, m : BoundOn(<< >>, o, m) = {}
      BY DEF BoundOn, Latest
    <3> HIDE DEF Past
    <3>4. Holds(Past(0), after[0].own)
      BY <3>1, <3>2, <3>3 DEF Holds
    <3> QED BY <3>1, <3>4
  <2> HIDE DEF Fine
  <2>2. ASSUME NEW k \in S PROVE k + 1 \in S
    <3> SUFFICES ASSUME k + 1 <= n PROVE Fine(k + 1)
      OBVIOUS
    <3> DEFINE s == after[k]
               t == after[k + 1]
               op == history[k + 1]
               past == Past(k)
    <3>1. k \in Nat /\ k \in 0 .. n /\ k \in 0 .. n - 1 /\ k + 1 \in 1 .. n /\ k + 1 \in 0 .. n /\ (k + 1) - 1 = k
      BY <1>1
    <3>2. Fine(k)
      BY <3>1
    <3>3. t = Perform(s, op)
      BY <1>2, <3>1
    <3>4. s \in States /\ op \in AnyOperation
      BY <1>1, <1>2, <3>1
    <3>5. past \in Seq(AnyOperation) /\ Past(k + 1) = past \o <<op>>
      BY <1>3, <1>4, <3>1
    <3> HIDE DEF S, s, t, op, past
    <3>6. /\ \A o \in Holders, m \in Names :
               t.own[o][m] = IF op.on = o /\ op.name = m
                               THEN IF op.do = "set" THEN op.value ELSE Missing
                             ELSE s.own[o][m]
          /\ t.refused = Append(s.refused, op.do = "delete" /\ s.own[op.on][op.name] = Missing)
      BY <3>3, <3>4, PerformIs
    <3>7. Holds(past, s.own) /\ Len(s.refused) = k /\ \A i \in 1 .. k : s.refused[i] = Why(i)
      BY <3>2 DEF s, past, Fine
    <3>8. op.value # Missing /\ op.on \in Holders /\ op.name \in Names
      BY <3>4 DEF AnyOperation, AnyValue, Missing
    <3> DEFINE both == Past(k + 1)
    <3>9. ASSUME NEW o \in Holders, NEW m \in Names
          PROVE  IF BoundOn(both, o, m) = {} THEN t.own[o][m] = Missing
                 ELSE BoundOn(both, o, m) = {t.own[o][m]} /\ t.own[o][m] # Missing
      <4>1. BoundOn(both, o, m) = Newly(past, op, o, m)
        <5>1. past \in Seq(AnyOperation) /\ op \in AnyOperation /\ both = past \o <<op>>
          BY <3>4, <3>5
        <5> HIDE DEF both
        <5> QED BY <5>1, BoundIs
      <4>2. IF BoundOn(past, o, m) = {} THEN s.own[o][m] = Missing
            ELSE BoundOn(past, o, m) = {s.own[o][m]} /\ s.own[o][m] # Missing
        BY <3>7 DEF Holds
      <4> HIDE DEF both
      <4>3. CASE op.on = o /\ op.name = m
        BY <3>6, <3>8, <4>1, <4>3 DEF Newly
      <4>4. CASE ~(op.on = o /\ op.name = m)
        BY <3>6, <4>1, <4>2, <4>4 DEF Newly
      <4> QED BY <4>3, <4>4
    <3>10. Holds(Past(k + 1), t.own)
      <4> HIDE DEF both
      <4>1. Holds(both, t.own)
        BY <3>9 DEF Holds
      <4> QED BY <4>1 DEF both
    <3> DEFINE no == op.do = "delete" /\ s.own[op.on][op.name] = Missing
    <3>11. no \in BOOLEAN /\ no = Why(k + 1)
      <4>1. s.own[op.on][op.name] = Missing <=> BoundOn(past, op.on, op.name) = {}
        BY <3>7, <3>8 DEF Holds
      <4>2. Why(k + 1) = (op.do = "delete" /\ BoundOn(past, op.on, op.name) = {})
        BY <3>1 DEF op, past
      <4> HIDE DEF Past
      <4> QED BY <4>1, <4>2
    <3>12. s.refused \in Seq(BOOLEAN)
      BY <3>4 DEF States
    <3> DEFINE old == s.refused
    <3> HIDE DEF no, Past, Why, old
    <3>13. /\ Len(Append(old, no)) = k + 1 /\ \A i \in 1 .. k : Append(old, no)[i] = old[i]
           /\ Append(old, no)[k + 1] = no
      BY <3>7, <3>11, <3>12, AppendProperties DEF old
    <3>14. t.refused = Append(old, no)
      BY <3>6 DEF no, old
    <3>15. ASSUME NEW i \in 1 .. k + 1 PROVE t.refused[i] = Why(i)
      <4>1. i \in 1 .. k \/ i = k + 1
        BY <3>1
      <4> QED BY <3>7, <3>11, <3>13, <3>14, <4>1 DEF old
    <3> QED BY <3>10, <3>13, <3>14, <3>15 DEF t, Fine
  <2> HIDE DEF S
  <2>3. S \subseteq Nat
    BY DEF S
  <2> QED BY <2>1, <2>2, <2>3, Induction
<1>6. Fine(n)
  <2> HIDE DEF Fine
  <2>1. n \in S /\ n <= n
    BY <1>1, <1>5
  <2> QED BY <2>1
<1>7. Past(n) = history
  BY SubSeqFull DEF n
<1>8. after[n] \in States
  BY <1>1, <1>2
<1>9. Holds(history, after[n].own)
  BY <1>6, <1>7
<1>10. DOMAIN after[n].own = Holders /\ after[n].refused \in Seq(BOOLEAN)
  BY <1>8 DEF States
<1> DEFINE refused == after[n].refused
<1>11. refused = RefusedMeant(history)
  <2>1. Len(refused) = n /\ \A i \in 1 .. n : refused[i] = Why(i)
    BY <1>6
  <2>2. RefusedMeant(history) = [i \in 1 .. n |-> Why(i)]
    BY <1>1 DEF RefusedMeant
  <2> HIDE DEF Why, refused
  <2>3. DOMAIN refused = 1 .. n /\ refused = [i \in DOMAIN refused |-> refused[i]]
    BY <1>10, <2>1, LenProperties DEF refused
  <2> QED BY <2>1, <2>2, <2>3
<1> QED BY <1>2, <1>9, <1>10, <1>11

(* An attribute is what its history says it is.                            *)
LEMMA AttributeIsRight ==
  ASSUME NEW history, NEW own, Holds(history, own), NEW based \in BOOLEAN, NEW o \in Holders, NEW n \in Names
  PROVE  LET meant == AttributeMeant(history, based, o, n)
             found == Attribute(own, based, o, n)
         IN  IF meant = {} THEN found = Missing ELSE meant = {found}
<1> DEFINE meant == AttributeMeant(history, based, o, n)
           found == Attribute(own, based, o, n)
           Ours(c) == IF BoundOn(history, c, n) = {} THEN own[c][n] = Missing
                      ELSE BoundOn(history, c, n) = {own[c][n]} /\ own[c][n] # Missing
<1>1. Ours("base") /\ Ours("derived") /\ Ours("instance") /\ o \in {"base", "derived", "instance"}
  BY DEF Holds, Holders, Classes
<1>2. ASSUME NEW c \in Classes
      PROVE  LET chain == IF c = "base" THEN <<"base">> ELSE Chain(based)
                 near == Nearest(history, chain, n)
             IN  IF near = {} THEN Lookup(own, based, c, n) = Missing ELSE near = {Lookup(own, based, c, n)}
  <2> DEFINE chain == IF c = "base" THEN <<"base">> ELSE Chain(based)
             having == {i \in DOMAIN chain : BoundOn(history, chain[i], n) # {}}
             near == Nearest(history, chain, n)
  <2>1. near = IF having = {} THEN {}
               ELSE BoundOn(history, chain[CHOOSE i \in having : \A j \in having : i <= j], n)
    BY DEF Nearest
  <2>2. CASE c = "base" \/ ~based
    <3>1. chain = <<c>>
      BY <2>2 DEF Chain, Classes
    <3>2. DOMAIN chain = {1} /\ chain[1] = c
      BY <3>1
    <3> HIDE DEF chain
    <3>3. having = IF BoundOn(history, c, n) = {} THEN {} ELSE {1}
      BY <3>2
    <3>4. near = BoundOn(history, c, n)
      <4>1. CASE BoundOn(history, c, n) = {}
        BY <2>1, <3>3, <4>1
      <4>2. CASE BoundOn(history, c, n) # {}
        <5>1. having = {1}
          BY <3>3, <4>2
        <5> HIDE DEF having
        <5>2. (CHOOSE i \in having : \A j \in having : i <= j) = 1
          BY <5>1
        <5> QED BY <2>1, <3>2, <5>1, <5>2
      <4> QED BY <4>1, <4>2
    <3>5. Lookup(own, based, c, n) = own[c][n]
      BY <2>2 DEF Lookup
    <3>6. Ours(c)
      BY <1>1 DEF Classes
    <3> HIDE DEF near, having
    <3> QED BY <3>4, <3>5, <3>6 DEF near, chain
  <2>3. CASE c = "derived" /\ based
    <3>1. chain = <<"derived", "base">>
      BY <2>3 DEF Chain
    <3>2. DOMAIN chain = {1, 2} /\ chain[1] = "derived" /\ chain[2] = "base"
      BY <3>1
    <3> HIDE DEF chain
    <3>3. CASE BoundOn(history, "derived", n) # {}
      <4>1. 1 \in having /\ \A j \in having : 1 <= j
        BY <3>2, <3>3
      <4>2. \A i \in having : (\A j \in having : i <= j) => i = 1
        BY <3>2, <4>1
      <4> HIDE DEF having
      <4>3. (CHOOSE i \in having : \A j \in having : i <= j) = 1
        BY <4>1, <4>2
      <4>4. near = BoundOn(history, "derived", n)
        BY <2>1, <3>2, <4>1, <4>3
      <4>5. Lookup(own, based, c, n) = own["derived"][n]
        BY <1>1, <2>3, <3>3 DEF Lookup
      <4> HIDE DEF near
      <4> QED BY <1>1, <3>3, <4>4, <4>5 DEF near, chain
    <3>4. CASE BoundOn(history, "derived", n) = {} /\ BoundOn(history, "base", n) # {}
      <4>1. having = {2}
        BY <3>2, <3>4
      <4> HIDE DEF having
      <4>2. (CHOOSE i \in having : \A j \in having : i <= j) = 2
        BY <4>1
      <4>3. near = BoundOn(history, "base", n)
        BY <2>1, <3>2, <4>1, <4>2
      <4>4. Lookup(own, based, c, n) = own["base"][n]
        BY <1>1, <2>3, <3>4 DEF Lookup
      <4> HIDE DEF near
      <4> QED BY <1>1, <3>4, <4>3, <4>4 DEF near, chain
    <3>5. CASE BoundOn(history, "derived", n) = {} /\ BoundOn(history, "base", n) = {}
      <4>1. having = {}
        BY <3>2, <3>5
      <4>2. near = {}
        BY <2>1, <4>1
      <4>3. Lookup(own, based, c, n) = Missing
        BY <1>1, <2>3, <3>5 DEF Lookup
      <4> HIDE DEF near
      <4> QED BY <4>2, <4>3 DEF near, chain
    <3> QED BY <3>3, <3>4, <3>5
  <2> QED BY <2>2, <2>3 DEF Classes
<1>3. CASE o \in Classes
  <2> DEFINE near == Nearest(history, IF o = "base" THEN <<"base">> ELSE Chain(based), n)
  <2>1. IF near = {} THEN Lookup(own, based, o, n) = Missing ELSE near = {Lookup(own, based, o, n)}
    BY <1>2, <1>3
  <2>2. meant = IF n = "__name__" THEN {Itself(o)} ELSE near
    BY <1>3 DEF AttributeMeant
  <2>3. found = IF n = "__name__" THEN Itself(o) ELSE Lookup(own, based, o, n)
    BY <1>3 DEF Attribute
  <2> HIDE DEF near, meant, found
  <2> QED BY <2>1, <2>2, <2>3 DEF meant, found
<1>4. CASE o \notin Classes
  <2>1. o = "instance"
    BY <1>1, <1>4 DEF Classes
  <2> DEFINE near == Nearest(history, Chain(based), n)
             value == Lookup(own, based, "derived", n)
             mine == BoundOn(history, o, n)
  <2>2. IF near = {} THEN value = Missing ELSE near = {value}
    <3>1. "derived" \in Classes
      BY DEF Classes
    <3> QED BY <1>2, <3>1
  <2>3. meant = IF mine # {} THEN mine
                ELSE IF n = "__class__" THEN {Itself("derived")}
                ELSE {IF v.is = "function" THEN [v EXCEPT !.is = "method"] ELSE v : v \in near}
    BY <1>4, <2>1 DEF AttributeMeant
  <2>4. found = IF own[o][n] # Missing THEN own[o][n]
                ELSE IF n = "__class__" THEN Itself("derived") ELSE AsMethod(value)
    BY <1>4 DEF Attribute
  <2>5. IF mine = {} THEN own[o][n] = Missing ELSE mine = {own[o][n]} /\ own[o][n] # Missing
    BY <1>1, <2>1
  <2> HIDE DEF near, value, meant, found, mine
  <2>6. CASE mine # {} \/ n = "__class__"
    BY <2>3, <2>4, <2>5, <2>6 DEF meant, found
  <2>7. CASE mine = {} /\ n # "__class__" /\ near = {}
    <3>1. meant = {}
      BY <2>3, <2>7
    <3>2. found = AsMethod(Missing)
      BY <2>2, <2>4, <2>5, <2>7
    <3>3. AsMethod(Missing) = Missing
      BY DEF AsMethod, Missing
    <3> QED BY <3>1, <3>2, <3>3 DEF meant, found
  <2>8. CASE mine = {} /\ n # "__class__" /\ near # {}
    <3>1. near = {value}
      BY <2>2, <2>8
    <3>2. meant = {AsMethod(value)}
      BY <2>3, <2>8, <3>1 DEF AsMethod
    <3>3. found = AsMethod(value)
      BY <2>4, <2>5, <2>8
    <3> QED BY <3>2, <3>3 DEF meant, found
  <2> QED BY <2>6, <2>7, <2>8
<1> QED BY <1>3, <1>4

-----------------------------------------------------------------------------
(* A set as a table, and what it holds.                                    *)

LEMMA SetIs ==
  ASSUME NEW s \in AnySet
  PROVE  /\ s \in Seq(AnyMember) /\ Len(s) \in Nat /\ DOMAIN s = 1 .. Len(s)
         /\ \A i \in 1 .. Len(s) : s[i] \in AnyMember
         /\ \A k : HasKind(s, k) <=> k \in KindsOf(ToSet(s))
         /\ \A m, o \in ToSet(s) : m.kind = o.kind => m = o
         /\ ToSet(s) \subseteq AnyMember /\ IsInjective(s)
<1>1. s \in Seq(AnyMember) /\ \A i, j \in DOMAIN s : s[i].kind = s[j].kind => i = j
  BY DEF AnySet
<1>2. Len(s) \in Nat /\ DOMAIN s = 1 .. Len(s) /\ \A i \in 1 .. Len(s) : s[i] \in AnyMember
  BY <1>1, LenProperties
<1>3. \A k : HasKind(s, k) <=> k \in KindsOf(ToSet(s))
  BY DEF HasKind, KindsOf, ToSet
<1>4. \A m, o \in ToSet(s) : m.kind = o.kind => m = o
  BY <1>1 DEF ToSet
<1>5. ToSet(s) \subseteq AnyMember
  BY <1>2 DEF ToSet
<1>6. IsInjective(s)
  BY <1>1 DEF IsInjective
<1> QED BY <1>1, <1>2, <1>3, <1>4, <1>5, <1>6

LEMMA AppendIs ==
  ASSUME NEW S, NEW s \in Seq(S), NEW m \in S
  PROVE  /\ Append(s, m) \in Seq(S) /\ Len(Append(s, m)) = Len(s) + 1 /\ Len(s) \in Nat
         /\ \A i \in 1 .. Len(s) : Append(s, m)[i] = s[i]
         /\ Append(s, m)[Len(s) + 1] = m
         /\ DOMAIN Append(s, m) = 1 .. Len(s) + 1 /\ DOMAIN s = 1 .. Len(s)
         /\ ToSet(Append(s, m)) = ToSet(s) \union {m}
<1> DEFINE t == Append(s, m)
           n == Len(s)
<1>1. /\ t \in Seq(S) /\ Len(t) = n + 1 /\ n \in Nat
      /\ (\A i \in 1 .. n : t[i] = s[i]) /\ t[n + 1] = m
  BY AppendProperties, LenProperties
<1> HIDE DEF t
<1>2. DOMAIN t = 1 .. n + 1 /\ DOMAIN s = 1 .. n
  BY <1>1, LenProperties
<1> HIDE DEF n
<1>3. 1 .. n + 1 = (1 .. n) \union {n + 1}
  BY <1>1
<1>4. ToSet(t) = ToSet(s) \union {m}
  BY <1>1, <1>2, <1>3 DEF ToSet
<1> QED BY <1>1, <1>2, <1>4 DEF t, n

LEMMA AppendSet ==
  ASSUME NEW s \in AnySet, NEW m \in AnyMember, m.kind \notin KindsOf(ToSet(s))
  PROVE  Append(s, m) \in AnySet /\ ToSet(Append(s, m)) = ToSet(s) \union {m}
<1> DEFINE t == Append(s, m)
           n == Len(s)
<1>1. s \in Seq(AnyMember) /\ n \in Nat /\ \A i, j \in 1 .. n : s[i].kind = s[j].kind => i = j
  BY SetIs DEF AnySet
<1>2. /\ t \in Seq(AnyMember) /\ DOMAIN t = 1 .. n + 1 /\ (\A i \in 1 .. n : t[i] = s[i]) /\ t[n + 1] = m
      /\ ToSet(t) = ToSet(s) \union {m} /\ DOMAIN s = 1 .. n
  BY <1>1, AppendIs
<1>3. \A i \in 1 .. n : s[i].kind # m.kind
  BY <1>2 DEF KindsOf, ToSet
<1> HIDE DEF t, n
<1>4. ASSUME NEW i \in 1 .. n + 1, NEW j \in 1 .. n + 1, t[i].kind = t[j].kind PROVE i = j
  <2>1. i \in 1 .. n \/ i = n + 1
    BY <1>1
  <2>2. j \in 1 .. n \/ j = n + 1
    BY <1>1
  <2> QED BY <1>1, <1>2, <1>3, <1>4, <2>1, <2>2
<1>5. t \in AnySet
  BY <1>2, <1>4 DEF AnySet
<1> QED BY <1>2, <1>5 DEF t

LEMMA InsertIs ==
  ASSUME NEW s \in AnySet, NEW m \in AnyMember
  PROVE  /\ Insert(s, m) \in AnySet
         /\ ToSet(Insert(s, m)) = IF m.kind \in KindsOf(ToSet(s)) THEN ToSet(s) ELSE ToSet(s) \union {m}
<1>1. HasKind(s, m.kind) <=> m.kind \in KindsOf(ToSet(s))
  BY SetIs
<1> QED BY <1>1, AppendSet DEF Insert

(* Induction over the steps from 0 to n.                                   *)
LEMMA StepByStep ==
  ASSUME NEW n \in Nat, NEW S, 0 \in S, \A k \in 1 .. n : k - 1 \in S => k \in S
  PROVE  \A k \in 0 .. n : k \in S
<1> DEFINE T == {k \in Nat : k <= n => k \in S}
<1>1. 0 \in T
  OBVIOUS
<1>2. ASSUME NEW k \in T PROVE k + 1 \in T
  <2> SUFFICES ASSUME k + 1 <= n PROVE k + 1 \in S
    OBVIOUS
  <2>1. k \in Nat /\ k + 1 \in 1 .. n /\ (k + 1) - 1 = k /\ k \in S
    OBVIOUS
  <2> QED BY <2>1
<1>3. T \subseteq Nat
  OBVIOUS
<1> HIDE DEF T
<1>4. T = Nat
  BY <1>1, <1>2, <1>3, Induction
<1> QED BY <1>4 DEF T

LEMMA NothingIn ==
  /\ << >> \in AnySet /\ ToSet(<< >>) = {} /\ KindsOf({}) = {}
  /\ \A P : {<< >>[i] : i \in P \intersect (1 .. 0)} = {}
<1>1. << >> \in Seq(AnyMember) /\ DOMAIN << >> = {}
  OBVIOUS
<1> QED BY <1>1 DEF AnySet, ToSet, KindsOf

LEMMA PickedIs ==
  ASSUME NEW s \in AnySet, NEW P
  PROVE  Picked(s, P) \in AnySet /\ ToSet(Picked(s, P)) = {s[i] : i \in P \intersect DOMAIN s}
<1> DEFINE n == Len(s)
           Q == AnySet
           Next(v, k) == IF k \in P THEN Append(v, s[k]) ELSE v
           Recurs(t) == t = [k \in 0 .. n |-> IF k = 0 THEN << >> ELSE IF k \in P THEN Append(t[k - 1], s[k]) ELSE t[k - 1]]
           next == [k \in 1 .. n |-> [v \in Seq(AnyMember) |-> Next(v, k)]]
           Spot(k) == {s[i] : i \in P \intersect (1 .. k)}
<1>1. /\ s \in Seq(AnyMember) /\ n \in Nat /\ DOMAIN s = 1 .. n /\ \A i \in 1 .. n : s[i] \in AnyMember
      /\ \A i, j \in 1 .. n : s[i].kind = s[j].kind => i = j
  BY SetIs DEF AnySet
<1>2. next \in [1 .. n -> [Seq(AnyMember) -> Seq(AnyMember)]] /\ << >> \in Seq(AnyMember)
  <2>1. ASSUME NEW k \in 1 .. n, NEW v \in Seq(AnyMember) PROVE Next(v, k) \in Seq(AnyMember)
    BY <1>1, AppendProperties
  <2> HIDE DEF Next
  <2> QED BY <2>1
<1>3. \A k \in 1 .. n, v \in Seq(AnyMember) : next[k][v] = Next(v, k)
  OBVIOUS
<1> HIDE DEF next, n
<1> DEFINE V == Seq(AnyMember)
           start == << >>
<1>4. PICK h : Unrolled(h, n, V, start, next)
  <2>1. n \in Nat /\ start \in V /\ next \in [1 .. n -> [V -> V]]
    BY <1>1, <1>2
  <2> HIDE DEF V, start
  <2> QED BY <2>1, Unrolls
<1>5. \A k \in 1 .. n : k - 1 \in 0 .. n /\ h[k] = Next(h[k - 1], k)
  <2> HIDE DEF Next
  <2>1. ASSUME NEW k \in 1 .. n PROVE k - 1 \in 0 .. n
    BY <1>1
  <2> QED BY <1>3, <1>4, <2>1 DEF Unrolled
<1>6. Recurs(h)
  <2>1. ASSUME NEW k \in 0 .. n
        PROVE  h[k] = IF k = 0 THEN << >> ELSE IF k \in P THEN Append(h[k - 1], s[k]) ELSE h[k - 1]
    <3>1. k = 0 \/ k \in 1 .. n
      BY <1>1
    <3> QED BY <1>4, <1>5, <3>1 DEF Unrolled
  <2> QED BY <1>4, <2>1 DEF Unrolled
<1> DEFINE picked == CHOOSE t : Recurs(t)
<1>7. Recurs(picked)
  <2> HIDE DEF Recurs
  <2> QED BY <1>6
<1>8. Picked(s, P) = picked[n]
  BY DEF Picked, n
<1> HIDE DEF picked
<1>9. picked[0] = << >> /\ \A k \in 1 .. n : picked[k] = Next(picked[k - 1], k)
  <2>1. \A k \in 0 .. n : picked[k] = IF k = 0 THEN << >> ELSE IF k \in P THEN Append(picked[k - 1], s[k]) ELSE picked[k - 1]
    BY <1>7
  <2> QED BY <1>1, <2>1
<1> HIDE DEF Recurs
<1> DEFINE S == {k \in 0 .. n : picked[k] \in AnySet /\ ToSet(picked[k]) = Spot(k)}
<1>10. 0 \in S
  <2>1. Spot(0) = {}
    OBVIOUS
  <2> QED BY <1>1, <1>9, <2>1, NothingIn
<1>11. ASSUME NEW k \in 1 .. n, k - 1 \in S PROVE k \in S
  <2> DEFINE p == picked[k - 1]
             m == s[k]
  <2>1. p \in AnySet /\ ToSet(p) = Spot(k - 1) /\ m \in AnyMember /\ picked[k] = IF k \in P THEN Append(p, m) ELSE p
    BY <1>1, <1>9, <1>11
  <2>2. 1 .. k = (1 .. k - 1) \union {k} /\ k \in 0 .. n
    BY <1>1
  <2>3. Spot(k) = IF k \in P THEN Spot(k - 1) \union {m} ELSE Spot(k - 1)
    BY <2>2
  <2>4. m.kind \notin KindsOf(Spot(k - 1))
    BY <1>1, <2>2 DEF KindsOf
  <2> HIDE DEF p, m, Spot
  <2>5. k \in P => Append(p, m) \in AnySet /\ ToSet(Append(p, m)) = Spot(k - 1) \union {m}
    BY <2>1, <2>4, AppendSet
  <2> QED BY <2>1, <2>2, <2>3, <2>5
<1> HIDE DEF S
<1>12. n \in S
  <2>1. \A k \in 0 .. n : k \in S
    BY <1>1, <1>10, <1>11, StepByStep
  <2> QED BY <1>1, <2>1
<1> QED BY <1>1, <1>8, <1>12 DEF S

LEMMA TakeOutIs ==
  ASSUME NEW s \in AnySet, NEW m
  PROVE  /\ TakeOut(s, m) \in AnySet /\ ToSet(TakeOut(s, m)) = {x \in ToSet(s) : x.kind # m.kind}
<1> DEFINE places == {i \in DOMAIN s : s[i].kind # m.kind}
<1>1. Picked(s, places) \in AnySet /\ ToSet(Picked(s, places)) = {s[i] : i \in places \intersect DOMAIN s}
  BY PickedIs
<1>2. {s[i] : i \in places \intersect DOMAIN s} = {x \in ToSet(s) : x.kind # m.kind}
  BY DEF ToSet
<1> QED BY <1>1, <1>2 DEF TakeOut

LEMMA SomeIs ==
  ASSUME NEW x \in AnySet, NEW y
  PROVE  /\ InBoth(x, y) \in AnySet /\ ToSet(InBoth(x, y)) = {m \in ToSet(x) : m.kind \in KindsOf(ToSet(y))}
         /\ OnlyIn(x, y) \in AnySet /\ ToSet(OnlyIn(x, y)) = {m \in ToSet(x) : m.kind \notin KindsOf(ToSet(y))}
<1> DEFINE both == {i \in DOMAIN x : HasKind(y, x[i].kind)}
           only == {i \in DOMAIN x : ~HasKind(y, x[i].kind)}
<1>1. \A k : HasKind(y, k) <=> k \in KindsOf(ToSet(y))
  BY DEF HasKind, KindsOf, ToSet
<1>2. Picked(x, both) \in AnySet /\ ToSet(Picked(x, both)) = {x[i] : i \in both \intersect DOMAIN x}
  BY PickedIs
<1>3. Picked(x, only) \in AnySet /\ ToSet(Picked(x, only)) = {x[i] : i \in only \intersect DOMAIN x}
  BY PickedIs
<1>4. {x[i] : i \in both \intersect DOMAIN x} = {m \in ToSet(x) : m.kind \in KindsOf(ToSet(y))}
  BY <1>1 DEF ToSet
<1>5. {x[i] : i \in only \intersect DOMAIN x} = {m \in ToSet(x) : m.kind \notin KindsOf(ToSet(y))}
  BY <1>1 DEF ToSet
<1> QED BY <1>2, <1>3, <1>4, <1>5 DEF InBoth, OnlyIn

(* The copies that a sequence of members brings: the first of each kind.   *)
FirstAt(ms, i) == \A j \in 1 .. i - 1 : ms[j].kind # ms[i].kind
Firsts(ms) == {ms[i] : i \in {i \in DOMAIN ms : FirstAt(ms, i)}}

LEMMA FirstsAre ==
  ASSUME NEW ms \in Seq(AnyMember)
  PROVE  /\ KindsOf(Firsts(ms)) = KindsOf(ToSet(ms)) /\ Firsts(ms) \subseteq ToSet(ms) /\ Firsts(ms) \subseteq AnyMember
         /\ \A m, o \in Firsts(ms) : m.kind = o.kind => m = o
<1>1. Len(ms) \in Nat /\ DOMAIN ms = 1 .. Len(ms) /\ \A i \in 1 .. Len(ms) : ms[i] \in AnyMember
  BY LenProperties
<1> DEFINE n == Len(ms)
<1> HIDE DEF n
<1>2. Firsts(ms) \subseteq ToSet(ms) /\ Firsts(ms) \subseteq AnyMember
  BY <1>1 DEF Firsts, ToSet
<1>3. ASSUME NEW i \in 1 .. n PROVE \E m \in Firsts(ms) : m.kind = ms[i].kind
  <2> DEFINE same == {j \in 1 .. n : ms[j].kind = ms[i].kind}
  <2>1. same \in SUBSET Nat /\ i \in same /\ n \in Nat
    BY <1>1 DEF n
  <2> HIDE DEF same
  <2>2. PICK j \in same : \A l \in same : j <= l
    BY <2>1, LeastNatural
  <2>3. j \in 1 .. n /\ ms[j].kind = ms[i].kind
    BY <2>2 DEF same
  <2>4. FirstAt(ms, j)
    <3>1. ASSUME NEW l \in 1 .. j - 1 PROVE ms[l].kind # ms[j].kind
      <4>1. l \in 1 .. n /\ ~(j <= l)
        BY <2>1, <2>3
      <4>2. l \notin same
        BY <2>2, <4>1
      <4> QED BY <2>3, <4>1, <4>2 DEF same
    <3> QED BY <3>1 DEF FirstAt
  <2> QED BY <1>1, <2>3, <2>4 DEF Firsts, n
<1>4. KindsOf(Firsts(ms)) = KindsOf(ToSet(ms))
  <2>1. KindsOf(ToSet(ms)) \subseteq KindsOf(Firsts(ms))
    BY <1>1, <1>3 DEF KindsOf, ToSet, n
  <2> QED BY <1>2, <2>1 DEF KindsOf
<1>5. ASSUME NEW i \in 1 .. n, NEW j \in 1 .. n, FirstAt(ms, i), FirstAt(ms, j), ms[i].kind = ms[j].kind
      PROVE  i = j
  <2>1. i \notin 1 .. j - 1 /\ j \notin 1 .. i - 1
    BY <1>5 DEF FirstAt
  <2> QED BY <1>1, <2>1 DEF n
<1>6. \A m, o \in Firsts(ms) : m.kind = o.kind => m = o
  BY <1>1, <1>5 DEF Firsts, n
<1> QED BY <1>2, <1>4, <1>6

(* One member after the other.                                             *)
LEMMA InsertAllGoes ==
  ASSUME NEW set \in AnySet, NEW ms \in Seq(AnyMember)
  PROVE  \E h : /\ h[0] = set /\ InsertAll(set, ms) = h[Len(ms)] /\ \A k \in 0 .. Len(ms) : h[k] \in AnySet
                /\ \A k \in 1 .. Len(ms) : k - 1 \in 0 .. Len(ms) /\ h[k] = Insert(h[k - 1], ms[k])
<1> DEFINE n == Len(ms)
           W == AnySet
           start == set
           Next(v, k) == Insert(v, ms[k])
           Recurs(t) == t = [k \in 0 .. n |-> IF k = 0 THEN start ELSE Insert(t[k - 1], ms[k])]
           next == [k \in 1 .. n |-> [v \in W |-> Next(v, k)]]
<1>1. n \in Nat /\ start \in W
  BY LenProperties
<1>2. ASSUME NEW k \in 1 .. n, NEW v \in W PROVE Next(v, k) \in W
  BY <1>2, InsertIs, LenProperties
<1>3. next \in [1 .. n -> [W -> W]]
  <2> HIDE DEF Next, n, W
  <2> QED BY <1>2
<1>4. \A k \in 1 .. n, v \in W : next[k][v] = Next(v, k)
  OBVIOUS
<1> HIDE DEF next, n, W, start
<1>5. PICK h : Unrolled(h, n, W, start, next)
  BY <1>1, <1>3, Unrolls
<1>6. \A k \in 1 .. n : k - 1 \in 0 .. n /\ h[k] = Next(h[k - 1], k)
  <2> HIDE DEF Next
  <2>1. ASSUME NEW k \in 1 .. n PROVE k - 1 \in 0 .. n
    BY <1>1
  <2> QED BY <1>4, <1>5, <2>1 DEF Unrolled
<1>7. Recurs(h)
  <2>1. ASSUME NEW k \in 0 .. n
        PROVE  h[k] = IF k = 0 THEN start ELSE Insert(h[k - 1], ms[k])
    <3>1. k = 0 \/ k \in 1 .. n
      BY <1>1
    <3> QED BY <1>5, <1>6, <3>1 DEF Unrolled
  <2> QED BY <1>5, <2>1 DEF Unrolled
<1> DEFINE last == CHOOSE t : Recurs(t)
<1>8. Recurs(last)
  <2> HIDE DEF Recurs
  <2> QED BY <1>7
<1>9. InsertAll(set, ms) = last[n]
  BY DEF InsertAll, n, start
<1> HIDE DEF last
<1>10. last[0] = start /\ \A k \in 1 .. n : last[k] = Next(last[k - 1], k)
  <2>1. \A k \in 0 .. n : last[k] = IF k = 0 THEN start ELSE Insert(last[k - 1], ms[k])
    BY <1>8
  <2> QED BY <1>1, <2>1
<1> HIDE DEF Recurs
<1> DEFINE S == {k \in 0 .. n : last[k] \in W}
<1>11. \A k \in 0 .. n : k \in S
  <2>1. 0 \in S
    BY <1>1, <1>10
  <2>2. ASSUME NEW k \in 1 .. n, k - 1 \in S PROVE k \in S
    <3> HIDE DEF Next
    <3>1. last[k] \in W
      BY <1>2, <1>10, <2>2
    <3> QED BY <1>1, <3>1
  <2> HIDE DEF S
  <2> QED BY <1>1, <2>1, <2>2, StepByStep
<1>12. \A k \in 0 .. n : last[k] \in W
  BY <1>11
<1>13. \A k \in 1 .. n : k - 1 \in 0 .. n
  BY <1>1
<1> HIDE DEF S
<1> QED BY <1>9, <1>10, <1>12, <1>13 DEF n, W, start


LEMMA TakeOutAllGoes ==
  ASSUME NEW set \in AnySet, NEW ms \in Seq(AnyMember)
  PROVE  \E h : /\ h[0] = set /\ TakeOutAll(set, ms) = h[Len(ms)] /\ \A k \in 0 .. Len(ms) : h[k] \in AnySet
                /\ \A k \in 1 .. Len(ms) : k - 1 \in 0 .. Len(ms) /\ h[k] = TakeOut(h[k - 1], ms[k])
<1> DEFINE n == Len(ms)
           W == AnySet
           start == set
           Next(v, k) == TakeOut(v, ms[k])
           Recurs(t) == t = [k \in 0 .. n |-> IF k = 0 THEN start ELSE TakeOut(t[k - 1], ms[k])]
           next == [k \in 1 .. n |-> [v \in W |-> Next(v, k)]]
<1>1. n \in Nat /\ start \in W
  BY LenProperties
<1>2. ASSUME NEW k \in 1 .. n, NEW v \in W PROVE Next(v, k) \in W
  BY <1>2, TakeOutIs
<1>3. next \in [1 .. n -> [W -> W]]
  <2> HIDE DEF Next, n, W
  <2> QED BY <1>2
<1>4. \A k \in 1 .. n, v \in W : next[k][v] = Next(v, k)
  OBVIOUS
<1> HIDE DEF next, n, W, start
<1>5. PICK h : Unrolled(h, n, W, start, next)
  BY <1>1, <1>3, Unrolls
<1>6. \A k \in 1 .. n : k - 1 \in 0 .. n /\ h[k] = Next(h[k - 1], k)
  <2> HIDE DEF Next
  <2>1. ASSUME NEW k \in 1 .. n PROVE k - 1 \in 0 .. n
    BY <1>1
  <2> QED BY <1>4, <1>5, <2>1 DEF Unrolled
<1>7. Recurs(h)
  <2>1. ASSUME NEW k \in 0 .. n
        PROVE  h[k] = IF k = 0 THEN start ELSE TakeOut(h[k - 1], ms[k])
    <3>1. k = 0 \/ k \in 1 .. n
      BY <1>1
    <3> QED BY <1>5, <1>6, <3>1 DEF Unrolled
  <2> QED BY <1>5, <2>1 DEF Unrolled
<1> DEFINE last == CHOOSE t : Recurs(t)
<1>8. Recurs(last)
  <2> HIDE DEF Recurs
  <2> QED BY <1>7
<1>9. TakeOutAll(set, ms) = last[n]
  BY DEF TakeOutAll, n, start
<1> HIDE DEF last
<1>10. last[0] = start /\ \A k \in 1 .. n : last[k] = Next(last[k - 1], k)
  <2>1. \A k \in 0 .. n : last[k] = IF k = 0 THEN start ELSE TakeOut(last[k - 1], ms[k])
    BY <1>8
  <2> QED BY <1>1, <2>1
<1> HIDE DEF Recurs
<1> DEFINE S == {k \in 0 .. n : last[k] \in W}
<1>11. \A k \in 0 .. n : k \in S
  <2>1. 0 \in S
    BY <1>1, <1>10
  <2>2. ASSUME NEW k \in 1 .. n, k - 1 \in S PROVE k \in S
    <3> HIDE DEF Next
    <3>1. last[k] \in W
      BY <1>2, <1>10, <2>2
    <3> QED BY <1>1, <3>1
  <2> HIDE DEF S
  <2> QED BY <1>1, <2>1, <2>2, StepByStep
<1>12. \A k \in 0 .. n : last[k] \in W
  BY <1>11
<1>13. \A k \in 1 .. n : k - 1 \in 0 .. n
  BY <1>1
<1> HIDE DEF S
<1> QED BY <1>9, <1>10, <1>12, <1>13 DEF n, W, start

LEMMA InsertAllIs ==
  ASSUME NEW set \in AnySet, NEW ms \in Seq(AnyMember)
  PROVE  /\ InsertAll(set, ms) \in AnySet
         /\ ToSet(InsertAll(set, ms)) = ToSet(set) \union {m \in Firsts(ms) : m.kind \notin KindsOf(ToSet(set))}
<1> DEFINE n == Len(ms)
           old == KindsOf(ToSet(set))
           New(k) == {i \in 1 .. k : FirstAt(ms, i) /\ ms[i].kind \notin old}
           Spot(k) == ToSet(set) \union {ms[i] : i \in New(k)}
<1>1. n \in Nat /\ DOMAIN ms = 1 .. n /\ \A i \in 1 .. n : ms[i] \in AnyMember
  BY LenProperties
<1>2. PICK h : /\ h[0] = set /\ InsertAll(set, ms) = h[n] /\ \A k \in 0 .. n : h[k] \in AnySet
               /\ \A k \in 1 .. n : k - 1 \in 0 .. n /\ h[k] = Insert(h[k - 1], ms[k])
  BY InsertAllGoes
<1> HIDE DEF n
<1> DEFINE S == {k \in 0 .. n : ToSet(h[k]) = Spot(k)}
<1>3. 0 \in S
  <2>1. New(0) = {} /\ 0 \in 0 .. n
    BY <1>1
  <2> HIDE DEF New
  <2> QED BY <1>2, <2>1
<1>4. ASSUME NEW k \in 1 .. n, k - 1 \in S PROVE k \in S
  <2> DEFINE p == h[k - 1]
             m == ms[k]
             here == KindsOf(ToSet(p))
  <2>1. p \in AnySet /\ m \in AnyMember /\ ToSet(p) = Spot(k - 1) /\ h[k] = Insert(p, m)
    BY <1>1, <1>2, <1>4
  <2>2. ToSet(h[k]) = IF m.kind \in here THEN Spot(k - 1) ELSE Spot(k - 1) \union {m}
    <3> HIDE DEF p, m
    <3> QED BY <2>1, InsertIs
  <2>3. k \in 0 .. n /\ 1 .. k = (1 .. k - 1) \union {k}
    BY <1>1
  <2>4. ASSUME NEW i \in 1 .. k - 1, ms[i].kind \notin old PROVE ms[i].kind \in here
    <3> DEFINE same == {j \in 1 .. k - 1 : ms[j].kind = ms[i].kind}
    <3>1. same \in SUBSET Nat /\ i \in same
      OBVIOUS
    <3> HIDE DEF same
    <3>2. PICK j \in same : \A l \in same : j <= l
      BY <3>1, LeastNatural
    <3>3. j \in 1 .. k - 1 /\ ms[j].kind = ms[i].kind
      BY <3>2 DEF same
    <3>4. \A l \in 1 .. j - 1 : l \in 1 .. k - 1 /\ ~(j <= l)
      BY <3>3
    <3>5. FirstAt(ms, j)
      BY <3>2, <3>3, <3>4 DEF FirstAt, same
    <3> QED BY <2>1, <2>4, <3>3, <3>5 DEF KindsOf
  <2>5. m.kind \in here <=> m.kind \in old \/ ~FirstAt(ms, k)
    <3>1. m.kind \in old => m.kind \in here
      BY <2>1 DEF KindsOf
    <3>2. ~FirstAt(ms, k) /\ m.kind \notin old => m.kind \in here
      BY <2>4 DEF FirstAt
    <3>3. m.kind \in here => m.kind \in old \/ ~FirstAt(ms, k)
      BY <2>1 DEF KindsOf, FirstAt
    <3> QED BY <3>1, <3>2, <3>3
  <2>6. New(k) = IF m.kind \in here THEN New(k - 1) ELSE New(k - 1) \union {k}
    BY <2>3, <2>5
  <2> HIDE DEF New, here
  <2>7. Spot(k) = IF m.kind \in here THEN Spot(k - 1) ELSE Spot(k - 1) \union {m}
    BY <2>6
  <2> QED BY <2>2, <2>3, <2>7
<1> HIDE DEF S
<1>5. n \in S
  <2>1. \A k \in 0 .. n : k \in S
    BY <1>1, <1>3, <1>4, StepByStep
  <2> QED BY <1>1, <2>1
<1>6. ToSet(h[n]) = Spot(n) /\ n \in 0 .. n
  BY <1>1, <1>5 DEF S
<1>7. Spot(n) = ToSet(set) \union {m \in Firsts(ms) : m.kind \notin old}
  BY <1>1 DEF Firsts
<1> QED BY <1>2, <1>6, <1>7

LEMMA TakeOutAllIs ==
  ASSUME NEW set \in AnySet, NEW ms \in Seq(AnyMember)
  PROVE  /\ TakeOutAll(set, ms) \in AnySet
         /\ ToSet(TakeOutAll(set, ms)) = {m \in ToSet(set) : m.kind \notin KindsOf(ToSet(ms))}
<1> DEFINE n == Len(ms)
           Spot(k) == {m \in ToSet(set) : \A i \in 1 .. k : m.kind # ms[i].kind}
<1>1. n \in Nat /\ DOMAIN ms = 1 .. n
  BY LenProperties
<1>2. PICK h : /\ h[0] = set /\ TakeOutAll(set, ms) = h[n] /\ \A k \in 0 .. n : h[k] \in AnySet
               /\ \A k \in 1 .. n : k - 1 \in 0 .. n /\ h[k] = TakeOut(h[k - 1], ms[k])
  BY TakeOutAllGoes
<1> HIDE DEF n
<1> DEFINE S == {k \in 0 .. n : ToSet(h[k]) = Spot(k)}
<1>3. 0 \in S
  BY <1>1, <1>2
<1>4. ASSUME NEW k \in 1 .. n, k - 1 \in S PROVE k \in S
  <2> DEFINE p == h[k - 1]
             m == ms[k]
  <2>1. p \in AnySet /\ ToSet(p) = Spot(k - 1) /\ h[k] = TakeOut(p, m)
    BY <1>2, <1>4
  <2>2. ToSet(h[k]) = {x \in Spot(k - 1) : x.kind # m.kind}
    <3> HIDE DEF p, m
    <3> QED BY <2>1, TakeOutIs
  <2>3. k \in 0 .. n /\ 1 .. k = (1 .. k - 1) \union {k}
    BY <1>1
  <2> QED BY <2>2, <2>3
<1> HIDE DEF S
<1>5. n \in S
  <2>1. \A k \in 0 .. n : k \in S
    BY <1>1, <1>3, <1>4, StepByStep
  <2> QED BY <1>1, <2>1
<1>6. ToSet(h[n]) = Spot(n) /\ n \in 0 .. n
  BY <1>1, <1>5 DEF S
<1>7. Spot(n) = {m \in ToSet(set) : m.kind \notin KindsOf(ToSet(ms))}
  BY <1>1 DEF KindsOf, ToSet
<1> QED BY <1>2, <1>6, <1>7

LEMMA SetOfIs ==
  ASSUME NEW ms \in Seq(AnyMember)
  PROVE  SetOf(ms) \in AnySet /\ ToSet(SetOf(ms)) = Firsts(ms)
<1> DEFINE none == << >>
<1>1. none \in AnySet /\ ToSet(none) = {} /\ KindsOf({}) = {}
  BY NothingIn
<1>2. SetOf(ms) = InsertAll(none, ms)
  BY DEF SetOf
<1> HIDE DEF none
<1>3. /\ InsertAll(none, ms) \in AnySet
      /\ ToSet(InsertAll(none, ms)) = ToSet(none) \union {m \in Firsts(ms) : m.kind \notin KindsOf(ToSet(none))}
  BY <1>1, InsertAllIs
<1>4. KindsOf(ToSet(none)) = {}
  BY <1>1
<1> QED BY <1>1, <1>2, <1>3, <1>4

LEMMA EitherIs ==
  ASSUME NEW x \in AnySet, NEW y \in AnySet
  PROVE  /\ Either(x, y) \in AnySet
         /\ ToSet(Either(x, y)) = {m \in ToSet(x) : m.kind \notin KindsOf(ToSet(y))}
                                    \union {m \in ToSet(y) : m.kind \notin KindsOf(ToSet(x))}
<1> DEFINE u == OnlyIn(x, y)
           v == OnlyIn(y, x)
<1>1. /\ u \in AnySet /\ ToSet(u) = {m \in ToSet(x) : m.kind \notin KindsOf(ToSet(y))}
      /\ v \in AnySet /\ ToSet(v) = {m \in ToSet(y) : m.kind \notin KindsOf(ToSet(x))}
  BY SomeIs
<1>2. Either(x, y) = InsertAll(u, v)
  BY DEF Either
<1> HIDE DEF u, v
<1>3. v \in Seq(AnyMember) /\ Firsts(v) = ToSet(v)
  <2>1. v \in Seq(AnyMember) /\ Len(v) \in Nat /\ DOMAIN v = 1 .. Len(v) /\ \A i, j \in DOMAIN v : v[i].kind = v[j].kind => i = j
    BY <1>1, SetIs DEF AnySet
  <2>2. \A i \in DOMAIN v : FirstAt(v, i)
    BY <2>1 DEF FirstAt
  <2> QED BY <2>1, <2>2 DEF Firsts, ToSet
<1>4. /\ InsertAll(u, v) \in AnySet
      /\ ToSet(InsertAll(u, v)) = ToSet(u) \union {m \in Firsts(v) : m.kind \notin KindsOf(ToSet(u))}
  BY <1>1, <1>3, InsertAllIs
<1>5. {m \in ToSet(v) : m.kind \notin KindsOf(ToSet(u))} = ToSet(v)
  BY <1>1 DEF KindsOf
<1> QED BY <1>1, <1>2, <1>3, <1>4, <1>5

Gathers == {"union", "update"}
Removes == {"difference", "difference_update"}
Keeps == {"intersection", "intersection_update"}
Splits == {"symmetric_difference", "symmetric_difference_update"}

LEMMA CombineIs ==
  ASSUME NEW method \in Gathers \union Removes \union Keeps \union Splits, NEW s \in AnySet, NEW ms \in Seq(AnyMember)
  PROVE  /\ Combine(method, s, ms) \in AnySet
         /\ \A m : m \in ToSet(Combine(method, s, ms)) <=>
              \/ m \in ToSet(s) /\ (method \in Removes \union Splits => m.kind \notin KindsOf(ToSet(ms)))
                                /\ (method \in Keeps => m.kind \in KindsOf(ToSet(ms)))
              \/ m \in Firsts(ms) /\ m.kind \notin KindsOf(ToSet(s)) /\ method \in Gathers \union Splits
<1> DEFINE c == Combine(method, s, ms)
           o == SetOf(ms)
<1>1. o \in AnySet /\ ToSet(o) = Firsts(ms) /\ KindsOf(ToSet(o)) = KindsOf(ToSet(ms))
  BY SetOfIs, FirstsAre
<1>2. CASE method \in Gathers
  <2>1. c = InsertAll(s, ms)
    BY <1>2 DEF Combine, Gathers
  <2>2. c \in AnySet /\ ToSet(c) = ToSet(s) \union {m \in Firsts(ms) : m.kind \notin KindsOf(ToSet(s))}
    BY <2>1, InsertAllIs
  <2>3. method \notin Removes \union Splits /\ method \notin Keeps /\ method \in Gathers \union Splits
    BY <1>2 DEF Gathers, Removes, Keeps, Splits
  <2> HIDE DEF c
  <2>4. \A m : m \in ToSet(c) <=> m \in ToSet(s) \/ (m \in Firsts(ms) /\ m.kind \notin KindsOf(ToSet(s)))
    BY <2>2
  <2> QED BY <2>2, <2>3, <2>4 DEF c
<1>3. CASE method \in Removes
  <2>1. c = TakeOutAll(s, ms)
    BY <1>3 DEF Combine, Removes
  <2>2. c \in AnySet /\ ToSet(c) = {m \in ToSet(s) : m.kind \notin KindsOf(ToSet(ms))}
    BY <2>1, TakeOutAllIs
  <2>3. method \in Removes \union Splits /\ method \notin Keeps /\ method \notin Gathers \union Splits
    BY <1>3 DEF Gathers, Removes, Keeps, Splits
  <2> HIDE DEF c
  <2> QED BY <2>2, <2>3 DEF c
<1>4. CASE method \in Keeps
  <2>1. c = InBoth(s, o)
    BY <1>4 DEF Combine, Keeps
  <2> HIDE DEF o
  <2>2. c \in AnySet /\ ToSet(c) = {m \in ToSet(s) : m.kind \in KindsOf(ToSet(o))}
    BY <2>1, SomeIs, ZenonT(30)
  <2>3. method \notin Removes \union Splits /\ method \in Keeps /\ method \notin Gathers \union Splits
    BY <1>4 DEF Gathers, Removes, Keeps, Splits
  <2> HIDE DEF c
  <2> QED BY <1>1, <2>2, <2>3 DEF c
<1>5. CASE method \in Splits
  <2>1. c = Either(s, o)
    BY <1>5 DEF Combine, Splits
  <2> HIDE DEF o
  <2>2. /\ c \in AnySet
        /\ ToSet(c) = {m \in ToSet(s) : m.kind \notin KindsOf(ToSet(o))}
                        \union {m \in ToSet(o) : m.kind \notin KindsOf(ToSet(s))}
    BY <1>1, <2>1, EitherIs
  <2>3. method \in Removes \union Splits /\ method \notin Keeps /\ method \in Gathers \union Splits
    BY <1>5 DEF Gathers, Removes, Keeps, Splits
  <2> HIDE DEF c
  <2> QED BY <1>1, <2>2, <2>3 DEF c
<1> QED BY <1>2, <1>3, <1>4, <1>5


LEMMA CombinedGoes ==
  ASSUME NEW method \in Gathers \union Removes \union Keeps \union Splits,
         NEW held \in AnySet, NEW taken \in Seq(Seq(AnyMember))
  PROVE  \E h : /\ h[0] = held /\ Combined(method, held, taken) = h[Len(taken)] /\ \A k \in 0 .. Len(taken) : h[k] \in AnySet
                /\ \A k \in 1 .. Len(taken) : k - 1 \in 0 .. Len(taken) /\ h[k] = Combine(method, h[k - 1], taken[k])
<1> DEFINE n == Len(taken)
           W == AnySet
           start == held
           Next(v, k) == Combine(method, v, taken[k])
           Recurs(t) == t = [k \in 0 .. n |-> IF k = 0 THEN start ELSE Combine(method, t[k - 1], taken[k])]
           next == [k \in 1 .. n |-> [v \in W |-> Next(v, k)]]
<1>1. n \in Nat /\ start \in W
  BY LenProperties
<1>2. ASSUME NEW k \in 1 .. n, NEW v \in W PROVE Next(v, k) \in W
  <2>1. taken[k] \in Seq(AnyMember) /\ v \in AnySet
    BY <1>2, LenProperties
  <2>2. Combine(method, v, taken[k]) \in AnySet
    BY <2>1, CombineIs
  <2> QED BY <2>2
<1>3. next \in [1 .. n -> [W -> W]]
  <2> HIDE DEF Next, n, W
  <2> QED BY <1>2
<1>4. \A k \in 1 .. n, v \in W : next[k][v] = Next(v, k)
  OBVIOUS
<1> HIDE DEF next, n, W, start
<1>5. PICK h : Unrolled(h, n, W, start, next)
  BY <1>1, <1>3, Unrolls
<1>6. \A k \in 1 .. n : k - 1 \in 0 .. n /\ h[k] = Next(h[k - 1], k)
  <2> HIDE DEF Next
  <2>1. ASSUME NEW k \in 1 .. n PROVE k - 1 \in 0 .. n
    BY <1>1
  <2> QED BY <1>4, <1>5, <2>1 DEF Unrolled
<1>7. Recurs(h)
  <2>1. ASSUME NEW k \in 0 .. n
        PROVE  h[k] = IF k = 0 THEN start ELSE Combine(method, h[k - 1], taken[k])
    <3>1. k = 0 \/ k \in 1 .. n
      BY <1>1
    <3> QED BY <1>5, <1>6, <3>1 DEF Unrolled
  <2> QED BY <1>5, <2>1 DEF Unrolled
<1> DEFINE last == CHOOSE t : Recurs(t)
<1>8. Recurs(last)
  <2> HIDE DEF Recurs
  <2> QED BY <1>7
<1>9. Combined(method, held, taken) = last[n]
  BY DEF Combined, n, start
<1> HIDE DEF last
<1>10. last[0] = start /\ \A k \in 1 .. n : last[k] = Next(last[k - 1], k)
  <2>1. \A k \in 0 .. n : last[k] = IF k = 0 THEN start ELSE Combine(method, last[k - 1], taken[k])
    BY <1>8
  <2> QED BY <1>1, <2>1
<1> HIDE DEF Recurs
<1> DEFINE S == {k \in 0 .. n : last[k] \in W}
<1>11. \A k \in 0 .. n : k \in S
  <2>1. 0 \in S
    BY <1>1, <1>10
  <2>2. ASSUME NEW k \in 1 .. n, k - 1 \in S PROVE k \in S
    <3> HIDE DEF Next
    <3>1. last[k] \in W
      BY <1>2, <1>10, <2>2
    <3> QED BY <1>1, <3>1
  <2> HIDE DEF S
  <2> QED BY <1>1, <2>1, <2>2, StepByStep
<1>12. \A k \in 0 .. n : last[k] \in W
  BY <1>11
<1>13. \A k \in 1 .. n : k - 1 \in 0 .. n
  BY <1>1
<1> HIDE DEF S
<1> QED BY <1>9, <1>10, <1>12, <1>13 DEF n, W, start

(* The first argument that brings a kind, and the first copy it brings.    *)
Brought(taken, m, k) ==
  \E a \in 1 .. k : m \in Firsts(taken[a]) /\ \A b \in 1 .. a - 1 : m.kind \notin KindsOf(ToSet(taken[b]))

LEMMA CombinedIs ==
  ASSUME NEW method \in Gathers \union Removes \union Keeps \union Splits,
         NEW held \in AnySet, NEW taken \in Seq(Seq(AnyMember))
  PROVE  /\ Combined(method, held, taken) \in AnySet
         /\ method \in Gathers =>
              \A m : m \in ToSet(Combined(method, held, taken)) <=>
                m \in ToSet(held) \/ (m.kind \notin KindsOf(ToSet(held)) /\ Brought(taken, m, Len(taken)))
         /\ method \in Removes =>
              \A m : m \in ToSet(Combined(method, held, taken)) <=>
                m \in ToSet(held) /\ \A a \in 1 .. Len(taken) : m.kind \notin KindsOf(ToSet(taken[a]))
         /\ method \in Keeps =>
              \A m : m \in ToSet(Combined(method, held, taken)) <=>
                m \in ToSet(held) /\ \A a \in 1 .. Len(taken) : m.kind \in KindsOf(ToSet(taken[a]))
         /\ method \in Splits /\ Len(taken) = 1 =>
              \A m : m \in ToSet(Combined(method, held, taken)) <=>
                \/ m \in ToSet(held) /\ m.kind \notin KindsOf(ToSet(taken[1]))
                \/ m \in Firsts(taken[1]) /\ m.kind \notin KindsOf(ToSet(held))
<1> DEFINE n == Len(taken)
           there == KindsOf(ToSet(held))
           K(a) == KindsOf(ToSet(taken[a]))
<1>1. n \in Nat /\ DOMAIN taken = 1 .. n /\ \A a \in 1 .. n : taken[a] \in Seq(AnyMember)
  BY LenProperties
<1>2. PICK h : /\ h[0] = held /\ Combined(method, held, taken) = h[n] /\ \A k \in 0 .. n : h[k] \in AnySet
               /\ \A k \in 1 .. n : k - 1 \in 0 .. n /\ h[k] = Combine(method, h[k - 1], taken[k])
  BY CombinedGoes
<1> HIDE DEF n
<1>3. \A k \in 1 .. n : \A m : m \in ToSet(h[k]) <=>
              \/ m \in ToSet(h[k - 1]) /\ (method \in Removes \union Splits => m.kind \notin K(k))
                                       /\ (method \in Keeps => m.kind \in K(k))
              \/ m \in Firsts(taken[k]) /\ m.kind \notin KindsOf(ToSet(h[k - 1])) /\ method \in Gathers \union Splits
  <2> SUFFICES ASSUME NEW k \in 1 .. n PROVE
        \A m : m \in ToSet(h[k]) <=>
              \/ m \in ToSet(h[k - 1]) /\ (method \in Removes \union Splits => m.kind \notin K(k))
                                       /\ (method \in Keeps => m.kind \in K(k))
              \/ m \in Firsts(taken[k]) /\ m.kind \notin KindsOf(ToSet(h[k - 1])) /\ method \in Gathers \union Splits
    OBVIOUS
  <2> DEFINE p == h[k - 1]
             ms == taken[k]
  <2>1. p \in AnySet /\ ms \in Seq(AnyMember) /\ h[k] = Combine(method, p, ms)
    BY <1>1, <1>2
  <2> HIDE DEF p, ms
  <2>2. \A m : m \in ToSet(Combine(method, p, ms)) <=>
              \/ m \in ToSet(p) /\ (method \in Removes \union Splits => m.kind \notin KindsOf(ToSet(ms)))
                                /\ (method \in Keeps => m.kind \in KindsOf(ToSet(ms)))
              \/ m \in Firsts(ms) /\ m.kind \notin KindsOf(ToSet(p)) /\ method \in Gathers \union Splits
    BY <2>1, CombineIs
  <2> QED BY <2>1, <2>2 DEF p, ms
<1>4. ASSUME method \in Removes
      PROVE  \A m : m \in ToSet(h[n]) <=> m \in ToSet(held) /\ \A a \in 1 .. n : m.kind \notin K(a)
  <2> DEFINE S == {k \in 0 .. n : \A m : m \in ToSet(h[k]) <=> m \in ToSet(held) /\ \A a \in 1 .. k : m.kind \notin K(a)}
  <2>1. 0 \in S
    BY <1>1, <1>2
  <2>2. ASSUME NEW k \in 1 .. n, k - 1 \in S PROVE k \in S
    <3>1. method \in Removes \union Splits /\ method \notin Keeps /\ method \notin Gathers \union Splits
      BY <1>4 DEF Gathers, Removes, Keeps, Splits
    <3>2. k \in 0 .. n /\ 1 .. k = (1 .. k - 1) \union {k}
      BY <1>1
    <3> HIDE DEF K
    <3>3. \A m : m \in ToSet(h[k]) <=> m \in ToSet(h[k - 1]) /\ m.kind \notin K(k)
      BY <1>3, <3>1 DEF K
    <3>4. \A m : m \in ToSet(h[k - 1]) <=> m \in ToSet(held) /\ \A a \in 1 .. k - 1 : m.kind \notin K(a)
      BY <2>2
    <3>5. \A m : (\A a \in 1 .. k : m.kind \notin K(a)) <=> m.kind \notin K(k) /\ \A a \in 1 .. k - 1 : m.kind \notin K(a)
      BY <3>2
    <3> QED BY <3>2, <3>3, <3>4, <3>5
  <2>3. n \in S
    <3> HIDE DEF S
    <3>1. \A k \in 0 .. n : k \in S
      BY <1>1, <2>1, <2>2, StepByStep
    <3> QED BY <1>1, <3>1
  <2> QED BY <2>3
<1>5. ASSUME method \in Keeps
      PROVE  \A m : m \in ToSet(h[n]) <=> m \in ToSet(held) /\ \A a \in 1 .. n : m.kind \in K(a)
  <2> DEFINE S == {k \in 0 .. n : \A m : m \in ToSet(h[k]) <=> m \in ToSet(held) /\ \A a \in 1 .. k : m.kind \in K(a)}
  <2>1. 0 \in S
    BY <1>1, <1>2
  <2>2. ASSUME NEW k \in 1 .. n, k - 1 \in S PROVE k \in S
    <3>1. method \notin Removes \union Splits /\ method \in Keeps /\ method \notin Gathers \union Splits
      BY <1>5 DEF Gathers, Removes, Keeps, Splits
    <3>2. k \in 0 .. n /\ 1 .. k = (1 .. k - 1) \union {k}
      BY <1>1
    <3> HIDE DEF K
    <3>3. \A m : m \in ToSet(h[k]) <=> m \in ToSet(h[k - 1]) /\ m.kind \in K(k)
      BY <1>3, <3>1 DEF K
    <3>4. \A m : m \in ToSet(h[k - 1]) <=> m \in ToSet(held) /\ \A a \in 1 .. k - 1 : m.kind \in K(a)
      BY <2>2
    <3>5. \A m : (\A a \in 1 .. k : m.kind \in K(a)) <=> m.kind \in K(k) /\ \A a \in 1 .. k - 1 : m.kind \in K(a)
      BY <3>2
    <3> QED BY <3>2, <3>3, <3>4, <3>5
  <2>3. n \in S
    <3> HIDE DEF S
    <3>1. \A k \in 0 .. n : k \in S
      BY <1>1, <2>1, <2>2, StepByStep
    <3> QED BY <1>1, <3>1
  <2> QED BY <2>3
<1>6. ASSUME method \in Gathers
      PROVE  \A m : m \in ToSet(h[n]) <=> m \in ToSet(held) \/ (m.kind \notin there /\ Brought(taken, m, n))
  <2> DEFINE New(m, k) == m.kind \notin there /\ Brought(taken, m, k)
             KindsAt(k) == there \union UNION {K(a) : a \in 1 .. k}
             S == {k \in 0 .. n : /\ \A m : m \in ToSet(h[k]) <=> m \in ToSet(held) \/ New(m, k)
                                  /\ KindsOf(ToSet(h[k])) = KindsAt(k)}
  <2>1. 0 \in S
    BY <1>1, <1>2 DEF Brought
  <2>2. ASSUME NEW k \in 1 .. n, k - 1 \in S PROVE k \in S
    <3>1. method \notin Removes \union Splits /\ method \notin Keeps /\ method \in Gathers \union Splits
      BY <1>6 DEF Gathers, Removes, Keeps, Splits
    <3>2. k \in 0 .. n /\ 1 .. k = (1 .. k - 1) \union {k}
      BY <1>1
    <3>3. \A m : m \in ToSet(h[k]) <=> m \in ToSet(h[k - 1]) \/ (m \in Firsts(taken[k]) /\ m.kind \notin KindsAt(k - 1))
      BY <1>3, <2>2, <3>1
    <3>4. KindsOf(Firsts(taken[k])) = K(k)
      BY <1>1, FirstsAre
    <3>5. KindsAt(k) = KindsAt(k - 1) \union K(k)
      BY <3>2
    <3>6. KindsOf(ToSet(h[k])) = KindsAt(k)
      <4>1. KindsOf(ToSet(h[k - 1])) = KindsAt(k - 1)
        BY <2>2
      <4> HIDE DEF KindsAt
      <4>2. KindsOf(ToSet(h[k])) \subseteq KindsAt(k)
        BY <3>3, <3>4, <3>5, <4>1 DEF KindsOf
      <4>3. KindsAt(k - 1) \subseteq KindsOf(ToSet(h[k]))
        BY <3>3, <4>1 DEF KindsOf
      <4>4. ASSUME NEW c \in K(k), c \notin KindsAt(k - 1) PROVE c \in KindsOf(ToSet(h[k]))
        <5>1. PICK m \in Firsts(taken[k]) : m.kind = c
          BY <3>4, <4>4 DEF KindsOf
        <5> QED BY <3>3, <4>4, <5>1 DEF KindsOf
      <4> QED BY <3>5, <4>2, <4>3, <4>4
    <3>7. \A m : New(m, k) <=> New(m, k - 1) \/ (m \in Firsts(taken[k]) /\ m.kind \notin KindsAt(k - 1))
      <4>1. \A m : Brought(taken, m, k) <=> \/ Brought(taken, m, k - 1)
                                            \/ m \in Firsts(taken[k]) /\ \A b \in 1 .. k - 1 : m.kind \notin K(b)
        BY <3>2 DEF Brought
      <4>2. \A m : (m.kind \notin there /\ \A b \in 1 .. k - 1 : m.kind \notin K(b)) <=> m.kind \notin KindsAt(k - 1)
        OBVIOUS
      <4> HIDE DEF K, KindsAt
      <4> QED BY <4>1, <4>2
    <3>8. \A m : m \in ToSet(h[k - 1]) <=> m \in ToSet(held) \/ New(m, k - 1)
      BY <2>2
    <3> HIDE DEF New, KindsAt
    <3> QED BY <3>2, <3>3, <3>6, <3>7, <3>8
  <2>3. n \in S
    <3> HIDE DEF S
    <3>1. \A k \in 0 .. n : k \in S
      BY <1>1, <2>1, <2>2, StepByStep
    <3> QED BY <1>1, <3>1
  <2> QED BY <2>3
<1>7. ASSUME method \in Splits, n = 1
      PROVE  \A m : m \in ToSet(h[n]) <=> \/ m \in ToSet(held) /\ m.kind \notin K(1)
                                          \/ m \in Firsts(taken[1]) /\ m.kind \notin there
  <2>1. method \in Removes \union Splits /\ method \notin Keeps /\ method \in Gathers \union Splits
    BY <1>7 DEF Gathers, Removes, Keeps, Splits
  <2>2. 1 \in 1 .. n /\ h[1 - 1] = held
    BY <1>2, <1>7
  <2> HIDE DEF K
  <2> QED BY <1>3, <1>7, <2>1, <2>2 DEF K
<1>8. h[n] \in AnySet
  BY <1>1, <1>2
<1> QED BY <1>2, <1>4, <1>5, <1>6, <1>7, <1>8 DEF n

-----------------------------------------------------------------------------
(* Sequences one behind the other.                                         *)

LEMMA FlattenGoes ==
  ASSUME NEW S, NEW ss \in Seq(Seq(S))
  PROVE  \E h : /\ h[0] = << >> /\ FlattenSeq(ss) = h[Len(ss)] /\ \A k \in 0 .. Len(ss) : h[k] \in Seq(S)
                /\ \A k \in 1 .. Len(ss) : k - 1 \in 0 .. Len(ss) /\ h[k] = h[k - 1] \o ss[k]
<1> DEFINE n == Len(ss)
           W == Seq(S)
           start == << >>
           Next(v, k) == v \o ss[k]
           Recurs(t) == t = [i \in 1 .. n |-> IF i = 1 THEN ss[i] ELSE t[i - 1] \o ss[i]]
           next == [k \in 1 .. n |-> [v \in W |-> Next(v, k)]]
<1>1. n \in Nat /\ start \in W /\ DOMAIN ss = 1 .. n /\ \A k \in 1 .. n : ss[k] \in W
  BY LenProperties
<1>2. ASSUME NEW k \in 1 .. n, NEW v \in W PROVE Next(v, k) \in W
  BY <1>1, ConcatProperties
<1>3. next \in [1 .. n -> [W -> W]]
  <2> HIDE DEF Next, n, W
  <2> QED BY <1>2
<1>4. \A k \in 1 .. n, v \in W : next[k][v] = Next(v, k)
  OBVIOUS
<1>5. \A k \in 1 .. n : start \o ss[k] = ss[k]
  BY <1>1, ConcatEmptySeq
<1> HIDE DEF next, n, W, start
<1>6. PICK h : Unrolled(h, n, W, start, next)
  BY <1>1, <1>3, Unrolls
<1>7. \A k \in 1 .. n : k - 1 \in 0 .. n /\ h[k] = h[k - 1] \o ss[k]
  <2>1. ASSUME NEW k \in 1 .. n PROVE k - 1 \in 0 .. n
    BY <1>1
  <2> QED BY <1>4, <1>6, <2>1 DEF Unrolled
<1> DEFINE t == [i \in 1 .. n |-> h[i]]
<1>8. Recurs(t)
  <2>1. ASSUME NEW i \in 1 .. n PROVE t[i] = IF i = 1 THEN ss[i] ELSE t[i - 1] \o ss[i]
    <3>1. CASE i = 1
      <4>1. h[i - 1] = start
        BY <1>6, <3>1 DEF Unrolled
      <4> QED BY <1>5, <1>7, <3>1, <4>1
    <3>2. CASE i # 1
      <4>1. i - 1 \in 1 .. n
        BY <1>1, <3>2
      <4> QED BY <1>7, <3>2, <4>1
    <3> QED BY <3>1, <3>2
  <2>2. t = [i \in 1 .. n |-> t[i]]
    OBVIOUS
  <2> HIDE DEF t
  <2> QED BY <2>1, <2>2
<1> DEFINE flatten == CHOOSE u : Recurs(u)
<1>9. Recurs(flatten)
  <2> HIDE DEF Recurs, t
  <2> QED BY <1>8
<1>10. n # 0 => FlattenSeq(ss) = flatten[n]
  BY DEF FlattenSeq, n
<1> HIDE DEF flatten
<1>11. \A i \in 1 .. n : flatten[i] = IF i = 1 THEN ss[i] ELSE flatten[i - 1] \o ss[i]
  BY <1>9
<1> HIDE DEF Recurs, t
<1> DEFINE T == {i \in 0 .. n : i # 0 => flatten[i] = h[i]}
<1>12. 0 \in T
  BY <1>1
<1>13. ASSUME NEW k \in 1 .. n, k - 1 \in T PROVE k \in T
  <2>1. k \in 0 .. n
    BY <1>1
  <2>2. CASE k = 1
    <3>1. h[k - 1] = start
      BY <1>6, <2>2 DEF Unrolled
    <3> QED BY <1>5, <1>7, <1>11, <2>1, <2>2, <3>1
  <2>3. CASE k # 1
    <3>1. flatten[k - 1] = h[k - 1]
      BY <1>13, <2>3
    <3> QED BY <1>7, <1>11, <2>1, <2>3, <3>1
  <2> QED BY <2>2, <2>3
<1> HIDE DEF T
<1>14. n \in T
  <2>1. \A k \in 0 .. n : k \in T
    BY <1>1, <1>12, <1>13, StepByStep
  <2> QED BY <1>1, <2>1
<1>15. FlattenSeq(ss) = h[n]
  <2>1. CASE n = 0
    <3>1. FlattenSeq(ss) = ss
      BY <2>1 DEF FlattenSeq, n
    <3>2. ss = << >>
      BY <2>1, EmptySeq DEF n
    <3> QED BY <1>6, <2>1, <3>1, <3>2 DEF Unrolled, start
  <2>2. CASE n # 0
    BY <1>10, <1>14, <2>2 DEF T
  <2> QED BY <2>1, <2>2
<1> QED BY <1>6, <1>7, <1>15 DEF Unrolled, n, W, start

(* Where each of them is: the k-th one is behind place from[k - 1].        *)
Lies(from, ss, flat) ==
  /\ from[0] = 0 /\ Len(flat) = from[Len(ss)] /\ \A k \in 0 .. Len(ss) : from[k] \in Nat
  /\ \A k \in 1 .. Len(ss) :
       /\ k - 1 \in 0 .. Len(ss) /\ from[k] = from[k - 1] + Len(ss[k])
       /\ \A j \in 1 .. Len(ss[k]) : flat[from[k - 1] + j] = ss[k][j]

LEMMA FlattenLies ==
  ASSUME NEW S, NEW ss \in Seq(Seq(S))
  PROVE  FlattenSeq(ss) \in Seq(S) /\ \E from : Lies(from, ss, FlattenSeq(ss))
<1> DEFINE n == Len(ss)
<1>1. n \in Nat /\ \A k \in 1 .. n : ss[k] \in Seq(S) /\ Len(ss[k]) \in Nat
  BY LenProperties
<1>2. PICK h : /\ h[0] = << >> /\ FlattenSeq(ss) = h[n] /\ \A k \in 0 .. n : h[k] \in Seq(S)
               /\ \A k \in 1 .. n : k - 1 \in 0 .. n /\ h[k] = h[k - 1] \o ss[k]
  BY FlattenGoes
<1> HIDE DEF n
<1> DEFINE from == [k \in 0 .. n |-> Len(h[k])]
<1>3. \A k \in 0 .. n : from[k] = Len(h[k]) /\ from[k] \in Nat
  BY <1>2, LenProperties
<1> HIDE DEF from
<1>4. ASSUME NEW k \in 1 .. n
      PROVE  /\ from[k] = from[k - 1] + Len(ss[k]) /\ k \in 0 .. n /\ k - 1 \in 0 .. n
             /\ \A j \in 1 .. from[k - 1] : h[k][j] = h[k - 1][j]
             /\ \A j \in 1 .. Len(ss[k]) : h[k][from[k - 1] + j] = ss[k][j]
  <2> DEFINE u == h[k - 1]
             v == ss[k]
             w == u \o v
  <2>1. u \in Seq(S) /\ v \in Seq(S) /\ h[k] = w /\ k \in 0 .. n /\ k - 1 \in 0 .. n
    <3>1. k - 1 \in 0 .. n /\ h[k] = w
      BY <1>2
    <3>2. k \in 0 .. n /\ v \in Seq(S)
      BY <1>1
    <3> QED BY <1>2, <3>1, <3>2
  <2>2. from[k - 1] = Len(u) /\ from[k] = Len(w)
    BY <1>3, <2>1
  <2> HIDE DEF u, v
  <2>3. /\ Len(w) = Len(u) + Len(v) /\ Len(u) \in Nat /\ Len(v) \in Nat
        /\ \A j \in 1 .. Len(u) + Len(v) : w[j] = IF j <= Len(u) THEN u[j] ELSE v[j - Len(u)]
    BY <2>1, ConcatProperties, LenProperties
  <2> HIDE DEF w
  <2>4. \A j \in 1 .. Len(u) : w[j] = u[j]
    <3>1. \A j \in 1 .. Len(u) : j \in 1 .. Len(u) + Len(v) /\ j <= Len(u)
      BY <2>3
    <3> QED BY <2>3, <3>1
  <2>5. ASSUME NEW j \in 1 .. Len(v) PROVE w[Len(u) + j] = v[j]
    <3>1. Len(u) + j \in 1 .. Len(u) + Len(v) /\ ~(Len(u) + j <= Len(u)) /\ (Len(u) + j) - Len(u) = j
      BY <2>3
    <3> QED BY <2>3, <3>1
  <2> QED BY <2>1, <2>2, <2>3, <2>4, <2>5 DEF u, v
<1> DEFINE flat == h[n]
           T == {k \in 0 .. n : \A l \in 1 .. k : l - 1 \in 0 .. n /\ \A j \in 1 .. Len(ss[l]) :
                                  /\ from[l - 1] + j \in 1 .. from[k] /\ h[k][from[l - 1] + j] = ss[l][j]}
<1>5. 0 \in T
  BY <1>1
<1>6. ASSUME NEW k \in 1 .. n, k - 1 \in T PROVE k \in T
  <2>1. k \in 0 .. n /\ from[k - 1] \in Nat /\ Len(ss[k]) \in Nat /\ from[k] = from[k - 1] + Len(ss[k])
    BY <1>1, <1>3, <1>4
  <2>2. ASSUME NEW l \in 1 .. k, NEW j \in 1 .. Len(ss[l])
        PROVE  l - 1 \in 0 .. n /\ from[l - 1] + j \in 1 .. from[k] /\ h[k][from[l - 1] + j] = ss[l][j]
    <3>1. l \in 1 .. k - 1 \/ l = k
      BY <1>1
    <3>2. CASE l = k
      <4>1. k - 1 \in 0 .. n /\ j \in 1 .. Len(ss[k]) /\ h[k][from[k - 1] + j] = ss[k][j]
        BY <1>4, <3>2
      <4>2. from[k - 1] + j \in 1 .. from[k]
        BY <2>1, <4>1
      <4> QED BY <3>2, <4>1, <4>2
    <3>3. CASE l \in 1 .. k - 1
      <4>1. l - 1 \in 0 .. n /\ from[l - 1] + j \in 1 .. from[k - 1] /\ h[k - 1][from[l - 1] + j] = ss[l][j]
        BY <1>6, <3>3
      <4>2. from[l - 1] + j \in 1 .. from[k]
        BY <2>1, <4>1, SMTT(20)
      <4> QED BY <1>4, <4>1, <4>2
    <3> QED BY <3>1, <3>2, <3>3
  <2>3. \A l \in 1 .. k : l - 1 \in 0 .. n
    BY <1>1
  <2> QED BY <2>1, <2>2, <2>3
<1> HIDE DEF T
<1>7. n \in T
  <2>1. \A k \in 0 .. n : k \in T
    BY <1>1, <1>5, <1>6, StepByStep
  <2> QED BY <1>1, <2>1
<1>8. n \in 0 .. n /\ 0 \in 0 .. n
  BY <1>1
<1>9. from[0] = 0
  <2>1. Len(<< >>) = 0
    OBVIOUS
  <2> QED BY <1>2, <1>3, <1>8, <2>1
<1>10. \A k \in 1 .. n : \A j \in 1 .. Len(ss[k]) : flat[from[k - 1] + j] = ss[k][j]
  BY <1>7 DEF T
<1>11. Lies(from, ss, flat)
  BY <1>3, <1>4, <1>8, <1>9, <1>10 DEF Lies, n
<1> QED BY <1>2, <1>8, <1>11

-----------------------------------------------------------------------------
(* The set before every step.                                              *)

AnyEvent ==
  [arg : Nat \ {0}, does : {"give", "add", "discard", "raised", "unhashable"}, m : AnyMember]
    \union [arg : Nat \ {0}, does : {"self", "not iterable"}, m : {NoMember}]

LEMMA EventIs ==
  ASSUME NEW es \in Seq(AnyEvent)
  PROVE  /\ Len(es) \in Nat /\ DOMAIN es = 1 .. Len(es)
         /\ \A i \in 1 .. Len(es) :
              /\ es[i].arg \in Nat \ {0} /\ es[i].does \in {"give", "add", "discard", "self"} \union Failures
              /\ es[i].does \in {"give", "add", "discard"} => es[i].m \in AnyMember
<1>1. Len(es) \in Nat /\ DOMAIN es = 1 .. Len(es) /\ \A i \in 1 .. Len(es) : es[i] \in AnyEvent
  BY LenProperties
<1>2. \A e \in AnyEvent : /\ e.arg \in Nat \ {0} /\ e.does \in {"give", "add", "discard", "self"} \union Failures
                          /\ e.does \in {"give", "add", "discard"} => e.m \in AnyMember
  BY DEF AnyEvent, Failures
<1> QED BY <1>1, <1>2

LEMMA GreatestOf ==
  ASSUME NEW n \in Nat, NEW T \in SUBSET (1 .. n), T # {}
  PROVE  Max(T) \in T /\ \A i \in T : i <= Max(T)
<1> DEFINE D == {n - i : i \in T}
<1>1. D \in SUBSET Nat /\ D # {}
  <2>1. \A i \in T : n - i \in Nat
    OBVIOUS
  <2> QED BY <2>1
<1> HIDE DEF D
<1>2. PICK d \in D : \A c \in D : d <= c
  BY <1>1, LeastNatural
<1>3. PICK i \in T : d = n - i
  BY <1>2 DEF D
<1>4. \A j \in T : j <= i
  <2>1. \A j \in T : n - j \in D
    BY DEF D
  <2> QED BY <1>2, <1>3, <2>1
<1>5. \E x \in T : \A y \in T : x >= y
  BY <1>4
<1>6. \A y \in T : Max(T) >= y
  BY <1>5 DEF Max
<1>7. Max(T) \in T
  BY <1>5 DEF Max
<1> QED BY <1>6, <1>7

LEMMA LeastOf ==
  ASSUME NEW T \in SUBSET Nat, T # {}
  PROVE  Min(T) \in T /\ \A i \in T : Min(T) <= i
<1>1. \E x \in T : \A y \in T : x <= y
  BY LeastNatural
<1>2. Min(T) \in T
  BY <1>1 DEF Min
<1>3. \A y \in T : Min(T) <= y
  BY <1>1 DEF Min
<1> QED BY <1>2, <1>3

LEMMA CopyIs ==
  ASSUME NEW es \in Seq(AnyEvent), NEW held \in AnySet, NEW p \in 1 .. Len(es), NEW k
  PROVE  CopyBefore(es, held, p + 1, k) =
           IF es[p].does = "add" /\ es[p].m.kind = k
             THEN IF CopyBefore(es, held, p, k) = {} THEN {es[p].m} ELSE CopyBefore(es, held, p, k)
           ELSE IF es[p].does = "discard" /\ es[p].m.kind = k THEN {} ELSE CopyBefore(es, held, p, k)
<1> DEFINE e == es[p]
           here == e.does \in {"add", "discard"} /\ e.m.kind = k
           changes(q) == Changes(es, q, k)
           gone(q) == {i \in changes(q) : es[i].does = "discard"}
           adds(q) == IF gone(q) = {} THEN changes(q) ELSE {i \in changes(q) : i > Max(gone(q))}
           first == {m \in ToSet(held) : m.kind = k}
           Least(q) == {es[i].m : i \in {i \in adds(q) : \A j \in adds(q) : i <= j}}
<1>1. \A q : CopyBefore(es, held, q, k) = IF gone(q) = {} /\ first # {} THEN first ELSE Least(q)
  BY DEF CopyBefore
<1>2. Len(es) \in Nat /\ p \in Nat /\ 1 .. (p + 1) - 1 = (1 .. p - 1) \union {p}
  BY EventIs
<1>3. changes(p + 1) = IF here THEN changes(p) \union {p} ELSE changes(p)
  BY <1>2 DEF Changes
<1>4. changes(p) \subseteq 1 .. p - 1
  BY DEF Changes
<1>5. CASE ~here
  <2>1. changes(p + 1) = changes(p)
    BY <1>3, <1>5
  <2> HIDE DEF changes
  <2>2. gone(p + 1) = gone(p)
    BY <2>1
  <2> HIDE DEF gone
  <2>3. adds(p + 1) = adds(p)
    BY <2>1, <2>2
  <2> HIDE DEF adds
  <2>4. CopyBefore(es, held, p + 1, k) = CopyBefore(es, held, p, k)
    BY <1>1, <2>2, <2>3
  <2> QED BY <1>5, <2>4
<1>6. CASE here /\ e.does = "discard"
  <2>1. changes(p + 1) = changes(p) \union {p}
    BY <1>3, <1>6
  <2> HIDE DEF changes
  <2>2. p \in gone(p + 1) /\ gone(p + 1) \subseteq changes(p + 1) /\ changes(p + 1) \in SUBSET (1 .. p)
    BY <1>2, <1>4, <1>6, <2>1
  <2> HIDE DEF gone
  <2>3. Max(gone(p + 1)) \in gone(p + 1) /\ \A i \in gone(p + 1) : i <= Max(gone(p + 1))
    BY <1>2, <2>2, GreatestOf
  <2>4. Max(gone(p + 1)) = p
    BY <1>2, <2>2, <2>3
  <2>5. adds(p + 1) = {}
    BY <2>2, <2>4
  <2> HIDE DEF adds
  <2>6. CopyBefore(es, held, p + 1, k) = {}
    BY <1>1, <2>2, <2>5
  <2> QED BY <1>6, <2>6
<1>7. CASE here /\ e.does = "add"
  <2>1. changes(p + 1) = changes(p) \union {p}
    BY <1>3, <1>7
  <2> HIDE DEF changes
  <2>2. gone(p + 1) = gone(p)
    BY <1>7, <2>1
  <2>3. gone(p) \subseteq 1 .. p - 1
    BY <1>4
  <2> HIDE DEF gone
  <2>4. adds(p + 1) = adds(p) \union {p} /\ adds(p) \subseteq 1 .. p - 1
    <3>1. CASE gone(p) = {}
      BY <1>4, <2>1, <2>2, <3>1
    <3>2. CASE gone(p) # {}
      <4>1. p - 1 \in Nat /\ gone(p) \in SUBSET (1 .. p - 1)
        BY <1>2, <2>3
      <4>2. Max(gone(p)) \in gone(p)
        BY <3>2, <4>1, GreatestOf
      <4>3. p > Max(gone(p)) /\ Max(gone(p)) \in Nat
        BY <1>2, <2>3, <4>2
      <4> DEFINE max == Max(gone(p))
      <4>4. adds(p + 1) = {i \in changes(p + 1) : i > max} /\ adds(p) = {i \in changes(p) : i > max}
        BY <2>2, <3>2
      <4> HIDE DEF max, adds
      <4> QED BY <1>2, <1>4, <2>1, <4>3, <4>4 DEF max
    <3> QED BY <3>1, <3>2
  <2> HIDE DEF adds
  <2>5. CASE adds(p) = {}
    <3>1. Least(p) = {} /\ Least(p + 1) = {e.m}
      <4>1. adds(p + 1) = {p} /\ p <= p
        BY <1>2, <2>4, <2>5
      <4> QED BY <2>5, <4>1
    <3> HIDE DEF Least, first, e
    <3>2. CopyBefore(es, held, p, k) = IF gone(p) = {} /\ first # {} THEN first ELSE {}
      BY <1>1, <3>1
    <3>3. CopyBefore(es, held, p + 1, k) = IF gone(p) = {} /\ first # {} THEN first ELSE {e.m}
      BY <1>1, <2>2, <3>1
    <3>4. CopyBefore(es, held, p + 1, k) = IF CopyBefore(es, held, p, k) = {} THEN {e.m} ELSE CopyBefore(es, held, p, k)
      BY <3>2, <3>3
    <3> QED BY <1>7, <3>4 DEF e
  <2>6. CASE adds(p) # {}
    <3>1. adds(p) \in SUBSET Nat /\ \A i \in adds(p) : i < p
      BY <1>2, <2>4
    <3>2. PICK l \in adds(p) : \A j \in adds(p) : l <= j
      BY <2>6, <3>1, LeastNatural
    <3>3. {i \in adds(p + 1) : \A j \in adds(p + 1) : i <= j} = {i \in adds(p) : \A j \in adds(p) : i <= j}
      BY <1>2, <2>4, <3>1, <3>2
    <3>4. Least(p + 1) = Least(p)
      BY <3>3
    <3>5. Least(p) # {}
      BY <3>2
    <3> HIDE DEF Least
    <3>6. CopyBefore(es, held, p + 1, k) = CopyBefore(es, held, p, k) /\ CopyBefore(es, held, p, k) # {}
      BY <1>1, <2>2, <3>4, <3>5
    <3> QED BY <1>7, <3>6
  <2> QED BY <2>5, <2>6
<1> QED BY <1>5, <1>6, <1>7

LEMMA CopyKind ==
  ASSUME NEW es, NEW held, NEW p, NEW k, NEW m \in CopyBefore(es, held, p, k)
  PROVE  m.kind = k /\ (m \in ToSet(held) \/ \E i \in 1 .. p - 1 : m = es[i].m)
BY DEF CopyBefore, Changes

LEMMA SetBeforeIs ==
  ASSUME NEW es \in Seq(AnyEvent), NEW held, NEW p \in 1 .. Len(es) + 1
  PROVE  /\ \A m : m \in SetBefore(es, held, p) <=> m \in CopyBefore(es, held, p, m.kind)
         /\ \A k : k \in KindsOf(SetBefore(es, held, p)) <=> CopyBefore(es, held, p, k) # {}
<1>1. Len(es) \in Nat /\ DOMAIN es = 1 .. Len(es)
  BY EventIs
<1>2. \A i \in 1 .. p - 1 : i \in DOMAIN es
  BY <1>1
<1>3. \A m : m \in CopyBefore(es, held, p, m.kind) => m \in ToSet(held) \union {es[i].m : i \in DOMAIN es}
  BY <1>2, CopyKind
<1>4. \A m : m \in SetBefore(es, held, p) <=> m \in CopyBefore(es, held, p, m.kind)
  BY <1>3 DEF SetBefore
<1>5. ASSUME NEW k PROVE k \in KindsOf(SetBefore(es, held, p)) <=> CopyBefore(es, held, p, k) # {}
  <2>1. \A m \in CopyBefore(es, held, p, k) : m.kind = k
    BY CopyKind
  <2> QED BY <1>4, <2>1 DEF KindsOf
<1> QED BY <1>4, <1>5

LEMMA SetBeforeStep ==
  ASSUME NEW es \in Seq(AnyEvent), NEW held \in AnySet
  PROVE  /\ SetBefore(es, held, 1) = ToSet(held)
         /\ \A p \in 1 .. Len(es) :
              SetBefore(es, held, p + 1) =
                IF es[p].does = "add"
                  THEN IF es[p].m.kind \in KindsOf(SetBefore(es, held, p)) THEN SetBefore(es, held, p)
                       ELSE SetBefore(es, held, p) \union {es[p].m}
                ELSE IF es[p].does = "discard" THEN {x \in SetBefore(es, held, p) : x.kind # es[p].m.kind}
                ELSE SetBefore(es, held, p)
<1>1. Len(es) \in Nat
  BY EventIs
<1>2. SetBefore(es, held, 1) = ToSet(held)
  <2>1. \A k : CopyBefore(es, held, 1, k) = {m \in ToSet(held) : m.kind = k}
    <3>1. \A k : Changes(es, 1, k) = {}
      BY DEF Changes
    <3> QED BY <3>1 DEF CopyBefore
  <2>2. 1 \in 1 .. Len(es) + 1
    BY <1>1
  <2>3. \A m : m \in SetBefore(es, held, 1) <=> m \in CopyBefore(es, held, 1, m.kind)
    BY <2>2, SetBeforeIs
  <2> QED BY <2>1, <2>3
<1>3. ASSUME NEW p \in 1 .. Len(es)
      PROVE  SetBefore(es, held, p + 1) =
                IF es[p].does = "add"
                  THEN IF es[p].m.kind \in KindsOf(SetBefore(es, held, p)) THEN SetBefore(es, held, p)
                       ELSE SetBefore(es, held, p) \union {es[p].m}
                ELSE IF es[p].does = "discard" THEN {x \in SetBefore(es, held, p) : x.kind # es[p].m.kind}
                ELSE SetBefore(es, held, p)
  <2> DEFINE e == es[p]
             b == SetBefore(es, held, p)
             c == SetBefore(es, held, p + 1)
             B(k) == CopyBefore(es, held, p, k)
             C(k) == CopyBefore(es, held, p + 1, k)
  <2>1. p \in 1 .. Len(es) + 1 /\ p + 1 \in 1 .. Len(es) + 1
    BY <1>1
  <2>2. (\A m : m \in b <=> m \in B(m.kind)) /\ (\A k : k \in KindsOf(b) <=> B(k) # {})
    BY <2>1, SetBeforeIs
  <2>3. \A m : m \in c <=> m \in C(m.kind)
    BY <2>1, SetBeforeIs
  <2>4. \A k : C(k) = IF e.does = "add" /\ e.m.kind = k
             THEN IF B(k) = {} THEN {e.m} ELSE B(k)
           ELSE IF e.does = "discard" /\ e.m.kind = k THEN {} ELSE B(k)
    BY CopyIs
  <2> HIDE DEF b, c, B, C, e
  <2>5. CASE e.does = "add" /\ e.m.kind \in KindsOf(b)
    <3>1. \A k : C(k) = B(k)
      BY <2>2, <2>4, <2>5
    <3>2. c = b
      BY <2>2, <2>3, <3>1
    <3> QED BY <2>5, <3>2 DEF b, c, e
  <2>6. CASE e.does = "add" /\ e.m.kind \notin KindsOf(b)
    <3>1. \A k : C(k) = IF e.m.kind = k THEN {e.m} ELSE B(k)
      BY <2>2, <2>4, <2>6
    <3>2. \A m \in b : m.kind # e.m.kind
      BY <2>6 DEF KindsOf
    <3>3. \A m : m \in c <=> m \in b \/ m = e.m
      BY <2>2, <2>3, <3>1, <3>2
    <3>4. c = b \union {e.m}
      BY <3>3
    <3> QED BY <2>6, <3>4 DEF b, c, e
  <2>7. CASE e.does = "discard"
    <3>1. \A k : C(k) = IF e.m.kind = k THEN {} ELSE B(k)
      BY <2>4, <2>7
    <3>2. c = {x \in b : x.kind # e.m.kind}
      BY <2>2, <2>3, <3>1
    <3>3. e.does # "add"
      BY <2>7
    <3> QED BY <2>7, <3>2, <3>3 DEF b, c, e
  <2>8. CASE e.does # "add" /\ e.does # "discard"
    <3>1. \A k : C(k) = B(k)
      BY <2>4, <2>8
    <3>2. c = b
      BY <2>2, <2>3, <3>1
    <3> QED BY <2>8, <3>2 DEF b, c, e
  <2> QED BY <2>5, <2>6, <2>7, <2>8
<1> QED BY <1>2, <1>3

-----------------------------------------------------------------------------
(* What has been read after a number of steps.                             *)

LEMMA FirstsAppend ==
  ASSUME NEW t \in Seq(AnyMember), NEW m \in AnyMember
  PROVE  Firsts(Append(t, m)) = IF m.kind \in KindsOf(ToSet(t)) THEN Firsts(t) ELSE Firsts(t) \union {m}
<1> DEFINE u == Append(t, m)
           n == Len(t)
<1>1. /\ u \in Seq(AnyMember) /\ n \in Nat /\ DOMAIN u = 1 .. n + 1 /\ DOMAIN t = 1 .. n
      /\ (\A i \in 1 .. n : u[i] = t[i]) /\ u[n + 1] = m
  BY AppendIs
<1> HIDE DEF u, n
<1>2. \A i \in 1 .. n : FirstAt(u, i) <=> FirstAt(t, i)
  <2>1. \A i \in 1 .. n : \A j \in 1 .. i - 1 : j \in 1 .. n
    BY <1>1
  <2> QED BY <1>1, <2>1 DEF FirstAt
<1>3. FirstAt(u, n + 1) <=> m.kind \notin KindsOf(ToSet(t))
  <2>1. (n + 1) - 1 = n
    BY <1>1
  <2> QED BY <1>1, <2>1 DEF FirstAt, KindsOf, ToSet
<1>4. 1 .. n + 1 = (1 .. n) \union {n + 1}
  BY <1>1
<1>5. {i \in DOMAIN u : FirstAt(u, i)} =
        IF m.kind \in KindsOf(ToSet(t)) THEN {i \in DOMAIN t : FirstAt(t, i)} ELSE {i \in DOMAIN t : FirstAt(t, i)} \union {n + 1}
  BY <1>1, <1>2, <1>3, <1>4
<1>6. Firsts(u) = IF m.kind \in KindsOf(ToSet(t)) THEN Firsts(t) ELSE Firsts(t) \union {m}
  BY <1>1, <1>5 DEF Firsts
<1> QED BY <1>6 DEF u

LEMMA FirstsSet ==
  ASSUME NEW v \in AnySet
  PROVE  v \in Seq(AnyMember) /\ Firsts(v) = ToSet(v)
<1>1. v \in Seq(AnyMember) /\ Len(v) \in Nat /\ DOMAIN v = 1 .. Len(v) /\ \A i, j \in DOMAIN v : v[i].kind = v[j].kind => i = j
  BY SetIs DEF AnySet
<1>2. \A i \in DOMAIN v : FirstAt(v, i)
  BY <1>1 DEF FirstAt
<1> QED BY <1>1, <1>2 DEF Firsts, ToSet

Readings == [held : AnySet, taken : Seq(Seq(AnyMember)), error : {"none"} \union Failures]

\* The first copy of its kind that an argument gave within the first p steps.
FirstBy(es, held, b, p, m) ==
  \E i \in 1 .. p : /\ es[i].arg = b /\ m \in GivenBy(es, held, i)
                    /\ \A j \in 1 .. i - 1 : es[j].arg = b => m.kind \notin KindsOf(GivenBy(es, held, j))
\* An argument gave a member of this kind.
GaveBy(es, held, b, p, k) == \E i \in 1 .. p : es[i].arg = b /\ k \in KindsOf(GivenBy(es, held, i))

NoFailure(es, p) == \A i \in 1 .. p : es[i].does \notin Failures

Sound(es, held, p, a, r) ==
  /\ r.error = "none" /\ ToSet(r.held) = SetBefore(es, held, p + 1)
  /\ Len(r.taken) = a /\ \A b \in 1 .. a : \A m : m \in Firsts(r.taken[b]) <=> FirstBy(es, held, b, p, m)
Broken(es, held, p, r) ==
  \E f \in 1 .. p : /\ NoFailure(es, f - 1) /\ es[f].does \in Failures
                    /\ r.error = es[f].does /\ ToSet(r.held) = SetBefore(es, held, f)
Reached(es, held, p, a, r) ==
  /\ r \in Readings /\ \A i \in 1 .. p : es[i].arg <= a
  /\ IF NoFailure(es, p) THEN Sound(es, held, p, a, r) ELSE Broken(es, held, p, r)

LEMMA ReadingIs ==
  ASSUME NEW r \in Readings
  PROVE  /\ r.held \in AnySet /\ r.taken \in Seq(Seq(AnyMember)) /\ r.error \in {"none"} \union Failures
         /\ r = [held |-> r.held, taken |-> r.taken, error |-> r.error]
         /\ Len(r.taken) \in Nat /\ DOMAIN r.taken = 1 .. Len(r.taken)
         /\ \A b \in 1 .. Len(r.taken) : r.taken[b] \in Seq(AnyMember)
<1>1. /\ r.held \in AnySet /\ r.taken \in Seq(Seq(AnyMember)) /\ r.error \in {"none"} \union Failures
      /\ r = [held |-> r.held, taken |-> r.taken, error |-> r.error]
  BY DEF Readings
<1> DEFINE V == Seq(AnyMember)
           t == r.taken
<1>2. t \in Seq(V)
  BY <1>1
<1> HIDE DEF V, t
<1>3. Len(t) \in Nat /\ DOMAIN t = 1 .. Len(t) /\ \A b \in 1 .. Len(t) : t[b] \in V
  BY <1>2, LenProperties
<1> QED BY <1>1, <1>3 DEF V, t

LEMMA GaveFirst ==
  ASSUME NEW es, NEW held, NEW b, NEW p \in Nat, NEW k, GaveBy(es, held, b, p, k)
  PROVE  \E m : m.kind = k /\ FirstBy(es, held, b, p, m)
<1> DEFINE T == {i \in 1 .. p : es[i].arg = b /\ k \in KindsOf(GivenBy(es, held, i))}
<1>1. T \in SUBSET Nat /\ T # {}
  BY DEF GaveBy
<1> HIDE DEF T
<1>2. PICK i \in T : \A j \in T : i <= j
  BY <1>1, LeastNatural
<1>3. i \in 1 .. p /\ es[i].arg = b /\ k \in KindsOf(GivenBy(es, held, i))
  BY <1>2 DEF T
<1>4. PICK m \in GivenBy(es, held, i) : m.kind = k
  BY <1>3 DEF KindsOf
<1>5. ASSUME NEW j \in 1 .. i - 1, es[j].arg = b PROVE k \notin KindsOf(GivenBy(es, held, j))
  <2>1. j \in 1 .. p /\ ~(i <= j)
    BY <1>3
  <2>2. j \notin T
    BY <1>2, <2>1
  <2> QED BY <1>5, <2>1, <2>2 DEF T
<1> QED BY <1>3, <1>4, <1>5 DEF FirstBy

LEMMA GaveIs ==
  ASSUME NEW es, NEW held, NEW b, NEW p \in Nat
  PROVE  \A k : GaveBy(es, held, b, p, k) <=> \E m : m.kind = k /\ FirstBy(es, held, b, p, m)
<1>1. ASSUME NEW k, NEW m, m.kind = k, FirstBy(es, held, b, p, m) PROVE GaveBy(es, held, b, p, k)
  BY <1>1 DEF FirstBy, GaveBy, KindsOf
<1> QED BY <1>1, GaveFirst

LEMMA GivenSoFar ==
  ASSUME NEW es, NEW held, NEW p \in Nat, NEW t \in Seq(AnyMember), NEW b,
         \A m : m \in Firsts(t) <=> FirstBy(es, held, b, p, m)
  PROVE  \A k : k \in KindsOf(ToSet(t)) <=> GaveBy(es, held, b, p, k)
<1>1. KindsOf(ToSet(t)) = KindsOf(Firsts(t))
  BY FirstsAre
<1>2. \A k : GaveBy(es, held, b, p, k) <=> \E m : m.kind = k /\ FirstBy(es, held, b, p, m)
  BY GaveIs
<1>3. \A k : k \in KindsOf(Firsts(t)) <=> \E m : m.kind = k /\ FirstBy(es, held, b, p, m)
  BY DEF KindsOf
<1> QED BY <1>1, <1>2, <1>3

(* One more step.                                                          *)
LEMMA FirstByStep ==
  ASSUME NEW es, NEW held, NEW b, NEW p \in Nat \ {0}
  PROVE  \A m : FirstBy(es, held, b, p, m) <=>
                  \/ FirstBy(es, held, b, p - 1, m)
                  \/ es[p].arg = b /\ m \in GivenBy(es, held, p) /\ ~GaveBy(es, held, b, p - 1, m.kind)
<1>1. 1 .. p = (1 .. p - 1) \union {p}
  OBVIOUS
<1>2. \A m : (\A j \in 1 .. p - 1 : es[j].arg = b => m.kind \notin KindsOf(GivenBy(es, held, j)))
               <=> ~GaveBy(es, held, b, p - 1, m.kind)
  BY DEF GaveBy
<1> QED BY <1>1, <1>2 DEF FirstBy

LEMMA ErrorStays ==
  ASSUME NEW es, NEW held, NEW p \in Nat, NEW a \in Nat, NEW q \in Nat, NEW c \in Nat, NEW r, Reached(es, held, p, a, r),
         r.error # "none", p <= q, \A i \in 1 .. q : es[i].arg <= c
  PROVE  Reached(es, held, q, c, r)
<1>1. ~NoFailure(es, p) /\ Broken(es, held, p, r) /\ r \in Readings
  BY DEF Reached, Sound
<1>2. ~NoFailure(es, q) /\ Broken(es, held, q, r)
  <2>1. \A i \in 1 .. p : i \in 1 .. q
    OBVIOUS
  <2> QED BY <1>1, <2>1 DEF NoFailure, Broken
<1> QED BY <1>1, <1>2 DEF Reached

LEMMA ReachedSound ==
  ASSUME NEW es, NEW held, NEW p, NEW a, NEW r, Reached(es, held, p, a, r)
  PROVE  /\ r \in Readings /\ (\A i \in 1 .. p : es[i].arg <= a)
         /\ r.error = "none" => NoFailure(es, p) /\ Sound(es, held, p, a, r)
<1>1. "none" \notin Failures
  BY DEF Failures
<1>2. ~NoFailure(es, p) => r.error # "none"
  BY <1>1 DEF Reached, Broken
<1> QED BY <1>2 DEF Reached

(* A failure is where everything stops.                                    *)
LEMMA FailingStep ==
  ASSUME NEW es, NEW held, NEW p \in Nat \ {0}, NEW a \in Nat, NEW c \in Nat, NEW r, Reached(es, held, p - 1, a, r),
         r.error = "none", es[p].does \in Failures, es[p].arg <= c, a <= c,
         \A i \in 1 .. p : es[i].arg \in Nat
  PROVE  Reached(es, held, p, c, [r EXCEPT !.error = es[p].does])
<1> DEFINE s == [r EXCEPT !.error = es[p].does]
<1>1. r \in Readings /\ Sound(es, held, p - 1, a, r) /\ NoFailure(es, p - 1) /\ (\A i \in 1 .. p - 1 : es[i].arg <= a)
  BY ReachedSound
<1>2. s \in Readings /\ s.error = es[p].does /\ s.held = r.held
  BY <1>1 DEF Readings
<1> HIDE DEF s
<1>3. p \in 1 .. p /\ (p - 1) + 1 = p
  OBVIOUS
<1>4. ~NoFailure(es, p) /\ Broken(es, held, p, s)
  BY <1>1, <1>2, <1>3 DEF NoFailure, Broken, Sound
<1>5. \A i \in 1 .. p : es[i].arg <= c
  <2>1. \A i \in 1 .. p : i = p \/ i \in 1 .. p - 1
    OBVIOUS
  <2> QED BY <1>1, <2>1
<1>6. Reached(es, held, p, c, s)
  BY <1>2, <1>4, <1>5 DEF Reached
<1> QED BY <1>6 DEF s

LEMMA ReadStepReaches ==
  ASSUME NEW es \in Seq(AnyEvent), NEW held \in AnySet, NEW p \in 1 .. Len(es), NEW a \in Nat \ {0},
         NEW step, step.does = es[p].does, step.m = es[p].m, step.does \in {"give", "add", "discard", "raised", "unhashable"},
         es[p].arg = a, NEW r, Reached(es, held, p - 1, a, r)
  PROVE  Reached(es, held, p, a, ReadStep(r, step))
<1> DEFINE e == es[p]
           s == ReadStep(r, step)
<1>1. /\ p \in Nat \ {0} /\ p - 1 \in Nat /\ (p - 1) + 1 = p /\ a \in Nat /\ p <= p /\ p - 1 <= p /\ p \in 1 .. p
      /\ (\A i \in 1 .. p : i = p \/ i \in 1 .. p - 1) /\ (\A i \in 1 .. p : es[i].arg \in Nat) /\ p \in 1 .. Len(es) + 1
  <2>1. \A i \in 1 .. p : i \in 1 .. Len(es)
    BY EventIs
  <2>2. \A i \in 1 .. p : es[i].arg \in Nat
    BY <2>1, EventIs
  <2>3. p \in Nat \ {0} /\ p - 1 \in Nat /\ (p - 1) + 1 = p /\ (\A i \in 1 .. p : i = p \/ i \in 1 .. p - 1)
    BY EventIs
  <2> QED BY <2>2, <2>3
<1>2. /\ r \in Readings /\ (\A i \in 1 .. p - 1 : es[i].arg <= a)
      /\ r.error = "none" => NoFailure(es, p - 1) /\ Sound(es, held, p - 1, a, r)
  BY ReachedSound
<1>3. \A i \in 1 .. p : es[i].arg <= a
  BY <1>1, <1>2
<1>4. CASE r.error # "none"
  <2>1. s = r
    BY <1>4 DEF ReadStep
  <2>2. Reached(es, held, p, a, r)
    BY <1>1, <1>3, <1>4, ErrorStays
  <2> QED BY <2>1, <2>2
<1>5. CASE r.error = "none" /\ step.does \in {"raised", "unhashable"}
  <2>1. s = [r EXCEPT !.error = e.does]
    BY <1>5 DEF ReadStep
  <2>2. e.does \in Failures
    BY <1>5 DEF Failures
  <2>3. Reached(es, held, p, a, [r EXCEPT !.error = e.does])
    BY <1>1, <1>3, <1>5, <2>2, FailingStep
  <2> QED BY <2>1, <2>3
<1>6. CASE r.error = "none" /\ step.does \in {"give", "add", "discard"}
  <2> DEFINE b == SetBefore(es, held, p)
  <2>1. /\ r.held \in AnySet /\ r.taken \in Seq(Seq(AnyMember)) /\ r = [held |-> r.held, taken |-> r.taken, error |-> "none"]
        /\ DOMAIN r.taken = 1 .. a /\ Len(r.taken) = a /\ \A c \in 1 .. a : r.taken[c] \in Seq(AnyMember)
    BY <1>2, <1>6, ReadingIs DEF Sound
  <2>2. /\ ToSet(r.held) = b
        /\ \A c \in 1 .. a : \A m : m \in Firsts(r.taken[c]) <=> FirstBy(es, held, c, p - 1, m)
    BY <1>1, <1>2, <1>6 DEF Sound
  <2>3. NoFailure(es, p)
    <3>1. e.does \notin Failures
      BY <1>6 DEF Failures
    <3> QED BY <1>1, <1>2, <1>6, <3>1 DEF NoFailure
  <2>4. e.m \in AnyMember
    BY <1>6, EventIs
  <2>5. SetBefore(es, held, p + 1) =
          IF e.does = "add" THEN IF e.m.kind \in KindsOf(b) THEN b ELSE b \union {e.m}
          ELSE IF e.does = "discard" THEN {x \in b : x.kind # e.m.kind} ELSE b
    BY SetBeforeStep
  <2>6. \A c, m : FirstBy(es, held, c, p, m) <=>
                    \/ FirstBy(es, held, c, p - 1, m)
                    \/ e.arg = c /\ m \in GivenBy(es, held, p) /\ ~GaveBy(es, held, c, p - 1, m.kind)
    BY <1>1, FirstByStep
  <2> HIDE DEF b, e
  <2>7. CASE step.does = "give"
    <3> DEFINE t == r.taken[a]
               u == Append(t, e.m)
               taken == [r.taken EXCEPT ![a] = u]
    <3>1. s = [r EXCEPT !.taken = taken]
      BY <1>6, <2>1, <2>7 DEF ReadStep, e
    <3>2. s.held = r.held /\ s.taken = taken /\ s.error = "none" /\ s = [held |-> r.held, taken |-> taken, error |-> "none"]
      <4> HIDE DEF s, taken
      <4>1. s = [held |-> r.held, taken |-> taken, error |-> "none"]
        BY <2>1, <3>1
      <4> QED BY <4>1
    <3> HIDE DEF s
    <3>3. t \in Seq(AnyMember) /\ a \in 1 .. a
      BY <2>1
    <3> HIDE DEF t
    <3>4. u \in Seq(AnyMember) /\ Firsts(u) = IF e.m.kind \in KindsOf(ToSet(t)) THEN Firsts(t) ELSE Firsts(t) \union {e.m}
      BY <2>4, <3>3, FirstsAppend, AppendIs
    <3>5. \A m : m \in Firsts(t) <=> FirstBy(es, held, a, p - 1, m)
      BY <2>2, <3>3 DEF t
    <3>6. \A k : k \in KindsOf(ToSet(t)) <=> GaveBy(es, held, a, p - 1, k)
      BY <1>1, <3>3, <3>5, GivenSoFar
    <3> HIDE DEF u
    <3>7. DOMAIN taken = 1 .. a /\ taken[a] = u /\ \A c \in 1 .. a : c # a => taken[c] = r.taken[c]
      BY <2>1, <3>3
    <3>8. taken \in Seq(Seq(AnyMember)) /\ Len(taken) = a
      <4> DEFINE V == Seq(AnyMember)
      <4>1. taken = [c \in 1 .. a |-> taken[c]] /\ \A c \in 1 .. a : taken[c] \in V
        BY <2>1, <3>4, <3>7
      <4> HIDE DEF V, taken
      <4>2. taken \in [1 .. a -> V]
        BY <4>1
      <4>3. taken \in Seq(V)
        BY <4>2, SeqDef
      <4>4. Len(taken) = a
        BY <3>7, <4>3, LenProperties
      <4> QED BY <4>3, <4>4 DEF V
    <3>9. GivenBy(es, held, p) = {e.m}
      BY <2>7 DEF GivenBy, e
    <3>10. \A m : m \in Firsts(u) <=> FirstBy(es, held, a, p, m)
      <4>1. e.arg = a
        BY DEF e
      <4> SUFFICES ASSUME NEW m PROVE m \in Firsts(u) <=> FirstBy(es, held, a, p, m)
        OBVIOUS
      <4>2. FirstBy(es, held, a, p, m) <=>
              FirstBy(es, held, a, p - 1, m) \/ (m \in GivenBy(es, held, p) /\ ~GaveBy(es, held, a, p - 1, m.kind))
        BY <2>6, <4>1
      <4>3. FirstBy(es, held, a, p, m) <=> m \in Firsts(t) \/ (m = e.m /\ m.kind \notin KindsOf(ToSet(t)))
        BY <3>5, <3>6, <3>9, <4>2
      <4>4. m \in Firsts(u) <=> m \in Firsts(t) \/ (m = e.m /\ e.m.kind \notin KindsOf(ToSet(t)))
        BY <3>4
      <4> QED BY <4>3, <4>4
    <3>11. \A c \in 1 .. a : c # a => \A m : FirstBy(es, held, c, p, m) <=> FirstBy(es, held, c, p - 1, m)
      <4>1. e.arg = a
        BY DEF e
      <4> QED BY <2>6, <4>1
    <3> HIDE DEF taken
    <3>12. \A c \in 1 .. a : \A m : m \in Firsts(s.taken[c]) <=> FirstBy(es, held, c, p, m)
      <4> SUFFICES ASSUME NEW c \in 1 .. a, NEW m PROVE m \in Firsts(s.taken[c]) <=> FirstBy(es, held, c, p, m)
        OBVIOUS
      <4>1. CASE c = a
        BY <3>2, <3>7, <3>10, <4>1
      <4>2. CASE c # a
        BY <2>2, <3>2, <3>7, <3>11, <4>2
      <4> QED BY <4>1, <4>2
    <3>13. SetBefore(es, held, p + 1) = b
      BY <2>5, <2>7 DEF e
    <3>14. s \in Readings
      BY <2>1, <3>2, <3>8 DEF Readings
    <3>15. Sound(es, held, p, a, s)
      BY <2>2, <3>2, <3>8, <3>12, <3>13 DEF Sound
    <3>16. Reached(es, held, p, a, s)
      BY <1>3, <2>3, <3>14, <3>15 DEF Reached
    <3> QED BY <3>16 DEF s
  <2>8. CASE step.does \in {"add", "discard"}
    <3> DEFINE h == IF step.does = "add" THEN Insert(r.held, e.m) ELSE TakeOut(r.held, e.m)
    <3>1. s = [r EXCEPT !.held = h]
      BY <1>6, <2>8 DEF ReadStep, e
    <3>2. h \in AnySet /\ ToSet(h) = SetBefore(es, held, p + 1)
      <4>1. CASE step.does = "add"
        <5>1. Insert(r.held, e.m) \in AnySet
          BY <2>1, <2>4, InsertIs
        <5>2. ToSet(Insert(r.held, e.m)) = IF e.m.kind \in KindsOf(b) THEN b ELSE b \union {e.m}
          BY <2>1, <2>2, <2>4, InsertIs
        <5>3. SetBefore(es, held, p + 1) = IF e.m.kind \in KindsOf(b) THEN b ELSE b \union {e.m}
          BY <2>5, <4>1 DEF e
        <5> QED BY <4>1, <5>1, <5>2, <5>3
      <4>2. CASE step.does = "discard"
        <5>1. TakeOut(r.held, e.m) \in AnySet
          BY <2>1, TakeOutIs
        <5>2. ToSet(TakeOut(r.held, e.m)) = {x \in b : x.kind # e.m.kind}
          BY <2>1, <2>2, TakeOutIs
        <5>3. SetBefore(es, held, p + 1) = {x \in b : x.kind # e.m.kind}
          BY <2>5, <4>2 DEF e
        <5> QED BY <4>2, <5>1, <5>2, <5>3
      <4> QED BY <2>8, <4>1, <4>2
    <3> HIDE DEF h
    <3>3. s.held = h /\ s.taken = r.taken /\ s.error = "none" /\ s = [held |-> h, taken |-> r.taken, error |-> "none"]
      BY <2>1, <3>1
    <3> HIDE DEF s
    <3>4. GivenBy(es, held, p) = {}
      BY <2>8 DEF GivenBy, e
    <3>5. \A c, m : FirstBy(es, held, c, p, m) <=> FirstBy(es, held, c, p - 1, m)
      BY <2>6, <3>4
    <3>6. s \in Readings
      BY <2>1, <3>2, <3>3 DEF Readings
    <3>7. Sound(es, held, p, a, s)
      BY <2>1, <2>2, <3>2, <3>3, <3>5 DEF Sound
    <3>8. Reached(es, held, p, a, s)
      BY <1>3, <2>3, <3>6, <3>7 DEF Reached
    <3> QED BY <3>8 DEF s
  <2> QED BY <1>6, <2>7, <2>8
<1> QED BY <1>4, <1>5, <1>6

LEMMA OneMoreArgument ==
  ASSUME NEW r \in Readings, NEW v \in Seq(AnyMember)
  PROVE  LET s == [r EXCEPT !.taken = Append(@, v)]
         IN  /\ s \in Readings /\ s.held = r.held /\ s.error = r.error /\ Len(s.taken) = Len(r.taken) + 1
             /\ s.taken[Len(r.taken) + 1] = v /\ \A b \in 1 .. Len(r.taken) : s.taken[b] = r.taken[b]
<1> DEFINE s == [r EXCEPT !.taken = Append(@, v)]
           V == Seq(AnyMember)
           t == r.taken
           u == Append(t, v)
<1>1. /\ r.held \in AnySet /\ r.taken \in Seq(V) /\ r.error \in {"none"} \union Failures
      /\ r = [held |-> r.held, taken |-> r.taken, error |-> r.error]
  BY ReadingIs
<1>2. s = [r EXCEPT !.taken = u]
  OBVIOUS
<1> HIDE DEF s, u
<1>3. s = [held |-> r.held, taken |-> u, error |-> r.error]
  BY <1>1, <1>2
<1>4. s.held = r.held /\ s.taken = u /\ s.error = r.error
  BY <1>3
<1> HIDE DEF V, t
<1>5. /\ u \in Seq(V) /\ Len(u) = Len(t) + 1 /\ u[Len(t) + 1] = v
      /\ \A b \in 1 .. Len(t) : u[b] = t[b]
  <2>1. t \in Seq(V) /\ v \in V
    BY <1>1 DEF t, V
  <2> QED BY <2>1, AppendProperties DEF u
<1>6. s \in Readings
  BY <1>1, <1>3, <1>5 DEF Readings, V
<1> QED BY <1>4, <1>5, <1>6 DEF s, t

(* A further argument, of which nothing is read yet, or which is the set.  *)
Begun(r) == [r EXCEPT !.taken = Append(@, << >>)]
LEMMA BeginReaches ==
  ASSUME NEW es \in Seq(AnyEvent), NEW held, NEW p \in 0 .. Len(es), NEW a \in Nat,
         NEW r, Reached(es, held, p, a, r), r.error = "none"
  PROVE  Reached(es, held, p, a + 1, Begun(r))
<1> DEFINE none == << >>
           s == [r EXCEPT !.taken = Append(@, none)]
<1>1. r \in Readings /\ (\A i \in 1 .. p : es[i].arg <= a) /\ NoFailure(es, p) /\ Sound(es, held, p, a, r)
  BY ReachedSound
<1>2. none \in Seq(AnyMember) /\ Firsts(none) = {}
  BY FirstsSet, NothingIn
<1> HIDE DEF none
<1>3. /\ s \in Readings /\ s.held = r.held /\ s.error = r.error /\ Len(s.taken) = Len(r.taken) + 1
      /\ s.taken[Len(r.taken) + 1] = none /\ \A b \in 1 .. Len(r.taken) : s.taken[b] = r.taken[b]
  BY <1>1, <1>2, OneMoreArgument
<1>4. Len(r.taken) = a
  BY <1>1 DEF Sound
<1> HIDE DEF s
<1>5. \A i \in 1 .. p : es[i].arg # a + 1
  BY <1>1
<1>6. \A m : ~FirstBy(es, held, a + 1, p, m)
  BY <1>5 DEF FirstBy
<1>7. \A i \in 1 .. p : es[i].arg <= a + 1
  <2>1. \A i \in 1 .. p : i \in 1 .. Len(es)
    BY EventIs
  <2> QED BY <1>1, <2>1, EventIs
<1>8. \A b \in 1 .. a + 1 : \A m : m \in Firsts(s.taken[b]) <=> FirstBy(es, held, b, p, m)
  <2> SUFFICES ASSUME NEW b \in 1 .. a + 1, NEW m PROVE m \in Firsts(s.taken[b]) <=> FirstBy(es, held, b, p, m)
    OBVIOUS
  <2>1. b = a + 1 \/ b \in 1 .. a
    OBVIOUS
  <2> QED BY <1>1, <1>2, <1>3, <1>4, <1>6, <2>1 DEF Sound
<1>9. Reached(es, held, p, a + 1, s)
  BY <1>1, <1>3, <1>4, <1>7, <1>8 DEF Reached, Sound
<1> QED BY <1>4, <1>9 DEF s, none, Begun

LEMMA SelfReaches ==
  ASSUME NEW es \in Seq(AnyEvent), NEW held \in AnySet, NEW p \in 1 .. Len(es), NEW a \in Nat,
         es[p].does = "self", es[p].arg = a + 1, NEW r, Reached(es, held, p - 1, a, r), r.error = "none"
  PROVE  Reached(es, held, p, a + 1, [r EXCEPT !.taken = Append(@, r.held)])
<1> DEFINE v == r.held
           s == [r EXCEPT !.taken = Append(@, v)]
           c == a + 1
<1>1. /\ r \in Readings /\ (\A i \in 1 .. p - 1 : es[i].arg <= a)
      /\ NoFailure(es, p - 1) /\ Sound(es, held, p - 1, a, r)
  BY ReachedSound
<1>2. /\ p \in Nat \ {0} /\ p - 1 \in Nat /\ (p - 1) + 1 = p /\ (\A i \in 1 .. p : i = p \/ i \in 1 .. p - 1) /\ c \in Nat
      /\ \A i \in 1 .. p : es[i].arg \in Nat
  <2>1. \A i \in 1 .. p : i \in 1 .. Len(es)
    BY EventIs
  <2>2. \A i \in 1 .. p : es[i].arg \in Nat
    BY <2>1, EventIs
  <2>3. p \in Nat \ {0} /\ p - 1 \in Nat /\ (p - 1) + 1 = p /\ (\A i \in 1 .. p : i = p \/ i \in 1 .. p - 1)
    BY EventIs
  <2> QED BY <2>2, <2>3
<1>3. v \in AnySet /\ v \in Seq(AnyMember) /\ Firsts(v) = ToSet(v)
  BY <1>1, ReadingIs, FirstsSet
<1>4. ToSet(v) = SetBefore(es, held, p) /\ Len(r.taken) = a
  BY <1>1, <1>2 DEF Sound
<1> HIDE DEF v
<1>5. /\ s \in Readings /\ s.held = r.held /\ s.error = r.error /\ Len(s.taken) = Len(r.taken) + 1
      /\ s.taken[Len(r.taken) + 1] = v /\ \A b \in 1 .. Len(r.taken) : s.taken[b] = r.taken[b]
  BY <1>1, <1>3, OneMoreArgument
<1> HIDE DEF s
<1>6. SetBefore(es, held, p + 1) = SetBefore(es, held, p)
  BY SetBeforeStep
<1>7. GivenBy(es, held, p) = SetBefore(es, held, p)
  BY DEF GivenBy
<1>8. \A b, m : FirstBy(es, held, b, p, m) <=>
                  \/ FirstBy(es, held, b, p - 1, m)
                  \/ es[p].arg = b /\ m \in GivenBy(es, held, p) /\ ~GaveBy(es, held, b, p - 1, m.kind)
  BY <1>2, FirstByStep
<1>9. \A i \in 1 .. p - 1 : es[i].arg # c
  BY <1>1, <1>2
<1>10. \A m : ~FirstBy(es, held, c, p - 1, m) /\ ~GaveBy(es, held, c, p - 1, m.kind)
  BY <1>9 DEF FirstBy, GaveBy
<1>11. \A m : m \in Firsts(v) <=> FirstBy(es, held, c, p, m)
  BY <1>3, <1>4, <1>7, <1>8, <1>10
<1>12. ASSUME NEW i \in 1 .. p PROVE es[i].arg <= c
  <2>1. CASE i = p
    BY <1>2, <2>1
  <2>2. CASE i \in 1 .. p - 1
    <3>1. es[i].arg <= a /\ es[i].arg \in Nat
      BY <1>1, <1>2, <2>2
    <3> QED BY <3>1
  <2> QED BY <1>2, <2>1, <2>2
<1>13. \A b \in 1 .. c : \A m : m \in Firsts(s.taken[b]) <=> FirstBy(es, held, b, p, m)
  <2> SUFFICES ASSUME NEW b \in 1 .. c, NEW m PROVE m \in Firsts(s.taken[b]) <=> FirstBy(es, held, b, p, m)
    OBVIOUS
  <2>1. CASE b = c
    BY <1>4, <1>5, <1>11, <2>1
  <2>2. CASE b # c
    <3>1. b \in 1 .. a /\ es[p].arg # b
      BY <2>2
    <3>2. FirstBy(es, held, b, p, m) <=> FirstBy(es, held, b, p - 1, m)
      BY <1>8, <3>1
    <3> QED BY <1>1, <1>4, <1>5, <3>1, <3>2 DEF Sound
  <2> QED BY <2>1, <2>2
<1>14. NoFailure(es, p)
  <2>1. "self" \notin Failures
    BY DEF Failures
  <2> QED BY <1>1, <1>2, <2>1 DEF NoFailure
<1>15. s.error = "none" /\ ToSet(s.held) = SetBefore(es, held, p + 1) /\ Len(s.taken) = c
  BY <1>4, <1>5, <1>6 DEF v
<1>16. Sound(es, held, p, c, s)
  BY <1>13, <1>15 DEF Sound
<1> HIDE DEF c
<1>17. Reached(es, held, p, c, s)
  BY <1>5, <1>12, <1>14, <1>16 DEF Reached
<1> QED BY <1>17 DEF s, v, c

ReadingsOf(a) == {r \in Readings : Len(r.taken) = a}

LEMMA ReadStepType ==
  ASSUME NEW a \in Nat \ {0}, NEW r \in ReadingsOf(a), NEW step \in AnyStep
  PROVE  ReadStep(r, step) \in ReadingsOf(a)
<1> DEFINE s == ReadStep(r, step)
<1>1. r \in Readings /\ Len(r.taken) = a /\ step.m \in AnyMember
  BY DEF ReadingsOf, AnyStep
<1>2. /\ r.held \in AnySet /\ r.taken \in Seq(Seq(AnyMember)) /\ r.error \in {"none"} \union Failures
      /\ r = [held |-> r.held, taken |-> r.taken, error |-> r.error]
      /\ DOMAIN r.taken = 1 .. a /\ \A b \in 1 .. a : r.taken[b] \in Seq(AnyMember)
  BY <1>1, ReadingIs
<1>3. step.does \in {"give", "add", "discard"} \union Failures
  BY DEF AnyStep, Failures
<1>4. CASE r.error # "none"
  BY <1>4 DEF ReadStep
<1>5. CASE r.error = "none" /\ step.does = "give"
  <2> DEFINE t == r.taken[a]
             u == Append(t, step.m)
             V == Seq(AnyMember)
             taken == [r.taken EXCEPT ![a] = u]
  <2>1. s = [r EXCEPT !.taken = taken]
    BY <1>1, <1>5 DEF ReadStep
  <2>2. a \in 1 .. a /\ u \in V
    BY <1>1, <1>2, AppendIs
  <2> HIDE DEF u
  <2>3. taken = [c \in 1 .. a |-> taken[c]] /\ \A c \in 1 .. a : taken[c] \in V
    BY <1>2, <2>2
  <2> HIDE DEF taken, V, s
  <2>4. s = [held |-> r.held, taken |-> taken, error |-> r.error]
    BY <1>2, <2>1
  <2>5. taken \in [1 .. a -> V] /\ DOMAIN taken = 1 .. a
    BY <2>3
  <2>6. taken \in Seq(V)
    BY <2>5, SeqDef
  <2>7. Len(taken) = a
    BY <2>5, <2>6, LenProperties
  <2>8. s \in ReadingsOf(a)
    BY <1>2, <2>4, <2>6, <2>7 DEF ReadingsOf, Readings, V
  <2> QED BY <2>8 DEF s
<1>6. CASE r.error = "none" /\ step.does \in {"add", "discard"}
  <2> DEFINE h == IF step.does = "add" THEN Insert(r.held, step.m) ELSE TakeOut(r.held, step.m)
  <2>1. s = [r EXCEPT !.held = h]
    BY <1>6 DEF ReadStep
  <2>2. h \in AnySet
    BY <1>1, <1>2, InsertIs, TakeOutIs
  <2> HIDE DEF h, s
  <2>3. s = [held |-> h, taken |-> r.taken, error |-> r.error]
    BY <1>2, <2>1
  <2>4. s \in ReadingsOf(a)
    BY <1>1, <1>2, <2>2, <2>3 DEF ReadingsOf, Readings
  <2> QED BY <2>4 DEF s
<1>7. CASE r.error = "none" /\ step.does \in Failures
  <2>1. s = [r EXCEPT !.error = step.does]
    BY <1>7 DEF ReadStep, Failures
  <2> HIDE DEF s
  <2>2. s = [held |-> r.held, taken |-> r.taken, error |-> step.does]
    BY <1>2, <2>1
  <2>3. s \in ReadingsOf(a)
    BY <1>1, <1>2, <1>7, <2>2 DEF ReadingsOf, Readings
  <2> QED BY <2>3 DEF s
<1> QED BY <1>3, <1>4, <1>5, <1>6, <1>7


LEMMA ReadStepsGoes ==
  ASSUME NEW a \in Nat \ {0}, NEW r \in ReadingsOf(a), NEW steps \in Seq(AnyStep)
  PROVE  \E h : /\ h[0] = r /\ ReadSteps(r, steps) = h[Len(steps)] /\ \A k \in 0 .. Len(steps) : h[k] \in ReadingsOf(a)
                /\ \A k \in 1 .. Len(steps) : k - 1 \in 0 .. Len(steps) /\ h[k] = ReadStep(h[k - 1], steps[k])
<1> DEFINE n == Len(steps)
           W == ReadingsOf(a)
           start == r
           Next(v, k) == ReadStep(v, steps[k])
           Recurs(t) == t = [k \in 0 .. n |-> IF k = 0 THEN start ELSE ReadStep(t[k - 1], steps[k])]
           next == [k \in 1 .. n |-> [v \in W |-> Next(v, k)]]
<1>1. n \in Nat /\ start \in W
  BY LenProperties
<1>2. ASSUME NEW k \in 1 .. n, NEW v \in W PROVE Next(v, k) \in W
  <2>1. steps[k] \in AnyStep /\ v \in ReadingsOf(a)
    BY <1>2, LenProperties
  <2> QED BY <2>1, ReadStepType
<1>3. next \in [1 .. n -> [W -> W]]
  <2> HIDE DEF Next, n, W
  <2> QED BY <1>2
<1>4. \A k \in 1 .. n, v \in W : next[k][v] = Next(v, k)
  OBVIOUS
<1> HIDE DEF next, n, W, start
<1>5. PICK h : Unrolled(h, n, W, start, next)
  BY <1>1, <1>3, Unrolls
<1>6. \A k \in 1 .. n : k - 1 \in 0 .. n /\ h[k] = Next(h[k - 1], k)
  <2> HIDE DEF Next
  <2>1. ASSUME NEW k \in 1 .. n PROVE k - 1 \in 0 .. n
    BY <1>1
  <2> QED BY <1>4, <1>5, <2>1 DEF Unrolled
<1>7. Recurs(h)
  <2>1. ASSUME NEW k \in 0 .. n
        PROVE  h[k] = IF k = 0 THEN start ELSE ReadStep(h[k - 1], steps[k])
    <3>1. k = 0 \/ k \in 1 .. n
      BY <1>1
    <3> QED BY <1>5, <1>6, <3>1 DEF Unrolled
  <2> QED BY <1>5, <2>1 DEF Unrolled
<1> DEFINE last == CHOOSE t : Recurs(t)
<1>8. Recurs(last)
  <2> HIDE DEF Recurs
  <2> QED BY <1>7
<1>9. ReadSteps(r, steps) = last[n]
  BY DEF ReadSteps, n, start
<1> HIDE DEF last
<1>10. last[0] = start /\ \A k \in 1 .. n : last[k] = Next(last[k - 1], k)
  <2>1. \A k \in 0 .. n : last[k] = IF k = 0 THEN start ELSE ReadStep(last[k - 1], steps[k])
    BY <1>8
  <2> QED BY <1>1, <2>1
<1> HIDE DEF Recurs
<1> DEFINE S == {k \in 0 .. n : last[k] \in W}
<1>11. \A k \in 0 .. n : k \in S
  <2>1. 0 \in S
    BY <1>1, <1>10
  <2>2. ASSUME NEW k \in 1 .. n, k - 1 \in S PROVE k \in S
    <3> HIDE DEF Next
    <3>1. last[k] \in W
      BY <1>2, <1>10, <2>2
    <3> QED BY <1>1, <3>1
  <2> HIDE DEF S
  <2> QED BY <1>1, <2>1, <2>2, StepByStep
<1>12. \A k \in 0 .. n : last[k] \in W
  BY <1>11
<1>13. \A k \in 1 .. n : k - 1 \in 0 .. n
  BY <1>1
<1> HIDE DEF S
<1> QED BY <1>9, <1>10, <1>12, <1>13 DEF n, W, start

LEMMA ReadType ==
  ASSUME NEW r \in Readings, NEW other \in AnyOther
  PROVE  Read(r, other) \in Readings
<1>1. other.is \in {"walk", "self", "not iterable"} /\ other.steps \in Seq(AnyStep)
  BY DEF AnyOther
<1>2. CASE r.error # "none"
  BY <1>2 DEF Read
<1>3. CASE r.error = "none" /\ other.is = "not iterable"
  <2>1. Read(r, other) = [r EXCEPT !.error = "not iterable"]
    BY <1>3 DEF Read
  <2> QED BY <2>1 DEF Readings, Failures
<1>4. CASE r.error = "none" /\ other.is = "self"
  <2>1. Read(r, other) = [r EXCEPT !.taken = Append(@, r.held)]
    BY <1>4 DEF Read
  <2>2. r.held \in Seq(AnyMember)
    BY ReadingIs, FirstsSet
  <2> QED BY <2>1, <2>2, OneMoreArgument
<1>5. CASE r.error = "none" /\ other.is = "walk"
  <2> DEFINE none == << >>
             s == [r EXCEPT !.taken = Append(@, none)]
             steps == other.steps
             a == Len(r.taken) + 1
             m == Len(steps)
  <2>1. Read(r, other) = ReadSteps(s, steps)
    BY <1>5 DEF Read
  <2>2. none \in Seq(AnyMember)
    BY NothingIn, FirstsSet
  <2> HIDE DEF none
  <2>3. s \in Readings /\ Len(s.taken) = a /\ a \in Nat \ {0}
    BY <2>2, OneMoreArgument, ReadingIs, SMTT(20)
  <2>4. steps \in Seq(AnyStep) /\ m \in Nat
    BY <1>1, LenProperties
  <2> HIDE DEF s, a, steps
  <2>5. s \in ReadingsOf(a)
    BY <2>3 DEF ReadingsOf
  <2>6. PICK h : ReadSteps(s, steps) = h[m] /\ \A k \in 0 .. m : h[k] \in ReadingsOf(a)
    BY <2>3, <2>4, <2>5, ReadStepsGoes
  <2>7. m \in 0 .. m
    BY <2>4
  <2> QED BY <2>1, <2>6, <2>7 DEF ReadingsOf
<1> QED BY <1>1, <1>2, <1>3, <1>4, <1>5


LEMMA EveryGoes ==
  ASSUME NEW held \in AnySet, NEW others \in Seq(AnyOther)
  PROVE  \E h : /\ h[0] = [held |-> held, taken |-> << >>, error |-> "none"] /\ Every(held, others) = h[Len(others)] /\ \A k \in 0 .. Len(others) : h[k] \in Readings
                /\ \A k \in 1 .. Len(others) : k - 1 \in 0 .. Len(others) /\ h[k] = Read(h[k - 1], others[k])
<1> DEFINE n == Len(others)
           W == Readings
           start == [held |-> held, taken |-> << >>, error |-> "none"]
           Next(v, k) == Read(v, others[k])
           Recurs(t) == t = [k \in 0 .. n |-> IF k = 0 THEN start ELSE Read(t[k - 1], others[k])]
           next == [k \in 1 .. n |-> [v \in W |-> Next(v, k)]]
<1>1. n \in Nat /\ start \in W
  <2>1. << >> \in Seq(Seq(AnyMember))
    OBVIOUS
  <2>2. Len(others) \in Nat
    BY LenProperties
  <2> QED BY <2>1, <2>2 DEF Readings
<1>2. ASSUME NEW k \in 1 .. n, NEW v \in W PROVE Next(v, k) \in W
  <2>1. others[k] \in AnyOther /\ v \in Readings
    BY <1>2, LenProperties
  <2> QED BY <2>1, ReadType
<1>3. next \in [1 .. n -> [W -> W]]
  <2> HIDE DEF Next, n, W
  <2> QED BY <1>2
<1>4. \A k \in 1 .. n, v \in W : next[k][v] = Next(v, k)
  OBVIOUS
<1> HIDE DEF next, n, W, start
<1>5. PICK h : Unrolled(h, n, W, start, next)
  BY <1>1, <1>3, Unrolls
<1>6. \A k \in 1 .. n : k - 1 \in 0 .. n /\ h[k] = Next(h[k - 1], k)
  <2> HIDE DEF Next
  <2>1. ASSUME NEW k \in 1 .. n PROVE k - 1 \in 0 .. n
    BY <1>1
  <2> QED BY <1>4, <1>5, <2>1 DEF Unrolled
<1>7. Recurs(h)
  <2>1. ASSUME NEW k \in 0 .. n
        PROVE  h[k] = IF k = 0 THEN start ELSE Read(h[k - 1], others[k])
    <3>1. k = 0 \/ k \in 1 .. n
      BY <1>1
    <3> QED BY <1>5, <1>6, <3>1 DEF Unrolled
  <2> QED BY <1>5, <2>1 DEF Unrolled
<1> DEFINE last == CHOOSE t : Recurs(t)
<1>8. Recurs(last)
  <2> HIDE DEF Recurs
  <2> QED BY <1>7
<1>9. Every(held, others) = last[n]
  BY DEF Every, n, start
<1> HIDE DEF last
<1>10. last[0] = start /\ \A k \in 1 .. n : last[k] = Next(last[k - 1], k)
  <2>1. \A k \in 0 .. n : last[k] = IF k = 0 THEN start ELSE Read(last[k - 1], others[k])
    BY <1>8
  <2> QED BY <1>1, <2>1
<1> HIDE DEF Recurs
<1> DEFINE S == {k \in 0 .. n : last[k] \in W}
<1>11. \A k \in 0 .. n : k \in S
  <2>1. 0 \in S
    BY <1>1, <1>10
  <2>2. ASSUME NEW k \in 1 .. n, k - 1 \in S PROVE k \in S
    <3> HIDE DEF Next
    <3>1. last[k] \in W
      BY <1>2, <1>10, <2>2
    <3> QED BY <1>1, <3>1
  <2> HIDE DEF S
  <2> QED BY <1>1, <2>1, <2>2, StepByStep
<1>12. \A k \in 0 .. n : last[k] \in W
  BY <1>11
<1>13. \A k \in 1 .. n : k - 1 \in 0 .. n
  BY <1>1
<1> HIDE DEF S
<1> QED BY <1>9, <1>10, <1>12, <1>13 DEF n, W, start

LEMMA EventsOfIs ==
  ASSUME NEW i \in Nat \ {0}, NEW other \in AnyOther
  PROVE  /\ EventsOf(i, other) \in Seq(AnyEvent) /\ Len(EventsOf(i, other)) \in Nat
         /\ \A j \in 1 .. Len(EventsOf(i, other)) : EventsOf(i, other)[j].arg = i
         /\ other.is = "walk" =>
              /\ Len(EventsOf(i, other)) = Len(other.steps)
              /\ \A j \in 1 .. Len(other.steps) : EventsOf(i, other)[j] = Event(i, other.steps[j].does, other.steps[j].m)
         /\ other.is # "walk" =>
              Len(EventsOf(i, other)) = 1 /\ EventsOf(i, other)[1] = Event(i, other.is, NoMember)
<1> DEFINE of == EventsOf(i, other)
<1>1. other.is \in {"walk", "self", "not iterable"} /\ other.steps \in Seq(AnyStep)
  BY DEF AnyOther
<1>2. CASE other.is = "walk"
  <2> DEFINE steps == other.steps
             m == Len(steps)
             es == [k \in DOMAIN steps |-> Event(i, steps[k].does, steps[k].m)]
  <2>1. m \in Nat /\ DOMAIN steps = 1 .. m /\ \A k \in 1 .. m : steps[k] \in AnyStep
    BY <1>1, LenProperties
  <2>2. of = es
    BY <1>2 DEF EventsOf
  <2> HIDE DEF steps, m, of
  <2>3. ASSUME NEW k \in 1 .. m PROVE Event(i, steps[k].does, steps[k].m) \in AnyEvent
    <3>1. steps[k].does \in {"give", "add", "discard", "raised", "unhashable"} /\ steps[k].m \in AnyMember
      BY <2>1 DEF AnyStep
    <3> QED BY <3>1 DEF Event, AnyEvent
  <2>4. es \in [1 .. m -> AnyEvent] /\ DOMAIN es = 1 .. m /\ \A k \in 1 .. m : es[k] = Event(i, steps[k].does, steps[k].m)
    BY <2>1, <2>3
  <2> HIDE DEF es
  <2>5. es \in Seq(AnyEvent)
    BY <2>1, <2>4, SeqDef
  <2>6. Len(es) = m
    BY <2>1, <2>4, <2>5, LenProperties
  <2>7. \A k \in 1 .. m : es[k].arg = i
    BY <2>4 DEF Event
  <2> QED BY <1>2, <2>1, <2>2, <2>4, <2>5, <2>6, <2>7 DEF of, m, steps
<1>3. CASE other.is # "walk"
  <2> DEFINE e == Event(i, other.is, NoMember)
  <2>1. of = <<e>>
    BY <1>3 DEF EventsOf
  <2>2. e \in AnyEvent /\ e.arg = i
    <3>1. other.is \in {"self", "not iterable"}
      BY <1>1, <1>3
    <3> QED BY <3>1 DEF Event, AnyEvent
  <2> HIDE DEF e, of
  <2>3. <<e>> \in Seq(AnyEvent) /\ Len(<<e>>) = 1 /\ <<e>>[1] = e
    BY <2>2
  <2> QED BY <1>3, <2>1, <2>2, <2>3 DEF of, e
<1> QED BY <1>2, <1>3

\* The events of the arguments one after another: those of the k-th start after from[k - 1] of them.
Joined(es, others, from) ==
  /\ from[0] = 0 /\ Len(es) = from[Len(others)]
  /\ \A k \in 0 .. Len(others) : from[k] \in Nat
  /\ \A k \in 1 .. Len(others) :
       /\ k - 1 \in 0 .. Len(others)
       /\ from[k] = from[k - 1] + Len(EventsOf(k, others[k]))
       /\ \A j \in 1 .. Len(EventsOf(k, others[k])) : es[from[k - 1] + j] = EventsOf(k, others[k])[j]

LEMMA EventsAre ==
  ASSUME NEW others \in Seq(AnyOther)
  PROVE  /\ Events(others) \in Seq(AnyEvent)
         /\ \E from : Joined(Events(others), others, from)
<1> DEFINE n == Len(others)
           V == Seq(AnyEvent)
           each == [i \in DOMAIN others |-> EventsOf(i, others[i])]
<1>1. n \in Nat /\ DOMAIN others = 1 .. n /\ \A i \in 1 .. n : others[i] \in AnyOther
  BY LenProperties
<1>2. ASSUME NEW i \in 1 .. n PROVE EventsOf(i, others[i]) \in V
  BY <1>1, EventsOfIs
<1>3. \A i \in 1 .. n : each[i] = EventsOf(i, others[i])
  BY <1>1
<1>4. each \in [1 .. n -> V]
  BY <1>1, <1>2
<1>5. Events(others) = FlattenSeq(each)
  BY DEF Events
<1> HIDE DEF each, V, n
<1>6. each \in Seq(V) /\ Len(each) = n
  <2>1. each \in Seq(V)
    BY <1>1, <1>4, SeqDef
  <2>2. DOMAIN each = 1 .. n
    BY <1>4
  <2> QED BY <1>1, <2>1, <2>2, LenProperties
<1>7. FlattenSeq(each) \in Seq(AnyEvent) /\ \E from : Lies(from, each, FlattenSeq(each))
  BY <1>6, FlattenLies DEF V
<1>8. PICK from : Lies(from, each, FlattenSeq(each))
  BY <1>7
<1> DEFINE flat == FlattenSeq(each)
<1> HIDE DEF flat
<1>9. Lies(from, each, flat)
  BY <1>8 DEF flat
<1>10. from[0] = 0 /\ Len(flat) = from[n] /\ \A k \in 0 .. n : from[k] \in Nat
  BY <1>6, <1>9 DEF Lies
<1>11. \A k \in 1 .. n : /\ k - 1 \in 0 .. n
                         /\ from[k] = from[k - 1] + Len(EventsOf(k, others[k]))
                         /\ \A j \in 1 .. Len(EventsOf(k, others[k])) : flat[from[k - 1] + j] = EventsOf(k, others[k])[j]
  BY <1>3, <1>6, <1>9 DEF Lies
<1>12. Events(others) = flat
  BY <1>5 DEF flat
<1> HIDE DEF flat
<1>13. Joined(flat, others, from)
  BY <1>10, <1>11 DEF n, Joined
<1> QED BY <1>7, <1>12, <1>13 DEF flat

(* After all arguments.                                                    *)
LEMMA WalkReaches ==
  ASSUME NEW es \in Seq(AnyEvent), NEW held \in AnySet, NEW p \in Nat, NEW a \in Nat \ {0}, NEW steps \in Seq(AnyStep),
         p + Len(steps) <= Len(es),
         \A j \in 1 .. Len(steps) : es[p + j] = Event(a, steps[j].does, steps[j].m),
         NEW r, r \in ReadingsOf(a), Reached(es, held, p, a, r)
  PROVE  Reached(es, held, p + Len(steps), a, ReadSteps(r, steps))
<1> DEFINE m == Len(steps)
<1>1. m \in Nat /\ Len(es) \in Nat /\ \A k \in 1 .. m : steps[k] \in AnyStep
  BY LenProperties
<1>2. PICK h : /\ h[0] = r /\ ReadSteps(r, steps) = h[m]
               /\ \A k \in 1 .. m : k - 1 \in 0 .. m /\ h[k] = ReadStep(h[k - 1], steps[k])
  BY ReadStepsGoes
<1> HIDE DEF m
<1> DEFINE S == {k \in 0 .. m : Reached(es, held, p + k, a, h[k])}
<1>3. 0 \in S
  <2>1. p + 0 = p /\ 0 \in 0 .. m
    BY <1>1
  <2> QED BY <1>2, <2>1
<1>4. ASSUME NEW k \in 1 .. m, k - 1 \in S PROVE k \in S
  <2> DEFINE q == p + k
             s == h[k - 1]
             step == steps[k]
  <2>1. q \in 1 .. Len(es) /\ q - 1 = p + (k - 1) /\ k \in 0 .. m
    BY <1>1 DEF m
  <2>2. Reached(es, held, q - 1, a, s) /\ h[k] = ReadStep(s, step)
    BY <1>2, <1>4, <2>1
  <2>3. es[q] = Event(a, step.does, step.m) /\ step \in AnyStep
    BY <1>1 DEF m
  <2>4. step.does = es[q].does /\ step.m = es[q].m /\ es[q].arg = a
        /\ step.does \in {"give", "add", "discard", "raised", "unhashable"}
    BY <2>3 DEF Event, AnyStep
  <2> HIDE DEF q, s, step
  <2>5. Reached(es, held, q, a, ReadStep(s, step))
    BY <2>1, <2>2, <2>4, ReadStepReaches
  <2> QED BY <2>1, <2>2, <2>5 DEF q
<1> HIDE DEF S
<1>5. m \in S
  <2>1. \A k \in 0 .. m : k \in S
    BY <1>1, <1>3, <1>4, StepByStep
  <2> QED BY <1>1, <2>1
<1> QED BY <1>2, <1>5 DEF S, m

Behind(es, p, seq) ==
  Len(seq) \in Nat /\ p + Len(seq) <= Len(es) /\ \A j \in 1 .. Len(seq) : es[p + j] = seq[j]
LEMMA ReadReaches ==
  ASSUME NEW es \in Seq(AnyEvent), NEW held \in AnySet, NEW p \in Nat, NEW a \in Nat, NEW other \in AnyOther,
         Behind(es, p, EventsOf(a + 1, other)),
         NEW r, Reached(es, held, p, a, r)
  PROVE  Reached(es, held, p + Len(EventsOf(a + 1, other)), a + 1, Read(r, other))
<1> DEFINE c == a + 1
           of == EventsOf(c, other)
           q == p + Len(of)
<1>1. other.is \in {"walk", "self", "not iterable"} /\ other.steps \in Seq(AnyStep)
  BY DEF AnyOther
<1>2. Len(es) \in Nat /\ \A i \in 1 .. Len(es) : es[i].arg \in Nat
  BY EventIs
<1>12. Len(of) \in Nat /\ q <= Len(es) /\ \A j \in 1 .. Len(of) : es[p + j] = of[j]
  BY DEF Behind
<1>3. \A i \in 1 .. p : es[i].arg <= a /\ es[i].arg \in Nat
  <2>1. \A i \in 1 .. p : i \in 1 .. Len(es)
    BY <1>2, <1>12
  <2> QED BY <1>2, <2>1 DEF Reached
<1>13. /\ Len(of) \in Nat /\ \A j \in 1 .. Len(of) : of[j].arg = c
       /\ other.is = "walk" =>
            Len(of) = Len(other.steps) /\ \A j \in 1 .. Len(of) : of[j] = Event(c, other.steps[j].does, other.steps[j].m)
       /\ other.is # "walk" => Len(of) = 1 /\ of[1] = Event(c, other.is, NoMember)
  <2>1. c \in Nat \ {0}
    OBVIOUS
  <2> HIDE DEF c
  <2>2. Len(of) \in Nat /\ \A j \in 1 .. Len(of) : of[j].arg = c
    BY <2>1, EventsOfIs
  <2>3. other.is = "walk" =>
          Len(of) = Len(other.steps) /\ \A j \in 1 .. Len(other.steps) : of[j] = Event(c, other.steps[j].does, other.steps[j].m)
    BY <2>1, EventsOfIs
  <2>4. other.is # "walk" => Len(of) = 1 /\ of[1] = Event(c, other.is, NoMember)
    BY <2>1, EventsOfIs
  <2> HIDE DEF of
  <2> QED BY <2>2, <2>3, <2>4
<1> HIDE DEF of
<1>4. other.is # "walk" => q = p + 1 /\ es[p + 1] = Event(c, other.is, NoMember)
  <2> SUFFICES ASSUME other.is # "walk" PROVE q = p + 1 /\ es[p + 1] = Event(c, other.is, NoMember)
    OBVIOUS
  <2>3. Len(of) = 1 /\ of[1] = Event(c, other.is, NoMember)
    BY <1>13
  <2>1. Len(of) = 1 /\ of[1] = Event(c, other.is, NoMember) /\ 1 \in 1 .. Len(of)
    <3>1. Len(of) = 1
      BY <2>3
    <3>2. 1 \in 1 .. Len(of)
      BY <3>1
    <3> QED BY <2>3, <3>2
  <2>2. es[p + 1] = of[1]
    BY <1>12, <2>1
  <2> QED BY <2>1, <2>2
<1>5. other.is = "walk" => /\ Len(of) = Len(other.steps) /\ Len(of) \in Nat
                           /\ \A j \in 1 .. Len(of) : es[p + j] = Event(c, other.steps[j].does, other.steps[j].m)
  BY <1>12, <1>13
<1>6. \A i \in 1 .. q : es[i].arg <= c /\ es[i].arg \in Nat
  <2> SUFFICES ASSUME NEW i \in 1 .. q PROVE es[i].arg <= c /\ es[i].arg \in Nat
    OBVIOUS
  <2>1. CASE i \in 1 .. p
    BY <1>3, <2>1
  <2>2. CASE i \notin 1 .. p
    <3>1. i - p \in 1 .. Len(of) /\ p + (i - p) = i
      BY <1>12, <2>2
    <3> DEFINE j == i - p
    <3>2. j \in 1 .. Len(of) /\ p + j = i
      BY <3>1
    <3> HIDE DEF j
    <3>3. es[i].arg = c
      BY <1>12, <1>13, <3>2
    <3> QED BY <3>3
  <2> QED BY <2>1, <2>2
<1>7. p \in Nat /\ q \in Nat /\ p <= q /\ c \in Nat \ {0} /\ c \in Nat /\ a <= c /\ q <= Len(es)
  BY <1>12
<1> HIDE DEF c
<1>8. CASE r.error # "none"
  <2>1. Read(r, other) = r
    BY <1>8 DEF Read
  <2> HIDE DEF q
  <2>2. Reached(es, held, q, c, r)
    BY <1>6, <1>7, <1>8, ErrorStays
  <2> QED BY <2>1, <2>2 DEF q, c, of
<1>9. CASE r.error = "none" /\ other.is = "not iterable"
  <2>1. Read(r, other) = [r EXCEPT !.error = "not iterable"]
    BY <1>9 DEF Read
  <2>2. q - 1 = p /\ q \in Nat \ {0} /\ es[q].does = "not iterable" /\ es[q].arg = c /\ c <= c
    <3>1. q = p + 1 /\ es[p + 1] = Event(c, "not iterable", NoMember)
      BY <1>4, <1>9
    <3>2. Event(c, "not iterable", NoMember).does = "not iterable" /\ Event(c, "not iterable", NoMember).arg = c
      BY DEF Event
    <3>3. es[q].does = "not iterable" /\ es[q].arg = c
      BY <3>1, <3>2
    <3>4. q - 1 = p /\ q \in Nat \ {0}
      <4>1. q = p + 1
        BY <3>1
      <4> HIDE DEF q
      <4> QED BY <4>1
    <3>5. c <= c
      BY <1>7
    <3> QED BY <3>3, <3>4, <3>5
  <2> HIDE DEF q
  <2>3. es[q].does \in Failures
    BY <2>2 DEF Failures
  <2>4. es[q].arg <= c
    BY <1>7, <2>2
  <2>5. Reached(es, held, q - 1, a, r)
    BY <2>2
  <2>6. Reached(es, held, q, c, [r EXCEPT !.error = es[q].does])
    BY <1>6, <1>7, <1>9, <2>2, <2>3, <2>4, <2>5, FailingStep
  <2> QED BY <2>1, <2>2, <2>6 DEF q, c, of
<1>10. CASE r.error = "none" /\ other.is = "self"
  <2>1. Read(r, other) = [r EXCEPT !.taken = Append(@, r.held)]
    BY <1>10 DEF Read
  <2>2. q - 1 = p /\ q \in 1 .. Len(es) /\ es[q].does = "self" /\ es[q].arg = c
    BY <1>2, <1>4, <1>7, <1>10 DEF Event
  <2> HIDE DEF q
  <2>3. Reached(es, held, q - 1, a, r)
    BY <2>2
  <2>4. Reached(es, held, q, a + 1, [r EXCEPT !.taken = Append(@, r.held)])
    BY <1>10, <2>2, <2>3, SelfReaches DEF c
  <2> QED BY <2>1, <2>4 DEF q, c, of
<1>11. CASE r.error = "none" /\ other.is = "walk"
  <2> DEFINE s == [r EXCEPT !.taken = Append(@, << >>)]
             steps == other.steps
  <2>1. Read(r, other) = ReadSteps(s, steps)
    BY <1>11 DEF Read
  <2>2. Reached(es, held, p, c, s) /\ Len(r.taken) = a
    <3>1. Reached(es, held, p, a + 1, Begun(r))
      <4>1. p \in 0 .. Len(es)
        BY <1>2, <1>7, <1>12
      <4> QED BY <1>11, <4>1, BeginReaches
    <3>2. Len(r.taken) = a
      BY <1>11, ReachedSound DEF Sound
    <3> QED BY <3>1, <3>2 DEF c, Begun
  <2>3. s \in Readings /\ Len(s.taken) = c
    <3> DEFINE none == << >>
    <3>1. none \in Seq(AnyMember)
      BY NothingIn, FirstsSet
    <3> HIDE DEF none
    <3>2. r \in Readings /\ s = [r EXCEPT !.taken = Append(@, none)]
      BY DEF Reached, none
    <3> HIDE DEF s
    <3>3. [r EXCEPT !.taken = Append(@, none)] \in Readings
          /\ Len([r EXCEPT !.taken = Append(@, none)].taken) = Len(r.taken) + 1
      BY <3>1, <3>2, OneMoreArgument
    <3> QED BY <2>2, <3>2, <3>3 DEF c
  <2> HIDE DEF s
  <2>4. s \in ReadingsOf(c)
    BY <2>3 DEF ReadingsOf
  <2>5. steps \in Seq(AnyStep) /\ Len(of) = Len(steps) /\ p + Len(steps) <= Len(es)
        /\ \A j \in 1 .. Len(steps) : es[p + j] = Event(c, steps[j].does, steps[j].m)
    BY <1>1, <1>5, <1>7, <1>11
  <2> HIDE DEF steps
  <2>6. Reached(es, held, p + Len(steps), c, ReadSteps(s, steps))
    BY <1>7, <2>2, <2>4, <2>5, WalkReaches
  <2> QED BY <2>1, <2>5, <2>6 DEF c, of
<1> QED BY <1>1, <1>8, <1>9, <1>10, <1>11

LEMMA EventsInOrder ==
  ASSUME NEW others \in Seq(AnyOther)
  PROVE  \A j \in 1 .. Len(Events(others)) : \A i \in 1 .. j : Events(others)[i].arg <= Events(others)[j].arg
<1> DEFINE n == Len(others)
           es == Events(others)
<1>1. n \in Nat /\ \A k \in 1 .. n : others[k] \in AnyOther
  BY LenProperties
<1>2a. PICK from : Joined(Events(others), others, from)
  BY EventsAre
<1>2. /\ from[0] = 0 /\ Len(es) = from[n] /\ \A k \in 0 .. n : from[k] \in Nat
      /\ \A k \in 1 .. n : /\ k - 1 \in 0 .. n /\ from[k] = from[k - 1] + Len(EventsOf(k, others[k]))
                           /\ \A j \in 1 .. Len(EventsOf(k, others[k])) : es[from[k - 1] + j] = EventsOf(k, others[k])[j]
  BY <1>2a DEF Joined
<1> HIDE DEF n, es
<1> DEFINE S == {k \in 0 .. n : \A j \in 1 .. from[k] : /\ es[j].arg \in Nat /\ es[j].arg <= k
                                                       /\ \A i \in 1 .. j : es[i].arg <= es[j].arg}
<1>3. 0 \in S
  BY <1>1, <1>2
<1>4. ASSUME NEW k \in 1 .. n, k - 1 \in S PROVE k \in S
  <2> DEFINE p == from[k - 1]
             of == EventsOf(k, others[k])
             m == Len(of)
  <2>1. p \in Nat /\ m \in Nat /\ from[k] = p + m /\ k \in 0 .. n /\ k \in Nat
    BY <1>1, <1>2, EventsOfIs
  <2>2. \A j \in 1 .. m : of[j].arg = k
    <3> DEFINE other == others[k]
    <3>1. k \in Nat \ {0} /\ other \in AnyOther
      BY <1>1
    <3> HIDE DEF other
    <3>2. \A j \in 1 .. Len(EventsOf(k, other)) : EventsOf(k, other)[j].arg = k
      BY <3>1, EventsOfIs
    <3> QED BY <3>2 DEF other
  <2>3. \A j \in 1 .. m : es[p + j] = of[j]
    BY <1>2
  <2>4. \A j \in 1 .. p : es[j].arg \in Nat /\ es[j].arg <= k - 1 /\ \A i \in 1 .. j : es[i].arg <= es[j].arg
    BY <1>4
  <2> HIDE DEF p, of, m
  <2>5. ASSUME NEW j \in 1 .. from[k], j \notin 1 .. p PROVE es[j].arg = k
    <3> DEFINE l == j - p
    <3>1. l \in 1 .. m /\ p + l = j
      BY <2>1, <2>5
    <3> HIDE DEF l
    <3> QED BY <2>2, <2>3, <3>1
  <2>6. \A j \in 1 .. from[k] : es[j].arg \in Nat /\ es[j].arg <= k
    BY <2>1, <2>4, <2>5
  <2>7. ASSUME NEW j \in 1 .. from[k], NEW i \in 1 .. j PROVE es[i].arg <= es[j].arg
    <3>1. i \in 1 .. from[k]
      BY <2>1
    <3> QED BY <2>4, <2>5, <2>6, <2>7, <3>1
  <2> QED BY <2>1, <2>6, <2>7
<1> HIDE DEF S
<1>5. n \in S
  <2>1. \A k \in 0 .. n : k \in S
    BY <1>1, <1>3, <1>4, StepByStep
  <2> QED BY <1>1, <2>1
<1> QED BY <1>2, <1>5 DEF S, n, es

LEMMA EveryReaches ==
  ASSUME NEW held \in AnySet, NEW others \in Seq(AnyOther)
  PROVE  Reached(Events(others), held, Len(Events(others)), Len(others), Every(held, others))
<1> DEFINE n == Len(others)
           es == Events(others)
           start == [held |-> held, taken |-> << >>, error |-> "none"]
<1>1. n \in Nat /\ \A k \in 1 .. n : others[k] \in AnyOther
  BY LenProperties
<1>2. es \in Seq(AnyEvent) /\ Len(es) \in Nat
  BY EventsAre, LenProperties
<1>3a. PICK from : Joined(Events(others), others, from)
  BY EventsAre
<1>3. /\ from[0] = 0 /\ Len(es) = from[n] /\ \A k \in 0 .. n : from[k] \in Nat
      /\ \A k \in 1 .. n : /\ k - 1 \in 0 .. n /\ from[k] = from[k - 1] + Len(EventsOf(k, others[k]))
                           /\ \A j \in 1 .. Len(EventsOf(k, others[k])) : es[from[k - 1] + j] = EventsOf(k, others[k])[j]
  BY <1>3a DEF Joined
<1>4. PICK h : /\ h[0] = start /\ Every(held, others) = h[n] /\ \A k \in 0 .. n : h[k] \in Readings
               /\ \A k \in 1 .. n : k - 1 \in 0 .. n /\ h[k] = Read(h[k - 1], others[k])
  BY EveryGoes
<1>5. Reached(es, held, 0, 0, start)
  <2>1. start \in Readings
    <3>1. << >> \in Seq(Seq(AnyMember))
      OBVIOUS
    <3> QED BY <3>1 DEF Readings
  <2>2. NoFailure(es, 0)
    BY DEF NoFailure
  <2>3. ToSet(held) = SetBefore(es, held, 0 + 1)
    BY <1>2, SetBeforeStep
  <2>4. start.error = "none" /\ start.held = held /\ Len(start.taken) = 0
    OBVIOUS
  <2> HIDE DEF start, es
  <2>5. Sound(es, held, 0, 0, start)
    BY <2>3, <2>4 DEF Sound
  <2> QED BY <2>1, <2>2, <2>5 DEF Reached
<1> HIDE DEF n, es, start
<1>6. \A k \in 1 .. n : from[k - 1] \in Nat /\ from[k] \in Nat /\ from[k] <= Len(es) /\ Len(EventsOf(k, others[k])) \in Nat
  <2> DEFINE T == {k \in 0 .. n : from[n - k] <= Len(es)}
  <2>1. \A k \in 1 .. n : from[k - 1] \in Nat /\ from[k] \in Nat /\ Len(EventsOf(k, others[k])) \in Nat
    <3> SUFFICES ASSUME NEW k \in 1 .. n PROVE from[k - 1] \in Nat /\ from[k] \in Nat /\ Len(EventsOf(k, others[k])) \in Nat
      OBVIOUS
    <3>1. k \in 0 .. n /\ k - 1 \in 0 .. n
      BY <1>1
    <3>2. Len(EventsOf(k, others[k])) \in Nat
      BY <1>1, EventsOfIs
    <3> QED BY <1>3, <3>1, <3>2
  <2>2. 0 \in T
    BY <1>1, <1>2, <1>3
  <2>3. ASSUME NEW k \in 1 .. n, k - 1 \in T PROVE k \in T
    <3> DEFINE l == n - (k - 1)
    <3>1. l \in 1 .. n /\ n - k = l - 1 /\ k \in 0 .. n
      BY <1>1
    <3>2. from[l] <= Len(es)
      BY <2>3
    <3> HIDE DEF l
    <3>3. from[l] = from[l - 1] + Len(EventsOf(l, others[l]))
      BY <1>3, <3>1
    <3>4. from[l - 1] <= Len(es)
      BY <1>2, <2>1, <3>1, <3>2, <3>3
    <3> QED BY <3>1, <3>4
  <2> HIDE DEF T
  <2>4. \A k \in 0 .. n : k \in T
    BY <1>1, <2>2, <2>3, StepByStep
  <2>5. ASSUME NEW k \in 1 .. n PROVE from[k] <= Len(es)
    <3>1. n - k \in 0 .. n /\ n - (n - k) = k
      BY <1>1
    <3> QED BY <2>4, <3>1 DEF T
  <2> QED BY <2>1, <2>5
<1> DEFINE S == {k \in 0 .. n : Reached(es, held, from[k], k, h[k])}
<1>7. 0 \in S
  BY <1>1, <1>3, <1>4, <1>5
<1>8. ASSUME NEW k \in 1 .. n, k - 1 \in S PROVE k \in S
  <2> DEFINE p == from[k - 1]
             a == k - 1
             r == h[k - 1]
             other == others[k]
             m == Len(EventsOf(k, other))
  <2>1. a \in Nat /\ a + 1 = k /\ p \in Nat /\ m \in Nat /\ from[k] = p + m /\ p + m <= Len(es) /\ other \in AnyOther
        /\ k \in 0 .. n
    <3>1. from[k] = p + m
      BY <1>3
    <3> QED BY <1>1, <1>6, <3>1
  <2>2. Behind(es, p, EventsOf(a + 1, other))
    BY <1>3, <2>1 DEF Behind
  <2>3. Reached(es, held, p, a, r) /\ h[k] = Read(r, other)
    BY <1>4, <1>8
  <2> HIDE DEF p, a, r, other
  <2>4. Reached(es, held, p + m, a + 1, Read(r, other))
    BY <1>2, <2>1, <2>2, <2>3, ReadReaches
  <2> QED BY <2>1, <2>3, <2>4
<1> HIDE DEF S
<1>9. n \in S
  <2>1. \A k \in 0 .. n : k \in S
    BY <1>1, <1>7, <1>8, StepByStep
  <2> QED BY <1>1, <2>1
<1> QED BY <1>3, <1>4, <1>9 DEF S, n, es

-----------------------------------------------------------------------------
(* The methods.                                                            *)

LEMMA FailureIs ==
  ASSUME NEW es \in Seq(AnyEvent)
  PROVE  /\ NoFailure(es, Len(es)) => Failure(es) = Len(es) + 1
         /\ \A f \in 1 .. Len(es) : NoFailure(es, f - 1) /\ es[f].does \in Failures => Failure(es) = f
<1> DEFINE n == Len(es)
           T == {i \in DOMAIN es : es[i].does \in Failures} \union {n + 1}
<1>1. n \in Nat /\ DOMAIN es = 1 .. n
  BY EventIs
<1>2. T \in SUBSET Nat /\ T # {} /\ Failure(es) = Min(T)
  BY <1>1 DEF Failure
<1>3. T = {i \in 1 .. n : es[i].does \in Failures} \union {n + 1}
  BY <1>1
<1> HIDE DEF T, n
<1>4. Failure(es) \in T /\ \A i \in T : Failure(es) <= i
  BY <1>2, LeastOf
<1>5. NoFailure(es, n) => T = {n + 1}
  BY <1>3 DEF NoFailure
<1>6. ASSUME NEW f \in 1 .. n, NoFailure(es, f - 1), es[f].does \in Failures PROVE Failure(es) = f
  <2>1. f \in T
    BY <1>3, <1>6
  <2>2. \A i \in T : i \notin 1 .. f - 1
    BY <1>1, <1>3, <1>6 DEF NoFailure
  <2> DEFINE g == Failure(es)
  <2>3. g \in Nat /\ g <= f /\ g \notin 1 .. f - 1 /\ g \in 1 .. n + 1
    BY <1>1, <1>2, <1>3, <1>4, <2>1, <2>2
  <2> HIDE DEF g
  <2>4. g = f
    BY <1>1, <2>3
  <2> QED BY <2>4 DEF g
<1> QED BY <1>4, <1>5, <1>6 DEF n

LEMMA GivenInIs ==
  ASSUME NEW es \in Seq(AnyEvent), NEW held, NEW b
  PROVE  \A k : k \in GivenIn(es, held, b) <=> GaveBy(es, held, b, Len(es), k)
<1>1. DOMAIN es = 1 .. Len(es)
  BY EventIs
<1> QED BY <1>1 DEF GivenIn, GaveBy, KindsOf

LEMMA FirstGivenIs ==
  ASSUME NEW es \in Seq(AnyEvent), NEW held, NEW n \in Nat, NEW r \in Readings,
         \A j \in 1 .. Len(es) : es[j].arg <= n /\ \A i \in 1 .. j : es[i].arg <= es[j].arg,
         Sound(es, held, Len(es), n, r), NEW k, NEW a \in 1 .. n, k \in KindsOf(ToSet(r.taken[a]))
  PROVE  \A m : m \in FirstGiven(es, held, k) <=> m.kind = k /\ Brought(r.taken, m, n)
<1> DEFINE p == Len(es)
           T == Giving(es, held, k)
           f == Min(T)
           c == es[f].arg
           t == r.taken
<1>1. p \in Nat /\ DOMAIN es = 1 .. p /\ \A i \in 1 .. p : es[i].arg \in Nat \ {0}
  BY EventIs
<1>2. /\ Len(t) = n /\ \A b \in 1 .. n : t[b] \in Seq(AnyMember)
      /\ \A b \in 1 .. n : \A m : m \in Firsts(t[b]) <=> FirstBy(es, held, b, p, m)
  BY ReadingIs DEF Sound
<1>3. \A b \in 1 .. n : \A l : l \in KindsOf(ToSet(t[b])) <=> GaveBy(es, held, b, p, l)
  <2> SUFFICES ASSUME NEW b \in 1 .. n PROVE \A l : l \in KindsOf(ToSet(t[b])) <=> GaveBy(es, held, b, p, l)
    OBVIOUS
  <2> DEFINE u == t[b]
  <2>1. u \in Seq(AnyMember) /\ \A m : m \in Firsts(u) <=> FirstBy(es, held, b, p, m)
    BY <1>2
  <2> HIDE DEF u, t, p
  <2>2. \A l : l \in KindsOf(ToSet(u)) <=> GaveBy(es, held, b, p, l)
    BY <1>1, <2>1, GivenSoFar
  <2> QED BY <2>2 DEF u
<1>4. \A i \in 1 .. p : i \in T <=> k \in KindsOf(GivenBy(es, held, i))
  BY <1>1 DEF Giving
<1>5. T \in SUBSET Nat /\ T # {} /\ T \subseteq 1 .. p
  <2>1. T \subseteq 1 .. p
    BY <1>1 DEF Giving
  <2>2. GaveBy(es, held, a, p, k)
    BY <1>3
  <2>3. T # {}
    BY <1>4, <2>2 DEF GaveBy
  <2> QED BY <1>1, <2>1, <2>3
<1>6. FirstGiven(es, held, k) = {m \in GivenBy(es, held, f) : m.kind = k}
  BY DEF FirstGiven
<1> HIDE DEF T
<1>7. f \in T /\ \A i \in T : f <= i
  BY <1>5, LeastOf
<1> HIDE DEF f, t
<1>8. f \in 1 .. p /\ c \in 1 .. n /\ \A i \in 1 .. f - 1 : i \in 1 .. p /\ k \notin KindsOf(GivenBy(es, held, i))
  <2>1. f \in 1 .. p
    BY <1>5, <1>7
  <2>2. c \in 1 .. n
    BY <1>1, <2>1
  <2>3. \A i \in 1 .. f - 1 : i \in 1 .. p /\ ~(f <= i)
    BY <1>1, <2>1
  <2>4. \A i \in 1 .. f - 1 : i \notin T
    BY <1>7, <2>3
  <2> QED BY <1>4, <2>1, <2>2, <2>3, <2>4
<1>9. ASSUME NEW b \in 1 .. c - 1 PROVE ~GaveBy(es, held, b, p, k)
  <2>1. ASSUME NEW i \in 1 .. p, es[i].arg = b, k \in KindsOf(GivenBy(es, held, i)) PROVE FALSE
    <3>1. f <= i
      BY <1>4, <1>7, <2>1
    <3>2. f \in 1 .. i
      BY <1>8, <3>1
    <3>3. es[f].arg <= es[i].arg
      BY <3>2
    <3> QED BY <1>1, <1>8, <2>1, <3>3
  <2> QED BY <2>1 DEF GaveBy
<1>10. \A b \in 1 .. c - 1 : b \in 1 .. n
  BY <1>8
<1>11. ASSUME NEW m, m \in GivenBy(es, held, f), m.kind = k PROVE Brought(t, m, n)
  <2>1. FirstBy(es, held, c, p, m)
    BY <1>8, <1>11 DEF FirstBy
  <2>2. m \in Firsts(t[c])
    BY <1>2, <1>8, <2>1
  <2>3. \A b \in 1 .. c - 1 : m.kind \notin KindsOf(ToSet(t[b]))
    BY <1>3, <1>9, <1>10, <1>11
  <2> QED BY <1>8, <2>2, <2>3 DEF Brought
<1>12. ASSUME NEW m, m.kind = k, Brought(t, m, n) PROVE m \in GivenBy(es, held, f)
  <2>1. PICK b \in 1 .. n : m \in Firsts(t[b]) /\ \A d \in 1 .. b - 1 : m.kind \notin KindsOf(ToSet(t[d]))
    BY <1>12 DEF Brought
  <2>2. FirstBy(es, held, b, p, m)
    BY <1>2, <2>1
  <2>3. PICK i \in 1 .. p : /\ es[i].arg = b /\ m \in GivenBy(es, held, i)
                            /\ \A j \in 1 .. i - 1 : es[j].arg = b => m.kind \notin KindsOf(GivenBy(es, held, j))
    BY <2>2 DEF FirstBy
  <2>4. k \in KindsOf(GivenBy(es, held, i))
    BY <1>12, <2>3 DEF KindsOf
  <2>5. f <= i
    BY <1>4, <1>7, <2>4
  <2>6. f = i
    <3> SUFFICES ASSUME f # i PROVE FALSE
      OBVIOUS
    <3>1. f \in 1 .. i - 1 /\ f \in 1 .. i
      BY <1>8, <2>5
    <3>2. es[f].arg <= b
      BY <2>3, <3>1
    <3>3. k \in KindsOf(GivenBy(es, held, f))
      BY <1>4, <1>7, <1>8
    <3>4. es[f].arg # b
      BY <1>12, <2>3, <3>1, <3>3
    <3>5. c \in 1 .. b - 1
      BY <1>8, <3>2, <3>4
    <3>6. GaveBy(es, held, c, p, k)
      BY <1>8, <3>3 DEF GaveBy
    <3>7. k \in KindsOf(ToSet(t[c]))
      BY <1>3, <1>8, <3>6
    <3> QED BY <1>12, <2>1, <3>5, <3>7
  <2> QED BY <2>3, <2>6
<1> QED BY <1>6, <1>11, <1>12 DEF t

LEMMA WantedIs ==
  ASSUME NEW method, NEW there, NEW given
  PROVE  /\ method \in Gathers => \A k : k \in Wanted(method, there, given) <=> k \in there \/ \E i \in DOMAIN given : k \in given[i]
         /\ method \in Removes => \A k : k \in Wanted(method, there, given) <=> k \in there /\ \A i \in DOMAIN given : k \notin given[i]
         /\ method \in Keeps => \A k : k \in Wanted(method, there, given) <=> k \in there /\ \A i \in DOMAIN given : k \in given[i]
         /\ method \in Splits =>
              \A k : k \in Wanted(method, there, given) <=> (k \in there /\ k \notin given[1]) \/ (k \in given[1] /\ k \notin there)
<1>1. method \in Gathers => Wanted(method, there, given) = there \union UNION {given[i] : i \in DOMAIN given}
  BY DEF Wanted, Gathers
<1>2. method \in Removes => Wanted(method, there, given) = {k \in there : \A i \in DOMAIN given : k \notin given[i]}
  BY DEF Wanted, Removes
<1>3. method \in Keeps => Wanted(method, there, given) = {k \in there : \A i \in DOMAIN given : k \in given[i]}
  BY DEF Wanted, Keeps
<1>4. method \in Splits => Wanted(method, there, given) = (there \ given[1]) \union (given[1] \ there)
  BY DEF Wanted, Splits
<1> QED BY <1>1, <1>2, <1>3, <1>4

\* What MethodAsMeant says the result of combining is.
Result(es, held, method, members, given) ==
  LET kinds == Wanted(method, KindsOf(members), given)
  IN  {m \in members : m.kind \in kinds} \union UNION {FirstGiven(es, held, k) : k \in kinds \ KindsOf(members)}

\* Every argument by what it gave, and what is given first of a kind.
LEMMA GivenAndBrought ==
  ASSUME NEW es \in Seq(AnyEvent), NEW held, NEW n \in Nat, NEW r \in Readings,
         \A j \in 1 .. Len(es) : es[j].arg <= n /\ \A i \in 1 .. j : es[i].arg <= es[j].arg,
         Sound(es, held, Len(es), n, r)
  PROVE  /\ Len(r.taken) = n
         /\ \A b \in 1 .. n : \A k : k \in KindsOf(ToSet(r.taken[b])) <=> k \in GivenIn(es, held, b)
         /\ \A b \in 1 .. n : \A m : m.kind \in GivenIn(es, held, b) =>
              (m \in FirstGiven(es, held, m.kind) <=> Brought(r.taken, m, n))
         /\ \A m : Brought(r.taken, m, n) => \E b \in 1 .. n : m.kind \in GivenIn(es, held, b)
<1> DEFINE t == r.taken
           p == Len(es)
<1>1. /\ Len(t) = n /\ \A b \in 1 .. n : t[b] \in Seq(AnyMember)
      /\ \A b \in 1 .. n : \A m : m \in Firsts(t[b]) <=> FirstBy(es, held, b, p, m)
  BY ReadingIs DEF Sound
<1>2. \A b \in 1 .. n : \A k : k \in KindsOf(ToSet(t[b])) <=> k \in GivenIn(es, held, b)
  <2> SUFFICES ASSUME NEW b \in 1 .. n PROVE \A k : k \in KindsOf(ToSet(t[b])) <=> k \in GivenIn(es, held, b)
    OBVIOUS
  <2> DEFINE u == t[b]
  <2>1. u \in Seq(AnyMember) /\ \A m : m \in Firsts(u) <=> FirstBy(es, held, b, p, m)
    BY <1>1
  <2>2. p \in Nat
    BY EventIs
  <2>3. \A k : k \in GivenIn(es, held, b) <=> GaveBy(es, held, b, p, k)
    BY GivenInIs
  <2> HIDE DEF u, t, p
  <2>4. \A k : k \in KindsOf(ToSet(u)) <=> GaveBy(es, held, b, p, k)
    BY <2>1, <2>2, GivenSoFar
  <2> QED BY <2>3, <2>4 DEF u
<1>3. ASSUME NEW b \in 1 .. n, NEW m, m.kind \in GivenIn(es, held, b)
      PROVE  m \in FirstGiven(es, held, m.kind) <=> Brought(t, m, n)
  <2> DEFINE k == m.kind
  <2>1. k \in KindsOf(ToSet(r.taken[b]))
    BY <1>2, <1>3
  <2> HIDE DEF k
  <2>2. \A x : x \in FirstGiven(es, held, k) <=> x.kind = k /\ Brought(r.taken, x, n)
    BY <2>1, FirstGivenIs
  <2>3. m \in FirstGiven(es, held, k) <=> m.kind = k /\ Brought(r.taken, m, n)
    BY <2>2
  <2> QED BY <2>3 DEF k
<1>4. ASSUME NEW m, Brought(t, m, n) PROVE \E b \in 1 .. n : m.kind \in GivenIn(es, held, b)
  <2>1. PICK b \in 1 .. n : m \in Firsts(t[b])
    BY <1>4 DEF Brought
  <2>2. m \in ToSet(t[b])
    BY <1>1, <2>1, FirstsAre
  <2>3. m.kind \in KindsOf(ToSet(t[b]))
    BY <2>2 DEF KindsOf
  <2> QED BY <1>2, <2>3
<1> QED BY <1>1, <1>2, <1>3, <1>4

\* What is made one argument after the other is what the arguments together
\* say of every kind.
LEMMA CombinedRight ==
  ASSUME NEW es \in Seq(AnyEvent), NEW held, NEW n \in Nat, NEW r \in Readings,
         \A j \in 1 .. Len(es) : es[j].arg <= n /\ \A i \in 1 .. j : es[i].arg <= es[j].arg,
         Sound(es, held, Len(es), n, r),
         NEW method \in Gathers \union Removes \union Keeps \union Splits, method \in Splits => n = 1,
         NEW given, given = [i \in 1 .. n |-> GivenIn(es, held, i)],
         NEW members, members = ToSet(r.held)
  PROVE  Combined(method, r.held, r.taken) \in AnySet
         /\ ToSet(Combined(method, r.held, r.taken)) = Result(es, held, method, members, given)
<1> DEFINE t == r.taken
           v == Combined(method, r.held, t)
           K == KindsOf(members)
           W == Wanted(method, K, given)
           Got(k) == \E b \in 1 .. n : k \in given[b]
<1>1. /\ Len(t) = n
      /\ \A b \in 1 .. n : \A k : k \in KindsOf(ToSet(t[b])) <=> k \in given[b]
      /\ \A m : Got(m.kind) => (m \in FirstGiven(es, held, m.kind) <=> Brought(t, m, n))
      /\ \A m : Brought(t, m, n) => Got(m.kind)
  <2>1. /\ Len(t) = n
        /\ \A b \in 1 .. n : \A k : k \in KindsOf(ToSet(t[b])) <=> k \in GivenIn(es, held, b)
        /\ \A b \in 1 .. n : \A m : m.kind \in GivenIn(es, held, b) =>
             (m \in FirstGiven(es, held, m.kind) <=> Brought(t, m, n))
        /\ \A m : Brought(t, m, n) => \E b \in 1 .. n : m.kind \in GivenIn(es, held, b)
    BY GivenAndBrought, ZenonT(30)
  <2>2. \A b \in 1 .. n : given[b] = GivenIn(es, held, b)
    OBVIOUS
  <2> HIDE DEF t
  <2> QED BY <2>1, <2>2
<1>2. r.held \in AnySet /\ t \in Seq(Seq(AnyMember))
  BY ReadingIs
<1>3. DOMAIN given = 1 .. n
  OBVIOUS
<1>4. \A k \in W \ K : \A m \in FirstGiven(es, held, k) : m.kind = k
  BY DEF FirstGiven
<1>5. \A m : m \in Result(es, held, method, members, given) <=>
               \/ m \in members /\ m.kind \in W
               \/ m.kind \in W \ K /\ m \in FirstGiven(es, held, m.kind)
  <2> DEFINE U == UNION {FirstGiven(es, held, k) : k \in W \ K}
  <2>1. Result(es, held, method, members, given) = {m \in members : m.kind \in W} \union U
    BY DEF Result
  <2>2. \A m : m \in U <=> \E k \in W \ K : m \in FirstGiven(es, held, k)
    OBVIOUS
  <2> HIDE DEF W, K, U
  <2>3. \A m : m \in U <=> m.kind \in W \ K /\ m \in FirstGiven(es, held, m.kind)
    BY <1>4, <2>2
  <2> QED BY <2>1, <2>3
<1>6. \A m \in members : m.kind \in K
  BY DEF KindsOf
<1> HIDE DEF t, K
<1>7. v \in AnySet
  BY <1>2, CombinedIs
<1>8. ASSUME method \in Gathers PROVE \A m : m \in ToSet(v) <=> m \in Result(es, held, method, members, given)
  <2>1. \A m : m \in ToSet(v) <=> m \in members \/ (m.kind \notin K /\ Brought(t, m, n))
    <3>1. \A m : m \in ToSet(v) <=> m \in ToSet(r.held) \/ (m.kind \notin KindsOf(ToSet(r.held)) /\ Brought(t, m, Len(t)))
      BY <1>2, <1>8, CombinedIs
    <3> QED BY <1>1, <3>1 DEF K
  <2>2. \A k : k \in W <=> k \in K \/ Got(k)
    BY <1>3, <1>8, WantedIs
  <2> HIDE DEF W, v, Got
  <2> QED BY <1>1, <1>5, <1>6, <2>1, <2>2
<1>9. ASSUME method \in Removes PROVE \A m : m \in ToSet(v) <=> m \in Result(es, held, method, members, given)
  <2>1. \A m : m \in ToSet(v) <=> m \in members /\ \A a \in 1 .. n : m.kind \notin given[a]
    <3>1. \A m : m \in ToSet(v) <=> m \in ToSet(r.held) /\ \A a \in 1 .. Len(t) : m.kind \notin KindsOf(ToSet(t[a]))
      BY <1>2, <1>9, CombinedIs
    <3> QED BY <1>1, <3>1
  <2>2. \A k : k \in W <=> k \in K /\ \A a \in 1 .. n : k \notin given[a]
    BY <1>3, <1>9, WantedIs
  <2> HIDE DEF W, v, Got
  <2> QED BY <1>5, <1>6, <2>1, <2>2
<1>10. ASSUME method \in Keeps PROVE \A m : m \in ToSet(v) <=> m \in Result(es, held, method, members, given)
  <2>1. \A m : m \in ToSet(v) <=> m \in members /\ \A a \in 1 .. n : m.kind \in given[a]
    <3>1. \A m : m \in ToSet(v) <=> m \in ToSet(r.held) /\ \A a \in 1 .. Len(t) : m.kind \in KindsOf(ToSet(t[a]))
      BY <1>2, <1>10, CombinedIs
    <3> QED BY <1>1, <3>1
  <2>2. \A k : k \in W <=> k \in K /\ \A a \in 1 .. n : k \in given[a]
    BY <1>3, <1>10, WantedIs
  <2> HIDE DEF W, v, Got
  <2> QED BY <1>5, <1>6, <2>1, <2>2
<1>11. ASSUME method \in Splits PROVE \A m : m \in ToSet(v) <=> m \in Result(es, held, method, members, given)
  <2>1. n = 1 /\ 1 \in 1 .. n
    BY <1>11
  <2>2. \A m : m \in ToSet(v) <=> \/ m \in members /\ m.kind \notin given[1]
                                  \/ m \in Firsts(t[1]) /\ m.kind \notin K
    <3>1. \A m : m \in ToSet(v) <=> \/ m \in ToSet(r.held) /\ m.kind \notin KindsOf(ToSet(t[1]))
                                    \/ m \in Firsts(t[1]) /\ m.kind \notin KindsOf(ToSet(r.held))
      BY <1>1, <1>2, <1>11, <2>1, CombinedIs
    <3> QED BY <1>1, <2>1, <3>1 DEF K
  <2>3. \A m : m \in Firsts(t[1]) <=> Brought(t, m, n)
    BY <2>1 DEF Brought
  <2>4. \A k : k \in W <=> (k \in K /\ k \notin given[1]) \/ (k \in given[1] /\ k \notin K)
    BY <1>11, WantedIs
  <2>5. \A k : Got(k) <=> k \in given[1]
    BY <2>1
  <2> HIDE DEF W, v, Got
  <2> QED BY <1>1, <1>5, <1>6, <2>2, <2>3, <2>4, <2>5
<1> HIDE DEF v
<1>12. \A m : m \in ToSet(v) <=> m \in Result(es, held, method, members, given)
  BY <1>8, <1>9, <1>10, <1>11
<1> QED BY <1>7, <1>12 DEF v, t

\* The methods that only say whether.
Tests == {"isdisjoint", "issubset", "issuperset"}
LEMMA TestIs ==
  ASSUME NEW method \in Tests, NEW s \in AnySet, NEW ms \in Seq(AnyMember)
  PROVE  Test(method, s, ms) = Truth(method, KindsOf(ToSet(s)), KindsOf(ToSet(ms)))
<1> DEFINE there == KindsOf(ToSet(s))
           given == KindsOf(ToSet(ms))
           made == SetOf(ms)
<1>1. \A k : HasKind(s, k) <=> k \in there
  BY SetIs
<1>2. made \in AnySet /\ KindsOf(ToSet(made)) = given
  BY SetOfIs, FirstsAre
<1> HIDE DEF made
<1>3. \A k : HasKind(made, k) <=> k \in given
  BY <1>2, SetIs
<1>4. \A k : k \in there <=> \E i \in DOMAIN s : s[i].kind = k
  BY DEF KindsOf, ToSet
<1>5. \A k : k \in given <=> \E i \in DOMAIN ms : ms[i].kind = k
  BY DEF KindsOf, ToSet
<1> HIDE DEF there, given
<1>6. (\A i \in DOMAIN ms : ~HasKind(s, ms[i].kind)) <=> there \intersect given = {}
  BY <1>1, <1>5
<1>7. (\A i \in DOMAIN s : HasKind(made, s[i].kind)) <=> there \subseteq given
  BY <1>3, <1>4
<1>8. (\A i \in DOMAIN ms : HasKind(s, ms[i].kind)) <=> given \subseteq there
  BY <1>1, <1>5
<1>9. CASE method = "isdisjoint"
  <2>1. Test(method, s, ms) = (\A i \in DOMAIN ms : ~HasKind(s, ms[i].kind))
    BY <1>9 DEF Test
  <2>2. Truth(method, there, given) = (there \intersect given = {})
    BY <1>9 DEF Truth
  <2> QED BY <1>6, <2>1, <2>2 DEF there, given
<1>10. CASE method = "issubset"
  <2>1. Test(method, s, ms) = (\A i \in DOMAIN s : HasKind(made, s[i].kind))
    BY <1>10 DEF Test, made
  <2>2. Truth(method, there, given) = (there \subseteq given)
    BY <1>10 DEF Truth
  <2> QED BY <1>7, <2>1, <2>2 DEF there, given
<1>11. CASE method = "issuperset"
  <2>1. Test(method, s, ms) = (\A i \in DOMAIN ms : HasKind(s, ms[i].kind))
    BY <1>11 DEF Test
  <2>2. Truth(method, there, given) = (given \subseteq there)
    BY <1>11 DEF Truth
  <2> QED BY <1>8, <2>1, <2>2 DEF there, given
<1> QED BY <1>9, <1>10, <1>11 DEF Tests

LEMMA Held ==
  ASSUME NEW s \in AnySet
  PROVE  Holding(s, ToSet(s))
BY SetIs DEF Holding

\* A method of a set, on what its arguments' Python leaves of it.
LEMMA MethodIsRight ==
  ASSUME NEW method \in Methods, NEW held \in AnySet, NEW others \in Seq(AnyOther)
  PROVE  MethodAsMeant(method, held, others, Method(method, held, others))
<1> DEFINE es == Events(others)
           n == Len(others)
           r == Every(held, others)
           fails == Failure(es)
           members == SetBefore(es, held, fails)
           given == [i \in DOMAIN others |-> GivenIn(es, held, i)]
           kinds == Wanted(method, KindsOf(members), given)
           result == Result(es, held, method, members, given)
           out == Method(method, held, others)
<1>1. es \in Seq(AnyEvent) /\ Reached(es, held, Len(es), n, r) /\ r \in Readings
  BY EventsAre, EveryReaches DEF Reached
<1>2. \A j \in 1 .. Len(es) : es[j].arg <= n /\ \A i \in 1 .. j : es[i].arg <= es[j].arg
  BY <1>1, EventsInOrder DEF Reached
<1>3. n \in Nat /\ DOMAIN others = 1 .. n /\ Len(es) \in Nat
  BY <1>1, LenProperties
<1>4. MethodAsMeant(method, held, others, out) =
        IF method \in Single /\ n # 1 THEN out = Nothing(held, "takes one")
        ELSE IF fails <= Len(es) THEN out.error = es[fails].does /\ out.gives = << >> /\ Holding(out.held, members)
        ELSE /\ out.error = "none"
             /\ IF method \in Updating THEN out.gives = << >> /\ Holding(out.held, result)
                ELSE /\ Holding(out.held, members)
                     /\ IF method \in Single /\ method # "symmetric_difference"
                          THEN out.gives = <<Truth(method, KindsOf(members), given[1])>>
                        ELSE Holding(out.gives[1], result)
  BY DEF MethodAsMeant, Result
<1>5. out = IF method \in Single /\ n # 1 THEN Nothing(held, "takes one")
            ELSE IF r.error # "none" THEN Nothing(r.held, r.error)
            ELSE IF method \in Updating THEN Nothing(Combined(method, r.held, r.taken), "none")
            ELSE IF method \in AnyNumber \union {"symmetric_difference"}
              THEN Gives1(r.held, Combined(method, r.held, r.taken))
            ELSE Gives1(r.held, Test(method, r.held, r.taken[1]))
  BY DEF Method
<1> SUFFICES MethodAsMeant(method, held, others, out)
  OBVIOUS
<1>6. CASE method \in Single /\ n # 1
  BY <1>4, <1>5, <1>6
<1>7. CASE ~(method \in Single /\ n # 1) /\ ~NoFailure(es, Len(es))
  <2> HIDE DEF es, n, r
  <2>1. PICK f \in 1 .. Len(es) : /\ NoFailure(es, f - 1) /\ es[f].does \in Failures
                                  /\ r.error = es[f].does /\ ToSet(r.held) = SetBefore(es, held, f)
    BY <1>1, <1>7 DEF Reached, Broken
  <2>2. fails = f /\ fails <= Len(es)
    BY <1>1, <1>3, <2>1, FailureIs
  <2>3. r.error # "none"
    BY <2>1 DEF Failures
  <2> HIDE DEF fails, out
  <2>4. out = Nothing(r.held, r.error)
    BY <1>5, <1>7, <2>3
  <2>5. out.error = es[fails].does /\ out.gives = << >> /\ out.held = r.held
    BY <2>1, <2>2, <2>4 DEF Nothing
  <2>6. Holding(out.held, members)
    BY <1>1, <2>1, <2>2, <2>5, ReadingIs, Held
  <2> HIDE DEF members
  <2> QED BY <1>4, <1>7, <2>2, <2>5, <2>6
<1>8. CASE ~(method \in Single /\ n # 1) /\ NoFailure(es, Len(es))
  <2> HIDE DEF es, n, r
  <2>1. Sound(es, held, Len(es), n, r) /\ fails = Len(es) + 1
    BY <1>1, <1>8, FailureIs DEF Reached
  <2>2. r.error = "none" /\ members = ToSet(r.held) /\ ~(fails <= Len(es)) /\ r.held \in AnySet
    BY <1>1, <1>3, <2>1, ReadingIs DEF Sound
  <2>3. given = [i \in 1 .. n |-> GivenIn(es, held, i)]
    BY <1>3
  <2> HIDE DEF fails, out, members, given, result
  <2>4. Holding(r.held, members)
    BY <2>2, Held
  <2>5. ASSUME method \notin Tests PROVE Holding(Combined(method, r.held, r.taken), result)
    <3>1. method \in Gathers \union Removes \union Keeps \union Splits /\ (method \in Splits => method \in Single)
      BY <2>5 DEF Methods, AnyNumber, Single, Gathers, Removes, Keeps, Splits, Tests
    <3>2. method \in Splits => n = 1
      BY <1>8, <3>1
    <3> DEFINE v == Combined(method, r.held, r.taken)
    <3>3. v \in AnySet /\ ToSet(v) = Result(es, held, method, members, given)
      BY <1>1, <1>2, <1>3, <2>1, <2>2, <2>3, <3>1, <3>2, CombinedRight, SMTT(20)
    <3> HIDE DEF v
    <3>4. Holding(v, ToSet(v))
      BY <3>3, Held
    <3> QED BY <3>3, <3>4 DEF v, result
  <2>6. ASSUME method \in Tests PROVE Test(method, r.held, r.taken[1]) = Truth(method, KindsOf(members), given[1])
    <3>1. n = 1
      BY <1>8, <2>6 DEF Tests, Single
    <3>2. r.taken[1] \in Seq(AnyMember) /\ \A k : k \in KindsOf(ToSet(r.taken[1])) <=> k \in GivenIn(es, held, 1)
      <4>1. Len(r.taken) = n /\ \A k : k \in KindsOf(ToSet(r.taken[1])) <=> k \in GivenIn(es, held, 1)
        <5>1. /\ Len(r.taken) = n
              /\ \A b \in 1 .. n : \A k : k \in KindsOf(ToSet(r.taken[b])) <=> k \in GivenIn(es, held, b)
          BY <1>1, <1>2, <1>3, <2>1, GivenAndBrought
        <5>2. 1 \in 1 .. n
          BY <3>1
        <5> QED BY <5>1, <5>2
      <4> QED BY <1>1, <3>1, <4>1, ReadingIs
    <3>3. given[1] = GivenIn(es, held, 1)
      BY <2>3, <3>1
    <3>4. KindsOf(ToSet(r.taken[1])) = given[1]
      BY <3>2, <3>3, Zenon DEF KindsOf, GivenIn
    <3> DEFINE t == r.taken[1]
               s == r.held
    <3>5. t \in Seq(AnyMember) /\ s \in AnySet
      BY <2>2, <3>2
    <3> HIDE DEF t, s
    <3>6. Test(method, s, t) = Truth(method, KindsOf(ToSet(s)), KindsOf(ToSet(t)))
      BY <2>6, <3>5, TestIs
    <3> QED BY <2>2, <3>4, <3>6 DEF s, t
  <2>7. CASE method \in Updating
    <3>1. method \notin Tests
      BY <2>7 DEF Updating, Tests
    <3> DEFINE v == Combined(method, r.held, r.taken)
    <3>2. Holding(v, result)
      BY <2>5, <3>1
    <3> HIDE DEF v
    <3>3. out = Nothing(v, "none")
      BY <1>5, <1>8, <2>2, <2>7 DEF v
    <3>4. out.error = "none" /\ out.gives = << >> /\ out.held = v
      BY <3>3 DEF Nothing
    <3> QED BY <1>4, <1>8, <2>2, <2>7, <3>2, <3>4
  <2>8. CASE method \notin Updating /\ method \notin Tests
    <3> DEFINE v == Combined(method, r.held, r.taken)
    <3>2. Holding(v, result)
      BY <2>5, <2>8
    <3> HIDE DEF v
    <3>1. method \in AnyNumber \union {"symmetric_difference"} /\ ~(method \in Single /\ method # "symmetric_difference")
      BY <2>8 DEF Updating, Tests, Methods, AnyNumber, Single
    <3>3. out = Gives1(r.held, v)
      BY <1>5, <1>8, <2>2, <2>8, <3>1 DEF v
    <3>4. out.error = "none" /\ out.gives[1] = v /\ out.held = r.held
      BY <3>3 DEF Gives1
    <3> QED BY <1>4, <1>8, <2>2, <2>4, <2>8, <3>1, <3>2, <3>4
  <2>9. CASE method \in Tests
    <3> DEFINE v == Test(method, r.held, r.taken[1])
               w == Truth(method, KindsOf(members), given[1])
    <3>2. v = w
      BY <2>6, <2>9
    <3>5. out = Gives1(r.held, v)
      <4>1. method \notin Updating /\ method \notin AnyNumber \union {"symmetric_difference"}
        BY <2>9 DEF Updating, Tests, AnyNumber
      <4> HIDE DEF v
      <4> QED BY <1>5, <1>8, <2>2, <4>1 DEF v
    <3> HIDE DEF v, w
    <3>1. method \notin Updating /\ method \in Single /\ method # "symmetric_difference"
      BY <2>9 DEF Updating, Tests, Single
    <3>4. out.error = "none" /\ out.gives = <<w>> /\ out.held = r.held
      BY <3>2, <3>5 DEF Gives1
    <3> QED BY <1>4, <1>8, <2>2, <2>4, <3>1, <3>4 DEF w
  <2> QED BY <2>7, <2>8, <2>9
<1> QED BY <1>6, <1>7, <1>8

\* The methods on one element.
LEMMA MemberIsRight ==
  ASSUME NEW held \in AnySet, NEW m \in [kind : Nat, copy : Nat, hashable : BOOLEAN], NEW r,
         \A method \in MemberMethods : r[method] = OneMember(method, held, m)
  PROVE  MemberAsMeant(held, m, r)
<1> DEFINE here == ToSet(held)
           same == {x \in here : x.kind = m.kind}
           out == TakeOut(held, m)
           in == Insert(held, m)
<1>1. Holding(held, here)
  BY Held
<1>2. Holding(out, here \ same)
  <2>1. out \in AnySet /\ ToSet(out) = {x \in here : x.kind # m.kind}
    BY TakeOutIs
  <2>2. {x \in here : x.kind # m.kind} = here \ same
    OBVIOUS
  <2> HIDE DEF out
  <2> QED BY <2>1, <2>2, Held
<1>3. HasKind(held, m.kind) <=> same # {}
  BY SetIs DEF KindsOf
<1>4. m.hashable => Holding(in, IF same = {} THEN here \union {m} ELSE here)
  <2> SUFFICES ASSUME m.hashable PROVE Holding(in, IF same = {} THEN here \union {m} ELSE here)
    OBVIOUS
  <2>1. m \in AnyMember
    BY DEF AnyMember
  <2>2. m.kind \in KindsOf(here) <=> same # {}
    BY DEF KindsOf
  <2>3. in \in AnySet /\ ToSet(in) = IF m.kind \in KindsOf(here) THEN here ELSE here \union {m}
    BY <2>1, InsertIs
  <2> HIDE DEF in, same, here
  <2>4. Holding(in, ToSet(in))
    BY <2>3, Held
  <2> QED BY <2>2, <2>3, <2>4
<1>5. Holding(<< >>, {})
  <2> DEFINE e == << >>
  <2>1. e \in AnySet /\ ToSet(e) = {}
    BY NothingIn
  <2> HIDE DEF e
  <2>2. Holding(e, {})
    BY <2>1, Held
  <2> QED BY <2>2 DEF e
<1>6. /\ r["add"] = OneMember("add", held, m) /\ r["remove"] = OneMember("remove", held, m)
      /\ r["discard"] = OneMember("discard", held, m) /\ r["pop"] = OneMember("pop", held, m)
      /\ r["clear"] = OneMember("clear", held, m) /\ r["copy"] = OneMember("copy", held, m)
  BY DEF MemberMethods
<1> HIDE DEF out, in
<1>7. ~m.hashable => /\ r["add"] = Nothing(held, "unhashable") /\ r["remove"] = Nothing(held, "unhashable")
                     /\ r["discard"] = Nothing(held, "unhashable")
  BY <1>6 DEF OneMember
<1>8. m.hashable => r["add"] = Nothing(in, "none") /\ r["discard"] = Nothing(out, "none")
  BY <1>6 DEF OneMember, in, out
<1>9. m.hashable => r["remove"] = IF same = {} THEN Nothing(held, "KeyError") ELSE Nothing(out, "none")
  BY <1>3, <1>6 DEF OneMember, out
<1>10. r["clear"] = Nothing(<< >>, "none") /\ r["copy"] = Gives1(held, held)
  BY <1>6 DEF OneMember
<1>11. here = {} => r["pop"] = Nothing(held, "KeyError")
  <2> SUFFICES ASSUME here = {} PROVE r["pop"] = Nothing(held, "KeyError")
    OBVIOUS
  <2>1. Len(held) = 0 /\ held \in Seq(AnyMember)
    BY SetIs DEF ToSet
  <2>2. held = << >>
    BY <2>1, EmptySeq
  <2> QED BY <1>6, <2>2 DEF OneMember
<1>12. here # {} => \E x \in here : r["pop"].gives = <<x>> /\ r["pop"].error = "none" /\ Holding(r["pop"].held, here \ {x})
  <2> SUFFICES ASSUME here # {} PROVE \E x \in here : r["pop"].gives = <<x>> /\ r["pop"].error = "none" /\ Holding(r["pop"].held, here \ {x})
    OBVIOUS
  <2> DEFINE x == held[1]
             left == TakeOut(held, x)
  <2>1. held # << >> /\ x \in here
    BY SetIs DEF ToSet
  <2>2. r["pop"] = [Gives1(held, x) EXCEPT !.held = left]
    BY <1>6, <2>1 DEF OneMember
  <2>3. left \in AnySet /\ ToSet(left) = {y \in here : y.kind # x.kind}
    BY TakeOutIs
  <2>4. {y \in here : y.kind # x.kind} = here \ {x}
    BY <2>1, SetIs
  <2> HIDE DEF left
  <2>5. Holding(left, here \ {x})
    BY <2>3, <2>4, Held
  <2> HIDE DEF x
  <2>6. r["pop"].gives = <<x>> /\ r["pop"].error = "none" /\ r["pop"].held = left
    BY <2>2 DEF Gives1
  <2> QED BY <2>1, <2>5, <2>6
<1>13. \A h, e : Nothing(h, e).held = h /\ Nothing(h, e).error = e
  BY DEF Nothing
<1>14. r["copy"].gives[1] = held /\ r["copy"].held = held /\ r["copy"].error = "none"
  BY <1>10 DEF Gives1
<1> DEFINE Does(method, error, after) == r[method].error = error /\ Holding(r[method].held, after)
<1>15. \A method \in {"add", "remove", "discard"} : ~m.hashable => r[method] = Nothing(held, "unhashable")
  BY <1>7
<1>16. m.hashable =>
         /\ Does("add", "none", IF same = {} THEN here \union {m} ELSE here)
         /\ Does("discard", "none", here \ same)
         /\ Does("remove", IF same = {} THEN "KeyError" ELSE "none", here \ same)
  <2> SUFFICES ASSUME m.hashable PROVE
         /\ Does("add", "none", IF same = {} THEN here \union {m} ELSE here)
         /\ Does("discard", "none", here \ same)
         /\ Does("remove", IF same = {} THEN "KeyError" ELSE "none", here \ same)
    OBVIOUS
  <2>1. r["add"].error = "none" /\ r["add"].held = in /\ r["discard"].error = "none" /\ r["discard"].held = out
    BY <1>8, <1>13
  <2>2. r["remove"].error = (IF same = {} THEN "KeyError" ELSE "none") /\ r["remove"].held = IF same = {} THEN held ELSE out
    BY <1>9, <1>13
  <2>3. same = {} => here \ same = here
    OBVIOUS
  <2> HIDE DEF here, same
  <2>4. Holding(r["add"].held, IF same = {} THEN here \union {m} ELSE here)
    BY <1>4, <2>1
  <2>5. Holding(r["remove"].held, here \ same)
    BY <1>1, <1>2, <2>2, <2>3
  <2> QED BY <1>2, <2>1, <2>2, <2>4, <2>5
<1>17. Does("clear", "none", {}) /\ Does("copy", "none", here) /\ Holding(r["copy"].gives[1], here)
  <2>1. r["clear"].error = "none" /\ r["clear"].held = << >>
    BY <1>10, <1>13
  <2> HIDE DEF here
  <2> QED BY <1>1, <1>5, <1>14, <2>1
<1>18. IF here = {} THEN r["pop"] = Nothing(held, "KeyError")
       ELSE \E x \in here : r["pop"].gives = <<x>> /\ Does("pop", "none", here \ {x})
  BY <1>11, <1>12
<1> QED BY <1>15, <1>16, <1>17, <1>18 DEF MemberAsMeant

-----------------------------------------------------------------------------
(* The operators.                                                          *)

\* No two members are equal, so there are as many kinds as members.
LEMMA KindsCounted ==
  ASSUME NEW s \in AnySet
  PROVE  IsFiniteSet(KindsOf(ToSet(s))) /\ Cardinality(KindsOf(ToSet(s))) = Len(s)
<1> DEFINE n == Len(s)
           K == KindsOf(ToSet(s))
           f == [i \in 1 .. n |-> s[i].kind]
<1>1. n \in Nat /\ DOMAIN s = 1 .. n /\ \A i, j \in 1 .. n : s[i].kind = s[j].kind => i = j
  BY SetIs DEF AnySet
<1>2. \A k : k \in K <=> \E i \in 1 .. n : s[i].kind = k
  BY <1>1 DEF KindsOf, ToSet
<1> HIDE DEF K
<1>3. f \in Bijection(1 .. n, K)
  BY <1>1, <1>2 DEF Bijection, Injection, Surjection, IsInjective
<1>4. ExistsBijection(1 .. n, K)
  BY <1>3 DEF ExistsBijection
<1>5. IsFiniteSet(1 .. n) /\ Cardinality(1 .. n) = n
  BY <1>1, FS_Interval
<1>6. IsFiniteSet(K) /\ Cardinality(K) = Cardinality(1 .. n)
  BY <1>4, <1>5, FS_Bijection
<1> QED BY <1>5, <1>6 DEF K

\* Sets are ordered by what they hold.
LEMMA OrderIsRight ==
  ASSUME NEW a, NEW b, a.items \in AnySet, b.items \in AnySet, NEW r,
         \A op \in {"<", "<=", ">", ">="} : r[op] = SetOrder(op, a.items, b.items)
  PROVE  OrderAsMeant(a, b, r)
<1> DEFINE x == a.items
           y == b.items
           ka == KindsOf(ToSet(x))
           kb == KindsOf(ToSet(y))
           subset == Len(x) <= Len(y) /\ \A i \in DOMAIN x : HasKind(y, x[i].kind)
           superset == Len(y) <= Len(x) /\ \A i \in DOMAIN y : HasKind(x, y[i].kind)
<1>1. /\ IsFiniteSet(ka) /\ Cardinality(ka) = Len(x) /\ IsFiniteSet(kb) /\ Cardinality(kb) = Len(y)
      /\ Len(x) \in Nat /\ Len(y) \in Nat
  BY KindsCounted, SetIs
<1>2. (\A k : HasKind(x, k) <=> k \in ka) /\ (\A k : HasKind(y, k) <=> k \in kb)
  BY SetIs
<1>3. /\ \A k : k \in ka <=> \E i \in DOMAIN x : x[i].kind = k
      /\ \A k : k \in kb <=> \E i \in DOMAIN y : y[i].kind = k
  BY DEF KindsOf, ToSet
<1> HIDE DEF ka, kb, x, y
<1>4. ka \subseteq kb => Cardinality(ka) <= Cardinality(kb)
  BY <1>1, FS_Subset
<1>5. kb \subseteq ka => Cardinality(kb) <= Cardinality(ka)
  BY <1>1, FS_Subset
<1>6. subset <=> ka \subseteq kb
  BY <1>1, <1>2, <1>3, <1>4
<1>7. superset <=> kb \subseteq ka
  BY <1>1, <1>2, <1>3, <1>5
<1>8. /\ r["<"] <=> subset /\ ~superset
      /\ r["<="] <=> subset
      /\ r[">"] <=> superset /\ ~subset
      /\ r[">="] <=> superset
  <2>1. r["<"] = SetOrder("<", x, y) /\ r["<="] = SetOrder("<=", x, y) /\ r[">"] = SetOrder(">", x, y) /\ r[">="] = SetOrder(">=", x, y)
    BY DEF x, y
  <2>2. SetOrder("<", x, y) = (subset /\ ~superset)
    BY DEF SetOrder
  <2>3. SetOrder("<=", x, y) = subset
    BY DEF SetOrder
  <2>4. SetOrder(">", x, y) = (superset /\ ~subset)
    BY DEF SetOrder
  <2>5. SetOrder(">=", x, y) = superset
    BY DEF SetOrder
  <2> HIDE DEF subset, superset
  <2> QED BY <2>1, <2>2, <2>3, <2>4, <2>5
<1> HIDE DEF subset, superset
<1>9. /\ r["<="] <=> ka \subseteq kb
      /\ r["<"] <=> ka \subseteq kb /\ ka # kb
      /\ r[">="] <=> kb \subseteq ka
      /\ r[">"] <=> kb \subseteq ka /\ ka # kb
  BY <1>6, <1>7, <1>8
<1> QED BY <1>9 DEF OrderAsMeant, ka, kb, x, y

LEMMA RemainderIs ==
  ASSUME NEW a \in Nat, NEW l \in Nat, NEW b \in 0 .. l - 1
  PROVE  (a * l + b) % l = b
<1> DEFINE x == a * l + b
           q == x \div l
           m == x % l
<1>1. x \in Nat /\ l > 0
  <2>1. a * l \in Nat /\ b \in Nat
    OBVIOUS
  <2> QED BY <2>1
<1>2. x = a * l + b
  OBVIOUS
<1> HIDE DEF x
<1>3. q \in Nat /\ m \in Nat /\ m < l /\ x = l * q + m
  BY <1>1
<1> HIDE DEF q, m
<1>4. (a - q) * l = m - b
  BY <1>2, <1>3
<1>5. a - q = 0
  <2>1. CASE a - q >= 1
    <3>1. (a - q - 1) * l >= 0 /\ (a - q - 1) * l = (a - q) * l - l
      BY <1>1, <1>3, <2>1
    <3> QED BY <1>1, <1>3, <1>4, <3>1
  <2>2. CASE a - q <= -1
    <3>1. (q - a - 1) * l >= 0 /\ (q - a - 1) * l = -((a - q) * l) - l
      BY <1>1, <1>3, <2>2
    <3> QED BY <1>1, <1>3, <1>4, <3>1
  <2> QED BY <1>3, <2>1, <2>2
<1>6. m = b
  BY <1>3, <1>4, <1>5
<1> QED BY <1>6 DEF m, x

LEMMA RepeatedIs ==
  ASSUME NEW items \in Seq(AnyMember), NEW n \in Nat
  PROVE  Repeated(items, n) \in Seq(AnyMember) /\ Repeats(items, n, Repeated(items, n))
<1> DEFINE l == Len(items)
           ss == [k \in 1 .. n |-> items]
           v == Repeated(items, n)
<1>1. l \in Nat /\ ss \in Seq(Seq(AnyMember)) /\ Len(ss) = n /\ \A k \in 1 .. n : ss[k] = items
  BY LenProperties
<1> HIDE DEF ss, l
<1>2. FlattenSeq(ss) \in Seq(AnyMember) /\ \E from : Lies(from, ss, FlattenSeq(ss))
  BY <1>1, FlattenLies
<1>3. v = FlattenSeq(ss)
  BY DEF Repeated, ss
<1> HIDE DEF v
<1>4. PICK from : Lies(from, ss, v)
  BY <1>2, <1>3
<1>5. /\ from[0] = 0 /\ Len(v) = from[n]
      /\ \A k \in 1 .. n : /\ k - 1 \in 0 .. n /\ from[k] = from[k - 1] + l
                           /\ \A j \in 1 .. l : v[from[k - 1] + j] = items[j]
  BY <1>1, <1>4 DEF Lies, l
<1> DEFINE S == {k \in 0 .. n : /\ from[k] = k * l
                                /\ \A i \in 1 .. k * l : v[i] = items[((i - 1) % l) + 1]}
<1>6. 0 \in S
  <2>1. 0 * l = 0
    BY <1>1
  <2> QED BY <1>1, <1>5, <2>1
<1>7. ASSUME NEW k \in 1 .. n, k - 1 \in S PROVE k \in S
  <2> DEFINE a == k - 1
             p == a * l
  <2>1. a \in Nat /\ a + 1 = k /\ k \in 0 .. n
    BY <1>1
  <2>2. from[a] = p /\ \A i \in 1 .. p : v[i] = items[((i - 1) % l) + 1]
    BY <1>7
  <2>3. from[k] = from[a] + l /\ \A j \in 1 .. l : v[from[a] + j] = items[j]
    BY <1>5
  <2> HIDE DEF a, S
  <2>4. p \in Nat /\ k * l = p + l
    BY <1>1, <2>1
  <2>5. \A b \in 0 .. l - 1 : (p + b) % l = b
    BY <1>1, <2>1, RemainderIs
  <2> HIDE DEF p
  <2>6. ASSUME NEW i \in 1 .. p + l, i \notin 1 .. p PROVE v[i] = items[((i - 1) % l) + 1]
    <3> DEFINE j == i - p
    <3>1. j \in 1 .. l /\ p + j = i
      BY <1>1, <2>4, <2>6
    <3>2. j - 1 \in 0 .. l - 1 /\ p + (j - 1) = i - 1 /\ (j - 1) + 1 = j
      BY <1>1, <2>4, <3>1
    <3> HIDE DEF j
    <3>3. v[i] = items[j]
      BY <2>2, <2>3, <3>1
    <3>4. (i - 1) % l = j - 1
      BY <2>5, <3>2
    <3> QED BY <3>2, <3>3, <3>4
  <2>7. from[k] = k * l
    BY <2>2, <2>3, <2>4
  <2>8. \A i \in 1 .. k * l : v[i] = items[((i - 1) % l) + 1]
    BY <2>2, <2>4, <2>6
  <2> QED BY <2>1, <2>7, <2>8 DEF S
<1> HIDE DEF S
<1>8. n \in S
  <2>1. \A k \in 0 .. n : k \in S
    BY <1>6, <1>7, StepByStep
  <2> QED BY <2>1
<1>9. Len(v) = n * l /\ \A i \in 1 .. n * l : v[i] = items[((i - 1) % l) + 1]
  BY <1>5, <1>8 DEF S
<1>10. v \in Seq(AnyMember) /\ DOMAIN v = 1 .. Len(v)
  BY <1>2, <1>3, LenProperties
<1>11. Repeats(items, n, v)
  BY <1>9, <1>10 DEF Repeats, l
<1> QED BY <1>10, <1>11 DEF v

\* A set of the members of two, the first one's copies before the second's.
LEMMA JoinIs ==
  ASSUME NEW x \in AnySet, NEW y \in AnySet
  PROVE  /\ SetOf(x \o y) \in AnySet /\ x \o y \in Seq(AnyMember)
         /\ ToSet(SetOf(x \o y)) = ToSet(x) \union {m \in ToSet(y) : m.kind \notin KindsOf(ToSet(x))}
<1> DEFINE n == Len(x)
           l == Len(y)
           c == x \o y
<1>1. /\ x \in Seq(AnyMember) /\ n \in Nat /\ DOMAIN x = 1 .. n /\ \A i, j \in 1 .. n : x[i].kind = x[j].kind => i = j
      /\ y \in Seq(AnyMember) /\ l \in Nat /\ DOMAIN y = 1 .. l /\ \A i, j \in 1 .. l : y[i].kind = y[j].kind => i = j
  BY SetIs DEF AnySet
<1>2. c \in Seq(AnyMember) /\ Len(c) = n + l
  BY <1>1, ConcatProperties
<1>3. \A i \in 1 .. n : c[i] = x[i]
  BY <1>1, <1>2, ConcatProperties
<1>4. \A i \in n + 1 .. n + l : c[i] = y[i - n] /\ i - n \in 1 .. l
  BY <1>1, <1>2, ConcatProperties
<1>5. DOMAIN c = 1 .. n + l
  BY <1>2, LenProperties
<1> HIDE DEF c, n, l
<1>6. \A k : k \in KindsOf(ToSet(x)) <=> \E i \in 1 .. n : x[i].kind = k
  BY <1>1 DEF KindsOf, ToSet
<1>7. \A m : m \in Firsts(c) <=> \E i \in 1 .. n + l : c[i] = m /\ FirstAt(c, i)
  BY <1>5 DEF Firsts
<1>8. \A i \in 1 .. n : FirstAt(c, i)
  <2> SUFFICES ASSUME NEW i \in 1 .. n, NEW j \in 1 .. i - 1 PROVE c[j].kind # c[i].kind
    BY DEF FirstAt
  <2>1. j \in 1 .. n /\ j # i
    BY <1>1
  <2> QED BY <1>1, <1>3, <2>1
<1>9. \A i \in n + 1 .. n + l : FirstAt(c, i) <=> y[i - n].kind \notin KindsOf(ToSet(x))
  <2> SUFFICES ASSUME NEW i \in n + 1 .. n + l PROVE FirstAt(c, i) <=> y[i - n].kind \notin KindsOf(ToSet(x))
    OBVIOUS
  <2>1. \A j \in 1 .. n : j \in 1 .. i - 1
    BY <1>1
  <2>2. \A j \in 1 .. i - 1 : j \in 1 .. n \/ (j \in n + 1 .. n + l /\ j - n # i - n /\ j - n \in 1 .. l /\ i - n \in 1 .. l)
    BY <1>1
  <2>3. \A j \in 1 .. i - 1 : j \in n + 1 .. n + l => c[j].kind # c[i].kind
    BY <1>1, <1>4, <2>2
  <2>4. \A j \in 1 .. n : c[j] = x[j]
    BY <1>3
  <2>5. c[i] = y[i - n]
    BY <1>4
  <2> QED BY <1>6, <2>1, <2>2, <2>3, <2>4, <2>5 DEF FirstAt
<1>10. \A m : m \in Firsts(c) <=> \/ \E i \in 1 .. n : x[i] = m
                                  \/ m.kind \notin KindsOf(ToSet(x)) /\ \E i \in 1 .. l : y[i] = m
  <2>1. \A i \in 1 .. n + l : i \in 1 .. n \/ i \in n + 1 .. n + l
    BY <1>1
  <2>2. \A i \in 1 .. l : i + n \in n + 1 .. n + l /\ (i + n) - n = i /\ i + n \in 1 .. n + l
    BY <1>1
  <2>3. \A i \in 1 .. n : i \in 1 .. n + l
    BY <1>1
  <2> SUFFICES ASSUME NEW m PROVE m \in Firsts(c) <=> \/ \E i \in 1 .. n : x[i] = m
                                                      \/ m.kind \notin KindsOf(ToSet(x)) /\ \E i \in 1 .. l : y[i] = m
    OBVIOUS
  <2>4. ASSUME m \in Firsts(c) PROVE \/ \E i \in 1 .. n : x[i] = m
                                     \/ m.kind \notin KindsOf(ToSet(x)) /\ \E i \in 1 .. l : y[i] = m
    <3>1. PICK i \in 1 .. n + l : c[i] = m /\ FirstAt(c, i)
      BY <1>7, <2>4
    <3> QED BY <1>3, <1>4, <1>9, <2>1, <3>1
  <2>5. ASSUME NEW i \in 1 .. n, x[i] = m PROVE m \in Firsts(c)
    BY <1>3, <1>7, <1>8, <2>3, <2>5
  <2>6. ASSUME m.kind \notin KindsOf(ToSet(x)), NEW i \in 1 .. l, y[i] = m PROVE m \in Firsts(c)
    <3> DEFINE j == i + n
    <3>1. j \in n + 1 .. n + l /\ j - n = i /\ j \in 1 .. n + l
      BY <2>2
    <3> HIDE DEF j
    <3>2. c[j] = m /\ FirstAt(c, j)
      BY <1>4, <1>9, <2>6, <3>1
    <3> QED BY <1>7, <3>1, <3>2
  <2> QED BY <2>4, <2>5, <2>6
<1>11. Firsts(c) = ToSet(x) \union {m \in ToSet(y) : m.kind \notin KindsOf(ToSet(x))}
  BY <1>1, <1>10, SMTT(20) DEF ToSet
<1>12. SetOf(c) \in AnySet /\ ToSet(SetOf(c)) = Firsts(c)
  BY <1>2, SetOfIs
<1> QED BY <1>2, <1>11, <1>12 DEF c

\* What Makes says of two sets, member by member.
SetMade(op, x, y) ==
  {m \in ToSet(x) \union ToSet(y) :
     /\ m.kind \in SetWanted(op, KindsOf(ToSet(x)), KindsOf(ToSet(y)))
     /\ m \in ToSet(x) \/ m.kind \notin KindsOf(ToSet(x))}
SetOperators == {"-", "&", "|", "^"}
LEMMA SetMadeIs ==
  ASSUME NEW x \in AnySet, NEW y \in AnySet
  PROVE  /\ SetMade("-", x, y) = {m \in ToSet(x) : m.kind \notin KindsOf(ToSet(y))}
         /\ SetMade("&", x, y) = {m \in ToSet(x) : m.kind \in KindsOf(ToSet(y))}
         /\ SetMade("|", x, y) = ToSet(x) \union {m \in ToSet(y) : m.kind \notin KindsOf(ToSet(x))}
         /\ SetMade("^", x, y) = {m \in ToSet(x) : m.kind \notin KindsOf(ToSet(y))}
                                   \union {m \in ToSet(y) : m.kind \notin KindsOf(ToSet(x))}
<1> DEFINE X == ToSet(x)
           Y == ToSet(y)
           KX == KindsOf(X)
           KY == KindsOf(Y)
<1>1. (\A m \in X : m.kind \in KX) /\ (\A m \in Y : m.kind \in KY)
  BY DEF KindsOf
<1>2. SetWanted("-", KX, KY) = KX \ KY /\ SetWanted("&", KX, KY) = KX \intersect KY
  BY DEF SetWanted
<1>3. SetWanted("|", KX, KY) = KX \union KY /\ SetWanted("^", KX, KY) = (KX \ KY) \union (KY \ KX)
  BY DEF SetWanted
<1>4. \A op : SetMade(op, x, y) = {m \in X \union Y : m.kind \in SetWanted(op, KX, KY) /\ (m \in X \/ m.kind \notin KX)}
  BY DEF SetMade
<1> HIDE DEF X, Y, KX, KY
<1>5. SetMade("-", x, y) = {m \in X : m.kind \notin KY}
  BY <1>1, <1>2, <1>4
<1>6. SetMade("&", x, y) = {m \in X : m.kind \in KY}
  BY <1>1, <1>2, <1>4
<1>7. SetMade("|", x, y) = X \union {m \in Y : m.kind \notin KX}
  BY <1>1, <1>3, <1>4
<1>8. SetMade("^", x, y) = {m \in X : m.kind \notin KY} \union {m \in Y : m.kind \notin KX}
  BY <1>1, <1>3, <1>4
<1> QED BY <1>5, <1>6, <1>7, <1>8 DEF X, Y, KX, KY

Adds(op, a, b) == op = "+" /\ a.type = b.type /\ a.type \in {"list", "tuple"}
Multiplies(op, a, b) == op = "*" /\ a.type \in {"list", "tuple"} /\ b.type = "int"
Mixes(op, a, b) == op \in SetOperators /\ a.type = "set" /\ b.type = "set"
LEMMA MakesIs ==
  ASSUME NEW op, NEW a, NEW b, NEW v
  PROVE  /\ Adds(op, a, b) => (Makes(op, a, b, v) <=> v.type = a.type /\ v.items = a.items \o b.items)
         /\ Multiplies(op, a, b) => (Makes(op, a, b, v) <=> v.type = a.type /\ Repeats(a.items, b.count, v.items))
         /\ Multiplies(op, b, a) => (Makes(op, a, b, v) <=> v.type = b.type /\ Repeats(b.items, a.count, v.items))
         /\ Mixes(op, a, b) => (Makes(op, a, b, v) <=> v.type = "set" /\ Holding(v.items, SetMade(op, a.items, b.items)))
         /\ ~(Adds(op, a, b) \/ Multiplies(op, a, b) \/ Multiplies(op, b, a) \/ Mixes(op, a, b)) =>
              (Makes(op, a, b, v) <=> v = Refused)
<1> DEFINE sum == v.type = a.type /\ v.items = a.items \o b.items
           left == v.type = a.type /\ Repeats(a.items, b.count, v.items)
           right == v.type = b.type /\ Repeats(b.items, a.count, v.items)
           mixed == v.type = "set" /\ Holding(v.items, SetMade(op, a.items, b.items))
<1>1. Makes(op, a, b, v) <=>
        CASE op = "+" /\ (Both(a, b, "list") \/ Both(a, b, "tuple")) -> sum
          [] op = "*" /\ a.type \in {"list", "tuple"} /\ b.type = "int" -> left
          [] op = "*" /\ b.type \in {"list", "tuple"} /\ a.type = "int" -> right
          [] op \in {"-", "&", "|", "^"} /\ Both(a, b, "set") -> mixed
          [] OTHER -> v = Refused
  BY DEF Makes, SetMade
<1> HIDE DEF sum, left, right, mixed
<1>2. op = "+" /\ (Both(a, b, "list") \/ Both(a, b, "tuple")) <=> Adds(op, a, b)
  BY DEF Adds, Both
<1>3. Makes(op, a, b, v) <=>
        CASE Adds(op, a, b) -> sum [] Multiplies(op, a, b) -> left [] Multiplies(op, b, a) -> right
          [] Mixes(op, a, b) -> mixed [] OTHER -> v = Refused
  BY <1>1, <1>2 DEF Multiplies, Mixes, Both, SetOperators
<1>4. Adds(op, a, b) => ~Multiplies(op, a, b) /\ ~Multiplies(op, b, a) /\ ~Mixes(op, a, b)
  BY DEF Adds, Multiplies, Mixes, SetOperators
<1>5. Multiplies(op, a, b) => ~Multiplies(op, b, a) /\ ~Mixes(op, a, b)
  BY DEF Multiplies, Mixes, SetOperators
<1>6. Multiplies(op, b, a) => ~Mixes(op, a, b)
  BY DEF Multiplies, Mixes, SetOperators
<1> QED BY <1>3, <1>4, <1>5, <1>6 DEF sum, left, right, mixed

LEMMA ThingIs ==
  ASSUME NEW a \in AnyThing
  PROVE  /\ a.items \in Seq(AnyMember) /\ a.count \in Nat /\ a.type \in {"list", "tuple", "int", "generator", "set"}
         /\ a.type = "set" => a.items \in AnySet
BY SetIs DEF AnyThing

LEMMA BuiltIs ==
  ASSUME NEW type \in {"list", "tuple", "set"}, NEW items
  PROVE  Built(type, items).type = type /\ Built(type, items).items = items /\ Built(type, items) # Refused
BY DEF Built, Refused

\* What an operator makes of two values, and that it refuses the others.
LEMMA BinaryIs ==
  ASSUME NEW op \in Operators, NEW a \in AnyThing, NEW b \in AnyThing
  PROVE  /\ Makes(op, a, b, Binary(op, a, b))
         /\ Binary(op, a, b) # Refused => Adds(op, a, b) \/ Multiplies(op, a, b) \/ Multiplies(op, b, a) \/ Mixes(op, a, b)
<1> DEFINE x == a.items
           y == b.items
           v == Binary(op, a, b)
<1>1. /\ x \in Seq(AnyMember) /\ y \in Seq(AnyMember) /\ a.count \in Nat /\ b.count \in Nat
      /\ (a.type = "set" => x \in AnySet) /\ (b.type = "set" => y \in AnySet)
  BY ThingIs
<1>2. v = IF Adds(op, a, b) THEN Built(a.type, x \o y)
          ELSE IF Multiplies(op, a, b) THEN Built(a.type, Repeated(x, b.count))
          ELSE IF Multiplies(op, b, a) THEN Built(b.type, Repeated(y, a.count))
          ELSE IF Mixes(op, a, b) THEN Built("set", IF op = "-" THEN SetOf(OnlyIn(x, y)) ELSE BitwiseOnSets(op, x, y))
          ELSE Refused
  <2> DEFINE both == IF a.type = b.type THEN a.type ELSE "two"
  <2>1. both \in {"list", "tuple"} <=> a.type = b.type /\ a.type \in {"list", "tuple"}
    OBVIOUS
  <2>2. both \in {"list", "tuple"} => both = a.type
    OBVIOUS
  <2>3. both = "set" <=> a.type = "set" /\ b.type = "set"
    OBVIOUS
  <2>4. v = IF op = "+" /\ both \in {"list", "tuple"} THEN Built(both, x \o y)
            ELSE IF op = "*" /\ b.type = "int" /\ a.type \in {"list", "tuple"} THEN Built(a.type, Repeated(x, b.count))
            ELSE IF op = "*" /\ a.type = "int" /\ b.type \in {"list", "tuple"} THEN Built(b.type, Repeated(y, a.count))
            ELSE IF op = "-" /\ both = "set" THEN Built("set", SetOf(OnlyIn(x, y)))
            ELSE IF op \in {"&", "|", "^"} /\ both = "set" THEN Built("set", BitwiseOnSets(op, x, y))
            ELSE Refused
    BY DEF Binary
  <2> HIDE DEF both, v, x, y
  <2>5. op = "-" /\ both = "set" <=> Mixes(op, a, b) /\ op = "-"
    BY <2>3 DEF Mixes, SetOperators
  <2>6. op \in {"&", "|", "^"} /\ both = "set" <=> Mixes(op, a, b) /\ op # "-"
    BY <2>3 DEF Mixes, SetOperators
  <2>7. op = "+" /\ both \in {"list", "tuple"} <=> Adds(op, a, b)
    BY <2>1 DEF Adds
  <2> QED BY <2>2, <2>4, <2>5, <2>6, <2>7 DEF Multiplies
<1> HIDE DEF v
<1>3. CASE Adds(op, a, b)
  <2>1. v = Built(a.type, x \o y) /\ a.type \in {"list", "tuple", "set"}
    BY <1>2, <1>3 DEF Adds
  <2> DEFINE c == x \o y
  <2> HIDE DEF c
  <2>4. v = Built(a.type, c)
    BY <2>1 DEF c
  <2>2. v.type = a.type /\ v.items = c
    BY <2>4 DEF Built
  <2>3. Makes(op, a, b, v)
    BY <1>3, <2>2, MakesIs DEF c
  <2> QED BY <1>3, <2>3 DEF v
<1>4. CASE Multiplies(op, a, b)
  <2>1. v = Built(a.type, Repeated(x, b.count)) /\ a.type \in {"list", "tuple", "set"}
    BY <1>2, <1>4 DEF Adds, Multiplies
  <2> DEFINE n == b.count
             c == Repeated(x, n)
  <2> HIDE DEF c
  <2>2. v.type = a.type /\ v.items = c
    BY <2>1, BuiltIs DEF c
  <2>4. Repeats(x, n, c)
    <3>1. x \in Seq(AnyMember) /\ n \in Nat
      BY <1>1
    <3> HIDE DEF n, x
    <3> QED BY <3>1, RepeatedIs DEF c
  <2>3. Makes(op, a, b, v)
    BY <1>4, <2>2, <2>4, MakesIs
  <2> QED BY <1>4, <2>3 DEF v
<1>5. CASE Multiplies(op, b, a)
  <2>1. v = Built(b.type, Repeated(y, a.count)) /\ b.type \in {"list", "tuple", "set"}
    BY <1>2, <1>5 DEF Adds, Multiplies
  <2> DEFINE n == a.count
             c == Repeated(y, n)
  <2> HIDE DEF c
  <2>2. v.type = b.type /\ v.items = c
    BY <2>1, BuiltIs DEF c
  <2>4. Repeats(y, n, c)
    <3>1. y \in Seq(AnyMember) /\ n \in Nat
      BY <1>1
    <3> HIDE DEF n, y
    <3> QED BY <3>1, RepeatedIs DEF c
  <2>3. Makes(op, a, b, v)
    BY <1>5, <2>2, <2>4, MakesIs
  <2> QED BY <1>5, <2>3 DEF v
<1>6. CASE Mixes(op, a, b)
  <2> DEFINE made == IF op = "-" THEN SetOf(OnlyIn(x, y)) ELSE BitwiseOnSets(op, x, y)
  <2>1. v = Built("set", made)
    BY <1>2, <1>6 DEF Adds, Multiplies, Mixes, SetOperators
  <2>2. x \in AnySet /\ y \in AnySet /\ op \in SetOperators
    BY <1>1, <1>6 DEF Mixes
  <2> DEFINE p == OnlyIn(x, y)
             q == OnlyIn(y, x)
             s == InBoth(x, y)
  <2>3. /\ p \in AnySet /\ ToSet(p) = {m \in ToSet(x) : m.kind \notin KindsOf(ToSet(y))}
        /\ s \in AnySet /\ ToSet(s) = {m \in ToSet(x) : m.kind \in KindsOf(ToSet(y))}
        /\ q \in AnySet /\ ToSet(q) = {m \in ToSet(y) : m.kind \notin KindsOf(ToSet(x))}
    BY <2>2, SomeIs
  <2> HIDE DEF x, y, p, q, s
  <2>12. /\ SetMade("-", x, y) = {m \in ToSet(x) : m.kind \notin KindsOf(ToSet(y))}
         /\ SetMade("&", x, y) = {m \in ToSet(x) : m.kind \in KindsOf(ToSet(y))}
         /\ SetMade("|", x, y) = ToSet(x) \union {m \in ToSet(y) : m.kind \notin KindsOf(ToSet(x))}
         /\ SetMade("^", x, y) = ToSet(p) \union ToSet(q)
    BY <2>2, <2>3, SetMadeIs
  <2>4. op = "-" => made \in AnySet /\ ToSet(made) = SetMade(op, x, y)
    <3>1. p \in Seq(AnyMember) /\ Firsts(p) = ToSet(p)
      BY <2>3, FirstsSet
    <3>2. SetOf(p) \in AnySet /\ ToSet(SetOf(p)) = ToSet(p)
      BY <3>1, SetOfIs
    <3>3. op = "-" => made = SetOf(p)
      BY DEF p
    <3> HIDE DEF made
    <3> QED BY <2>3, <2>12, <3>2, <3>3
  <2>5. op = "&" => made \in AnySet /\ ToSet(made) = SetMade(op, x, y)
    <3>1. s \in Seq(AnyMember) /\ Firsts(s) = ToSet(s)
      BY <2>3, FirstsSet
    <3>2. SetOf(s) \in AnySet /\ ToSet(SetOf(s)) = ToSet(s)
      BY <3>1, SetOfIs
    <3>3. op = "&" => made = SetOf(s)
      BY DEF s, BitwiseOnSets
    <3> HIDE DEF made
    <3> QED BY <2>3, <2>12, <3>2, <3>3
  <2>6. op = "|" => made \in AnySet /\ ToSet(made) = SetMade(op, x, y)
    <3>1. op = "|" => made = SetOf(x \o y)
      BY DEF BitwiseOnSets
    <3> HIDE DEF made
    <3>2. SetOf(x \o y) \in AnySet /\ ToSet(SetOf(x \o y)) = ToSet(x) \union {m \in ToSet(y) : m.kind \notin KindsOf(ToSet(x))}
      BY <2>2, JoinIs
    <3> QED BY <2>12, <3>1, <3>2
  <2>7. op = "^" => made \in AnySet /\ ToSet(made) = SetMade(op, x, y)
    <3>1. op = "^" => made = SetOf(p \o q)
      BY DEF BitwiseOnSets, p, q
    <3>2. SetOf(p \o q) \in AnySet /\ ToSet(SetOf(p \o q)) = ToSet(p) \union {m \in ToSet(q) : m.kind \notin KindsOf(ToSet(p))}
      BY <2>3, JoinIs
    <3>3. \A m \in ToSet(q) : m.kind \notin KindsOf(ToSet(p))
      BY <2>3 DEF KindsOf
    <3>4. ToSet(SetOf(p \o q)) = ToSet(p) \union ToSet(q)
      BY <3>2, <3>3
    <3> HIDE DEF made
    <3> QED BY <2>12, <3>1, <3>2, <3>4
  <2>8. made \in AnySet /\ ToSet(made) = SetMade(op, x, y)
    BY <2>2, <2>4, <2>5, <2>6, <2>7 DEF SetOperators
  <2> HIDE DEF made
  <2>9. Holding(made, SetMade(op, x, y))
    BY <2>8, Held
  <2>10. v.type = "set" /\ v.items = made
    BY <2>1, BuiltIs
  <2>11. Makes(op, a, b, v)
    <3>1. Holding(v.items, SetMade(op, a.items, b.items))
      BY <2>9, <2>10 DEF x, y
    <3> QED BY <1>6, <2>10, <3>1, MakesIs
  <2> QED BY <1>6, <2>11 DEF v
<1>7. CASE ~(Adds(op, a, b) \/ Multiplies(op, a, b) \/ Multiplies(op, b, a) \/ Mixes(op, a, b))
  <2>1. v = Refused
    BY <1>2, <1>7
  <2>2. Makes(op, a, b, v)
    BY <1>7, <2>1, MakesIs
  <2> QED BY <2>1, <2>2 DEF v
<1> QED BY <1>3, <1>4, <1>5, <1>6, <1>7

LEMMA IntoIs ==
  ASSUME NEW objects \in [x : AnyThing, y : AnyThing], NEW items
  PROVE  LET r == Into(objects, "x", items)
         IN  /\ r.is = "x" /\ r.objects.y = objects.y /\ r.objects.x = r.value
             /\ r.value.type = objects.x.type /\ r.value.items = items
<1> DEFINE after == [objects EXCEPT !["x"].items = items]
           r == Into(objects, "x", items)
<1>1. r.is = "x" /\ r.objects = after /\ r.value = after.x
  BY DEF Into
<1>2. objects.x \in AnyThing /\ objects = [x |-> objects.x, y |-> objects.y]
  OBVIOUS
<1> DEFINE a == objects.x
<1>3. after.x = [a EXCEPT !.items = items] /\ after.y = objects.y
  BY <1>2
<1>4. \E type, old, count : a = [type |-> type, items |-> old, count |-> count]
  BY <1>2 DEF AnyThing
<1> HIDE DEF after, r, a
<1>5. after.x.type = a.type /\ after.x.items = items
  BY <1>3, <1>4
<1> QED BY <1>1, <1>3, <1>5 DEF r, a

\* What is made counts by its type and its items.
LEMMA MadeAlike ==
  ASSUME NEW op, NEW a, NEW b, NEW v, NEW w,
         Adds(op, a, b) \/ Multiplies(op, a, b) \/ Multiplies(op, b, a) \/ Mixes(op, a, b),
         v.type = w.type, v.items = w.items, Makes(op, a, b, v)
  PROVE  Makes(op, a, b, w)
<1>1. CASE Adds(op, a, b)
  <2> DEFINE sum == a.items \o b.items
  <2>1. \A u : Makes(op, a, b, u) <=> u.type = a.type /\ u.items = sum
    BY <1>1, MakesIs
  <2> HIDE DEF sum
  <2> QED BY <2>1
<1>2. CASE Multiplies(op, a, b)
  <2>1. \A u : Makes(op, a, b, u) <=> u.type = a.type /\ Repeats(a.items, b.count, u.items)
    BY <1>2, MakesIs
  <2> QED BY <2>1
<1>3. CASE Multiplies(op, b, a)
  BY <1>3, MakesIs, ZenonT(30)
<1>4. CASE Mixes(op, a, b)
  BY <1>4, MakesIs, ZenonT(30)
<1> QED BY <1>1, <1>2, <1>3, <1>4

\* An operator in place, on one object or on two.
LEMMA InPlaceIsRight ==
  ASSUME NEW op \in Operators, NEW objects \in [x : AnyThing, y : AnyThing], NEW right \in {"x", "y"}
  PROVE  InPlaceAsMeant(op, objects, right, InPlace(op, objects, "x", right))
<1> DEFINE a == objects.x
           b == objects[right]
           v == Binary(op, a, b)
           r == InPlace(op, objects, "x", right)
           takesIn == op = "+" /\ a.type = "list"
           Meant == IF takesIn /\ b.type \in {"tuple", "set"}
                      THEN r.is = "x" /\ r.objects.x.items = a.items \o b.items /\ r.objects.x.type = "list" /\ r.objects.y = objects.y
                    ELSE IF takesIn /\ b.type = "generator" THEN r.objects.y = objects.y
                    ELSE IF r.is = "nothing" THEN Makes(op, a, b, Refused) /\ r.objects = objects
                    ELSE /\ r.objects.y = objects.y /\ Makes(op, a, b, r.value)
                         /\ IF a.type \in {"list", "set"} THEN r.is = "x" /\ r.objects.x = r.value
                            ELSE r.is = "new" /\ r.objects = objects
<1>1. InPlaceAsMeant(op, objects, right, r) <=> Meant
  BY DEF InPlaceAsMeant
<1>2. a \in AnyThing /\ b \in AnyThing
  OBVIOUS
<1>3. /\ Makes(op, a, b, v)
      /\ v # Refused => Adds(op, a, b) \/ Multiplies(op, a, b) \/ Multiplies(op, b, a) \/ Mixes(op, a, b)
  BY <1>2, BinaryIs
<1>4. r = IF takesIn
            THEN IF b.type \in {"list", "tuple", "set"} THEN Into(objects, "x", a.items \o b.items) ELSE Unchanged(objects)
          ELSE IF op = "|" /\ a.type = "set" /\ b.type = "set" THEN Into(objects, "x", InsertAll(a.items, b.items))
          ELSE IF op = "-" /\ a.type = "set" /\ b.type = "set" THEN Into(objects, "x", TakeOutAll(a.items, b.items))
          ELSE IF v = Refused THEN Unchanged(objects)
          ELSE IF a.type \in {"list", "set"} THEN Into(objects, "x", v.items)
          ELSE Fresh(objects, v)
  BY DEF InPlace
<1>5. \A items : /\ Into(objects, "x", items).is = "x" /\ Into(objects, "x", items).objects.y = objects.y
                 /\ Into(objects, "x", items).objects.x = Into(objects, "x", items).value
                 /\ Into(objects, "x", items).value.type = a.type /\ Into(objects, "x", items).value.items = items
  BY IntoIs
<1>6. Unchanged(objects).is = "nothing" /\ Unchanged(objects).objects = objects
  BY DEF Unchanged
<1>7. Fresh(objects, v).is = "new" /\ Fresh(objects, v).objects = objects /\ Fresh(objects, v).value = v
  BY DEF Fresh
<1> SUFFICES Meant
  BY <1>1
<1> HIDE DEF a, b, r, v
<1>8. CASE takesIn /\ b.type \in {"list", "tuple", "set"}
  <2> DEFINE items == a.items \o b.items
  <2>1. r = Into(objects, "x", items)
    BY <1>4, <1>8
  <2> HIDE DEF items
  <2>2. r.is = "x" /\ r.objects.y = objects.y /\ r.objects.x = r.value /\ r.value.type = a.type /\ r.value.items = items
    BY <1>5, <2>1
  <2>3. b.type = "list" => Makes(op, a, b, r.value)
    <3>1. b.type = "list" => Adds(op, a, b)
      BY <1>8 DEF Adds
    <3> QED BY <2>2, <3>1, MakesIs DEF items
  <2>4. r.objects.x.items = a.items \o b.items /\ r.objects.x.type = "list"
    BY <1>8, <2>2 DEF items
  <2>5. r.is # "nothing"
    BY <2>2
  <2>6. b.type = "list" \/ b.type \in {"tuple", "set"}
    BY <1>8
  <2> QED BY <1>8, <2>2, <2>3, <2>4, <2>5, <2>6
<1>9. CASE takesIn /\ b.type \notin {"list", "tuple", "set"}
  <2>1. r = Unchanged(objects)
    BY <1>4, <1>9
  <2>2. ~(Adds(op, a, b) \/ Multiplies(op, a, b) \/ Multiplies(op, b, a) \/ Mixes(op, a, b))
    BY <1>9 DEF Adds, Multiplies, Mixes, SetOperators
  <2>3. Makes(op, a, b, Refused)
    BY <2>2, MakesIs
  <2> QED BY <1>6, <1>9, <2>1, <2>3
<1>10. CASE ~takesIn /\ op \in {"|", "-"} /\ a.type = "set" /\ b.type = "set"
  <2> DEFINE x == a.items
             y == b.items
             items == IF op = "|" THEN InsertAll(x, y) ELSE TakeOutAll(x, y)
  <2>1. r = Into(objects, "x", items)
    BY <1>4, <1>10
  <2>2. x \in AnySet /\ y \in AnySet /\ y \in Seq(AnyMember) /\ Firsts(y) = ToSet(y)
    <3>1. x \in AnySet /\ y \in AnySet
      BY <1>2, <1>10, ThingIs
    <3> HIDE DEF x, y
    <3> QED BY <3>1, FirstsSet
  <2> HIDE DEF x, y
  <2>3. InsertAll(x, y) \in AnySet /\ ToSet(InsertAll(x, y)) = SetMade("|", x, y)
    <3>1. ToSet(InsertAll(x, y)) = ToSet(x) \union {m \in Firsts(y) : m.kind \notin KindsOf(ToSet(x))}
      BY <2>2, InsertAllIs
    <3> QED BY <2>2, <3>1, InsertAllIs, SetMadeIs
  <2>4. TakeOutAll(x, y) \in AnySet /\ ToSet(TakeOutAll(x, y)) = SetMade("-", x, y)
    <3>1. ToSet(TakeOutAll(x, y)) = {m \in ToSet(x) : m.kind \notin KindsOf(ToSet(y))}
      BY <2>2, TakeOutAllIs
    <3>2. SetMade("-", x, y) = {m \in ToSet(x) : m.kind \notin KindsOf(ToSet(y))}
      BY <2>2, SetMadeIs
    <3> QED BY <2>2, <3>1, <3>2, TakeOutAllIs
  <2>5. items \in AnySet /\ ToSet(items) = SetMade(op, x, y)
    BY <1>10, <2>3, <2>4
  <2> HIDE DEF items
  <2>6. Holding(items, SetMade(op, x, y))
    BY <2>5, Held
  <2>7. r.is = "x" /\ r.objects.y = objects.y /\ r.objects.x = r.value /\ r.value.type = a.type /\ r.value.items = items
    BY <1>5, <2>1
  <2>8. Mixes(op, a, b)
    BY <1>10 DEF Mixes, SetOperators
  <2>9. Makes(op, a, b, r.value)
    <3>1. r.value.type = "set" /\ Holding(r.value.items, SetMade(op, a.items, b.items))
      BY <1>10, <2>6, <2>7 DEF x, y
    <3> QED BY <2>8, <3>1, MakesIs
  <2>10. r.is # "nothing"
    BY <2>7
  <2> QED BY <1>10, <2>7, <2>9, <2>10
<1>11. CASE ~takesIn /\ ~(op \in {"|", "-"} /\ a.type = "set" /\ b.type = "set")
  <2>1. r = IF v = Refused THEN Unchanged(objects)
            ELSE IF a.type \in {"list", "set"} THEN Into(objects, "x", v.items) ELSE Fresh(objects, v)
    BY <1>4, <1>11
  <2>2. CASE v = Refused
    BY <1>3, <1>6, <1>11, <2>1, <2>2
  <2>3. CASE v # Refused /\ a.type \in {"list", "set"}
    <3> DEFINE items == v.items
    <3>1. r = Into(objects, "x", items)
      BY <2>1, <2>3
    <3> HIDE DEF items
    <3>2. r.is = "x" /\ r.objects.y = objects.y /\ r.objects.x = r.value /\ r.value.type = a.type /\ r.value.items = items
      BY <1>5, <3>1
    <3>3. Adds(op, a, b) \/ Multiplies(op, a, b) \/ Multiplies(op, b, a) \/ Mixes(op, a, b)
      BY <1>3, <2>3
    <3>4. v.type = a.type
      <4>1. ~Multiplies(op, b, a) /\ (Mixes(op, a, b) => a.type = "set")
        BY <2>3 DEF Multiplies, Mixes
      <4> QED BY <1>3, <3>3, <4>1, MakesIs
    <3>5. Makes(op, a, b, r.value)
      <4> DEFINE w == r.value
      <4>1. v.type = w.type /\ v.items = w.items
        BY <3>2, <3>4 DEF items
      <4> HIDE DEF w
      <4>2. Makes(op, a, b, w)
        BY <1>3, <3>3, <4>1, MadeAlike
      <4> QED BY <4>2 DEF w
    <3>6. r.is # "nothing"
      BY <3>2
    <3> QED BY <1>11, <2>3, <3>2, <3>5, <3>6
  <2>4. CASE v # Refused /\ a.type \notin {"list", "set"}
    <3>1. r.is = "new" /\ r.objects = objects /\ r.value = v
      BY <1>7, <2>1, <2>4
    <3>2. r.is # "nothing" /\ r.objects.y = objects.y
      BY <3>1
    <3> QED BY <1>3, <1>11, <2>4, <3>1, <3>2
  <2> QED BY <2>2, <2>3, <2>4
<1> QED BY <1>8, <1>9, <1>10, <1>11

=============================================================================
