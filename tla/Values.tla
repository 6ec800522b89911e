------------------------------- MODULE Values -------------------------------
(***************************************************************************)
(* Equality, order and hash of values (kohebi-core: object.rs, ops.rs,     *)
(* hash.rs).                                                               *)
(*                                                                         *)
(* A value is its kind and what is in it.  A float is a number of quarters *)
(* or one of the three that are no number; a float has few digits, so that *)
(* there are integers between two floats.  The prime that numbers are      *)
(* hashed modulo, 2^61 - 1 in the code, the 28 bits a mantissa is read by  *)
(* and how deep values are nested are parameters.                          *)
(***************************************************************************)
EXTENDS Numbers

CONSTANTS
  HashBits,   \* the width of the modulus
  DigitBits,  \* how much of a mantissa is read at a time, less than that
  Nesting     \* how deep values are: 1 is no container, 2 is a container of those

ASSUME ModulusAssumption == HashBits \in Nat /\ DigitBits \in 1 .. HashBits - 1
ASSUME NestingAssumption == Nesting \in Nat

Integer(a) == [kind |-> "int", at |-> a, of |-> << >>]
Bool(b) == [kind |-> "bool", at |-> Small(IF b THEN 1 ELSE 0), of |-> << >>]
Float(quarters) == [kind |-> "float", at |-> [arm |-> "finite", n |-> quarters], of |-> << >>]
NotFinite(which) == [kind |-> "float", at |-> [arm |-> which, n |-> 0], of |-> << >>]
Str(code) == [kind |-> "str", at |-> Small(code), of |-> << >>]
Sequence(kind, items) == [kind |-> kind, at |-> Small(0), of |-> items]

IsInt(v) == v.kind \in {"int", "bool"}
IsFloat(v) == v.kind = "float"
IsNumber(v) == IsInt(v) \/ IsFloat(v)
IsNan(v) == IsFloat(v) /\ v.at.arm = "nan"
Finite(v) == v.at.arm = "finite"

Whole(quarters) == Quotient(quarters, 4)
InWord(quarters) == 4 * WordMin <= quarters /\ quarters < 4 * (WordMax + 1)

-----------------------------------------------------------------------------
(* An integer and a float, without turning one into the other.             *)

\* int_eq_float: in the word when both are in it.
IntEqFloat(i, f) ==
  /\ Finite(f) /\ f.at.n % 4 = 0
  /\ IF i.arm = "small" /\ InWord(f.at.n) THEN i.n = Whole(f.at.n)
     ELSE Big(Whole(f.at.n)) = Big(i.n)

Sign3(n) == IF n < 0 THEN -1 ELSE IF n > 0 THEN 1 ELSE 0

\* mutant: a tie on the whole part is a tie.
IntCmpFloatWhole(i, f) ==
  CASE f.at.arm = "inf" -> -1 [] f.at.arm = "-inf" -> 1 [] OTHER -> Sign3(i.n - Whole(f.at.n))

\* int_cmp_float, for a float that is not a NaN: a tie on the whole part is
\* broken by the fraction.
IntCmpFloat(i, f) ==
  CASE f.at.arm = "inf" -> -1
    [] f.at.arm = "-inf" -> 1
    [] OTHER -> LET whole == Whole(f.at.n)
                IN  IF i.n # whole THEN Sign3(i.n - whole) ELSE -Sign3(f.at.n - 4 * whole)

Rank(f) == CASE f.at.arm = "-inf" -> -1 [] f.at.arm = "inf" -> 1 [] OTHER -> 0
FloatCmp(a, b) == IF Rank(a) # Rank(b) THEN Sign3(Rank(a) - Rank(b)) ELSE Sign3(a.at.n - b.at.n)
IntCmp(i, j) == IF IntLess(i, j) THEN -1 ELSE IF IntLess(j, i) THEN 1 ELSE 0

-----------------------------------------------------------------------------
(* Object::equals, and what a container asks of its elements.              *)

NumberEquals(a, b) ==
  CASE IsInt(a) /\ IsInt(b) -> a.at = b.at
    [] IsFloat(a) /\ IsFloat(b) -> ~IsNan(a) /\ a.at = b.at
    [] IsInt(a) /\ IsFloat(b) -> IntEqFloat(a.at, b)
    [] OTHER -> IntEqFloat(b.at, a)

\* The values of n levels: what is in a container is of one level less.
Simple == [kind : {"int", "bool", "float", "str"},
           at : [arm : {"small", "big", "finite", "inf", "-inf", "nan"}, n : Int], of : {<< >>}]
Containing(V) == [kind : {"tuple", "list", "set"}, at : {Small(0)}, of : Seq(V)]
Nested[n \in 0 .. Nesting] == IF n = 0 THEN {} ELSE Simple \union Containing(Nested[n - 1])

\* `equal` is the equality of what the two are made of.
SameValue(equal, a, b) == a = b \/ equal[a][b]
Within(equal, a, b) ==
  /\ Len(a.of) <= Len(b.of)
  /\ \A i \in DOMAIN a.of : \E j \in DOMAIN b.of : SameValue(equal, a.of[i], b.of[j])
EqualsBy(equal, a, b) ==
  IF IsNumber(a) /\ IsNumber(b) THEN NumberEquals(a, b)
  ELSE /\ a.kind = b.kind
       /\ a.at = b.at
       /\ Len(a.of) = Len(b.of)
       /\ IF a.kind = "set" THEN Within(equal, a, b)
          ELSE \A i \in DOMAIN a.of : SameValue(equal, a.of[i], b.of[i])

EqualUpTo[n \in 0 .. Nesting] ==
  IF n = 0 THEN << >>
  ELSE [a \in Nested[n] |-> [b \in Nested[n] |-> EqualsBy(EqualUpTo[n - 1], a, b)]]
Equals(a, b) == EqualUpTo[Nesting][a][b]

-----------------------------------------------------------------------------
(* The four orderings.                                                     *)

Ops == {"<", "<=", ">", ">="}
Decide(op, order) == CASE op = "<" -> order < 0 [] op = "<=" -> order <= 0
                       [] op = ">" -> order > 0 [] op = ">=" -> order >= 0
Ordered(is) == [error |-> FALSE, is |-> is]
TypeError == [error |-> TRUE, is |-> FALSE]

NumericOrder(a, b) ==
  CASE IsInt(a) /\ IsInt(b) -> IntCmp(a.at, b.at)
    [] IsFloat(a) /\ IsFloat(b) -> FloatCmp(a, b)
    [] IsInt(a) /\ IsFloat(b) -> IntCmpFloat(a.at, b)
    [] OTHER -> -IntCmpFloat(b.at, a)

Containment(op, equal, a, b) ==
  LET subset == Within(equal, a, b)
      superset == Within(equal, b, a)
  IN  CASE op = "<" -> subset /\ ~superset [] op = "<=" -> subset
        [] op = ">" -> superset /\ ~subset [] op = ">=" -> superset

\* The first place that differs, and the operator is asked about that alone.
SequenceOrder(op, equal, order, a, b) ==
  LET both == 1 .. Min({Len(a.of), Len(b.of)})
      differ == {i \in both : ~SameValue(equal, a.of[i], b.of[i])}
  IN  IF differ = {} THEN Ordered(Decide(op, Len(a.of) - Len(b.of)))
      ELSE order[a.of[Min(differ)]][b.of[Min(differ)]][op]
OrderBy(op, equal, order, a, b) ==
  CASE IsNumber(a) /\ IsNumber(b) ->
         Ordered(~IsNan(a) /\ ~IsNan(b) /\ Decide(op, NumericOrder(a, b)))
    [] a.kind = "str" /\ b.kind = "str" -> Ordered(Decide(op, a.at.n - b.at.n))
    [] a.kind = b.kind /\ a.kind \in {"tuple", "list"} -> SequenceOrder(op, equal, order, a, b)
    [] a.kind = "set" /\ b.kind = "set" -> Ordered(Containment(op, equal, a, b))
    [] OTHER -> TypeError

OrderUpTo[n \in 0 .. Nesting] ==
  IF n = 0 THEN << >>
  ELSE [a \in Nested[n] |-> [b \in Nested[n] |->
          [op \in Ops |-> OrderBy(op, EqualUpTo[n - 1], OrderUpTo[n - 1], a, b)]]]
Order(a, b) == OrderUpTo[Nesting][a][b]

-----------------------------------------------------------------------------
(* The hash: a number is hashed as its value modulo a prime of the form    *)
(* 2^b - 1, in whatever form it comes.                                     *)

Modulus == Power(2, HashBits) - 1
Infinite == 3
Settle(h) == IF h = -1 THEN -2 ELSE h

HashInt(n) == Settle(SignOf(n) * (Magnitude(n) % Modulus))

\* Multiplying by a power of two is a rotation.
Rotate(x, by) == ((x * Power(2, by)) % Power(2, HashBits)) + (x \div Power(2, HashBits - by))

\* The mantissa m / 2^bits, read some bits at a time until nothing is left of
\* it: the residue so far and how many bits were read.
Digits(mantissa, bits) ==
  LET digits[k \in 0 .. bits] ==
        IF k = 0 THEN [x |-> 0, m |-> mantissa, read |-> 0]
        ELSE LET d == digits[k - 1]
                 scaled == d.m * Power(2, DigitBits)
                 sum == Rotate(d.x, DigitBits) + scaled \div Power(2, bits)
             IN  IF d.m = 0 THEN d
                 ELSE [x |-> IF sum >= Modulus THEN sum - Modulus ELSE sum,
                       m |-> scaled % Power(2, bits), read |-> d.read + DigitBits]
  IN  digits[bits]

Places(exponent) ==
  IF exponent >= 0 THEN exponent % HashBits ELSE HashBits - 1 - ((-1 - exponent) % HashBits)

HashFloat(f) ==
  CASE f.at.arm = "inf" -> Infinite
    [] f.at.arm = "-inf" -> -Infinite
    [] f.at.arm = "nan" -> 0
    [] OTHER -> LET bits == Bits(f.at.n)
                    digits == Digits(Magnitude(f.at.n), bits)
                IN  Settle(SignOf(f.at.n) * Rotate(digits.x, Places(bits - 2 - digits.read)))

Hashed(h) == [hashable |-> TRUE, h |-> h, of |-> << >>]
Unhashable == [hashable |-> FALSE, h |-> 0, of |-> << >>]

\* A tuple's hash is made of those of its elements; how is left out.
HashBy(hash, v) ==
  CASE IsInt(v) -> Hashed(HashInt(v.at.n))
    [] IsFloat(v) -> Hashed(HashFloat(v))
    [] v.kind = "str" -> [hashable |-> TRUE, h |-> v.at.n, of |-> <<"text">>]
    [] v.kind = "tuple" ->
         LET lanes == [i \in DOMAIN v.of |-> hash[v.of[i]]]
         IN  IF \E i \in DOMAIN lanes : ~lanes[i].hashable THEN Unhashable
             ELSE [hashable |-> TRUE, h |-> Len(lanes), of |-> <<"lanes", lanes>>]
    [] OTHER -> Unhashable

HashUpTo[n \in 0 .. Nesting] ==
  IF n = 0 THEN << >> ELSE [v \in Nested[n] |-> HashBy(HashUpTo[n - 1], v)]
Hash(v) == HashUpTo[Nesting][v]

-----------------------------------------------------------------------------
(* What the values are: a number is one number, whatever it is written as. *)

Quarters(v) == IF IsInt(v) THEN 4 * v.at.n ELSE v.at.n
IsReal(v) == IsInt(v) \/ (IsFloat(v) /\ Finite(v))
Height(v) == IF IsReal(v) THEN 0 ELSE Rank(v)
Below(a, b) == Height(a) < Height(b) \/ (IsReal(a) /\ IsReal(b) /\ Quarters(a) < Quarters(b))
SameNumber(a, b) == Height(a) = Height(b) /\ Quarters(a) = Quarters(b)

\* The values there are: integers in their arm, and sets of what has a hash,
\* each element once.
Scalars ==
  {v \in Simple :
     CASE v.kind = "int" -> v.at.arm \in {"small", "big"} /\ Normal(v.at)
       [] v.kind = "bool" -> v.at \in {Small(0), Small(1)}
       [] v.kind = "float" -> v.at.arm \in {"finite", "inf", "-inf", "nan"} /\ (v.at.arm # "finite" => v.at.n = 0)
       [] v.kind = "str" -> v.at.arm = "small" /\ v.at.n \in Nat}
ValuesUpTo[n \in 0 .. Nesting] ==
  IF n = 0 THEN {}
  ELSE Scalars \union
         {v \in Containing(ValuesUpTo[n - 1]) : v.kind = "set" =>
            /\ \A i, j \in DOMAIN v.of : SameValue(EqualUpTo[n - 1], v.of[i], v.of[j]) => i = j
            /\ \A i \in DOMAIN v.of : HashUpTo[n - 1][v.of[i]].hashable}
AllValues == ValuesUpTo[Nesting]
=============================================================================
