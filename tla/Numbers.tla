------------------------------ MODULE Numbers -------------------------------
(***************************************************************************)
(* Integers in two arms (kohebi-core, int.rs), and what is counted with    *)
(* them: ranges (kohebi-interp, iterate.rs) and slices (kohebi-core,       *)
(* slice.rs).                                                              *)
(*                                                                         *)
(* An integer that fits in a word is in the small arm and any other one is *)
(* in the big arm.  The word is a parameter here, so that both ends of it  *)
(* are near; arithmetic of the word that the code leaves unchecked wraps.  *)
(***************************************************************************)
EXTENDS Integers, Sequences, FiniteSets, FiniteSetsExt

CONSTANTS
  WordMax,   \* the greatest word, 2^63 - 1 in the code
  ExponentMax,  \* the greatest exponent, 2^32 - 1 in the code
  MaxBits    \* how long a power or a shift may get, ten million in the code

Power(n, k) == LET to[i \in Nat] == IF i = 0 THEN 1 ELSE n * to[i - 1] IN to[k]

ASSUME WordAssumption == WordMax \in Nat /\ \E n \in 2 .. 64 : WordMax = Power(2, n) - 1
ASSUME MaxBitsAssumption == MaxBits \in Nat
ASSUME ExponentAssumption == ExponentMax \in 0 .. WordMax

WordMin == -WordMax - 1
Word == WordMin .. WordMax
Wrap(v) == ((v - WordMin) % (2 * (WordMax + 1))) + WordMin
Saturate(v) == IF v > WordMax THEN WordMax ELSE IF v < WordMin THEN WordMin ELSE v

Magnitude(n) == IF n < 0 THEN -n ELSE n
SignOf(n) == IF n < 0 THEN -1 ELSE 1

\* The arm and the number in it; None where there is no answer.
Small(n) == [arm |-> "small", n |-> n]
Big(n) == [arm |-> "big", n |-> n]
NoInt == [arm |-> "none", n |-> 0]

FromBig(v) == IF v \in Word THEN Small(v) ELSE Big(v)

\* Any number, in the arm it belongs in.
Ints(S) == {FromBig(v) : v \in S}

-----------------------------------------------------------------------------
(* One operation for both arms: the word's own when it does not overflow.  *)

Arith(a, b, Op(_, _)) ==
  IF a.arm = "small" /\ b.arm = "small" /\ Op(a.n, b.n) \in Word
    THEN Small(Op(a.n, b.n)) ELSE FromBig(Op(a.n, b.n))

IntAdd(a, b) == LET Op(x, y) == x + y IN Arith(a, b, Op)
IntSub(a, b) == LET Op(x, y) == x - y IN Arith(a, b, Op)
IntMul(a, b) == LET Op(x, y) == x * y IN Arith(a, b, Op)

\* mutant: the least word is negated as a word.
NegWrapping(a) == IF a.arm = "small" THEN Small(Wrap(-a.n)) ELSE FromBig(-a.n)

Neg(a) ==
  IF a.arm = "small" /\ -a.n \in Word THEN Small(-a.n) ELSE FromBig(-a.n)

Invert(a) == IF a.arm = "small" THEN Small(-a.n - 1) ELSE FromBig(-a.n - 1)
Abs(a) == IF a.n < 0 THEN Neg(a) ELSE a

\* Rust divides toward zero, and its remainder has the sign of the dividend.
Quotient(a, b) == SignOf(a) * SignOf(b) * (Magnitude(a) \div Magnitude(b))
Remainder(a, b) == a - b * Quotient(a, b)

\* The correction to a floor, in either arm.
Disagrees(r, b) == r # 0 /\ (r < 0) # (b < 0)

\* mutant: the one quotient that does not fit is taken from the word arm.
DivModWrapping(a, b) ==
  LET q == Quotient(a.n, b.n)
      r == Remainder(a.n, b.n)
  IN  IF a.arm = "small" /\ b.arm = "small"
        THEN IF Disagrees(r, b.n) THEN <<Small(Wrap(q - 1)), Small(Wrap(r + b.n))>>
                                  ELSE <<Small(Wrap(q)), Small(Wrap(r))>>
      ELSE IF Disagrees(r, b.n) THEN <<FromBig(q - 1), FromBig(r + b.n)>>
                                ELSE <<FromBig(q), FromBig(r)>>

\* b is not zero, which the code answers first.
DivMod(a, b) ==
  LET q == Quotient(a.n, b.n)
      r == Remainder(a.n, b.n)
  IN  IF a.arm = "small" /\ b.arm = "small" /\ q \in Word
        THEN IF Disagrees(r, b.n) THEN <<Small(Wrap(q - 1)), Small(Wrap(r + b.n))>>
                                  ELSE <<Small(q), Small(r)>>
      ELSE IF Disagrees(r, b.n) THEN <<FromBig(q - 1), FromBig(r + b.n)>>
                                ELSE <<FromBig(q), FromBig(r)>>

\* How many bits a magnitude has.
Bits(n) == IF n = 0 THEN 0 ELSE CHOOSE k \in 1 .. Magnitude(n) :
                                  Power(2, k - 1) <= Magnitude(n) /\ Magnitude(n) < Power(2, k)

Pow(a, e) ==
  IF e.arm = "big" \/ e.n < 0 \/ e.n > ExponentMax THEN NoInt
  ELSE IF a.arm = "small" /\ Power(a.n, e.n) \in Word THEN Small(Power(a.n, e.n))
  ELSE IF Bits(a.n) * e.n > MaxBits THEN NoInt
  ELSE FromBig(Power(a.n, e.n))

ShiftLeft(a, places) ==
  IF places.arm = "big" \/ places.n < 0 THEN NoInt
  ELSE IF a.n = 0 THEN Small(0)
  ELSE IF Bits(a.n) + places.n > MaxBits THEN NoInt
  ELSE FromBig(a.n * Power(2, places.n))

ShiftRight(a, places) ==
  IF places.arm = "big" \/ places.n < 0 THEN NoInt
  ELSE IF places.n >= Bits(a.n) + 1 THEN IF a.n < 0 THEN Small(-1) ELSE Small(0)
  ELSE FromBig(a.n \div Power(2, places.n))

\* Less, as the arms decide it: a big one is beyond every small one.
IntLess(a, b) ==
  IF a.arm = b.arm THEN a.n < b.n
  ELSE IF a.arm = "big" THEN a.n < 0 ELSE b.n >= 0

-----------------------------------------------------------------------------
(* range(start, stop, step).                                               *)

\* mutant: the division is not rounded up.
CountDown(start, stop, step) ==
  LET down == step.n < 0
      span == IF down THEN IntSub(start, stop) ELSE IntSub(stop, start)
      stride == IF down THEN Neg(step) ELSE step
  IN  IF span.n <= 0 THEN Small(0) ELSE DivMod(span, stride)[1]

\* Range::count, a division of positives rounded up.
Count(start, stop, step) ==
  LET down == step.n < 0
      span == IF down THEN IntSub(start, stop) ELSE IntSub(stop, start)
      stride == IF down THEN Neg(step) ELSE step
      last == IntSub(span, Small(1))
  IN  IF span.n <= 0 THEN Small(0) ELSE IntAdd(DivMod(last, stride)[1], Small(1))

\* The walk over it, which counts nothing: n steps of Iter::step.
RangeWalk(start, stop, step, n) ==
  LET Over(v) == IF step.n >= 0 THEN v.n >= stop.n ELSE v.n <= stop.n
      walked[k \in 0 .. n] ==
        IF k = 0 THEN [next |-> start, given |-> << >>]
        ELSE LET w == walked[k - 1]
             IN  IF Over(w.next) THEN w
                 ELSE [next |-> IntAdd(w.next, step), given |-> Append(w.given, w.next)]
  IN  walked[n].given

-----------------------------------------------------------------------------
(* A slice against a sequence.  A part is an integer or absent.            *)

Absent == [arm |-> "absent", n |-> 0]

\* bound: a number too large for the machine is clamped.
Bound(part) == IF part.arm = "small" THEN part.n
               ELSE IF part.n < 0 THEN WordMin ELSE WordMax

Clamp(value, len, backwards) ==
  IF value < 0
    THEN LET shifted == Saturate(value + len)
         IN  IF shifted < 0 THEN IF backwards THEN -1 ELSE 0 ELSE shifted
  ELSE IF value >= len THEN IF backwards THEN len - 1 ELSE len
  ELSE value

\* Slice::indices for a step that is not zero, as a release build computes it:
\* the magnitude of the least word is the least word.
Indices(slice, len) ==
  LET step == IF slice.step = Absent THEN 1 ELSE Bound(slice.step)
      backwards == step < 0
      start == IF slice.start # Absent THEN Clamp(Bound(slice.start), len, backwards)
               ELSE IF backwards THEN len - 1 ELSE 0
      stop == IF slice.stop # Absent THEN Clamp(Bound(slice.stop), len, backwards)
              ELSE IF backwards THEN -1 ELSE len
      span == IF backwards THEN start - stop ELSE stop - start
  IN  [start |-> start, step |-> step,
       len |-> IF span > 0 THEN Quotient(span - 1, Wrap(Magnitude(step))) + 1 ELSE 0]

\* Indices::offsets.
Offsets(ix) ==
  [i \in 1 .. ix.len |-> Saturate(ix.start + Saturate(ix.step * (i - 1)))]
-----------------------------------------------------------------------------
(* What Python says of these, over numbers without arms or words.          *)

\* An integer is in the small arm exactly when it fits, or equality and
\* ordering, which look at the arms, would be wrong.
Normal(a) == a.arm = IF a.n \in Word THEN "small" ELSE "big"
Is(a, v) == Normal(a) /\ a.n = v

\* The floor of a quotient and what is left, with the sign of the divisor.
FloorOf(a, b, q, r) ==
  a = q * b + r /\ IF b > 0 THEN 0 <= r /\ r < b ELSE b < r /\ r <= 0

\* The values of a range, as a set.
RangeValues(start, stop, step) ==
  LET far == Magnitude(stop - start)
  IN  {start + k * step : k \in 0 .. far} \intersect
        IF step > 0 THEN start .. stop - 1 ELSE stop + 1 .. start

\* Where a part of a slice points, before anything is pulled into the sequence.
Points(part, len, otherwise) ==
  IF part = Absent THEN otherwise ELSE IF part.n < 0 THEN part.n + len ELSE part.n

\* The positions a slice selects: every step-th one between the two ends, from
\* the first that is in the sequence in the direction of travel.
Selected(slice, len) ==
  LET step == IF slice.step = Absent THEN 1 ELSE slice.step.n
      a == Points(slice.start, len, IF step > 0 THEN 0 ELSE len - 1)
      b == Points(slice.stop, len, IF step > 0 THEN len ELSE -1)
      between == {j \in 0 .. len - 1 : IF step > 0 THEN a <= j /\ j < b ELSE b < j /\ j <= a}
      first == IF step > 0 THEN Min(between) ELSE Max(between)
  IN  {j \in between : Magnitude(j - first) % Magnitude(step) = 0}
=============================================================================
