---------------------------- MODULE ValuesProofs ----------------------------
(***************************************************************************)
(* Numbers that are equal have one hash, whichever of the types they are   *)
(* of, for any modulus and any digits; equality is one of an equivalence,  *)
(* the four orderings agree with it, and tuples hash by it, for values of  *)
(* any nesting.                                                            *)
(***************************************************************************)
EXTENDS Values, Recursion, FiniteSetTheorems, SequenceTheorems

-----------------------------------------------------------------------------
(* Powers and bits.                                                        *)

LEMMA PowerStep ==
  ASSUME NEW n \in Int
  PROVE  /\ Power(n, 0) = 1
         /\ \A k \in Nat : Power(n, k) \in Int /\ Power(n, k + 1) = n * Power(n, k)
<1> DEFINE step == [k \in Nat |-> [v \in Int |-> n * v]]
           Is0(f) == f = [i \in Nat |-> IF i = 0 THEN 1 ELSE n * f[i - 1]]
           to == CHOOSE f : Is0(f)
<1>1. \E f : Is0(f)
  <2>1. step \in Steps(Int) /\ 1 \in Int
    BY DEF Steps
  <2>2. \A k \in Nat, v \in Int : step[k][v] = n * v
    OBVIOUS
  <2> HIDE DEF step
  <2>3. PICK f : Follows(f, Int, 1, step)
    BY <2>1, RecursiveFunction
  <2>4. f \in [Nat -> Int] /\ f[0] = 1 /\ \A k \in Nat : f[k + 1] = step[k][f[k]]
    BY <2>3 DEF Follows
  <2>5. ASSUME NEW i \in Nat PROVE f[i] = IF i = 0 THEN 1 ELSE n * f[i - 1]
    <3>1. CASE i = 0
      BY <2>4, <3>1
    <3>2. CASE i # 0
      <4> DEFINE j == i - 1
      <4>1. j \in Nat /\ i = j + 1
        BY <3>2
      <4> HIDE DEF j
      <4>2. f[i] = n * f[j]
        BY <4>1, <2>2, <2>4
      <4> QED BY <4>2, <3>2 DEF j
    <3> QED BY <3>1, <3>2
  <2>6. Is0(f)
    BY <2>4, <2>5
  <2> QED BY <2>6
<1>2. Is0(to)
  <2> HIDE DEF Is0
  <2> QED BY <1>1
<1>3. \A k : Power(n, k) = to[k]
  BY DEF Power
<1> HIDE DEF to
<1>4. to[0] = 1 /\ \A k \in Nat : to[k + 1] = n * to[k]
  <2>1. to[0] = 1
    BY <1>2
  <2>2. ASSUME NEW k \in Nat PROVE to[k + 1] = n * to[k]
    <3>1. k + 1 \in Nat /\ k + 1 # 0 /\ (k + 1) - 1 = k
      OBVIOUS
    <3> QED BY <1>2, <3>1
  <2> QED BY <2>1, <2>2
<1> DEFINE A == {k \in Nat : to[k] \in Int}
<1>5. A = Nat
  <2>1. 0 \in A
    BY <1>4
  <2>2. ASSUME NEW k \in A PROVE k + 1 \in A
    BY <1>4
  <2>3. A \subseteq Nat
    OBVIOUS
  <2> HIDE DEF A
  <2> QED BY <2>1, <2>2, <2>3, Induction
<1> QED BY <1>3, <1>4, <1>5

(* A power is no smaller than its base.                                    *)
LEMMA PowerGrows ==
  ASSUME NEW n \in Int, n # 0, NEW k \in Nat, k > 0
  PROVE  Magnitude(Power(n, k)) >= Magnitude(n)
<1> DEFINE A == {i \in Nat : Magnitude(Power(n, i + 1)) >= Magnitude(n)}
<1>1. 0 \in A
  <2>1. Power(n, 0 + 1) = n * Power(n, 0) /\ Power(n, 0) = 1
    BY PowerStep
  <2>2. Power(n, 0 + 1) = n
    BY <2>1
  <2>3. Magnitude(n) >= Magnitude(n)
    BY DEF Magnitude
  <2> QED BY <2>2, <2>3
<1>2. ASSUME NEW i \in A PROVE i + 1 \in A
  <2> DEFINE p == Power(n, i + 1)
             q == Power(n, (i + 1) + 1)
  <2>1. i \in Nat /\ i + 1 \in Nat /\ Magnitude(p) >= Magnitude(n)
    OBVIOUS
  <2>2. p \in Int /\ q = n * p
    BY <2>1, PowerStep
  <2> HIDE DEF p, q
  <2>3. Magnitude(n) >= 1 /\ Magnitude(n) \in Nat
    BY DEF Magnitude
  <2>4. Magnitude(q) = Magnitude(n) * Magnitude(p) /\ Magnitude(p) \in Nat
    <3>1. CASE n > 0 /\ p >= 0
      <4>1. n * p >= 0
        BY <2>2, <3>1
      <4> QED BY <4>1, <2>2, <3>1 DEF Magnitude
    <3>2. CASE n > 0 /\ p < 0
      <4>1. n * p < 0 /\ -(n * p) = n * (-p)
        BY <2>2, <3>2
      <4> QED BY <4>1, <2>2, <3>2 DEF Magnitude
    <3>3. CASE n < 0 /\ p >= 0
      <4>1. n * p <= 0 /\ -(n * p) = (-n) * p
        BY <2>2, <3>3
      <4> QED BY <4>1, <2>2, <3>3 DEF Magnitude
    <3>4. CASE n < 0 /\ p < 0
      <4>1. n * p > 0 /\ n * p = (-n) * (-p)
        BY <2>2, <3>4
      <4> QED BY <4>1, <2>2, <3>4 DEF Magnitude
    <3> QED BY <2>2, <3>1, <3>2, <3>3, <3>4
  <2> DEFINE m == Magnitude(n)
             w == Magnitude(p)
  <2>5. m \in Nat /\ w \in Nat /\ m >= 1 /\ w >= m
    BY <2>1, <2>3, <2>4
  <2> HIDE DEF m, w
  <2>6. m * w >= w
    BY <2>5
  <2>7. m * w >= m
    BY <2>5, <2>6
  <2>8. Magnitude(q) >= Magnitude(n)
    BY <2>4, <2>7 DEF m, w
  <2> QED BY <2>1, <2>8 DEF q
<1>3. A = Nat
  <2> HIDE DEF A
  <2>1. A \subseteq Nat
    BY DEF A
  <2> QED BY <1>1, <1>2, <2>1, Induction
<1>4. k - 1 \in A /\ (k - 1) + 1 = k
  <2> HIDE DEF A
  <2> QED BY <1>3
<1> QED BY <1>4

LEMMA TwoPowers ==
  /\ \A k \in Nat : Power(2, k) \in Nat /\ Power(2, k) > k
  /\ \A i, j \in Nat : i <= j => Power(2, i) <= Power(2, j)
<1>1. \A k \in Nat : Power(2, k + 1) = 2 * Power(2, k) /\ Power(2, k) \in Int
  BY PowerStep
<1>2. Power(2, 0) = 1
  BY PowerStep
<1> DEFINE A == {k \in Nat : Power(2, k) > k}
<1>3. A = Nat
  <2>1. 0 \in A
    BY <1>2
  <2>2. ASSUME NEW k \in A PROVE k + 1 \in A
    BY <1>1
  <2> HIDE DEF A
  <2>3. A \subseteq Nat
    BY DEF A
  <2> QED BY <2>1, <2>2, <2>3, Induction
<1>4. ASSUME NEW k \in Nat PROVE Power(2, k) \in Nat /\ Power(2, k) > k
  <2>1. Power(2, k) \in Int
    BY <1>1
  <2>2. Power(2, k) > k
    <3>1. k \in A
      <4> HIDE DEF A
      <4> QED BY <1>3
    <3> QED BY <3>1
  <2> HIDE DEF A
  <2> QED BY <2>1, <2>2
<1>5. ASSUME NEW i \in Nat, NEW j \in Nat, i <= j PROVE Power(2, i) <= Power(2, j)
  <2> DEFINE B == {d \in Nat : Power(2, i) <= Power(2, i + d)}
  <2>1. 0 \in B
    <3>1. i + 0 = i
      OBVIOUS
    <3> QED BY <1>1, <3>1
  <2>2. ASSUME NEW d \in B PROVE d + 1 \in B
    <3> DEFINE e == i + d
    <3>1. e \in Nat /\ i + (d + 1) = e + 1 /\ Power(2, i) <= Power(2, e)
      OBVIOUS
    <3> HIDE DEF e
    <3>2. Power(2, e + 1) = 2 * Power(2, e) /\ Power(2, e) \in Nat /\ Power(2, i) \in Nat
      BY <1>1, <1>4, <3>1
    <3>3. Power(2, i) <= Power(2, e + 1)
      BY <3>1, <3>2
    <3> QED BY <3>1, <3>3
  <2>3. B = Nat
    <3> HIDE DEF B
    <3>1. B \subseteq Nat
      BY DEF B
    <3> QED BY <2>1, <2>2, <3>1, Induction
  <2>4. j - i \in B /\ i + (j - i) = j
    <3> HIDE DEF B
    <3> QED BY <1>5, <2>3
  <2> QED BY <2>4
<1> QED BY <1>4, <1>5

(* A number that is not zero has bits, and they are as many as they say.   *)
LEMMA BitsAre ==
  ASSUME NEW n \in Int, n # 0
  PROVE  /\ Bits(n) \in 1 .. Magnitude(n)
         /\ Power(2, Bits(n) - 1) <= Magnitude(n) /\ Magnitude(n) < Power(2, Bits(n))
<1> DEFINE m == Magnitude(n)
           T == {k \in Nat : m < Power(2, k)}
<1>1. m \in Nat /\ m >= 1
  BY DEF Magnitude
<1> HIDE DEF m
<1>2. m \in T /\ T \in SUBSET Nat /\ T # {}
  BY <1>1, TwoPowers
<1>3. PICK k \in T : \A j \in T : k <= j
  BY <1>2, LeastNatural
<1>4. k \in Nat /\ k <= m /\ m < Power(2, k)
  BY <1>2, <1>3
<1>5. k # 0
  BY <1>1, <1>4, PowerStep
<1>6. k - 1 \in Nat /\ k - 1 \notin T
  BY <1>3, <1>4, <1>5
<1>7. Power(2, k - 1) <= m
  BY <1>1, <1>6, TwoPowers
<1>8. \E i \in 1 .. m : Power(2, i - 1) <= m /\ m < Power(2, i)
  BY <1>1, <1>4, <1>5, <1>7
<1>9. Bits(n) = CHOOSE i \in 1 .. m : Power(2, i - 1) <= m /\ m < Power(2, i)
  BY DEF Bits, m
<1> QED BY <1>8, <1>9 DEF m

LEMMA BitsAreNatural ==
  ASSUME NEW n \in Int
  PROVE  Bits(n) \in Nat
<1>1. CASE n = 0
  BY <1>1 DEF Bits
<1>2. CASE n # 0
  <2>1. Magnitude(n) \in Nat
    BY DEF Magnitude
  <2> QED BY <1>2, <2>1, BitsAre
<1> QED BY <1>1, <1>2

-----------------------------------------------------------------------------
(* The arms.                                                               *)

LEMMA WordIs ==
  /\ WordMax \in Nat /\ WordMax >= 2 /\ WordMin \in Int /\ WordMin = -WordMax - 1
  /\ \A v \in Int : v \in Word <=> WordMin <= v /\ v <= WordMax
<1>1. WordMax \in Nat /\ WordMax >= 2
  <2>1. PICK n \in 2 .. 64 : WordMax = Power(2, n) - 1
    BY WordAssumption
  <2>2. Power(2, n) > n /\ Power(2, n) \in Nat /\ n >= 2
    BY TwoPowers
  <2> QED BY <2>1, <2>2
<1> QED BY <1>1 DEF WordMin, Word

LEMMA WrapOfWord ==
  ASSUME NEW v \in Word
  PROVE  Wrap(v) = v
<1>1. WordMax \in Nat /\ v \in Int /\ WordMin \in Int /\ WordMin <= v /\ v <= WordMax /\ WordMin = -WordMax - 1
  BY WordAssumption DEF WordMin, Word
<1> DEFINE x == v - WordMin
           n == 2 * (WordMax + 1)
<1>2. x \in 0 .. n - 1 /\ n \in Nat /\ n > 0
  BY <1>1
<1> HIDE DEF x, n
<1>3. x % n = x
  BY <1>2
<1>4. Wrap(v) = (x % n) + WordMin
  BY DEF Wrap, x, n
<1> QED BY <1>1, <1>3, <1>4 DEF x

(* An integer in its arm is its number.                                    *)
LEMMA FromBigIs ==
  ASSUME NEW v \in Int
  PROVE  Is(FromBig(v), v) /\ FromBig(v).arm \in {"small", "big"}
BY DEF Is, Normal, FromBig, Small, Big

LEMMA SmallIs ==
  ASSUME NEW v \in Word
  PROVE  Is(Small(v), v)
BY DEF Is, Normal, Small

LEMMA IntIs ==
  ASSUME NEW a \in Ints(Int)
  PROVE  a.n \in Int /\ a = FromBig(a.n) /\ Normal(a) /\ (a.arm = "small" <=> a.n \in Word) /\ (a.arm = "big" <=> a.n \notin Word)
BY DEF Ints, Normal, FromBig, Small, Big

-----------------------------------------------------------------------------
(* One operation at a time.                                                *)

LEMMA SumIs ==
  ASSUME NEW a \in Ints(Int), NEW b \in Ints(Int)
  PROVE  /\ Is(IntAdd(a, b), a.n + b.n) /\ Is(IntSub(a, b), a.n - b.n)
         /\ Is(IntMul(a, b), a.n * b.n)
<1> DEFINE Chosen(v, small) == IF small /\ v \in Word THEN Small(v) ELSE FromBig(v)
           both == a.arm = "small" /\ b.arm = "small"
<1>1. \A v \in Int : Is(Chosen(v, both), v)
  BY FromBigIs, SmallIs
<1>2. IntAdd(a, b) = Chosen(a.n + b.n, both) /\ IntSub(a, b) = Chosen(a.n - b.n, both)
        /\ IntMul(a, b) = Chosen(a.n * b.n, both)
  BY DEF IntAdd, IntSub, IntMul, Arith
<1>3. a.n + b.n \in Int /\ a.n - b.n \in Int /\ a.n * b.n \in Int
  BY IntIs
<1> HIDE DEF Chosen, both
<1> QED BY <1>1, <1>2, <1>3

LEMMA SignIs ==
  ASSUME NEW a \in Ints(Int)
  PROVE  Is(Neg(a), -a.n) /\ Is(Invert(a), -a.n - 1) /\ Is(Abs(a), Magnitude(a.n))
<1>1. a.n \in Int /\ (a.arm = "small" => a.n \in Word)
  BY IntIs
<1>2. Is(Neg(a), -a.n)
  BY <1>1, FromBigIs, SmallIs DEF Neg
<1>3. Is(Invert(a), -a.n - 1)
  <2>1. a.n \in Word => -a.n - 1 \in Word
    BY WordIs, <1>1
  <2> QED BY <1>1, <2>1, FromBigIs, SmallIs DEF Invert
<1>4. Is(Abs(a), Magnitude(a.n))
  <2>1. CASE a.n < 0
    BY <1>2, <2>1 DEF Abs, Magnitude
  <2>2. CASE ~(a.n < 0)
    BY <2>2, IntIs DEF Abs, Magnitude, Is
  <2> QED BY <2>1, <2>2
<1> QED BY <1>2, <1>3, <1>4

LEMMA LessIs ==
  ASSUME NEW a \in Ints(Int), NEW b \in Ints(Int)
  PROVE  IntLess(a, b) <=> a.n < b.n
<1>1. a.n \in Int /\ b.n \in Int /\ a.arm = (IF a.n \in Word THEN "small" ELSE "big")
        /\ b.arm = (IF b.n \in Word THEN "small" ELSE "big")
  BY IntIs DEF Normal
<1> QED BY <1>1, WordIs DEF IntLess

-----------------------------------------------------------------------------
(* Division.                                                               *)

LEMMA Divided ==
  ASSUME NEW x \in Nat, NEW d \in Nat, d > 0
  PROVE  x \div d \in Nat /\ d * (x \div d) <= x /\ x < d * (x \div d) + d
OBVIOUS

(* There is one floor.                                                     *)
LEMMA OneFloor ==
  ASSUME NEW a \in Int, NEW b \in Int, b > 0, NEW q \in Int, NEW r \in Int,
         NEW p \in Int, NEW s \in Int, FloorOf(a, b, q, r), FloorOf(a, b, p, s)
  PROVE  q = p
<1>1. a = q * b + r /\ 0 <= r /\ r < b /\ a = p * b + s /\ 0 <= s /\ s < b
  BY DEF FloorOf
<1>2. ASSUME NEW x \in Int, NEW y \in Int, x > y PROVE x * b >= y * b + b
  <2>1. x - y - 1 \in Nat /\ b \in Nat
    BY <1>2
  <2>2. (x - y - 1) * b >= 0
    BY <2>1
  <2>3. (x - y - 1) * b = x * b - y * b - b
    OBVIOUS
  <2> QED BY <2>2, <2>3
<1>3. ~(q > p)
  BY <1>1, <1>2
<1>4. ~(p > q)
  BY <1>1, <1>2
<1> QED BY <1>3, <1>4

-----------------------------------------------------------------------------
(* Powers of two modulo one less than such a power.                        *)

LEMMA PowerAdds ==
  ASSUME NEW i \in Nat, NEW j \in Nat
  PROVE  Power(2, i + j) = Power(2, i) * Power(2, j)
<1> DEFINE A == {k \in Nat : Power(2, i + k) = Power(2, i) * Power(2, k)}
<1>1. 0 \in A
  <2>1. Power(2, 0) = 1 /\ Power(2, i) \in Int /\ i + 0 = i
    BY PowerStep
  <2> QED BY <2>1
<1>2. ASSUME NEW k \in A PROVE k + 1 \in A
  <2> DEFINE e == i + k
             a == Power(2, i)
             b == Power(2, k)
  <2>1. e \in Nat /\ i + (k + 1) = e + 1 /\ Power(2, e) = a * b /\ k \in Nat
    OBVIOUS
  <2>2. a \in Int /\ b \in Int /\ Power(2, e + 1) = 2 * Power(2, e) /\ Power(2, k + 1) = 2 * b
    BY <2>1, PowerStep
  <2> HIDE DEF e, a, b
  <2>3. 2 * (a * b) = a * (2 * b)
    BY <2>2
  <2>4. Power(2, i + (k + 1)) = a * Power(2, k + 1)
    BY <2>1, <2>2, <2>3
  <2> QED BY <2>1, <2>4 DEF a
<1>3. A = Nat
  <2> HIDE DEF A
  <2>1. A \subseteq Nat
    BY DEF A
  <2> QED BY <1>1, <1>2, <2>1, Induction
<1>4. j \in A
  <2> HIDE DEF A
  <2> QED BY <1>3
<1> QED BY <1>4

LEMMA ModulusIs ==
  /\ HashBits \in Nat /\ HashBits >= 2 /\ DigitBits \in Nat /\ DigitBits >= 1 /\ DigitBits < HashBits
  /\ Modulus \in Nat /\ Modulus >= 2 /\ Power(2, HashBits) = Modulus + 1
<1>1. HashBits \in Nat /\ HashBits >= 2 /\ DigitBits \in Nat /\ DigitBits >= 1 /\ DigitBits < HashBits
  BY ModulusAssumption
<1>2. Power(2, HashBits) \in Nat /\ Power(2, HashBits) > HashBits
  BY <1>1, TwoPowers
<1> QED BY <1>1, <1>2 DEF Modulus

\* A round of the width is no step at all.
LEMMA RoundsAreOne ==
  ASSUME NEW q \in Nat
  PROVE  \E t \in Nat : Power(2, q * HashBits) = 1 + t * Modulus
<1> DEFINE p == Modulus
           b == HashBits
           A == {k \in Nat : \E t \in Nat : Power(2, k * b) = 1 + t * p}
<1>0. p \in Nat /\ b \in Nat /\ Power(2, b) = p + 1
  BY ModulusIs
<1>1. 0 \in A
  <2>1. 0 * b = 0 /\ 1 = 1 + 0 * p /\ Power(2, 0) = 1
    BY <1>0, PowerStep
  <2>2. Power(2, 0 * b) = 1 + 0 * p
    BY <2>1
  <2> QED BY <2>2
<1>2. ASSUME NEW k \in A PROVE k + 1 \in A
  <2> HIDE DEF p, b
  <2>1. PICK t \in Nat : Power(2, k * b) = 1 + t * p
    BY <1>2
  <2> DEFINE e == k * b
  <2>2. k \in Nat /\ e \in Nat /\ (k + 1) * b = e + b
    BY <1>0
  <2>3. Power(2, (k + 1) * b) = Power(2, e) * Power(2, b)
    BY <1>0, <2>2, PowerAdds
  <2>4. (1 + t * p) * (p + 1) = 1 + (1 + t * (p + 1)) * p
    BY <1>0
  <2>5. Power(2, (k + 1) * b) = 1 + (1 + t * (p + 1)) * p /\ 1 + t * (p + 1) \in Nat
    BY <1>0, <2>1, <2>3, <2>4
  <2> QED BY <2>2, <2>5
<1>3. A = Nat
  <2> HIDE DEF A
  <2>1. A \subseteq Nat
    BY DEF A
  <2> QED BY <1>1, <1>2, <2>1, Induction
<1>4. q \in A
  <2> HIDE DEF A
  <2> QED BY <1>3
<1> QED BY <1>4

\* What is left of a number in steps of another one.
LEMMA LeftOver ==
  ASSUME NEW n \in Nat, NEW p \in Nat, p > 0, NEW d \in Int, NEW r \in 0 .. p - 1, n = d * p + r
  PROVE  n % p = r
<1> DEFINE q == n \div p
           s == n % p
<1>1. q \in Nat /\ s \in 0 .. p - 1 /\ n = q * p + s
  OBVIOUS
<1> HIDE DEF q, s
<1>2. FloorOf(n, p, q, s) /\ FloorOf(n, p, d, r)
  BY <1>1 DEF FloorOf
<1>3. q = d
  BY <1>1, <1>2, OneFloor
<1> QED BY <1>1, <1>3 DEF s

\* A rotation multiplies by its power of two and stays a residue.
LEMMA RotateIs ==
  ASSUME NEW x \in 0 .. Modulus - 1, NEW by \in 0 .. HashBits - 1
  PROVE  /\ Rotate(x, by) \in 0 .. Modulus - 1
         /\ \E c \in Nat : x * Power(2, by) = Rotate(x, by) + c * Modulus
<1> DEFINE p == Modulus
           a == Power(2, by)
           b == Power(2, HashBits - by)
           hi == x \div b
           lo == x % b
           w == p + 1
<1>1. by \in Nat /\ HashBits - by \in Nat /\ by + (HashBits - by) = HashBits /\ p \in Nat /\ p >= 2 /\ x \in Nat /\ x <= p - 1
      /\ Power(2, HashBits) = w
  BY ModulusIs
<1>2. a \in Nat /\ b \in Nat /\ a * b = w
  <2>1. Power(2, by + (HashBits - by)) = a * b
    BY <1>1, PowerAdds
  <2> QED BY <1>1, <2>1, TwoPowers
<1>3. a >= 1 /\ b >= 1
  BY <1>1, TwoPowers
<1> HIDE DEF a, b
<1>4. hi \in Nat /\ lo \in 0 .. b - 1 /\ x = hi * b + lo
  BY <1>1, <1>2, <1>3
<1>5. Rotate(x, by) = ((x * a) % w) + hi
  BY <1>1 DEF Rotate, a, b
<1> HIDE DEF hi, lo
<1>6. hi <= a - 1
  <2>1. SUFFICES ASSUME hi >= a PROVE FALSE
    BY <1>2, <1>4
  <2>2. hi * b >= a * b
    BY <1>2, <1>4, <2>1
  <2> QED BY <1>1, <1>2, <1>4, <2>2
<1>7. lo * a \in 0 .. w - a
  <2>1. lo * a >= 0 /\ lo * a <= (b - 1) * a /\ lo * a \in Int
    BY <1>2, <1>4
  <2>2. (b - 1) * a = w - a
    BY <1>2
  <2> QED BY <2>1, <2>2, <1>1
<1>8. x * a = hi * w + lo * a
  <2>1. x * a = hi * (a * b) + lo * a
    BY <1>2, <1>4
  <2> QED BY <2>1, <1>2
<1>9. (x * a) % w = lo * a
  <2>1. lo * a \in 0 .. w - 1 /\ w \in Nat /\ w > 0
    BY <1>1, <1>2, <1>3, <1>7
  <2>2. x * a \in Nat
    BY <1>1, <1>2
  <2> DEFINE n == x * a
             l == lo * a
  <2>3. n \in Nat /\ l \in 0 .. w - 1 /\ n = hi * w + l /\ hi \in Int
    BY <1>4, <1>8, <2>1, <2>2
  <2> HIDE DEF n, l, w
  <2>4. n % w = l
    BY <2>1, <2>3, LeftOver
  <2> QED BY <2>4 DEF n, l
<1> DEFINE r == lo * a + hi
<1>10. Rotate(x, by) = r
  BY <1>5, <1>9
<1>11. r \in 0 .. p
  BY <1>1, <1>2, <1>4, <1>6, <1>7
<1>12. r # p
  <2> SUFFICES ASSUME r = p PROVE FALSE
    OBVIOUS
  <2>1. lo * a >= w - a
    BY <1>1, <1>2, <1>4, <1>6, <1>7
  <2>2. lo >= b - 1
    <3> SUFFICES ASSUME lo <= b - 2 PROVE FALSE
      BY <1>2, <1>4
    <3>1. lo * a <= (b - 2) * a
      BY <1>2, <1>4
    <3>2. (b - 2) * a = a * b - 2 * a
      BY <1>2
    <3> DEFINE l == lo * a
    <3>3. l \in Int /\ l >= w - a /\ l <= w - 2 * a /\ a \in Nat /\ a >= 1 /\ w \in Nat
      BY <1>1, <1>2, <1>3, <1>7, <2>1, <3>1, <3>2
    <3> HIDE DEF l, w
    <3> QED BY <3>3
  <2>3. lo = b - 1
    BY <1>2, <1>4, <2>2
  <2>4. lo * a = w - a
    BY <1>2, <2>3
  <2>5. hi = a - 1
    BY <1>1, <1>2, <1>4, <2>4
  <2>6. x = (a - 1) * b + (b - 1)
    BY <1>4, <2>3, <2>5
  <2>7. (a - 1) * b + (b - 1) = w - 1
    BY <1>2
  <2> QED BY <1>1, <2>6, <2>7
<1>13. x * a = r + hi * p
  <2>1. hi * w = hi + hi * p
    BY <1>1, <1>4
  <2> QED BY <1>8, <2>1, <1>1, <1>2, <1>4
<1>14. r \in 0 .. p - 1
  BY <1>1, <1>11, <1>12
<1> HIDE DEF r
<1> QED BY <1>4, <1>10, <1>13, <1>14 DEF a

-----------------------------------------------------------------------------
(* The digits of a mantissa.                                               *)

\* After any digits: what was read and what is left are the mantissa, so many
\* bits further on, but for multiples of the modulus.
DigitsHold(mantissa, bits, d) ==
  /\ d.x \in 0 .. Modulus - 1 /\ d.m \in 0 .. Power(2, bits) - 1 /\ d.read \in Nat
  /\ \E c \in Nat : mantissa * Power(2, d.read) = (d.x + c * Modulus) * Power(2, bits) + d.m

DigitStep(bits, d) ==
  LET scaled == d.m * Power(2, DigitBits)
      sum == Rotate(d.x, DigitBits) + scaled \div Power(2, bits)
  IN  IF d.m = 0 THEN d
      ELSE [x |-> IF sum >= Modulus THEN sum - Modulus ELSE sum,
            m |-> scaled % Power(2, bits), read |-> d.read + DigitBits]

LEMMA DigitStepIs ==
  ASSUME NEW bits \in Nat, NEW mantissa \in Nat, NEW d, DigitsHold(mantissa, bits, d)
  PROVE  /\ DigitsHold(mantissa, bits, DigitStep(bits, d))
         /\ d.m = 0 => DigitStep(bits, d) = d
         /\ d.m # 0 => DigitStep(bits, d).read = d.read + DigitBits
<1> DEFINE p == Modulus
           w == Power(2, bits)
           g == Power(2, DigitBits)
           y == Power(2, d.read)
           scaled == d.m * g
           hi == scaled \div w
           lo == scaled % w
           turned == Rotate(d.x, DigitBits)
           sum == turned + hi
           next == DigitStep(bits, d)
<1>1. d.x \in 0 .. p - 1 /\ d.m \in 0 .. w - 1 /\ d.read \in Nat
  BY DEF DigitsHold
<1>2. PICK c \in Nat : mantissa * y = (d.x + c * p) * w + d.m
  BY DEF DigitsHold
<1>3. p \in Nat /\ p >= 2 /\ DigitBits \in 0 .. HashBits - 1 /\ DigitBits \in Nat
  BY ModulusIs
<1>4. w \in Nat /\ w >= 1 /\ g \in Nat /\ y \in Nat
  BY <1>1, <1>3, TwoPowers
<1>5. turned \in 0 .. p - 1 /\ \E k \in Nat : d.x * g = turned + k * p
  BY <1>1, <1>3, RotateIs
<1>6. PICK k \in Nat : d.x * g = turned + k * p
  BY <1>5
<1>7. g <= p
  <2>0. HashBits - 1 \in Nat /\ DigitBits <= HashBits - 1
    BY ModulusIs
  <2>1. g <= Power(2, HashBits - 1) /\ Power(2, (HashBits - 1) + 1) = 2 * Power(2, HashBits - 1) /\ HashBits - 1 \in Nat
    BY <1>3, <2>0, TwoPowers, PowerStep
  <2>2. Power(2, HashBits - 1) \in Nat /\ (HashBits - 1) + 1 = HashBits /\ Power(2, HashBits) = p + 1
    BY <2>1, TwoPowers, ModulusIs
  <2>3. 2 * Power(2, HashBits - 1) = p + 1
    BY <2>1, <2>2
  <2> QED BY <1>3, <1>4, <2>1, <2>2, <2>3
<1>8. next = IF d.m = 0 THEN d
             ELSE [x |-> IF sum >= p THEN sum - p ELSE sum, m |-> lo, read |-> d.read + DigitBits]
  BY DEF DigitStep
<1>9. CASE d.m = 0
  BY <1>8, <1>9
<1>10. CASE d.m # 0
  <2> HIDE DEF p, w, g, y, turned
  <2>1. scaled \in Nat
    BY <1>1, <1>4
  <2>2. hi \in Nat /\ lo \in 0 .. w - 1 /\ scaled = hi * w + lo
    <3> HIDE DEF scaled
    <3> QED BY <2>1, <1>4
  <2>3. hi < g
    <3> SUFFICES ASSUME hi >= g PROVE FALSE
      BY <2>2, <1>4
    <3>1. hi * w >= g * w
      BY <1>4, <2>2
    <3>2. d.m * g <= (w - 1) * g /\ (w - 1) * g = g * w - g
      BY <1>1, <1>4
    <3>3. scaled >= g * w
      <4> HIDE DEF hi, lo, scaled
      <4> QED BY <1>4, <2>1, <2>2, <3>1
    <3>4. scaled < g * w
      <4>1. g >= 1
        BY <1>3, TwoPowers DEF g
      <4> QED BY <1>4, <2>1, <3>2, <4>1
    <3> HIDE DEF scaled
    <3> QED BY <1>4, <2>1, <3>3, <3>4
  <2> HIDE DEF hi, lo, scaled
  <2>4. sum \in 0 .. 2 * p - 1
    BY <1>3, <1>4, <1>5, <1>7, <2>2, <2>3
  <2> DEFINE x == IF sum >= p THEN sum - p ELSE sum
             e == IF sum >= p THEN 1 ELSE 0
  <2>5. x \in 0 .. p - 1 /\ sum = x + e * p /\ e \in Nat
    BY <1>3, <2>4
  <2> HIDE DEF x, e
  <2>6. next.x = x /\ next.m = lo /\ next.read = d.read + DigitBits
    BY <1>8, <1>10 DEF x
  <2>7. Power(2, next.read) = y * g /\ next.read \in Nat
    <3> DEFINE i == d.read
    <3>2. i \in Nat /\ DigitBits \in Nat
      BY <1>1, <1>3
    <3> HIDE DEF i
    <3>3. Power(2, i + DigitBits) = Power(2, i) * Power(2, DigitBits) /\ i + DigitBits \in Nat
      BY <3>2, PowerAdds
    <3>1. Power(2, d.read + DigitBits) = y * g /\ d.read + DigitBits \in Nat
      BY <3>3 DEF y, g, i
    <3> QED BY <3>1, <2>6
  <2> DEFINE f == c * g + k + e
  <2>8. f \in Nat
    BY <1>4, <2>5
  <2>9. (mantissa * y) * g = ((d.x * g) + (c * g) * p) * w + d.m * g
    <3> DEFINE u == d.x
               v == d.m
    <3>1. u \in Nat /\ v \in Nat
      BY <1>1, <1>3, <1>4
    <3> HIDE DEF u, v
    <3>2. ((u + c * p) * w + v) * g = ((u * g) + (c * g) * p) * w + v * g
      BY <1>3, <1>4, <3>1
    <3> QED BY <1>2, <3>2 DEF u, v
  <2>10. (d.x * g) + (c * g) * p = (x + f * p) - hi
    <3>1. turned = x + e * p - hi /\ turned \in Int
      BY <2>5, <2>2, <1>5, <1>3
    <3>2. f * p = (c * g) * p + k * p + e * p
      BY <1>3, <1>4, <2>5
    <3> HIDE DEF f, sum
    <3>3. (c * g) * p \in Int /\ k * p \in Int /\ e * p \in Int /\ x \in Int /\ hi \in Int
      BY <1>3, <1>4, <2>2, <2>5
    <3> QED BY <1>6, <3>1, <3>2, <3>3
  <2>11. ((x + f * p) - hi) * w + scaled = (x + f * p) * w + lo
    <3> DEFINE z == x + f * p
    <3>1. z \in Int /\ hi \in Int /\ lo \in Int
      BY <1>3, <2>2, <2>5, <2>8
    <3> HIDE DEF z
    <3>2. (z - hi) * w = z * w - hi * w
      BY <1>4, <3>1
    <3> QED BY <1>4, <2>2, <3>1, <3>2 DEF z
  <2>12. (mantissa * y) * g = (x + f * p) * w + lo
    BY <2>9, <2>10, <2>11 DEF scaled
  <2>13. mantissa * (y * g) = (mantissa * y) * g
    BY <1>4
  <2>14. mantissa * Power(2, next.read) = (next.x + f * p) * w + next.m
    BY <2>6, <2>7, <2>12, <2>13
  <2> HIDE DEF f, next
  <2>15. DigitsHold(mantissa, bits, next)
    BY <2>2, <2>5, <2>6, <2>7, <2>8, <2>14 DEF DigitsHold, p, w
  <2> QED BY <1>10, <2>6, <2>15 DEF next
<1> QED BY <1>9, <1>10

LEMMA DigitsAre ==
  ASSUME NEW bits \in Nat, NEW mantissa \in Nat, mantissa < Power(2, bits)
  PROVE  DigitsHold(mantissa, bits, Digits(mantissa, bits)) /\ Digits(mantissa, bits).m = 0
<1> DEFINE V == [x : Nat, m : Nat, read : Nat]
           start == [x |-> 0, m |-> mantissa, read |-> 0]
           Is0(h) == h = [k \in 0 .. bits |-> IF k = 0 THEN start ELSE DigitStep(bits, h[k - 1])]
           digits == CHOOSE h : Is0(h)
           S == {d \in V : DigitsHold(mantissa, bits, d)}
           next == [k \in 1 .. bits |-> [d \in S |-> DigitStep(bits, d)]]
<1>1. start \in S
  <2>1. start.x \in 0 .. Modulus - 1 /\ start.m \in 0 .. Power(2, bits) - 1 /\ start.read \in Nat
    BY ModulusIs, TwoPowers
  <2>2. Power(2, 0) = 1 /\ Modulus \in Nat /\ Power(2, bits) \in Nat
    BY PowerStep, ModulusIs, TwoPowers
  <2>3. mantissa * 1 = mantissa /\ (0 + 0 * Modulus) * Power(2, bits) = 0
    BY <2>2
  <2>4. mantissa * Power(2, start.read) = (start.x + 0 * Modulus) * Power(2, bits) + start.m
    BY <2>2, <2>3
  <2>5. DigitsHold(mantissa, bits, start)
    BY <2>1, <2>4 DEF DigitsHold
  <2> QED BY <2>5
<1>2. ASSUME NEW d \in S PROVE DigitStep(bits, d) \in S
  <2> DEFINE e == DigitStep(bits, d)
  <2>1. DigitsHold(mantissa, bits, e)
    BY DigitStepIs
  <2>2. e.x \in Nat /\ e.m \in Nat /\ e.read \in Nat
    BY <2>1, ModulusIs, TwoPowers DEF DigitsHold
  <2>3. e = [x |-> e.x, m |-> e.m, read |-> e.read]
    BY DEF DigitStep
  <2>4. e \in V
    <3> HIDE DEF e
    <3> QED BY <2>2, <2>3
  <2> HIDE DEF e
  <2>5. e \in S
    BY <2>1, <2>4
  <2> QED BY <2>5 DEF e
<1>3. next \in [1 .. bits -> [S -> S]]
  <2> HIDE DEF S
  <2> QED BY <1>2
<1>4. PICK h : Unrolled(h, bits, S, start, next)
  <2> HIDE DEF next, S, start
  <2> QED BY <1>1, <1>3, Unrolls
<1>5. /\ h = [k \in 0 .. bits |-> h[k]] /\ h[0] = start /\ (\A k \in 0 .. bits : h[k] \in S)
      /\ \A k \in 1 .. bits : h[k] = next[k][h[k - 1]]
  <2> HIDE DEF next, S, start
  <2> QED BY <1>4 DEF Unrolled
<1>6. \A k \in 1 .. bits : k - 1 \in 0 .. bits /\ h[k] = DigitStep(bits, h[k - 1])
  <2> HIDE DEF S, start
  <2> SUFFICES ASSUME NEW k \in 1 .. bits PROVE k - 1 \in 0 .. bits /\ h[k] = DigitStep(bits, h[k - 1])
    OBVIOUS
  <2>1. k - 1 \in 0 .. bits
    OBVIOUS
  <2>2. h[k - 1] \in S /\ h[k] = next[k][h[k - 1]]
    BY <1>5, <2>1
  <2> QED BY <2>1, <2>2
<1>7. Is0(h)
  <2> HIDE DEF S, next, start
  <2>1. ASSUME NEW k \in 0 .. bits PROVE h[k] = IF k = 0 THEN start ELSE DigitStep(bits, h[k - 1])
    <3>1. CASE k = 0
      BY <1>5, <3>1
    <3>2. CASE k # 0
      <4>1. k \in 1 .. bits
        BY <3>2
      <4> QED BY <1>6, <3>2, <4>1
    <3> QED BY <3>1, <3>2
  <2> QED BY <1>5, <2>1
<1>8. Is0(digits)
  <2> HIDE DEF Is0
  <2> QED BY <1>7
<1>9. \A k \in 0 .. bits : digits[k] = IF k = 0 THEN start ELSE DigitStep(bits, digits[k - 1])
  <2> HIDE DEF digits, start
  <2> QED BY <1>8
<1>10. Digits(mantissa, bits) = digits[bits]
  BY DEF Digits, DigitStep
<1> HIDE DEF digits
<1> DEFINE Far(k) == digits[k].m = 0 \/ digits[k].read = k * DigitBits
           A == {k \in Nat : k <= bits => digits[k] \in S /\ Far(k)}
<1>11. A = Nat
  <2>1. 0 \in A
    <3>1. digits[0] = start
      BY <1>9
    <3>2. start.read = 0 * DigitBits
      BY ModulusIs
    <3> HIDE DEF S, start
    <3> QED BY <1>1, <3>1, <3>2
  <2>2. ASSUME NEW k \in A PROVE k + 1 \in A
    <3> SUFFICES ASSUME k + 1 <= bits PROVE digits[k + 1] \in S /\ Far(k + 1)
      OBVIOUS
    <3> DEFINE d == digits[k]
    <3>1. k \in Nat /\ d \in S /\ Far(k) /\ k + 1 \in 1 .. bits /\ (k + 1) - 1 = k
      OBVIOUS
    <3>2. digits[k + 1] = DigitStep(bits, d)
      BY <1>9, <3>1
    <3>3. digits[k + 1] \in S
      <4> HIDE DEF S
      <4> QED BY <1>2, <3>1, <3>2
    <3>4. DigitsHold(mantissa, bits, d)
      BY <3>1
    <3>5. CASE d.m = 0
      <4>1. digits[k + 1] = d
        BY <3>2, <3>4, <3>5, DigitStepIs
      <4> QED BY <3>3, <3>5, <4>1
    <3>6. CASE d.m # 0
      <4>1. digits[k + 1].read = d.read + DigitBits
        BY <3>2, <3>4, <3>6, DigitStepIs
      <4>2. d.read = k * DigitBits
        BY <3>1, <3>6
      <4>3. k * DigitBits + DigitBits = (k + 1) * DigitBits
        BY <3>1, ModulusIs
      <4> QED BY <3>3, <4>1, <4>2, <4>3
    <3> QED BY <3>5, <3>6
  <2>3. A \subseteq Nat
    BY DEF A
  <2> HIDE DEF A
  <2> QED BY <2>1, <2>2, <2>3, Induction
<1>12. digits[bits] \in S /\ Far(bits)
  <2>1. bits \in A
    BY <1>11
  <2> QED BY <2>1
<1> DEFINE d == digits[bits]
           w == Power(2, bits)
<1>13. DigitsHold(mantissa, bits, d)
  BY <1>12
<1>14. d.m = 0
  <2> SUFFICES ASSUME d.m # 0 PROVE FALSE
    OBVIOUS
  <2> DEFINE i == d.read
             v == d.m
  <2>1. i = bits * DigitBits
    BY <1>12
  <2>2. i \in Nat /\ i - bits \in Nat
    <3>1. DigitBits \in Nat /\ DigitBits >= 1
      BY ModulusIs
    <3>2. bits * DigitBits >= bits /\ bits * DigitBits \in Nat
      BY <3>1
    <3> HIDE DEF i
    <3> QED BY <2>1, <3>2
  <2>3. PICK c \in Nat : mantissa * Power(2, i) = (d.x + c * Modulus) * w + v
    BY <1>13 DEF DigitsHold
  <2>4. v \in 1 .. w - 1 /\ d.x + c * Modulus \in Nat /\ w \in Nat
    <3>1. d.x \in 0 .. Modulus - 1 /\ v \in 0 .. w - 1
      BY <1>13 DEF DigitsHold
    <3>2. Modulus \in Nat /\ c * Modulus \in Nat /\ w \in Nat
      BY ModulusIs, TwoPowers
    <3> HIDE DEF d, w
    <3> QED BY <3>1, <3>2
  <2> DEFINE y == Power(2, i - bits)
             z == d.x + c * Modulus
  <2> HIDE DEF i
  <2>5. Power(2, i) = w * y /\ y \in Nat
    <3>1. bits + (i - bits) = i
      BY <2>2
    <3>2. Power(2, bits + (i - bits)) = w * y
      BY <2>2, PowerAdds
    <3> QED BY <2>2, <3>1, <3>2, TwoPowers
  <2> HIDE DEF v, y, z, w, d
  <2>6. mantissa * (w * y) = z * w + v /\ z \in Nat
    BY <2>3, <2>4, <2>5 DEF z
  <2>7. mantissa * (w * y) = (mantissa * y) * w
    BY <2>4, <2>5
  <2> DEFINE u == mantissa * y
  <2>8. u \in Nat /\ u * w = z * w + v
    BY <2>5, <2>6, <2>7
  <2> HIDE DEF u
  <2>9. CASE u <= z
    <3>1. u * w <= z * w
      BY <2>4, <2>6, <2>8, <2>9
    <3> QED BY <2>4, <2>6, <2>8, <3>1
  <2>10. CASE u > z
    <3>1. u * w >= (z + 1) * w
      BY <2>4, <2>6, <2>8, <2>10
    <3>2. (z + 1) * w = z * w + w
      BY <2>4, <2>6
    <3> QED BY <2>4, <2>6, <2>8, <3>1, <3>2
  <2> QED BY <2>6, <2>8, <2>9, <2>10
<1> QED BY <1>10, <1>13, <1>14

-----------------------------------------------------------------------------
(* The hash of a float that is a whole number is that of the number.       *)

(* Where a power of two that is no residue is in the round.               *)
LEMMA PlacesAre ==
  ASSUME NEW e \in Int
  PROVE  /\ Places(e) \in 0 .. HashBits - 1
         /\ e >= 0 => \E q \in Nat : e = q * HashBits + Places(e)
         /\ e < 0 => \E q \in Nat : Places(e) - e = q * HashBits
<1> DEFINE b == HashBits
           n == IF e >= 0 THEN e ELSE -1 - e
           q == n \div b
           s == n % b
<1>1. b \in Nat /\ b >= 2 /\ n \in Nat
  BY ModulusIs
<1>2. Places(e) = IF e >= 0 THEN s ELSE b - 1 - s
  BY DEF Places
<1>3. e >= 0 => n = e
  OBVIOUS
<1>4. e < 0 => e = -1 - n
  OBVIOUS
<1> HIDE DEF b, n
<1>5. q \in Nat /\ s \in 0 .. b - 1 /\ n = q * b + s
  BY <1>1
<1> HIDE DEF q, s
<1>6. (q + 1) * b = q * b + b /\ q * b \in Int /\ q + 1 \in Nat
  BY <1>1, <1>5
<1>7. Places(e) \in 0 .. b - 1
  BY <1>1, <1>2, <1>5
<1>8. e >= 0 => e = q * b + Places(e)
  BY <1>2, <1>3, <1>5
<1>9. e < 0 => Places(e) - e = (q + 1) * b
  BY <1>1, <1>2, <1>4, <1>5, <1>6
<1> QED BY <1>5, <1>6, <1>7, <1>8, <1>9 DEF b

LEMMA MagnitudeHashes ==
  ASSUME NEW n \in Nat
  PROVE  LET bits == Bits(4 * n)
             digits == Digits(4 * n, bits)
         IN  Rotate(digits.x, Places(bits - 2 - digits.read)) = n % Modulus
<1> DEFINE p == Modulus
           m == 4 * n
           bits == Bits(m)
           d == Digits(m, bits)
           x == d.x
           read == d.read
           e == bits - 2 - read
           at == Places(e)
           w == Power(2, bits)
           y == Power(2, read)
           a == Power(2, at)
           b == HashBits
           r == Rotate(x, at)
<1>1. p \in Nat /\ p >= 2 /\ b \in Nat /\ b >= 2 /\ Power(2, b) = p + 1 /\ m \in Nat
  BY ModulusIs
<1>2. bits \in Nat /\ m < w
  <2>1. m \in Int /\ Magnitude(m) = m
    BY DEF Magnitude
  <2> HIDE DEF m
  <2>2. CASE m = 0
    BY <2>2, PowerStep DEF Bits
  <2>3. CASE m # 0
    BY <2>1, <2>3, BitsAre, BitsAreNatural
  <2> QED BY <2>2, <2>3
<1>3. DigitsHold(m, bits, d) /\ d.m = 0
  <2> HIDE DEF m, bits
  <2> QED BY <1>1, <1>2, DigitsAre
<1>4. PICK c \in Nat : m * y = (x + c * p) * w + 0
  BY <1>3 DEF DigitsHold
<1>5. x \in 0 .. p - 1 /\ read \in Nat
  BY <1>3 DEF DigitsHold
<1> HIDE DEF bits, d, p, b
<1>6. e \in Int
  BY <1>2, <1>5
<1>7. at \in 0 .. b - 1
  <2> HIDE DEF e
  <2> QED BY <1>6, PlacesAre DEF b
<1>8. r \in 0 .. p - 1 /\ \E k \in Nat : x * a = r + k * p
  <2> HIDE DEF at, x
  <2> QED BY <1>5, <1>7, RotateIs DEF p, b
<1>9. PICK k \in Nat : x * a = r + k * p
  BY <1>8
<1>10. x \in Nat /\ w \in Nat /\ w > 0 /\ y \in Nat /\ y > 0 /\ a \in Nat /\ at \in Nat
  BY <1>1, <1>2, <1>5, <1>7, TwoPowers
<1> DEFINE z == x + c * p
<1>11. z \in Nat /\ m * y = z * w
  BY <1>1, <1>4, <1>10
<1>12. ASSUME e >= 0 PROVE n % p = r
  <2>1. e \in Nat /\ bits = (e + 2) + read
    BY <1>2, <1>5, <1>6, <1>12
  <2>2. PICK q \in Nat : e = q * b + at
    <3> HIDE DEF e
    <3> QED BY <1>6, <1>12, PlacesAre DEF b
  <2> DEFINE v == Power(2, e)
             u == Power(2, q * b)
  <2> HIDE DEF e, at, read
  <2>3. PICK t \in Nat : u = 1 + t * p
    BY <2>2, RoundsAreOne DEF b, p
  <2>4. v = u * a /\ u \in Nat /\ v \in Nat
    <3>1. q * b \in Nat
      BY <1>1, <2>2
    <3>2. Power(2, q * b + at) = u * a
      BY <1>10, <3>1, PowerAdds
    <3> QED BY <2>1, <2>2, <3>1, <3>2, TwoPowers
  <2>5. w = (v * 4) * y
    <3>1. Power(2, 2) = 4
      <4>1. Power(2, 0) = 1 /\ Power(2, 0 + 1) = 2 * Power(2, 0) /\ Power(2, 1 + 1) = 2 * Power(2, 1)
        BY PowerStep
      <4> QED BY <4>1
    <3>2. Power(2, e + 2) = v * 4
      BY <2>1, <3>1, PowerAdds
    <3>3. Power(2, (e + 2) + read) = Power(2, e + 2) * y
      BY <1>5, <2>1, PowerAdds
    <3> QED BY <2>1, <3>2, <3>3
  <2> HIDE DEF u, v, w, y, a, x, r, z
  <2>6. n = z * v
    <3>1. (4 * n) * y = (4 * (z * v)) * y
      <4>1. z * ((v * 4) * y) = (4 * (z * v)) * y
        BY <1>10, <1>11, <2>4
      <4> QED BY <1>11, <2>5, <4>1
    <3>2. 4 * n = 4 * (z * v)
      <4> DEFINE i == 4 * n
                 j == 4 * (z * v)
      <4>1. i \in Nat /\ j \in Nat /\ i * y = j * y
        BY <1>11, <2>4, <3>1
      <4> HIDE DEF i, j
      <4>2. (i - j) * y = 0
        BY <1>10, <4>1
      <4>3. i - j = 0
        <5> DEFINE f == i - j
        <5>1. f \in Int /\ f * y = 0
          BY <4>1, <4>2
        <5> HIDE DEF f
        <5> QED BY <5>1, <1>10 DEF f
      <4>4. i = j
        BY <4>1, <4>3
      <4> QED BY <4>4 DEF i, j
    <3> DEFINE f == z * v
    <3>3. f \in Nat
      BY <1>11, <2>4
    <3> HIDE DEF f
    <3> QED BY <3>2, <3>3 DEF f
  <2>7. z * v = x * a + (x * a * t + c * v) * p
    <3>1. z * v = x * v + c * p * v
      BY <1>1, <1>10, <2>4 DEF z
    <3>2. x * v = x * ((1 + t * p) * a)
      BY <2>3, <2>4
    <3>3. x * ((1 + t * p) * a) = x * a + (x * a * t) * p
      BY <1>1, <1>10
    <3>4. (x * a * t + c * v) * p = (x * a * t) * p + c * p * v
      BY <1>1, <1>10, <2>4
    <3> HIDE DEF z
    <3>5. (x * a * t) * p \in Int /\ c * p * v \in Int /\ x * a \in Int
      BY <1>1, <1>10, <2>4
    <3> QED BY <3>1, <3>2, <3>3, <3>4, <3>5
  <2> DEFINE f == x * a * t + c * v + k
  <2>8. f \in Int /\ n = f * p + r
    <3>1. f * p = (x * a * t + c * v) * p + k * p /\ k * p \in Int /\ (x * a * t + c * v) * p \in Int /\ f \in Int
      BY <1>1, <1>10, <2>4
    <3>2. n = (r + k * p) + (x * a * t + c * v) * p
      BY <1>9, <2>6, <2>7
    <3> HIDE DEF f
    <3>3. r \in Int
      BY <1>8
    <3> QED BY <3>1, <3>2, <3>3
  <2> HIDE DEF f
  <2>9. n % p = r
    BY <1>1, <1>8, <2>8, LeftOver
  <2> QED BY <2>9 DEF r
<1>13. ASSUME e < 0 PROVE n % p = r
  <2>0. PICK i \in Nat : at - e = i * b
    <3> HIDE DEF e
    <3> QED BY <1>6, <1>13, PlacesAre DEF b
  <2> DEFINE f == -e
  <2>1. f \in Nat /\ read + 2 = bits + f
    BY <1>2, <1>5, <1>6, <1>13
  <2>4. f + at = i * b
    <3>1. f = -e
      OBVIOUS
    <3> HIDE DEF e, f, at
    <3> QED BY <1>6, <1>10, <2>0, <3>1
  <2> DEFINE v == Power(2, f)
             u == Power(2, i * b)
  <2> HIDE DEF e, at, read, f
  <2>5. PICK t \in Nat : u = 1 + t * p
    BY <2>4, RoundsAreOne DEF b, p
  <2>6. u = v * a /\ v \in Nat
    <3>1. Power(2, f + at) = v * a
      BY <1>10, <2>1, PowerAdds
    <3> QED BY <2>1, <2>4, <3>1, TwoPowers
  <2>7. 4 * y = w * v
    <3>1. Power(2, 2) = 4
      <4>1. Power(2, 0) = 1 /\ Power(2, 0 + 1) = 2 * Power(2, 0) /\ Power(2, 1 + 1) = 2 * Power(2, 1)
        BY PowerStep
      <4> QED BY <4>1
    <3>2. Power(2, read + 2) = y * 4
      BY <1>5, <3>1, PowerAdds
    <3>3. Power(2, bits + f) = w * v
      BY <1>2, <2>1, PowerAdds
    <3> QED BY <1>10, <2>1, <3>2, <3>3
  <2> HIDE DEF u, v, w, y, a, x, r, z
  <2>8. n * v = z
    <3>1. (4 * n) * y = n * (4 * y)
      BY <1>10
    <3>2. (n * v) * w = n * (w * v)
      BY <1>10, <2>6
    <3>3. (n * v) * w = z * w
      BY <1>11, <2>7, <3>1, <3>2
    <3> DEFINE o == n * v
    <3>4. o \in Nat /\ o * w = z * w
      BY <2>6, <3>3
    <3> HIDE DEF o
    <3> DEFINE g == o - z
    <3>5. g \in Int /\ g * w = 0
      BY <1>10, <1>11, <3>4
    <3> HIDE DEF g
    <3>6. g = 0
      BY <1>10, <3>5
    <3> QED BY <1>11, <3>4, <3>6 DEF g, o
  <2>9. (n * v) * a = n + (n * t) * p
    <3>1. (n * v) * a = n * (v * a)
      BY <1>10, <2>6
    <3>2. n * (1 + t * p) = n + (n * t) * p
      BY <1>1
    <3> QED BY <2>5, <2>6, <3>1, <3>2
  <2>10. z * a = x * a + (c * a) * p
    BY <1>1, <1>10 DEF z
  <2> DEFINE h == k + c * a - n * t
  <2>11. h \in Int /\ n = h * p + r
    <3>1. h * p = k * p + (c * a) * p - (n * t) * p /\ k * p \in Int /\ (c * a) * p \in Int /\ (n * t) * p \in Int /\ h \in Int
      BY <1>1, <1>10
    <3>2. n + (n * t) * p = (r + k * p) + (c * a) * p
      BY <1>9, <2>8, <2>9, <2>10
    <3> HIDE DEF h
    <3>3. r \in Int
      BY <1>8
    <3> QED BY <3>1, <3>2, <3>3
  <2> HIDE DEF h
  <2>12. n % p = r
    BY <1>1, <1>8, <2>11, LeftOver
  <2> QED BY <2>12 DEF r
<1>14. n % p = r
  <2> HIDE DEF e, r
  <2> QED BY <1>6, <1>12, <1>13
<1> QED BY <1>14 DEF bits, d, p

LEMMA FloatHashes ==
  ASSUME NEW n \in Int, NEW f, f.at.arm = "finite", f.at.n = 4 * n
  PROVE  HashFloat(f) = HashInt(n)
<1> DEFINE q == f.at.n
           k == Magnitude(n)
           bits == Bits(q)
           digits == Digits(Magnitude(q), bits)
<1>1. HashFloat(f) = Settle(SignOf(q) * Rotate(digits.x, Places(bits - 2 - digits.read)))
  BY DEF HashFloat
<1>2. k \in Nat /\ SignOf(q) = SignOf(n) /\ Magnitude(q) = 4 * k /\ Magnitude(4 * k) = 4 * k
  BY DEF Magnitude, SignOf
<1>3. bits = Bits(4 * k)
  <2> DEFINE o == 4 * k
  <2>1. q = 0 <=> o = 0
    BY DEF Magnitude
  <2>2. Magnitude(q) = Magnitude(o)
    BY <1>2
  <2> HIDE DEF q, k, o
  <2>3. Bits(q) = Bits(o)
    BY <2>1, <2>2 DEF Bits
  <2> QED BY <2>3 DEF o
<1> HIDE DEF bits, q, k
<1>4. Rotate(digits.x, Places(bits - 2 - digits.read)) = k % Modulus
  BY <1>2, <1>3, MagnitudeHashes
<1> QED BY <1>1, <1>2, <1>4 DEF HashInt, k

-----------------------------------------------------------------------------
(* Numbers as numbers.                                                     *)

\* A number in the arm it belongs in.
LEMMA ScalarIs ==
  ASSUME NEW v \in Scalars
  PROVE  /\ v.kind \in {"int", "bool", "float", "str"} /\ v.of = << >> /\ v.at.n \in Int
         /\ v.at = [arm |-> v.at.arm, n |-> v.at.n] /\ v = [kind |-> v.kind, at |-> v.at, of |-> v.of]
         /\ IsInt(v) => v.at \in Ints(Int) /\ v.at.arm \in {"small", "big"}
         /\ IsFloat(v) => v.at.arm \in {"finite", "inf", "-inf", "nan"} /\ (v.at.arm # "finite" => v.at.n = 0)
         /\ v.kind = "str" => v.at.n \in Nat /\ v.at.arm = "small"
<1>1. v \in Simple
  BY DEF Scalars
<1>2. v.kind \in {"int", "bool", "float", "str"} /\ v.of = << >> /\ v.at.n \in Int
      /\ v.at = [arm |-> v.at.arm, n |-> v.at.n] /\ v = [kind |-> v.kind, at |-> v.at, of |-> v.of]
  BY <1>1 DEF Simple
<1>3. ASSUME IsInt(v) PROVE v.at \in Ints(Int) /\ v.at.arm \in {"small", "big"}
  <2>1. Normal(v.at) /\ v.at.arm \in {"small", "big"}
    <3>1. CASE v.kind = "int"
      BY <3>1 DEF Scalars
    <3>2. CASE v.kind = "bool"
      <4>1. v.at \in {Small(0), Small(1)}
        BY <3>2 DEF Scalars
      <4>2. 0 \in Word /\ 1 \in Word
        BY WordIs
      <4>3. Normal(Small(0)) /\ Normal(Small(1))
        BY <4>2, SmallIs DEF Is
      <4> QED BY <4>1, <4>3 DEF Small
    <3> QED BY <1>3, <3>1, <3>2 DEF IsInt
  <2>2. v.at = FromBig(v.at.n)
    BY <1>2, <2>1 DEF Normal, FromBig, Small, Big
  <2> QED BY <1>2, <2>1, <2>2 DEF Ints
<1>4. IsFloat(v) => v.at.arm \in {"finite", "inf", "-inf", "nan"} /\ (v.at.arm # "finite" => v.at.n = 0)
  BY DEF Scalars, IsFloat
<1>5. v.kind = "str" => v.at.n \in Nat /\ v.at.arm = "small"
  BY DEF Scalars
<1> QED BY <1>2, <1>3, <1>4, <1>5

LEMMA WholeIs ==
  ASSUME NEW q \in Int
  PROVE  /\ Whole(q) \in Int
         /\ q >= 0 => 0 <= Whole(q) /\ 4 * Whole(q) <= q /\ q < 4 * Whole(q) + 4
         /\ q < 0 => Whole(q) <= 0 /\ q <= 4 * Whole(q) /\ 4 * Whole(q) - 4 < q
<1>1. CASE q >= 0
  <2>1. Whole(q) = q \div 4
    BY <1>1 DEF Whole, Quotient, SignOf, Magnitude
  <2> QED BY <1>1, <2>1
<1>2. CASE q < 0
  <2> DEFINE m == -q
  <2>1. Whole(q) = -1 * 1 * (m \div 4)
    BY <1>2 DEF Whole, Quotient, SignOf, Magnitude
  <2>2. m \in Nat /\ q = -m
    BY <1>2
  <2> HIDE DEF m
  <2> QED BY <1>2, <2>1, <2>2
<1> QED BY <1>1, <1>2

\* An integer is the float it equals, in either way of looking.
LEMMA IntEqFloatIs ==
  ASSUME NEW i \in Ints(Int), NEW f, f.at.n \in Int
  PROVE  IntEqFloat(i, f) <=> Finite(f) /\ 4 * i.n = f.at.n
<1> DEFINE q == f.at.n
<1>1. i.n \in Int /\ q \in Int
  BY IntIs
<1>2. IntEqFloat(i, f) <=> Finite(f) /\ q % 4 = 0 /\ i.n = Whole(q)
  BY DEF IntEqFloat, Big
<1> HIDE DEF q
<1>3. (q % 4 = 0 /\ i.n = Whole(q)) <=> 4 * i.n = q
  <2> DEFINE w == Whole(q)
             m == i.n
  <2>0. /\ w \in Int
        /\ q >= 0 => 0 <= w /\ 4 * w <= q /\ q < 4 * w + 4
        /\ q < 0 => w <= 0 /\ q <= 4 * w /\ 4 * w - 4 < q
    BY <1>1, WholeIs
  <2> HIDE DEF w, m
  <2>1. ASSUME q % 4 = 0 PROVE 4 * w = q
    <3>1. PICK t \in Int : q = 4 * t
      <4>1. q \div 4 \in Int /\ q = 4 * (q \div 4) + (q % 4)
        BY <1>1
      <4> QED BY <1>1, <2>1, <4>1
    <3> QED BY <1>1, <2>0, <3>1
  <2>2. ASSUME 4 * m = q PROVE q % 4 = 0 /\ m = w
    <3>0. m \in Int
      BY <1>1 DEF m
    <3>1. q % 4 = 0
      BY <1>1, <2>2, <3>0
    <3>2. 4 * w = 4 * m
      BY <2>1, <2>2, <3>1
    <3> QED BY <2>0, <3>0, <3>1, <3>2
  <2> QED BY <2>1, <2>2 DEF w, m
<1> QED BY <1>2, <1>3 DEF q

\* How the sign of an order and the numbers agree.
Tells(order, below, same, above) ==
  /\ order \in Int
  /\ order < 0 <=> below
  /\ order = 0 <=> same
  /\ order > 0 <=> above

LEMMA SignTells ==
  ASSUME NEW n \in Int
  PROVE  Tells(Sign3(n), n < 0, n = 0, n > 0)
BY DEF Tells, Sign3

LEMMA IntCmpIs ==
  ASSUME NEW i \in Ints(Int), NEW j \in Ints(Int)
  PROVE  Tells(IntCmp(i, j), i.n < j.n, i.n = j.n, j.n < i.n)
<1>1. i.n \in Int /\ j.n \in Int
  BY IntIs
<1> QED BY <1>1, LessIs DEF Tells, IntCmp

\* A tie on the whole part is broken by the fraction.
LEMMA IntCmpFloatIs ==
  ASSUME NEW i \in Ints(Int), NEW f, Finite(f), f.at.n \in Int
  PROVE  Tells(IntCmpFloat(i, f), 4 * i.n < f.at.n, 4 * i.n = f.at.n, f.at.n < 4 * i.n)
<1> DEFINE q == f.at.n
           w == Whole(q)
<1>1. i.n \in Int /\ q \in Int
  BY IntIs
<1>2. IntCmpFloat(i, f) = IF i.n # w THEN Sign3(i.n - w) ELSE -Sign3(q - 4 * w)
  BY DEF IntCmpFloat, Finite
<1> HIDE DEF q
<1>3. w \in Int /\ (q >= 0 => 0 <= w /\ 4 * w <= q /\ q < 4 * w + 4) /\ (q < 0 => w <= 0 /\ q <= 4 * w /\ 4 * w - 4 < q)
  BY <1>1, WholeIs
<1> HIDE DEF w
<1>4. CASE i.n = w
  <2>1. IntCmpFloat(i, f) = IF q - 4 * w < 0 THEN 1 ELSE IF q - 4 * w > 0 THEN -1 ELSE 0
    BY <1>1, <1>2, <1>3, <1>4 DEF Sign3
  <2>2. 4 * i.n = 4 * w
    BY <1>4
  <2> DEFINE o == 4 * w
  <2>3. o \in Int
    BY <1>3
  <2> HIDE DEF o
  <2>4. Tells(IntCmpFloat(i, f), o < q, o = q, q < o)
    BY <1>1, <2>1, <2>3 DEF Tells, o
  <2> QED BY <2>2, <2>4 DEF o, q
<1>5. CASE i.n < w
  <2>1. IntCmpFloat(i, f) = -1 /\ 4 * i.n <= 4 * w - 4
    BY <1>1, <1>2, <1>3, <1>5 DEF Sign3
  <2>2. 4 * i.n < q
    BY <1>1, <1>3, <1>5, <2>1
  <2> QED BY <1>1, <2>1, <2>2 DEF Tells, q
<1>6. CASE i.n > w
  <2>1. IntCmpFloat(i, f) = 1 /\ 4 * i.n >= 4 * w + 4
    BY <1>1, <1>2, <1>3, <1>6 DEF Sign3
  <2>2. q < 4 * i.n
    BY <1>1, <1>3, <1>6, <2>1
  <2> QED BY <1>1, <2>1, <2>2 DEF Tells, q
<1> QED BY <1>1, <1>3, <1>4, <1>5, <1>6

\* The numbers there are, NaN aside.
Numeric == {v \in Scalars : IsNumber(v) /\ ~IsNan(v)}

LEMMA NumericIs ==
  ASSUME NEW v \in Numeric
  PROVE  /\ IsInt(v) => IsReal(v) /\ Height(v) = 0 /\ Quarters(v) = 4 * v.at.n
         /\ ~IsInt(v) => /\ IsFloat(v) /\ Quarters(v) = v.at.n
                         /\ Height(v) = Rank(v) /\ v.at.arm \in {"finite", "inf", "-inf"}
                         /\ IsReal(v) <=> v.at.arm = "finite"
                         /\ ~IsReal(v) => v.at.n = 0
         /\ Height(v) \in {-1, 0, 1} /\ Quarters(v) \in Int /\ v.at.n \in Int
         /\ IsReal(v) <=> Height(v) = 0
<1>1. v \in Scalars /\ IsNumber(v) /\ ~IsNan(v)
  BY DEF Numeric
<1>2. v.at.n \in Int
  BY <1>1, ScalarIs
<1>3. CASE IsInt(v)
  BY <1>2, <1>3 DEF IsReal, Height, Quarters
<1>4. CASE ~IsInt(v)
  <2>1. IsFloat(v) /\ v.at.arm \in {"finite", "inf", "-inf"} /\ (v.at.arm # "finite" => v.at.n = 0)
    BY <1>1, <1>4, ScalarIs DEF IsNumber, IsNan
  <2>2. IsReal(v) <=> v.at.arm = "finite"
    BY <1>4, <2>1 DEF IsReal, Finite
  <2>3. Rank(v) \in {-1, 0, 1} /\ (Rank(v) = 0 <=> v.at.arm = "finite") /\ Quarters(v) = v.at.n
    BY <1>4, <2>1 DEF Rank, Quarters
  <2>4. Height(v) = Rank(v)
    BY <2>1, <2>2, <2>3 DEF Height
  <2> QED BY <1>2, <1>4, <2>1, <2>2, <2>3, <2>4
<1> QED BY <1>3, <1>4

(* Equality of numbers is that of what they are.                           *)
LEMMA NumberEqualsIs ==
  ASSUME NEW a \in Scalars, NEW b \in Scalars, IsNumber(a), IsNumber(b)
  PROVE  NumberEquals(a, b) <=> ~IsNan(a) /\ ~IsNan(b) /\ SameNumber(a, b)
<1>1. CASE IsNan(a) \/ IsNan(b)
  <2>1. ~NumberEquals(a, b)
    <3>1. IsNan(b) => b.at.arm = "nan" /\ IsFloat(b) /\ ~IsInt(b)
      BY DEF IsNan, IsFloat, IsInt
    <3>2. IsNan(a) => a.at.arm = "nan" /\ IsFloat(a) /\ ~IsInt(a)
      BY DEF IsNan, IsFloat, IsInt
    <3>3. \A f, i : f.at.arm = "nan" => ~IntEqFloat(i, f)
      BY DEF IntEqFloat, Finite
    <3>4. a.at = b.at => (IsFloat(a) /\ IsFloat(b) => (IsNan(a) <=> IsNan(b)))
      BY DEF IsNan
    <3> QED BY <1>1, <3>1, <3>2, <3>3, <3>4 DEF NumberEquals, IsNumber
  <2> QED BY <1>1, <2>1
<1>2. CASE ~IsNan(a) /\ ~IsNan(b)
  <2>1. a \in Numeric /\ b \in Numeric
    BY <1>2 DEF Numeric
  <2>2. /\ a.at = [arm |-> a.at.arm, n |-> a.at.n] /\ b.at = [arm |-> b.at.arm, n |-> b.at.n]
        /\ a.at.n \in Int /\ b.at.n \in Int
    BY ScalarIs
  <2>3. CASE IsInt(a) /\ IsInt(b)
    <3>1. a.at = b.at <=> a.at.n = b.at.n
      BY <2>3, ScalarIs, IntIs
    <3>2. SameNumber(a, b) <=> 4 * a.at.n = 4 * b.at.n
      BY <2>1, <2>3, NumericIs DEF SameNumber
    <3>3. SameNumber(a, b) <=> a.at.n = b.at.n
      BY <2>2, <3>2
    <3>4. NumberEquals(a, b) <=> a.at = b.at
      BY <2>3 DEF NumberEquals, IsFloat, IsInt
    <3> QED BY <1>2, <3>1, <3>3, <3>4
  <2>4. CASE IsFloat(a) /\ IsFloat(b)
    <3>0. ~IsInt(a) /\ ~IsInt(b)
      BY <2>4 DEF IsFloat, IsInt
    <3>1. SameNumber(a, b) <=> Rank(a) = Rank(b) /\ a.at.n = b.at.n
      BY <2>1, <3>0, NumericIs DEF SameNumber
    <3>2. Rank(a) = Rank(b) <=> a.at.arm = b.at.arm
      BY <2>1, <3>0, NumericIs DEF Rank
    <3>3. a.at = b.at <=> a.at.arm = b.at.arm /\ a.at.n = b.at.n
      BY <2>2
    <3> QED BY <1>2, <2>4, <3>0, <3>1, <3>2, <3>3 DEF NumberEquals
  <2>5. ASSUME NEW i \in {a, b}, NEW f \in {a, b}, IsInt(i), IsFloat(f)
        PROVE  IntEqFloat(i.at, f) <=> SameNumber(i, f)
    <3>0. ~IsInt(f) /\ i \in Numeric /\ f \in Numeric /\ i.at \in Ints(Int)
      BY <2>1, <2>5, ScalarIs DEF IsFloat, IsInt
    <3>1. IntEqFloat(i.at, f) <=> Finite(f) /\ 4 * i.at.n = f.at.n
      BY <2>2, <3>0, IntEqFloatIs
    <3>2. SameNumber(i, f) <=> Rank(f) = 0 /\ 4 * i.at.n = f.at.n
      BY <2>5, <3>0, NumericIs DEF SameNumber
    <3>3. Rank(f) = 0 <=> Finite(f)
      BY <3>0, NumericIs DEF Finite
    <3> QED BY <3>1, <3>2, <3>3
  <2>6. SameNumber(a, b) <=> SameNumber(b, a)
    BY DEF SameNumber
  <2> QED BY <1>2, <2>3, <2>4, <2>5, <2>6 DEF NumberEquals, IsNumber
<1> QED BY <1>1, <1>2

(* And their order is the order of what they are.                          *)
LEMMA NumericOrderIs ==
  ASSUME NEW a \in Numeric, NEW b \in Numeric
  PROVE  Tells(NumericOrder(a, b), Below(a, b), SameNumber(a, b), Below(b, a))
<1>1. a \in Scalars /\ b \in Scalars /\ IsNumber(a) /\ IsNumber(b)
  BY DEF Numeric
<1>2. a.at.n \in Int /\ b.at.n \in Int
  BY <1>1, ScalarIs
<1>3. CASE IsInt(a) /\ IsInt(b)
  <2>1. Tells(IntCmp(a.at, b.at), a.at.n < b.at.n, a.at.n = b.at.n, b.at.n < a.at.n)
    BY <1>1, <1>3, ScalarIs, IntCmpIs
  <2>2. /\ Below(a, b) <=> a.at.n < b.at.n
        /\ SameNumber(a, b) <=> a.at.n = b.at.n
        /\ Below(b, a) <=> b.at.n < a.at.n
    BY <1>2, <1>3, NumericIs DEF Below, SameNumber
  <2>3. NumericOrder(a, b) = IntCmp(a.at, b.at)
    BY <1>3 DEF NumericOrder, IsFloat, IsInt
  <2> QED BY <2>1, <2>2, <2>3 DEF Tells
<1>4. CASE IsFloat(a) /\ IsFloat(b)
  <2>0. ~IsInt(a) /\ ~IsInt(b)
    BY <1>4 DEF IsFloat, IsInt
  <2>1. NumericOrder(a, b) = FloatCmp(a, b)
    BY <1>4, <2>0 DEF NumericOrder
  <2> DEFINE x == Height(a)
             y == Height(b)
             m == Quarters(a)
             n == Quarters(b)
  <2>2. /\ x \in {-1, 0, 1} /\ y \in {-1, 0, 1} /\ m \in Int /\ n \in Int
        /\ IsReal(a) <=> x = 0
        /\ IsReal(b) <=> y = 0
        /\ x # 0 => m = 0
        /\ y # 0 => n = 0
        /\ x = Rank(a) /\ y = Rank(b) /\ m = a.at.n /\ n = b.at.n
    BY <2>0, NumericIs
  <2>3. FloatCmp(a, b) = IF x # y THEN Sign3(x - y) ELSE Sign3(m - n)
    BY <2>2 DEF FloatCmp
  <2>4. /\ Below(a, b) <=> x < y \/ (x = 0 /\ y = 0 /\ m < n)
        /\ Below(b, a) <=> y < x \/ (x = 0 /\ y = 0 /\ n < m)
        /\ SameNumber(a, b) <=> x = y /\ m = n
    BY <2>2 DEF Below, SameNumber
  <2> HIDE DEF x, y, m, n
  <2>5. Tells(FloatCmp(a, b), Below(a, b), SameNumber(a, b), Below(b, a))
    BY <2>2, <2>3, <2>4 DEF Tells, Sign3
  <2> QED BY <2>1, <2>5
<1>5. ASSUME NEW i \in Numeric, NEW f \in Numeric, IsInt(i), IsFloat(f)
      PROVE  Tells(IntCmpFloat(i.at, f), Below(i, f), SameNumber(i, f), Below(f, i))
  <2>0. ~IsInt(f) /\ i.at \in Ints(Int) /\ f.at.n \in Int /\ i.at.n \in Int
    BY <1>5, ScalarIs DEF IsFloat, IsInt, Numeric
  <2>1. CASE f.at.arm = "finite"
    <3>1. Height(f) = 0 /\ Height(i) = 0 /\ IsReal(i) /\ IsReal(f) /\ Quarters(i) = 4 * i.at.n /\ Quarters(f) = f.at.n
      BY <1>5, <2>0, <2>1, NumericIs
    <3>2. /\ Below(i, f) <=> 4 * i.at.n < f.at.n
          /\ SameNumber(i, f) <=> 4 * i.at.n = f.at.n
          /\ Below(f, i) <=> f.at.n < 4 * i.at.n
      BY <3>1 DEF Below, SameNumber
    <3>3. Tells(IntCmpFloat(i.at, f), 4 * i.at.n < f.at.n, 4 * i.at.n = f.at.n, f.at.n < 4 * i.at.n)
      BY <2>0, <2>1, IntCmpFloatIs DEF Finite
    <3> QED BY <3>2, <3>3 DEF Tells
  <2>2. CASE f.at.arm # "finite"
    <3>1. Height(i) = 0 /\ ~IsReal(f) /\ Height(f) = Rank(f) /\ f.at.arm \in {"inf", "-inf"}
      BY <1>5, <2>0, <2>2, NumericIs
    <3>2. CASE f.at.arm = "inf"
      <4>1. Height(f) = 1 /\ IntCmpFloat(i.at, f) = -1
        BY <3>1, <3>2 DEF Rank, IntCmpFloat
      <4> QED BY <3>1, <4>1 DEF Tells, Below, SameNumber
    <3>3. CASE f.at.arm = "-inf"
      <4>1. Height(f) = -1 /\ IntCmpFloat(i.at, f) = 1
        BY <3>1, <3>3 DEF Rank, IntCmpFloat
      <4> QED BY <3>1, <4>1 DEF Tells, Below, SameNumber
    <3> QED BY <3>1, <3>2, <3>3
  <2> QED BY <2>1, <2>2
<1>6. CASE IsInt(a) /\ IsFloat(b)
  <2>1. ~IsInt(b)
    BY <1>6 DEF IsFloat, IsInt
  <2> QED BY <1>5, <1>6, <2>1 DEF NumericOrder, IsFloat, IsInt
<1>7. CASE IsFloat(a) /\ IsInt(b)
  <2>1. ~IsInt(a) /\ ~IsFloat(b)
    BY <1>7 DEF IsFloat, IsInt
  <2>2. NumericOrder(a, b) = -IntCmpFloat(b.at, a)
    BY <1>7, <2>1 DEF NumericOrder
  <2>3. Tells(IntCmpFloat(b.at, a), Below(b, a), SameNumber(b, a), Below(a, b))
    BY <1>5, <1>7
  <2>4. SameNumber(a, b) <=> SameNumber(b, a)
    BY DEF SameNumber
  <2> QED BY <2>2, <2>3, <2>4 DEF Tells
<1> QED BY <1>1, <1>3, <1>4, <1>6, <1>7 DEF IsNumber

(* Numbers that are equal have one hash.                                   *)
LEMMA NumbersHash ==
  ASSUME NEW a \in Scalars, NEW b \in Scalars, IsNumber(a), IsNumber(b), NumberEquals(a, b)
  PROVE  (IF IsInt(a) THEN HashInt(a.at.n) ELSE HashFloat(a)) = (IF IsInt(b) THEN HashInt(b.at.n) ELSE HashFloat(b))
<1>1. CASE IsInt(a) /\ IsInt(b)
  <2>1. a.at = b.at
    BY <1>1 DEF NumberEquals, IsFloat, IsInt
  <2> QED BY <1>1, <2>1
<1>2. CASE ~IsInt(a) /\ ~IsInt(b)
  <2>1. a.at = b.at
    BY <1>2 DEF NumberEquals, IsNumber
  <2> QED BY <1>2, <2>1 DEF HashFloat
<1>3. ASSUME NEW i \in {a, b}, NEW f \in {a, b}, IsInt(i), IsFloat(f), IntEqFloat(i.at, f)
      PROVE  HashInt(i.at.n) = HashFloat(f)
  <2>1. i.at \in Ints(Int) /\ f.at.n \in Int /\ i.at.n \in Int
    BY <1>3, ScalarIs
  <2>2. Finite(f) /\ 4 * i.at.n = f.at.n
    BY <1>3, <2>1, IntEqFloatIs
  <2> QED BY <2>1, <2>2, FloatHashes DEF Finite
<1>4. CASE IsInt(a) /\ ~IsInt(b)
  <2>1. IntEqFloat(a.at, b) /\ IsFloat(b)
    BY <1>4 DEF NumberEquals, IsNumber, IsFloat, IsInt
  <2> QED BY <1>3, <1>4, <2>1
<1>5. CASE ~IsInt(a) /\ IsInt(b)
  <2>1. IntEqFloat(b.at, a) /\ IsFloat(a)
    BY <1>5 DEF NumberEquals, IsNumber, IsFloat, IsInt
  <2> QED BY <1>3, <1>5, <2>1
<1> QED BY <1>1, <1>2, <1>4, <1>5

-----------------------------------------------------------------------------
(* Values of one more level, made of those of the level below.             *)

Made(V, equal, hash) ==
  Scalars \union
    {v \in Containing(V) : v.kind = "set" =>
       /\ \A i, j \in DOMAIN v.of : SameValue(equal, v.of[i], v.of[j]) => i = j
       /\ \A i \in DOMAIN v.of : hash[v.of[i]].hashable}

LEMMA NestedIs ==
  /\ Nested[0] = {}
  /\ \A n \in 1 .. Nesting : Nested[n] = Simple \union Containing(Nested[n - 1])
<1> DEFINE Body(n, below) == IF n = 0 THEN {} ELSE Simple \union Containing(below)
           Are(h, k) == h = [n \in 0 .. k |-> Body(n, h[n - 1])]
           A == {k \in Nat : \E h : Are(h, k)}
<1>1. \A below : Body(0, below) = {}
  OBVIOUS
<1>2. Nested = CHOOSE h : Are(h, Nesting)
  BY DEF Nested
<1>3. \A n \in 1 .. Nesting : Body(n, Nested[n - 1]) = Simple \union Containing(Nested[n - 1])
  OBVIOUS
<1> HIDE DEF Body
<1>4. 0 \in A
  <2> DEFINE h == [n \in 0 .. 0 |-> {}]
  <2>1. \A n \in 0 .. 0 : n = 0
    OBVIOUS
  <2>2. Are(h, 0)
    BY <1>1, <2>1
  <2> HIDE DEF Are, h
  <2> QED BY <2>2
<1>5. ASSUME NEW k \in A PROVE k + 1 \in A
  <2>1. k \in Nat
    OBVIOUS
  <2>2. PICK h : Are(h, k)
    OBVIOUS
  <2> DEFINE g == [n \in 0 .. k + 1 |-> IF n <= k THEN h[n] ELSE Body(n, h[k])]
  <2>3. ASSUME NEW n \in 0 .. k + 1 PROVE g[n] = Body(n, g[n - 1])
    <3>1. CASE n = 0
      <4>1. 0 \in 0 .. k /\ h[0] = Body(0, h[0 - 1])
        BY <2>1, <2>2
      <4> QED BY <1>1, <2>1, <3>1, <4>1
    <3>2. CASE n \in 1 .. k
      <4>1. n \in 0 .. k /\ n - 1 \in 0 .. k + 1 /\ n <= k /\ n - 1 <= k
        BY <2>1, <3>2
      <4>2. h[n] = Body(n, h[n - 1])
        BY <2>2, <4>1
      <4> QED BY <4>1, <4>2
    <3>3. CASE n = k + 1
      <4>1. n - 1 = k /\ ~(n <= k) /\ k \in 0 .. k + 1 /\ k <= k
        BY <2>1, <3>3
      <4> QED BY <4>1
    <3> QED BY <2>1, <3>1, <3>2, <3>3
  <2>4. g = [n \in 0 .. k + 1 |-> g[n]]
    OBVIOUS
  <2> HIDE DEF g
  <2>5. Are(g, k + 1)
    BY <2>3, <2>4
  <2> HIDE DEF Are
  <2> QED BY <2>1, <2>5
<1>6. A = Nat
  <2>1. A \subseteq Nat
    OBVIOUS
  <2> HIDE DEF A
  <2> QED BY <1>4, <1>5, <2>1, Induction
<1>7. Nesting \in A
  BY <1>6, NestingAssumption
<1>8. \E h : Are(h, Nesting)
  BY <1>7
<1>9. Are(Nested, Nesting)
  <2> HIDE DEF Are
  <2> QED BY <1>2, <1>8
<1>10. ASSUME NEW n \in 0 .. Nesting PROVE Nested[n] = Body(n, Nested[n - 1])
  BY <1>9
<1>11. 0 \in 0 .. Nesting /\ \A n \in 1 .. Nesting : n \in 0 .. Nesting
  BY NestingAssumption
<1> QED BY <1>1, <1>3, <1>10, <1>11

LEMMA EqualsAre ==
  /\ EqualUpTo[0] = << >>
  /\ \A n \in 1 .. Nesting : EqualUpTo[n] = [a \in Nested[n] |-> [b \in Nested[n] |-> EqualsBy(EqualUpTo[n - 1], a, b)]]
<1> DEFINE Body(n, below) == IF n = 0 THEN << >> ELSE [a \in Nested[n] |-> [b \in Nested[n] |-> EqualsBy(below, a, b)]]
           Are(h, k) == h = [n \in 0 .. k |-> Body(n, h[n - 1])]
           A == {k \in Nat : \E h : Are(h, k)}
<1>1. \A below : Body(0, below) = << >>
  OBVIOUS
<1>2. EqualUpTo = CHOOSE h : Are(h, Nesting)
  BY DEF EqualUpTo
<1>3. \A n \in 1 .. Nesting : Body(n, EqualUpTo[n - 1]) = [a \in Nested[n] |-> [b \in Nested[n] |-> EqualsBy(EqualUpTo[n - 1], a, b)]]
  OBVIOUS
<1> HIDE DEF Body
<1>4. 0 \in A
  <2> DEFINE h == [n \in 0 .. 0 |-> << >>]
  <2>1. \A n \in 0 .. 0 : n = 0
    OBVIOUS
  <2>2. Are(h, 0)
    BY <1>1, <2>1
  <2> HIDE DEF Are, h
  <2> QED BY <2>2
<1>5. ASSUME NEW k \in A PROVE k + 1 \in A
  <2>1. k \in Nat
    OBVIOUS
  <2>2. PICK h : Are(h, k)
    OBVIOUS
  <2> DEFINE g == [n \in 0 .. k + 1 |-> IF n <= k THEN h[n] ELSE Body(n, h[k])]
  <2>3. ASSUME NEW n \in 0 .. k + 1 PROVE g[n] = Body(n, g[n - 1])
    <3>1. CASE n = 0
      <4>1. 0 \in 0 .. k /\ h[0] = Body(0, h[0 - 1])
        BY <2>1, <2>2
      <4> QED BY <1>1, <2>1, <3>1, <4>1
    <3>2. CASE n \in 1 .. k
      <4>1. n \in 0 .. k /\ n - 1 \in 0 .. k + 1 /\ n <= k /\ n - 1 <= k
        BY <2>1, <3>2
      <4>2. h[n] = Body(n, h[n - 1])
        BY <2>2, <4>1
      <4> QED BY <4>1, <4>2
    <3>3. CASE n = k + 1
      <4>1. n - 1 = k /\ ~(n <= k) /\ k \in 0 .. k + 1 /\ k <= k
        BY <2>1, <3>3
      <4> QED BY <4>1
    <3> QED BY <2>1, <3>1, <3>2, <3>3
  <2>4. g = [n \in 0 .. k + 1 |-> g[n]]
    OBVIOUS
  <2> HIDE DEF g
  <2>5. Are(g, k + 1)
    BY <2>3, <2>4
  <2> HIDE DEF Are
  <2> QED BY <2>1, <2>5
<1>6. A = Nat
  <2>1. A \subseteq Nat
    OBVIOUS
  <2> HIDE DEF A
  <2> QED BY <1>4, <1>5, <2>1, Induction
<1>7. Nesting \in A
  BY <1>6, NestingAssumption
<1>8. \E h : Are(h, Nesting)
  BY <1>7
<1>9. Are(EqualUpTo, Nesting)
  <2> HIDE DEF Are
  <2> QED BY <1>2, <1>8
<1>10. ASSUME NEW n \in 0 .. Nesting PROVE EqualUpTo[n] = Body(n, EqualUpTo[n - 1])
  BY <1>9
<1>11. 0 \in 0 .. Nesting /\ \A n \in 1 .. Nesting : n \in 0 .. Nesting
  BY NestingAssumption
<1> QED BY <1>1, <1>3, <1>10, <1>11

LEMMA OrdersAre ==
  /\ OrderUpTo[0] = << >>
  /\ \A n \in 1 .. Nesting : OrderUpTo[n] = [a \in Nested[n] |-> [b \in Nested[n] |->
     [op \in Ops |-> OrderBy(op, EqualUpTo[n - 1], OrderUpTo[n - 1], a, b)]]]
<1> DEFINE Body(n, below) == IF n = 0 THEN << >> ELSE [a \in Nested[n] |-> [b \in Nested[n] |->
     [op \in Ops |-> OrderBy(op, EqualUpTo[n - 1], below, a, b)]]]
           Are(h, k) == h = [n \in 0 .. k |-> Body(n, h[n - 1])]
           A == {k \in Nat : \E h : Are(h, k)}
<1>1. \A below : Body(0, below) = << >>
  OBVIOUS
<1>2. OrderUpTo = CHOOSE h : Are(h, Nesting)
  BY DEF OrderUpTo
<1>3. \A n \in 1 .. Nesting : Body(n, OrderUpTo[n - 1]) = [a \in Nested[n] |-> [b \in Nested[n] |->
     [op \in Ops |-> OrderBy(op, EqualUpTo[n - 1], OrderUpTo[n - 1], a, b)]]]
  OBVIOUS
<1> HIDE DEF Body
<1>4. 0 \in A
  <2> DEFINE h == [n \in 0 .. 0 |-> << >>]
  <2>1. \A n \in 0 .. 0 : n = 0
    OBVIOUS
  <2>2. Are(h, 0)
    BY <1>1, <2>1
  <2> HIDE DEF Are, h
  <2> QED BY <2>2
<1>5. ASSUME NEW k \in A PROVE k + 1 \in A
  <2>1. k \in Nat
    OBVIOUS
  <2>2. PICK h : Are(h, k)
    OBVIOUS
  <2> DEFINE g == [n \in 0 .. k + 1 |-> IF n <= k THEN h[n] ELSE Body(n, h[k])]
  <2>3. ASSUME NEW n \in 0 .. k + 1 PROVE g[n] = Body(n, g[n - 1])
    <3>1. CASE n = 0
      <4>1. 0 \in 0 .. k /\ h[0] = Body(0, h[0 - 1])
        BY <2>1, <2>2
      <4> QED BY <1>1, <2>1, <3>1, <4>1
    <3>2. CASE n \in 1 .. k
      <4>1. n \in 0 .. k /\ n - 1 \in 0 .. k + 1 /\ n <= k /\ n - 1 <= k
        BY <2>1, <3>2
      <4>2. h[n] = Body(n, h[n - 1])
        BY <2>2, <4>1
      <4> QED BY <4>1, <4>2
    <3>3. CASE n = k + 1
      <4>1. n - 1 = k /\ ~(n <= k) /\ k \in 0 .. k + 1 /\ k <= k
        BY <2>1, <3>3
      <4> QED BY <4>1
    <3> QED BY <2>1, <3>1, <3>2, <3>3
  <2>4. g = [n \in 0 .. k + 1 |-> g[n]]
    OBVIOUS
  <2> HIDE DEF g
  <2>5. Are(g, k + 1)
    BY <2>3, <2>4
  <2> HIDE DEF Are
  <2> QED BY <2>1, <2>5
<1>6. A = Nat
  <2>1. A \subseteq Nat
    OBVIOUS
  <2> HIDE DEF A
  <2> QED BY <1>4, <1>5, <2>1, Induction
<1>7. Nesting \in A
  BY <1>6, NestingAssumption
<1>8. \E h : Are(h, Nesting)
  BY <1>7
<1>9. Are(OrderUpTo, Nesting)
  <2> HIDE DEF Are
  <2> QED BY <1>2, <1>8
<1>10. ASSUME NEW n \in 0 .. Nesting PROVE OrderUpTo[n] = Body(n, OrderUpTo[n - 1])
  BY <1>9
<1>11. 0 \in 0 .. Nesting /\ \A n \in 1 .. Nesting : n \in 0 .. Nesting
  BY NestingAssumption
<1> QED BY <1>1, <1>3, <1>10, <1>11

LEMMA HashesAre ==
  /\ HashUpTo[0] = << >>
  /\ \A n \in 1 .. Nesting : HashUpTo[n] = [v \in Nested[n] |-> HashBy(HashUpTo[n - 1], v)]
<1> DEFINE Body(n, below) == IF n = 0 THEN << >> ELSE [v \in Nested[n] |-> HashBy(below, v)]
           Are(h, k) == h = [n \in 0 .. k |-> Body(n, h[n - 1])]
           A == {k \in Nat : \E h : Are(h, k)}
<1>1. \A below : Body(0, below) = << >>
  OBVIOUS
<1>2. HashUpTo = CHOOSE h : Are(h, Nesting)
  BY DEF HashUpTo
<1>3. \A n \in 1 .. Nesting : Body(n, HashUpTo[n - 1]) = [v \in Nested[n] |-> HashBy(HashUpTo[n - 1], v)]
  OBVIOUS
<1> HIDE DEF Body
<1>4. 0 \in A
  <2> DEFINE h == [n \in 0 .. 0 |-> << >>]
  <2>1. \A n \in 0 .. 0 : n = 0
    OBVIOUS
  <2>2. Are(h, 0)
    BY <1>1, <2>1
  <2> HIDE DEF Are, h
  <2> QED BY <2>2
<1>5. ASSUME NEW k \in A PROVE k + 1 \in A
  <2>1. k \in Nat
    OBVIOUS
  <2>2. PICK h : Are(h, k)
    OBVIOUS
  <2> DEFINE g == [n \in 0 .. k + 1 |-> IF n <= k THEN h[n] ELSE Body(n, h[k])]
  <2>3. ASSUME NEW n \in 0 .. k + 1 PROVE g[n] = Body(n, g[n - 1])
    <3>1. CASE n = 0
      <4>1. 0 \in 0 .. k /\ h[0] = Body(0, h[0 - 1])
        BY <2>1, <2>2
      <4> QED BY <1>1, <2>1, <3>1, <4>1
    <3>2. CASE n \in 1 .. k
      <4>1. n \in 0 .. k /\ n - 1 \in 0 .. k + 1 /\ n <= k /\ n - 1 <= k
        BY <2>1, <3>2
      <4>2. h[n] = Body(n, h[n - 1])
        BY <2>2, <4>1
      <4> QED BY <4>1, <4>2
    <3>3. CASE n = k + 1
      <4>1. n - 1 = k /\ ~(n <= k) /\ k \in 0 .. k + 1 /\ k <= k
        BY <2>1, <3>3
      <4> QED BY <4>1
    <3> QED BY <2>1, <3>1, <3>2, <3>3
  <2>4. g = [n \in 0 .. k + 1 |-> g[n]]
    OBVIOUS
  <2> HIDE DEF g
  <2>5. Are(g, k + 1)
    BY <2>3, <2>4
  <2> HIDE DEF Are
  <2> QED BY <2>1, <2>5
<1>6. A = Nat
  <2>1. A \subseteq Nat
    OBVIOUS
  <2> HIDE DEF A
  <2> QED BY <1>4, <1>5, <2>1, Induction
<1>7. Nesting \in A
  BY <1>6, NestingAssumption
<1>8. \E h : Are(h, Nesting)
  BY <1>7
<1>9. Are(HashUpTo, Nesting)
  <2> HIDE DEF Are
  <2> QED BY <1>2, <1>8
<1>10. ASSUME NEW n \in 0 .. Nesting PROVE HashUpTo[n] = Body(n, HashUpTo[n - 1])
  BY <1>9
<1>11. 0 \in 0 .. Nesting /\ \A n \in 1 .. Nesting : n \in 0 .. Nesting
  BY NestingAssumption
<1> QED BY <1>1, <1>3, <1>10, <1>11

LEMMA ValuesAre ==
  /\ ValuesUpTo[0] = {}
  /\ \A n \in 1 .. Nesting : ValuesUpTo[n] = Made(ValuesUpTo[n - 1], EqualUpTo[n - 1], HashUpTo[n - 1])
<1> DEFINE Body(n, below) == IF n = 0 THEN {} ELSE Made(below, EqualUpTo[n - 1], HashUpTo[n - 1])
           Are(h, k) == h = [n \in 0 .. k |-> Body(n, h[n - 1])]
           A == {k \in Nat : \E h : Are(h, k)}
<1>1. \A below : Body(0, below) = {}
  OBVIOUS
<1>2. ValuesUpTo = CHOOSE h : Are(h, Nesting)
  BY DEF ValuesUpTo, Made
<1>3. \A n \in 1 .. Nesting : Body(n, ValuesUpTo[n - 1]) = Made(ValuesUpTo[n - 1], EqualUpTo[n - 1], HashUpTo[n - 1])
  OBVIOUS
<1> HIDE DEF Body
<1>4. 0 \in A
  <2> DEFINE h == [n \in 0 .. 0 |-> {}]
  <2>1. \A n \in 0 .. 0 : n = 0
    OBVIOUS
  <2>2. Are(h, 0)
    BY <1>1, <2>1
  <2> HIDE DEF Are, h
  <2> QED BY <2>2
<1>5. ASSUME NEW k \in A PROVE k + 1 \in A
  <2>1. k \in Nat
    OBVIOUS
  <2>2. PICK h : Are(h, k)
    OBVIOUS
  <2> DEFINE g == [n \in 0 .. k + 1 |-> IF n <= k THEN h[n] ELSE Body(n, h[k])]
  <2>3. ASSUME NEW n \in 0 .. k + 1 PROVE g[n] = Body(n, g[n - 1])
    <3>1. CASE n = 0
      <4>1. 0 \in 0 .. k /\ h[0] = Body(0, h[0 - 1])
        BY <2>1, <2>2
      <4> QED BY <1>1, <2>1, <3>1, <4>1
    <3>2. CASE n \in 1 .. k
      <4>1. n \in 0 .. k /\ n - 1 \in 0 .. k + 1 /\ n <= k /\ n - 1 <= k
        BY <2>1, <3>2
      <4>2. h[n] = Body(n, h[n - 1])
        BY <2>2, <4>1
      <4> QED BY <4>1, <4>2
    <3>3. CASE n = k + 1
      <4>1. n - 1 = k /\ ~(n <= k) /\ k \in 0 .. k + 1 /\ k <= k
        BY <2>1, <3>3
      <4> QED BY <4>1
    <3> QED BY <2>1, <3>1, <3>2, <3>3
  <2>4. g = [n \in 0 .. k + 1 |-> g[n]]
    OBVIOUS
  <2> HIDE DEF g
  <2>5. Are(g, k + 1)
    BY <2>3, <2>4
  <2> HIDE DEF Are
  <2> QED BY <2>1, <2>5
<1>6. A = Nat
  <2>1. A \subseteq Nat
    OBVIOUS
  <2> HIDE DEF A
  <2> QED BY <1>4, <1>5, <2>1, Induction
<1>7. Nesting \in A
  BY <1>6, NestingAssumption
<1>8. \E h : Are(h, Nesting)
  BY <1>7
<1>9. Are(ValuesUpTo, Nesting)
  <2> HIDE DEF Are
  <2> QED BY <1>2, <1>8
<1>10. ASSUME NEW n \in 0 .. Nesting PROVE ValuesUpTo[n] = Body(n, ValuesUpTo[n - 1])
  BY <1>9
<1>11. 0 \in 0 .. Nesting /\ \A n \in 1 .. Nesting : n \in 0 .. Nesting
  BY NestingAssumption
<1> QED BY <1>1, <1>3, <1>10, <1>11
-----------------------------------------------------------------------------
(* Equality of one level, from that of the level below.                    *)

Equivalent(V, equal) ==
  /\ \A a, b \in V : equal[a][b] => equal[b][a]
  /\ \A a, b, c \in V : equal[a][b] /\ equal[b][c] => equal[a][c]

LEMMA SameIs ==
  ASSUME NEW V, NEW equal, Equivalent(V, equal), NEW a \in V, NEW b \in V
  PROVE  /\ SameValue(equal, a, a)
         /\ SameValue(equal, a, b) => SameValue(equal, b, a)
         /\ \A c \in V : SameValue(equal, a, b) /\ SameValue(equal, b, c) => SameValue(equal, a, c)
BY DEF SameValue, Equivalent

\* What a value is made of.
LEMMA MadeIs ==
  ASSUME NEW V, NEW equal, NEW hash, NEW v \in Made(V, equal, hash)
  PROVE  /\ IsNumber(v) \/ v.kind = "str" => v \in Scalars /\ v.of = << >>
         /\ v.kind \in {"tuple", "list", "set"} =>
              /\ v \in Containing(V) /\ v.at = Small(0)
              /\ v.of \in Seq(V) /\ DOMAIN v.of = 1 .. Len(v.of) /\ Len(v.of) \in Nat
              /\ \A i \in DOMAIN v.of : v.of[i] \in V
         /\ v.kind = "set" =>
              \A i, j \in DOMAIN v.of : SameValue(equal, v.of[i], v.of[j]) => i = j
         /\ IsNumber(v) \/ v.kind \in {"str", "tuple", "list", "set"}
         /\ ~(IsNumber(v) /\ v.kind \in {"str", "tuple", "list", "set"})
<1>1. CASE v \in Scalars
  BY <1>1, ScalarIs DEF IsNumber, IsInt, IsFloat
<1>2. CASE v \notin Scalars
  <2>1. v \in Containing(V)
    BY <1>2 DEF Made
  <2>2. v.kind \in {"tuple", "list", "set"} /\ v.at = Small(0) /\ v.of \in Seq(V)
    BY <2>1 DEF Containing
  <2>3. DOMAIN v.of = 1 .. Len(v.of) /\ Len(v.of) \in Nat /\ \A i \in DOMAIN v.of : v.of[i] \in V
    BY <2>2, LenProperties
  <2>4. ~IsNumber(v) /\ v.kind # "str"
    BY <2>2 DEF IsNumber, IsInt, IsFloat
  <2>5. v.kind = "set" => \A i, j \in DOMAIN v.of : SameValue(equal, v.of[i], v.of[j]) => i = j
    BY <1>2 DEF Made
  <2> QED BY <2>1, <2>2, <2>3, <2>4, <2>5
<1> QED BY <1>1, <1>2

\* A set without an element twice that is in one of its size is that one.
LEMMA WithinBoth ==
  ASSUME NEW V, NEW equal, Equivalent(V, equal),
         NEW a, NEW b, a.of \in Seq(V), b.of \in Seq(V), Len(a.of) = Len(b.of),
         \A i, j \in DOMAIN a.of : SameValue(equal, a.of[i], a.of[j]) => i = j,
         Within(equal, a, b)
  PROVE  Within(equal, b, a)
<1> DEFINE s == a.of
           t == b.of
           n == Len(a.of)
           S == 1 .. n
<1>1. n \in Nat /\ DOMAIN s = S /\ DOMAIN t = S /\ (\A i \in S : s[i] \in V /\ t[i] \in V)
  BY LenProperties
<1>2. \A i \in S : \E j \in S : SameValue(equal, s[i], t[j])
  BY <1>1 DEF Within
<1>3. \A i, j \in S : SameValue(equal, s[i], s[j]) => i = j
  BY <1>1
<1> DEFINE f == [i \in S |-> CHOOSE j \in S : SameValue(equal, s[i], t[j])]
<1> HIDE DEF s, t, S
<1>4. \A i \in S : f[i] \in S /\ SameValue(equal, s[i], t[f[i]])
  BY <1>2
<1>5. f \in [S -> S]
  BY <1>4
<1> HIDE DEF f
<1>6. ASSUME NEW i \in S, NEW j \in S, f[i] = f[j] PROVE i = j
  <2>1. SameValue(equal, s[i], t[f[i]]) /\ SameValue(equal, s[j], t[f[i]]) /\ f[i] \in S
    BY <1>4, <1>6
  <2>2. s[i] \in V /\ s[j] \in V /\ t[f[i]] \in V
    BY <1>1, <2>1
  <2>3. SameValue(equal, t[f[i]], s[j])
    BY <2>1, <2>2, SameIs
  <2>4. SameValue(equal, s[i], s[j])
    BY <2>1, <2>2, <2>3, SameIs
  <2> QED BY <1>3, <2>4
<1>7. f \in Injection(S, S)
  BY <1>5, <1>6 DEF Injection, IsInjective
<1>8. IsFiniteSet(S)
  BY <1>1, FS_Interval DEF S
<1>9. f \in Surjection(S, S)
  BY <1>7, <1>8, FS_Injection
<1>10. ASSUME NEW j \in S PROVE \E i \in S : SameValue(equal, t[j], s[i])
  <2>1. PICK i \in S : f[i] = j
    BY <1>9 DEF Surjection
  <2>2. SameValue(equal, s[i], t[j]) /\ s[i] \in V /\ t[j] \in V
    BY <1>1, <1>4, <2>1
  <2> QED BY <2>2, SameIs
<1>11. Len(t) <= Len(s)
  BY <1>1 DEF s, t, n
<1> QED BY <1>1, <1>10, <1>11 DEF Within, s, t

\* What equality asks, of each kind.
LEMMA EqualsByIs ==
  ASSUME NEW V, NEW equal, NEW hash, NEW a \in Made(V, equal, hash), NEW b \in Made(V, equal, hash)
  PROVE  /\ IsNumber(a) /\ IsNumber(b) => (EqualsBy(equal, a, b) <=> NumberEquals(a, b))
         /\ ~(IsNumber(a) <=> IsNumber(b)) => ~EqualsBy(equal, a, b)
         /\ ~IsNumber(a) /\ ~IsNumber(b) =>
              (EqualsBy(equal, a, b) <=>
                 /\ a.kind = b.kind
                 /\ a.kind = "str" => a.at.n = b.at.n
                 /\ a.kind # "str" => Len(a.of) = Len(b.of)
                 /\ a.kind = "set" => Within(equal, a, b)
                 /\ a.kind \in {"tuple", "list"} => \A i \in DOMAIN a.of : SameValue(equal, a.of[i], b.of[i]))
<1>1. CASE IsNumber(a) /\ IsNumber(b)
  BY <1>1 DEF EqualsBy
<1>2. CASE ~(IsNumber(a) <=> IsNumber(b))
  <2>1. a.kind # b.kind
    BY <1>2 DEF IsNumber, IsInt, IsFloat
  <2>2. ~(IsNumber(a) /\ IsNumber(b)) /\ ~(~IsNumber(a) /\ ~IsNumber(b))
    BY <1>2
  <2>3. ~EqualsBy(equal, a, b)
    BY <2>1, <2>2 DEF EqualsBy
  <2> QED BY <1>2, <2>2, <2>3
<1>3. CASE ~IsNumber(a) /\ ~IsNumber(b)
  <2>0. EqualsBy(equal, a, b) <=>
          /\ a.kind = b.kind
          /\ a.at = b.at
          /\ Len(a.of) = Len(b.of)
          /\ IF a.kind = "set" THEN Within(equal, a, b)
             ELSE \A i \in DOMAIN a.of : SameValue(equal, a.of[i], b.of[i])
    BY <1>3 DEF EqualsBy
  <2> DEFINE Asks == /\ a.kind = b.kind
                     /\ a.kind = "str" => a.at.n = b.at.n
                     /\ a.kind # "str" => Len(a.of) = Len(b.of)
                     /\ a.kind = "set" => Within(equal, a, b)
                     /\ a.kind \in {"tuple", "list"} => \A i \in DOMAIN a.of : SameValue(equal, a.of[i], b.of[i])
  <2>1. a.kind \in {"str", "tuple", "list", "set"} /\ b.kind \in {"str", "tuple", "list", "set"}
    BY <1>3, MadeIs
  <2>2. ASSUME a.kind = b.kind, a.kind = "str" PROVE EqualsBy(equal, a, b) <=> Asks
    <3>0. b.kind = "str"
      BY <2>2
    <3>1. a \in Scalars /\ b \in Scalars /\ a.of = << >> /\ b.of = << >>
      BY <2>2, <3>0, MadeIs
    <3>2. a.at = b.at <=> a.at.n = b.at.n
      <4>1. a.at = [arm |-> "small", n |-> a.at.n] /\ b.at = [arm |-> "small", n |-> b.at.n]
        BY <2>2, <3>1, ScalarIs
      <4> QED BY <4>1
    <3>3. \A i \in DOMAIN a.of : FALSE
      BY <3>1
    <3>4. EqualsBy(equal, a, b) <=> a.at.n = b.at.n
      BY <2>0, <2>2, <3>1, <3>2, <3>3
    <3>5. Asks <=> a.at.n = b.at.n
      BY <2>2
    <3> QED BY <3>4, <3>5
  <2>3. ASSUME a.kind = b.kind, a.kind # "str" PROVE EqualsBy(equal, a, b) <=> Asks
    <3>1. a.at = b.at
      <4>1. a.kind \in {"tuple", "list", "set"} /\ b.kind \in {"tuple", "list", "set"}
        BY <2>1, <2>3
      <4> QED BY <4>1, MadeIs
    <3>2. CASE a.kind = "set"
      <4>1. EqualsBy(equal, a, b) <=> Len(a.of) = Len(b.of) /\ Within(equal, a, b)
        BY <2>0, <2>3, <3>1, <3>2
      <4>2. Asks <=> Len(a.of) = Len(b.of) /\ Within(equal, a, b)
        BY <2>3, <3>2
      <4> QED BY <4>1, <4>2
    <3>3. CASE a.kind # "set"
      <4>1. EqualsBy(equal, a, b) <=>
              Len(a.of) = Len(b.of) /\ \A i \in DOMAIN a.of : SameValue(equal, a.of[i], b.of[i])
        BY <2>0, <2>3, <3>1, <3>3
      <4>2. a.kind \in {"tuple", "list"}
        BY <2>1, <3>3, <2>3
      <4>3. Asks <=> Len(a.of) = Len(b.of) /\ \A i \in DOMAIN a.of : SameValue(equal, a.of[i], b.of[i])
        BY <2>3, <3>3, <4>2
      <4> QED BY <4>1, <4>3
    <3> QED BY <3>2, <3>3
  <2>4. ASSUME a.kind # b.kind PROVE EqualsBy(equal, a, b) <=> Asks
    BY <2>0, <2>4
  <2>5. EqualsBy(equal, a, b) <=> Asks
    BY <2>2, <2>3, <2>4
  <2> QED BY <1>3, <2>5
<1> QED BY <1>1, <1>2, <1>3

LEMMA EqualTurned ==
  ASSUME NEW V, NEW equal, NEW hash, Equivalent(V, equal),
         NEW a \in Made(V, equal, hash), NEW b \in Made(V, equal, hash), EqualsBy(equal, a, b)
  PROVE  EqualsBy(equal, b, a)
<1>1. CASE IsNumber(a) /\ IsNumber(b)
  <2>1. a \in Scalars /\ b \in Scalars
    BY <1>1, MadeIs
  <2>2. NumberEquals(a, b)
    BY <1>1, EqualsByIs
  <2>3. NumberEquals(b, a)
    BY <1>1, <2>1, <2>2, NumberEqualsIs DEF SameNumber
  <2> QED BY <1>1, <2>3, EqualsByIs
<1>2. CASE ~IsNumber(a) /\ ~IsNumber(b)
  <2>1. /\ a.kind = b.kind
        /\ a.kind = "str" => a.at.n = b.at.n
        /\ a.kind # "str" => Len(a.of) = Len(b.of)
        /\ a.kind = "set" => Within(equal, a, b)
        /\ a.kind \in {"tuple", "list"} => \A i \in DOMAIN a.of : SameValue(equal, a.of[i], b.of[i])
    BY <1>2, EqualsByIs
  <2>2. a.kind \in {"str", "tuple", "list", "set"}
    BY <1>2, MadeIs
  <2>3. ASSUME a.kind = "set" PROVE Within(equal, b, a)
    <3>1. a.of \in Seq(V) /\ b.of \in Seq(V) /\ Len(a.of) = Len(b.of)
          /\ \A i, j \in DOMAIN a.of : SameValue(equal, a.of[i], a.of[j]) => i = j
      BY <2>1, <2>3, MadeIs
    <3> QED BY <2>1, <2>3, <3>1, WithinBoth
  <2>4. ASSUME a.kind \in {"tuple", "list"} PROVE \A i \in DOMAIN b.of : SameValue(equal, b.of[i], a.of[i])
    <3>1. DOMAIN a.of = DOMAIN b.of /\ \A i \in DOMAIN a.of : a.of[i] \in V /\ b.of[i] \in V
      BY <2>1, <2>4, MadeIs
    <3> QED BY <2>1, <2>4, <3>1, SameIs
  <2> QED BY <1>2, <2>1, <2>3, <2>4, EqualsByIs
<1>3. CASE ~(IsNumber(a) <=> IsNumber(b))
  BY <1>3, EqualsByIs
<1> QED BY <1>1, <1>2, <1>3

LEMMA EqualThrough ==
  ASSUME NEW V, NEW equal, NEW hash, Equivalent(V, equal),
         NEW a \in Made(V, equal, hash), NEW b \in Made(V, equal, hash), NEW c \in Made(V, equal, hash),
         EqualsBy(equal, a, b), EqualsBy(equal, b, c)
  PROVE  EqualsBy(equal, a, c)
<1>1. (IsNumber(a) <=> IsNumber(b)) /\ (IsNumber(b) <=> IsNumber(c))
  BY EqualsByIs
<1>2. CASE IsNumber(a) /\ IsNumber(b) /\ IsNumber(c)
  <2>1. a \in Scalars /\ b \in Scalars /\ c \in Scalars
    BY <1>2, MadeIs
  <2>2. NumberEquals(a, b) /\ NumberEquals(b, c)
    BY <1>2, EqualsByIs
  <2>3. NumberEquals(a, c)
    BY <1>2, <2>1, <2>2, NumberEqualsIs DEF SameNumber
  <2> QED BY <1>2, <2>3, EqualsByIs
<1>3. CASE ~IsNumber(a) /\ ~IsNumber(b) /\ ~IsNumber(c)
  <2>1. /\ a.kind = b.kind
        /\ a.kind = "str" => a.at.n = b.at.n
        /\ a.kind # "str" => Len(a.of) = Len(b.of)
        /\ a.kind = "set" => Within(equal, a, b)
        /\ a.kind \in {"tuple", "list"} => \A i \in DOMAIN a.of : SameValue(equal, a.of[i], b.of[i])
    BY <1>3, EqualsByIs
  <2>2. /\ b.kind = c.kind
        /\ b.kind = "str" => b.at.n = c.at.n
        /\ b.kind # "str" => Len(b.of) = Len(c.of)
        /\ b.kind = "set" => Within(equal, b, c)
        /\ b.kind \in {"tuple", "list"} => \A i \in DOMAIN b.of : SameValue(equal, b.of[i], c.of[i])
    BY <1>3, EqualsByIs
  <2>3. ASSUME a.kind \in {"tuple", "list", "set"}
        PROVE  /\ DOMAIN a.of = DOMAIN b.of /\ DOMAIN b.of = DOMAIN c.of
               /\ \A i \in DOMAIN a.of : a.of[i] \in V /\ b.of[i] \in V /\ c.of[i] \in V
    BY <2>1, <2>2, <2>3, MadeIs
  <2>4. ASSUME a.kind = "set" PROVE Within(equal, a, c)
    <3>1. Within(equal, a, b) /\ Within(equal, b, c) /\ Len(a.of) = Len(b.of) /\ Len(b.of) = Len(c.of)
      BY <2>1, <2>2, <2>4
    <3>2. ASSUME NEW i \in DOMAIN a.of PROVE \E k \in DOMAIN c.of : SameValue(equal, a.of[i], c.of[k])
      <4>1. PICK j \in DOMAIN b.of : SameValue(equal, a.of[i], b.of[j])
        BY <3>1 DEF Within
      <4>2. PICK k \in DOMAIN c.of : SameValue(equal, b.of[j], c.of[k])
        BY <3>1 DEF Within
      <4>3. a.of[i] \in V /\ b.of[j] \in V /\ c.of[k] \in V
        BY <2>3, <2>4
      <4>4. SameValue(equal, a.of[i], c.of[k])
        BY <4>1, <4>2, <4>3, SameIs
      <4> QED BY <4>4
    <3> QED BY <3>1, <3>2 DEF Within
  <2>5. ASSUME a.kind \in {"tuple", "list"} PROVE \A i \in DOMAIN a.of : SameValue(equal, a.of[i], c.of[i])
    BY <2>1, <2>2, <2>3, <2>5, SameIs
  <2> QED BY <1>3, <2>1, <2>2, <2>4, <2>5, EqualsByIs
<1> QED BY <1>1, <1>2, <1>3

(* And equal values have one hash, if those below have.                    *)
LEMMA EqualHashes ==
  ASSUME NEW V, NEW equal, NEW hash, \A a, b \in V : equal[a][b] => hash[a] = hash[b],
         NEW a \in Made(V, equal, hash), NEW b \in Made(V, equal, hash), EqualsBy(equal, a, b)
  PROVE  HashBy(hash, a) = HashBy(hash, b)
<1>1. CASE IsNumber(a) /\ IsNumber(b)
  <2>1. a \in Scalars /\ b \in Scalars
    BY <1>1, MadeIs
  <2>2. NumberEquals(a, b)
    BY <1>1, EqualsByIs
  <2>3. \A v : IsNumber(v) => HashBy(hash, v) = Hashed(IF IsInt(v) THEN HashInt(v.at.n) ELSE HashFloat(v))
    BY DEF HashBy, IsNumber, IsInt, IsFloat
  <2> QED BY <1>1, <2>1, <2>2, <2>3, NumbersHash
<1>2. CASE ~IsNumber(a) /\ ~IsNumber(b)
  <2>0. /\ a.kind = b.kind
        /\ a.kind = "str" => a.at.n = b.at.n
        /\ a.kind # "str" => Len(a.of) = Len(b.of)
        /\ a.kind \in {"tuple", "list"} => \A i \in DOMAIN a.of : SameValue(equal, a.of[i], b.of[i])
        /\ a.kind \in {"str", "tuple", "list", "set"}
    BY <1>2, EqualsByIs, MadeIs
  <2>1. CASE a.kind = "str"
    BY <1>2, <2>0, <2>1 DEF HashBy, IsNumber, IsInt, IsFloat
  <2>2. CASE a.kind = "tuple"
    <3> DEFINE Lanes(v) == [i \in DOMAIN v.of |-> hash[v.of[i]]]
               HashOf(lanes) == IF \E i \in DOMAIN lanes : ~lanes[i].hashable THEN Unhashable
                                ELSE [hashable |-> TRUE, h |-> Len(lanes), of |-> <<"lanes", lanes>>]
    <3>1. DOMAIN a.of = DOMAIN b.of /\ \A i \in DOMAIN a.of : a.of[i] \in V /\ b.of[i] \in V
      BY <2>0, <2>2, MadeIs
    <3>2. \A i \in DOMAIN a.of : hash[a.of[i]] = hash[b.of[i]]
      BY <2>0, <2>2, <3>1 DEF SameValue
    <3>3. Lanes(a) = Lanes(b)
      BY <3>1, <3>2
    <3>4. HashBy(hash, a) = HashOf(Lanes(a)) /\ HashBy(hash, b) = HashOf(Lanes(b))
      BY <1>2, <2>0, <2>2 DEF HashBy, IsNumber
    <3> HIDE DEF Lanes, HashOf
    <3> QED BY <3>3, <3>4
  <2>3. CASE a.kind \in {"list", "set"}
    BY <1>2, <2>0, <2>3 DEF HashBy, IsNumber
  <2> QED BY <2>0, <2>1, <2>2, <2>3
<1>3. CASE ~(IsNumber(a) <=> IsNumber(b))
  BY <1>3, EqualsByIs
<1> QED BY <1>1, <1>2, <1>3
-----------------------------------------------------------------------------
(* The four orderings of one pair agree with each other and with equality. *)

Agrees(order, same) ==
  /\ \A op, other \in Ops : order[op].error = order[other].error
  /\ ~order["<"].error =>
       /\ order["<="].is <=> order["<"].is \/ same
       /\ order[">="].is <=> order[">"].is \/ same
       /\ ~(order["<"].is /\ same) /\ ~(order[">"].is /\ same) /\ ~(order["<"].is /\ order[">"].is)

LEMMA OrderedIs ==
  ASSUME NEW is
  PROVE  Ordered(is).error = FALSE /\ Ordered(is).is = is
BY DEF Ordered

LEMMA DecideIs ==
  ASSUME NEW n \in Int
  PROVE  /\ Decide("<", n) = (n < 0) /\ Decide("<=", n) = (n <= 0)
         /\ Decide(">", n) = (n > 0) /\ Decide(">=", n) = (n >= 0)
BY DEF Decide

LEMMA OpsAre ==
  "<" \in Ops /\ "<=" \in Ops /\ ">" \in Ops /\ ">=" \in Ops
BY DEF Ops

\* As the sign of a number tells them.
LEMMA SignsAgree ==
  ASSUME NEW n \in Int, NEW order, \A op \in Ops : order[op] = Ordered(Decide(op, n)), NEW same, same <=> n = 0
  PROVE  Agrees(order, same)
<1>1. ASSUME NEW op \in Ops PROVE order[op].error = FALSE /\ order[op].is = Decide(op, n)
  <2>1. order[op] = Ordered(Decide(op, n))
    OBVIOUS
  <2> QED BY <2>1, OrderedIs, Zenon
<1>2. /\ order["<"].is = (n < 0) /\ order["<="].is = (n <= 0)
      /\ order[">"].is = (n > 0) /\ order[">="].is = (n >= 0)
  BY <1>1, OpsAre, DecideIs, Zenon
<1>3. \A op, other \in Ops : order[op].error = order[other].error
  BY <1>1
<1>4. /\ order["<"].is <=> n < 0
      /\ order["<="].is <=> n <= 0
      /\ order[">"].is <=> n > 0
      /\ order[">="].is <=> n >= 0
  BY <1>2, Zenon
<1>5. /\ n <= 0 <=> n < 0 \/ n = 0
      /\ n >= 0 <=> n > 0 \/ n = 0
      /\ ~(n < 0 /\ n = 0) /\ ~(n > 0 /\ n = 0) /\ ~(n < 0 /\ n > 0)
  OBVIOUS
<1> QED BY <1>3, <1>4, <1>5, Zenon DEF Agrees

\* Numbers are ordered as numbers, and a NaN is not.
LEMMA NumbersCompare ==
  ASSUME NEW a \in Scalars, NEW b \in Scalars, IsNumber(a), IsNumber(b), NEW equal, NEW order,
         NEW orders, \A op \in Ops : orders[op] = OrderBy(op, equal, order, a, b)
  PROVE  /\ ~orders["<"].error
         /\ orders["<"].is <=> ~IsNan(a) /\ ~IsNan(b) /\ Below(a, b)
         /\ orders[">"].is <=> ~IsNan(a) /\ ~IsNan(b) /\ Below(b, a)
         /\ Agrees(orders, NumberEquals(a, b))
<1> DEFINE nan == IsNan(a) \/ IsNan(b)
           n == NumericOrder(a, b)
<1>0. ~(a.kind = "str") /\ ~(a.kind \in {"tuple", "list"}) /\ ~(a.kind = "set")
  BY DEF IsNumber, IsInt, IsFloat
<1>1. ASSUME NEW op \in Ops PROVE orders[op] = Ordered(~nan /\ Decide(op, n))
  <2>1. orders[op] = OrderBy(op, equal, order, a, b)
    OBVIOUS
  <2>2. OrderBy(op, equal, order, a, b) = Ordered(~IsNan(a) /\ ~IsNan(b) /\ Decide(op, NumericOrder(a, b)))
    BY <1>0, Zenon DEF OrderBy
  <2>3. (~IsNan(a) /\ ~IsNan(b) /\ Decide(op, NumericOrder(a, b))) = (~nan /\ Decide(op, n))
    OBVIOUS
  <2> QED BY <2>1, <2>2, <2>3
<1>2. NumberEquals(a, b) <=> ~nan /\ SameNumber(a, b)
  BY NumberEqualsIs
<1>3. (\A op \in Ops : orders[op].error = FALSE) /\ ~orders["<"].error
  <2>1. \A op \in Ops : orders[op].error = FALSE
    BY <1>1, OrderedIs
  <2> QED BY <2>1, OpsAre
<1>4. CASE nan
  <2>1. \A op \in Ops : orders[op].is = FALSE
    <3>1. ASSUME NEW op \in Ops PROVE orders[op].is = (~nan /\ Decide(op, n))
      BY <1>1, OrderedIs
    <3>2. ASSUME NEW op \in Ops PROVE (~nan /\ Decide(op, n)) = FALSE
      BY <1>4
    <3> QED BY <3>1, <3>2
  <2>2. "<" \in Ops /\ ">" \in Ops /\ "<=" \in Ops /\ ">=" \in Ops
    BY DEF Ops
  <2> QED BY <1>2, <1>3, <1>4, <2>1, <2>2 DEF Agrees
<1>5. CASE ~nan
  <2>1. a \in Numeric /\ b \in Numeric
    BY <1>5 DEF Numeric
  <2>2. Tells(n, Below(a, b), SameNumber(a, b), Below(b, a))
    BY <2>1, NumericOrderIs
  <2> HIDE DEF n
  <2>3. \A op \in Ops : orders[op] = Ordered(Decide(op, n))
    <3>1. ASSUME NEW op \in Ops PROVE (~nan /\ Decide(op, n)) = Decide(op, n)
      <4>1. Decide(op, n) \in BOOLEAN
        <5>1. CASE op = "<"
          BY <5>1 DEF Decide
        <5>2. CASE op = "<="
          BY <5>2 DEF Decide
        <5>3. CASE op = ">"
          BY <5>3 DEF Decide
        <5>4. CASE op = ">="
          BY <5>4 DEF Decide
        <5> QED BY <5>1, <5>2, <5>3, <5>4 DEF Ops
      <4> QED BY <1>5, <4>1
    <3> QED BY <1>1, <3>1
  <2>4. NumberEquals(a, b) <=> n = 0
    BY <1>2, <1>5, <2>2 DEF Tells
  <2>5. Agrees(orders, NumberEquals(a, b))
    <3>1. n \in Int
      BY <2>2 DEF Tells
    <3> QED BY <2>3, <2>4, <3>1, SignsAgree
  <2>6. n \in Int
    BY <2>2 DEF Tells
  <2>7. orders["<"].is = (n < 0) /\ orders[">"].is = (n > 0)
    BY <2>3, <2>6, OpsAre, OrderedIs, DecideIs
  <2> QED BY <1>3, <1>5, <2>2, <2>5, <2>7 DEF Tells
<1> QED BY <1>4, <1>5

\* Sets by containment.
LEMMA SetsCompare ==
  ASSUME NEW V, NEW equal, NEW hash, NEW order, Equivalent(V, equal),
         NEW a \in Made(V, equal, hash), NEW b \in Made(V, equal, hash), a.kind = "set", b.kind = "set",
         NEW orders, \A op \in Ops : orders[op] = OrderBy(op, equal, order, a, b)
  PROVE  Agrees(orders, EqualsBy(equal, a, b))
<1> DEFINE subset == Within(equal, a, b)
           superset == Within(equal, b, a)
<1>0. ~IsNumber(a) /\ ~IsNumber(b)
  BY DEF IsNumber, IsInt, IsFloat
<1>1. \A op \in Ops : orders[op] = Ordered(Containment(op, equal, a, b))
  BY <1>0 DEF OrderBy
<1>2. \A op, other \in Ops : orders[op].error = orders[other].error
  <2>1. ASSUME NEW op \in Ops PROVE orders[op].error = FALSE
    BY <1>1, OrderedIs, Zenon
  <2> QED BY <2>1
<1>3. /\ orders["<"].is = (subset /\ ~superset)
      /\ orders["<="].is = subset
      /\ orders[">"].is = (superset /\ ~subset)
      /\ orders[">="].is = superset
  <2>1. \A op \in Ops : orders[op].is = Containment(op, equal, a, b)
    BY <1>1, OrderedIs
  <2>2. /\ Containment("<", equal, a, b) = (subset /\ ~superset)
        /\ Containment("<=", equal, a, b) = subset
        /\ Containment(">", equal, a, b) = (superset /\ ~subset)
        /\ Containment(">=", equal, a, b) = superset
    BY DEF Containment
  <2> HIDE DEF subset, superset
  <2> QED BY <2>1, <2>2, OpsAre
<1>4. EqualsBy(equal, a, b) <=> Len(a.of) = Len(b.of) /\ subset
  BY <1>0, EqualsByIs
<1>5. a.of \in Seq(V) /\ b.of \in Seq(V) /\ Len(a.of) \in Nat /\ Len(b.of) \in Nat
      /\ \A i, j \in DOMAIN a.of : SameValue(equal, a.of[i], a.of[j]) => i = j
  BY MadeIs
<1>6. EqualsBy(equal, a, b) => superset
  BY <1>4, <1>5, WithinBoth
<1>7. subset /\ superset => EqualsBy(equal, a, b)
  <2>1. subset /\ superset => Len(a.of) <= Len(b.of) /\ Len(b.of) <= Len(a.of)
    BY DEF Within
  <2> QED BY <1>4, <1>5, <2>1
<1> HIDE DEF subset, superset
<1> QED BY <1>2, <1>3, <1>4, <1>6, <1>7 DEF Agrees

\* Sequences by the first place that differs.
LEMMA SequencesCompare ==
  ASSUME NEW V, NEW equal, NEW hash, NEW order, Equivalent(V, equal),
         \A x, y \in V : Agrees(order[x][y], equal[x][y]),
         NEW a \in Made(V, equal, hash), NEW b \in Made(V, equal, hash), a.kind = b.kind, a.kind \in {"tuple", "list"},
         NEW orders, \A op \in Ops : orders[op] = OrderBy(op, equal, order, a, b)
  PROVE  Agrees(orders, EqualsBy(equal, a, b))
<1> DEFINE m == Len(a.of)
           n == Len(b.of)
           both == 1 .. Min({m, n})
           differ == {i \in both : ~SameValue(equal, a.of[i], b.of[i])}
           first == Min(differ)
<1>0. ~IsNumber(a) /\ ~IsNumber(b)
  BY DEF IsNumber, IsInt, IsFloat
<1>1. \A op \in Ops : orders[op] = IF differ = {} THEN Ordered(Decide(op, m - n)) ELSE order[a.of[first]][b.of[first]][op]
  BY <1>0 DEF OrderBy, SequenceOrder
<1>2. m \in Nat /\ n \in Nat /\ DOMAIN a.of = 1 .. m /\ DOMAIN b.of = 1 .. n
      /\ (\A i \in 1 .. m : a.of[i] \in V) /\ (\A i \in 1 .. n : b.of[i] \in V)
  BY MadeIs
<1>3. EqualsBy(equal, a, b) <=> m = n /\ \A i \in 1 .. m : SameValue(equal, a.of[i], b.of[i])
  BY <1>0, <1>2, EqualsByIs
<1>4. Min({m, n}) \in {m, n} /\ Min({m, n}) \in Nat /\ Min({m, n}) <= m /\ Min({m, n}) <= n
  <2> HIDE DEF m, n
  <2> DEFINE T == {m, n}
  <2>1. T \subseteq Nat /\ T # {} /\ m \in T /\ n \in T
    BY <1>2
  <2> HIDE DEF T
  <2>2. Min(T) \in T /\ \A k \in T : Min(T) <= k
    BY <2>1, LeastNatural DEF Min
  <2> QED BY <2>1, <2>2 DEF T
<1> HIDE DEF m, n
<1>5. CASE differ = {}
  <2>1. EqualsBy(equal, a, b) <=> m = n
    <3>1. m = n => Min({m, n}) = m
      BY <1>4
    <3>2. \A i \in 1 .. Min({m, n}) : SameValue(equal, a.of[i], b.of[i])
      BY <1>5
    <3> QED BY <1>3, <3>1, <3>2
  <2>2. \A op \in Ops : orders[op] = Ordered(Decide(op, m - n))
    BY <1>1, <1>5
  <2>3. m - n \in Int /\ (m = n <=> m - n = 0)
    BY <1>2
  <2> HIDE DEF differ
  <2> QED BY <2>1, <2>2, <2>3, SignsAgree
<1>6. CASE differ # {}
  <2>1. differ \subseteq Nat /\ first \in differ
    <3>1. differ \subseteq Nat
      BY <1>4
    <3> HIDE DEF differ
    <3> QED BY <1>6, <3>1, LeastNatural DEF Min
  <2>2. first \in 1 .. m /\ first \in 1 .. n /\ ~SameValue(equal, a.of[first], b.of[first])
    BY <1>2, <1>4, <2>1
  <2> HIDE DEF first, differ
  <2> DEFINE x == a.of[first]
             y == b.of[first]
  <2>3. x \in V /\ y \in V /\ ~equal[x][y]
    BY <1>2, <2>2 DEF SameValue
  <2>4. Agrees(order[x][y], equal[x][y])
    BY <2>3
  <2>5. \A op \in Ops : orders[op] = order[x][y][op]
    BY <1>1, <1>6
  <2>6. ~EqualsBy(equal, a, b)
    BY <1>3, <2>2
  <2> HIDE DEF x, y
  <2>7. orders["<"] = order[x][y]["<"] /\ orders[">"] = order[x][y][">"]
        /\ orders["<="] = order[x][y]["<="] /\ orders[">="] = order[x][y][">="]
    BY <2>5 DEF Ops
  <2> QED BY <2>3, <2>4, <2>5, <2>6, <2>7 DEF Agrees
<1> QED BY <1>5, <1>6

LEMMA OrdersAgree ==
  ASSUME NEW V, NEW equal, NEW hash, NEW order, Equivalent(V, equal),
         \A x, y \in V : Agrees(order[x][y], equal[x][y]),
         NEW a \in Made(V, equal, hash), NEW b \in Made(V, equal, hash),
         NEW orders, \A op \in Ops : orders[op] = OrderBy(op, equal, order, a, b)
  PROVE  Agrees(orders, EqualsBy(equal, a, b))
<1>1. CASE IsNumber(a) /\ IsNumber(b)
  <2>1. a \in Scalars /\ b \in Scalars
    BY <1>1, MadeIs
  <2>2. Agrees(orders, NumberEquals(a, b))
    BY <1>1, <2>1, NumbersCompare
  <2>3. EqualsBy(equal, a, b) <=> NumberEquals(a, b)
    BY <1>1, EqualsByIs
  <2> QED BY <2>2, <2>3 DEF Agrees
<1>2. CASE a.kind = b.kind /\ a.kind = "set"
  BY <1>2, SetsCompare
<1>3. CASE a.kind = b.kind /\ a.kind \in {"tuple", "list"}
  BY <1>3, SequencesCompare
<1>4. CASE a.kind = b.kind /\ a.kind = "str"
  <2>0. ~IsNumber(a) /\ ~IsNumber(b)
    BY <1>4 DEF IsNumber, IsInt, IsFloat
  <2>1. a \in Scalars /\ b \in Scalars
    <3>1. b.kind = "str" /\ a.kind = "str"
      BY <1>4
    <3> QED BY <3>1, MadeIs
  <2>2. a.at.n \in Int /\ b.at.n \in Int
    BY <2>1, ScalarIs
  <2>3. EqualsBy(equal, a, b) <=> a.at.n = b.at.n
    BY <1>4, <2>0, EqualsByIs
  <2>4. \A op \in Ops : orders[op] = Ordered(Decide(op, a.at.n - b.at.n))
    BY <1>4, <2>0 DEF OrderBy
  <2>5. a.at.n - b.at.n \in Int /\ (EqualsBy(equal, a, b) <=> a.at.n - b.at.n = 0)
    BY <2>2, <2>3
  <2> QED BY <2>4, <2>5, SignsAgree
<1>5. ASSUME ~(IsNumber(a) /\ IsNumber(b)), a.kind # b.kind PROVE Agrees(orders, EqualsBy(equal, a, b))
  <2>1. \A op \in Ops : orders[op] = TypeError
    BY <1>5 DEF OrderBy
  <2>2. "<" \in Ops
    BY DEF Ops
  <2> QED BY <2>1, <2>2 DEF Agrees, TypeError
<1>6. ASSUME ~(IsNumber(a) /\ IsNumber(b)), a.kind = b.kind PROVE a.kind \in {"str", "tuple", "list", "set"}
  BY <1>6, MadeIs DEF IsNumber, IsInt, IsFloat
<1> QED BY <1>1, <1>2, <1>3, <1>4, <1>5, <1>6

-----------------------------------------------------------------------------
(* And so for values of any nesting.                                       *)

Levelled(n) ==
  /\ ValuesUpTo[n] \subseteq Nested[n]
  /\ Equivalent(ValuesUpTo[n], EqualUpTo[n])
  /\ \A a, b \in ValuesUpTo[n] : EqualUpTo[n][a][b] => HashUpTo[n][a] = HashUpTo[n][b]
  /\ \A a, b \in ValuesUpTo[n] : Agrees(OrderUpTo[n][a][b], EqualUpTo[n][a][b])

\* What a level is, of two of its values.
LEMMA LevelIs ==
  ASSUME NEW n \in 1 .. Nesting, ValuesUpTo[n - 1] \subseteq Nested[n - 1]
  PROVE  /\ ValuesUpTo[n] = Made(ValuesUpTo[n - 1], EqualUpTo[n - 1], HashUpTo[n - 1])
         /\ ValuesUpTo[n] \subseteq Nested[n]
         /\ \A a, b \in ValuesUpTo[n] :
              /\ EqualUpTo[n][a][b] <=> EqualsBy(EqualUpTo[n - 1], a, b)
              /\ HashUpTo[n][a] = HashBy(HashUpTo[n - 1], a)
              /\ \A op \in Ops : OrderUpTo[n][a][b][op] = OrderBy(op, EqualUpTo[n - 1], OrderUpTo[n - 1], a, b)
<1>1. ValuesUpTo[n] = Made(ValuesUpTo[n - 1], EqualUpTo[n - 1], HashUpTo[n - 1])
  BY ValuesAre
<1>2. Nested[n] = Simple \union Containing(Nested[n - 1])
  BY NestedIs
<1>3. Containing(ValuesUpTo[n - 1]) \subseteq Containing(Nested[n - 1])
  <2>1. Seq(ValuesUpTo[n - 1]) \subseteq Seq(Nested[n - 1])
    <3>1. ASSUME NEW s \in Seq(ValuesUpTo[n - 1]) PROVE s \in Seq(Nested[n - 1])
      <4>1. DOMAIN s = 1 .. Len(s) /\ Len(s) \in Nat /\ s = [i \in 1 .. Len(s) |-> s[i]]
            /\ \A i \in 1 .. Len(s) : s[i] \in Nested[n - 1]
        BY LenProperties
      <4> QED BY <4>1, SeqDef
    <3> QED BY <3>1
  <2> QED BY <2>1 DEF Containing
<1>4. ValuesUpTo[n] \subseteq Nested[n]
  BY <1>1, <1>2, <1>3 DEF Made, Scalars
<1>5. ASSUME NEW a \in ValuesUpTo[n], NEW b \in ValuesUpTo[n]
      PROVE  /\ EqualUpTo[n][a][b] <=> EqualsBy(EqualUpTo[n - 1], a, b)
             /\ HashUpTo[n][a] = HashBy(HashUpTo[n - 1], a)
             /\ \A op \in Ops : OrderUpTo[n][a][b][op] = OrderBy(op, EqualUpTo[n - 1], OrderUpTo[n - 1], a, b)
  <2>1. a \in Nested[n] /\ b \in Nested[n]
    BY <1>4
  <2>2. EqualUpTo[n][a][b] <=> EqualsBy(EqualUpTo[n - 1], a, b)
    <3>1. EqualUpTo[n] = [x \in Nested[n] |-> [y \in Nested[n] |-> EqualsBy(EqualUpTo[n - 1], x, y)]]
      BY EqualsAre
    <3> QED BY <2>1, <3>1
  <2>3. HashUpTo[n][a] = HashBy(HashUpTo[n - 1], a)
    <3>1. HashUpTo[n] = [x \in Nested[n] |-> HashBy(HashUpTo[n - 1], x)]
      BY HashesAre
    <3> QED BY <2>1, <3>1
  <2>4. \A op \in Ops : OrderUpTo[n][a][b][op] = OrderBy(op, EqualUpTo[n - 1], OrderUpTo[n - 1], a, b)
    <3>1. OrderUpTo[n] = [x \in Nested[n] |-> [y \in Nested[n] |->
                            [op \in Ops |-> OrderBy(op, EqualUpTo[n - 1], OrderUpTo[n - 1], x, y)]]]
      BY OrdersAre
    <3> QED BY <2>1, <3>1
  <2> QED BY <2>2, <2>3, <2>4
<1> QED BY <1>1, <1>4, <1>5

LEMMA LevelsAgree ==
  \A n \in 0 .. Nesting : Levelled(n)
<1> DEFINE A == {n \in Nat : n <= Nesting => Levelled(n)}
<1>1. 0 \in A
  <2>1. ValuesUpTo[0] = {}
    BY ValuesAre
  <2> QED BY <2>1 DEF Levelled, Equivalent
<1>2. ASSUME NEW k \in A PROVE k + 1 \in A
  <2>1. k \in Nat
    OBVIOUS
  <2> DEFINE n == k + 1
  <2>2. n \in Nat /\ n - 1 = k
    BY <2>1
  <2>3. ASSUME n <= Nesting PROVE Levelled(n)
    <3>1. n \in 1 .. Nesting /\ Levelled(n - 1)
      BY <1>2, <2>1, <2>3, NestingAssumption
    <3> HIDE DEF n
    <3> DEFINE V == ValuesUpTo[n - 1]
               equal == EqualUpTo[n - 1]
               hash == HashUpTo[n - 1]
               order == OrderUpTo[n - 1]
    <3>2. /\ V \subseteq Nested[n - 1] /\ Equivalent(V, equal)
          /\ \A a, b \in V : equal[a][b] => hash[a] = hash[b]
          /\ \A a, b \in V : Agrees(order[a][b], equal[a][b])
      BY <3>1 DEF Levelled
    <3>3. /\ ValuesUpTo[n] = Made(V, equal, hash)
          /\ ValuesUpTo[n] \subseteq Nested[n]
          /\ \A a, b \in ValuesUpTo[n] :
               /\ EqualUpTo[n][a][b] <=> EqualsBy(equal, a, b)
               /\ HashUpTo[n][a] = HashBy(hash, a)
               /\ \A op \in Ops : OrderUpTo[n][a][b][op] = OrderBy(op, equal, order, a, b)
      BY <3>1, <3>2, LevelIs
    <3> HIDE DEF V, equal, hash, order
    <3>4. Equivalent(ValuesUpTo[n], EqualUpTo[n])
      <4>1. ASSUME NEW a \in ValuesUpTo[n], NEW b \in ValuesUpTo[n], EqualUpTo[n][a][b] PROVE EqualUpTo[n][b][a]
        <5>1. EqualsBy(equal, b, a)
          BY <3>2, <3>3, <4>1, EqualTurned
        <5> QED BY <3>3, <5>1
      <4>2. ASSUME NEW a \in ValuesUpTo[n], NEW b \in ValuesUpTo[n], NEW c \in ValuesUpTo[n],
                   EqualUpTo[n][a][b], EqualUpTo[n][b][c]
            PROVE  EqualUpTo[n][a][c]
        <5>1. EqualsBy(equal, a, b) /\ EqualsBy(equal, b, c)
          BY <3>3, <4>2
        <5>2. EqualsBy(equal, a, c)
          BY <3>2, <3>3, <5>1, EqualThrough
        <5> QED BY <3>3, <5>2
      <4> QED BY <4>1, <4>2 DEF Equivalent
    <3>5. ASSUME NEW a \in ValuesUpTo[n], NEW b \in ValuesUpTo[n], EqualUpTo[n][a][b] PROVE HashUpTo[n][a] = HashUpTo[n][b]
      <4>1. HashBy(hash, a) = HashBy(hash, b)
        BY <3>2, <3>3, <3>5, EqualHashes
      <4> QED BY <3>3, <4>1
    <3>6. ASSUME NEW a \in ValuesUpTo[n], NEW b \in ValuesUpTo[n] PROVE Agrees(OrderUpTo[n][a][b], EqualUpTo[n][a][b])
      <4> DEFINE orders == OrderUpTo[n][a][b]
      <4>1. \A op \in Ops : orders[op] = OrderBy(op, equal, order, a, b)
        BY <3>3
      <4> HIDE DEF orders
      <4>2. Agrees(orders, EqualsBy(equal, a, b))
        BY <3>2, <3>3, <4>1, OrdersAgree
      <4>3. EqualUpTo[n][a][b] <=> EqualsBy(equal, a, b)
        BY <3>3
      <4> QED BY <4>2, <4>3 DEF Agrees, orders
    <3> QED BY <3>3, <3>4, <3>5, <3>6 DEF Levelled
  <2> QED BY <2>2, <2>3
<1>3. A = Nat
  <2>1. A \subseteq Nat
    OBVIOUS
  <2> HIDE DEF A
  <2> QED BY <1>1, <1>2, <2>1, Induction
<1>4. ASSUME NEW n \in 0 .. Nesting PROVE Levelled(n)
  <2>1. n \in Nat /\ n <= Nesting
    BY NestingAssumption
  <2>2. n \in A
    BY <1>3, <2>1
  <2> QED BY <2>1, <2>2
<1> QED BY <1>4
\* So for all values: what there is to say of two of them.
LEMMA ValuesCompare ==
  ASSUME NEW a \in AllValues, NEW b \in AllValues
  PROVE  /\ Equals(a, b) => Hash(a) = Hash(b)
         /\ IsNumber(a) => Hash(a).hashable
         /\ IsNumber(a) /\ IsNumber(b) =>
              /\ Equals(a, b) <=> ~IsNan(a) /\ ~IsNan(b) /\ SameNumber(a, b)
              /\ ~Order(a, b)["<"].error
              /\ Order(a, b)["<"].is <=> ~IsNan(a) /\ ~IsNan(b) /\ Below(a, b)
              /\ Order(a, b)[">"].is <=> ~IsNan(a) /\ ~IsNan(b) /\ Below(b, a)
         /\ Agrees(Order(a, b), Equals(a, b))
<1> DEFINE n == Nesting
           V == ValuesUpTo[n - 1]
           equal == EqualUpTo[n - 1]
           hash == HashUpTo[n - 1]
           order == OrderUpTo[n - 1]
           orders == Order(a, b)
<1>1. n \in 1 .. Nesting
  <2>1. Nesting # 0
    BY ValuesAre DEF AllValues
  <2> QED BY <2>1, NestingAssumption
<1>2. Levelled(n) /\ a \in ValuesUpTo[n] /\ b \in ValuesUpTo[n]
  <2>1. n \in 0 .. Nesting
    BY NestingAssumption
  <2> QED BY <2>1, LevelsAgree DEF AllValues
<1>3. Equals(a, b) = EqualUpTo[n][a][b] /\ Hash(a) = HashUpTo[n][a] /\ Hash(b) = HashUpTo[n][b] /\ orders = OrderUpTo[n][a][b]
  BY DEF Equals, Hash, Order
<1>4. Levelled(n - 1)
  <2>1. n - 1 \in 0 .. Nesting
    BY <1>1, NestingAssumption
  <2> QED BY <2>1, LevelsAgree
<1>5. ValuesUpTo[n - 1] \subseteq Nested[n - 1]
  BY <1>4 DEF Levelled
<1> HIDE DEF n
<1>6. a \in Made(V, equal, hash) /\ b \in Made(V, equal, hash)
      /\ (EqualUpTo[n][a][b] <=> EqualsBy(equal, a, b)) /\ HashUpTo[n][a] = HashBy(hash, a)
      /\ \A op \in Ops : OrderUpTo[n][a][b][op] = OrderBy(op, equal, order, a, b)
  BY <1>1, <1>2, <1>5, LevelIs
<1>7. /\ EqualUpTo[n][a][b] => HashUpTo[n][a] = HashUpTo[n][b]
      /\ Agrees(OrderUpTo[n][a][b], EqualUpTo[n][a][b])
  BY <1>2 DEF Levelled
<1>8. ASSUME IsNumber(a) PROVE Hash(a).hashable
  <2>1. HashBy(hash, a) = Hashed(IF IsInt(a) THEN HashInt(a.at.n) ELSE HashFloat(a))
    BY <1>8 DEF HashBy, IsNumber, IsInt, IsFloat
  <2> QED BY <1>3, <1>6, <2>1 DEF Hashed
<1>9. ASSUME IsNumber(a), IsNumber(b)
      PROVE  /\ EqualsBy(equal, a, b) <=> ~IsNan(a) /\ ~IsNan(b) /\ SameNumber(a, b)
             /\ ~orders["<"].error
             /\ orders["<"].is <=> ~IsNan(a) /\ ~IsNan(b) /\ Below(a, b)
             /\ orders[">"].is <=> ~IsNan(a) /\ ~IsNan(b) /\ Below(b, a)
  <2>1. a \in Scalars /\ b \in Scalars
    BY <1>6, <1>9, MadeIs
  <2>2. EqualsBy(equal, a, b) <=> NumberEquals(a, b)
    BY <1>6, <1>9, EqualsByIs
  <2>3. \A op \in Ops : orders[op] = OrderBy(op, equal, order, a, b)
    BY <1>3, <1>6
  <2> HIDE DEF orders, equal, order
  <2>4. IsNumber(a) /\ IsNumber(b)
    BY <1>9
  <2>5. ~orders["<"].error
    BY <2>1, <2>3, <2>4, NumbersCompare
  <2>6. orders["<"].is <=> ~IsNan(a) /\ ~IsNan(b) /\ Below(a, b)
    BY <2>1, <2>3, <2>4, NumbersCompare
  <2>7. orders[">"].is <=> ~IsNan(a) /\ ~IsNan(b) /\ Below(b, a)
    BY <2>1, <2>3, <2>4, NumbersCompare
  <2> QED BY <1>9, <2>1, <2>2, <2>5, <2>6, <2>7, NumberEqualsIs, OpsAre
<1> HIDE DEF orders, V, equal, hash, order
<1>10. Equals(a, b) <=> EqualsBy(equal, a, b)
  BY <1>3, <1>6
<1>11. Agrees(orders, Equals(a, b)) /\ (Equals(a, b) => Hash(a) = Hash(b))
  BY <1>3, <1>7
<1> QED BY <1>8, <1>9, <1>10, <1>11 DEF orders

=============================================================================
