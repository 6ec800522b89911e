--------------------------- MODULE AnswersProofs ----------------------------
(***************************************************************************)
(* Integers are numbers, a range counts what it gives, a slice selects     *)
(* what its ends and step say and is read, written and deleted there, a    *)
(* map keeps step with its sources, a value is unpacked in order, sets     *)
(* work on what their arguments left of them, and calls and attributes are *)
(* what was written: for every word, every integer, every slice of a list  *)
(* of any length, every source, every set, every function and every        *)
(* history.                                                                *)
(***************************************************************************)
EXTENDS ObjectsProofs, ValuesProofs

-----------------------------------------------------------------------------
(* Division.                                                               *)

(* Rust's quotient and remainder: the remainder is smaller than the        *)
(* divisor and has the sign of the dividend.                               *)
LEMMA Truncated ==
  ASSUME NEW a \in Int, NEW b \in Int, b # 0
  PROVE  /\ Quotient(a, b) \in Int /\ Remainder(a, b) \in Int
         /\ a = b * Quotient(a, b) + Remainder(a, b)
         /\ Magnitude(Remainder(a, b)) < Magnitude(b)
         /\ IF a < 0 THEN Remainder(a, b) <= 0 ELSE Remainder(a, b) >= 0
         /\ Magnitude(b) * Magnitude(Quotient(a, b)) <= Magnitude(a)
         /\ IF SignOf(a) = SignOf(b) THEN Quotient(a, b) >= 0 ELSE Quotient(a, b) <= 0
<1> DEFINE x == Magnitude(a)
           d == Magnitude(b)
           m == x \div d
<1>1. x \in Nat /\ d \in Nat /\ d > 0 /\ a = SignOf(a) * x /\ b = SignOf(b) * d
  BY DEF Magnitude, SignOf
<1>2. m \in Nat /\ d * m <= x /\ x < d * m + d
  <2> HIDE DEF x, d
  <2> QED BY <1>1, Divided
<1>3. Quotient(a, b) = SignOf(a) * SignOf(b) * m
  BY DEF Quotient
<1>4. Remainder(a, b) = a - b * Quotient(a, b)
  BY DEF Remainder
<1>5. (a < 0 => SignOf(a) = -1 /\ x = -a) /\ (a >= 0 => SignOf(a) = 1 /\ x = a)
        /\ (b < 0 => SignOf(b) = -1 /\ d = -b) /\ (b > 0 => SignOf(b) = 1 /\ d = b)
  BY DEF SignOf, Magnitude
<1> DEFINE q == Quotient(a, b)
           r == Remainder(a, b)
           e == d * m
<1> HIDE DEF x, d, m
<1>6. e \in Nat /\ e <= x /\ x < e + d
  BY <1>1, <1>2
<1>7. CASE a >= 0 /\ b > 0
  <2>1. q = m /\ b * q = e
    BY <1>3, <1>5, <1>7, <1>2
  <2> HIDE DEF e
  <2>2. r = a - e
    BY <2>1, <1>4
  <2>3. d * Magnitude(q) = e
    BY <2>1, <1>2, <1>5, <1>7 DEF Magnitude, e
  <2> HIDE DEF q, r
  <2> QED BY <1>1, <1>2, <1>5, <1>6, <1>7, <2>1, <2>2, <2>3 DEF Magnitude, d, x, q, r
<1>8. CASE a >= 0 /\ b < 0
  <2>1. q = -m /\ b * q = e
    BY <1>3, <1>5, <1>8, <1>2
  <2> HIDE DEF e
  <2>2. r = a - e
    BY <2>1, <1>4
  <2>3. d * Magnitude(q) = e
    BY <2>1, <1>2, <1>5, <1>8 DEF Magnitude, e
  <2> HIDE DEF q, r
  <2> QED BY <1>1, <1>2, <1>5, <1>6, <1>8, <2>1, <2>2, <2>3 DEF Magnitude, d, x, q, r
<1>9. CASE a < 0 /\ b > 0
  <2>1. q = -m /\ b * q = -e
    BY <1>3, <1>5, <1>9, <1>2
  <2> HIDE DEF e
  <2>2. r = a + e
    BY <2>1, <1>4, <1>6
  <2>3. d * Magnitude(q) = e
    BY <2>1, <1>2, <1>5, <1>9 DEF Magnitude, e
  <2> HIDE DEF q, r
  <2> QED BY <1>1, <1>2, <1>5, <1>6, <1>9, <2>1, <2>2, <2>3 DEF Magnitude, d, x, q, r
<1>10. CASE a < 0 /\ b < 0
  <2>1. q = m /\ b * q = -e
    BY <1>3, <1>5, <1>10, <1>2
  <2> HIDE DEF e
  <2>2. r = a + e
    BY <2>1, <1>4, <1>6
  <2>3. d * Magnitude(q) = e
    BY <2>1, <1>2, <1>5, <1>10 DEF Magnitude, e
  <2> HIDE DEF q, r
  <2> QED BY <1>1, <1>2, <1>5, <1>6, <1>10, <2>1, <2>2, <2>3 DEF Magnitude, d, x, q, r
<1> QED BY <1>7, <1>8, <1>9, <1>10

(* The correction gives the floor.                                         *)
LEMMA Corrected ==
  ASSUME NEW a \in Int, NEW b \in Int, b # 0
  PROVE  IF Disagrees(Remainder(a, b), b)
           THEN /\ FloorOf(a, b, Quotient(a, b) - 1, Remainder(a, b) + b)
                /\ Quotient(a, b) <= 0 /\ Magnitude(b) > 1
         ELSE FloorOf(a, b, Quotient(a, b), Remainder(a, b))
<1> DEFINE q == Quotient(a, b)
           r == Remainder(a, b)
           e == q * b
<1>1. q \in Int /\ r \in Int /\ a = b * q + r /\ Magnitude(r) < Magnitude(b)
        /\ (IF a < 0 THEN r <= 0 ELSE r >= 0)
        /\ (IF SignOf(a) = SignOf(b) THEN q >= 0 ELSE q <= 0)
  BY Truncated
<1> HIDE DEF q, r
<1>2. a = e + r /\ e \in Int /\ (q - 1) * b = e - b
  BY <1>1
<1> HIDE DEF e
<1>3. CASE Disagrees(r, b)
  <2>1. r # 0 /\ (r < 0) # (b < 0)
    BY <1>3 DEF Disagrees
  <2>2. SignOf(a) # SignOf(b) /\ Magnitude(b) > 1
    BY <1>1, <2>1 DEF SignOf, Magnitude
  <2>3. IF b > 0 THEN 0 <= r + b /\ r + b < b ELSE b < r + b /\ r + b <= 0
    BY <1>1, <2>1 DEF Magnitude
  <2>4. a = (q - 1) * b + (r + b)
    BY <1>1, <1>2
  <2>5. FloorOf(a, b, q - 1, r + b)
    BY <2>3, <2>4 DEF FloorOf
  <2> QED BY <1>1, <1>3, <2>2, <2>5 DEF q, r
<1>4. CASE ~Disagrees(r, b)
  <2>1. r = 0 \/ (r < 0) = (b < 0)
    BY <1>4 DEF Disagrees
  <2>2. IF b > 0 THEN 0 <= r /\ r < b ELSE b < r /\ r <= 0
    BY <1>1, <2>1 DEF Magnitude
  <2>3. FloorOf(a, b, q, r)
    BY <1>2, <2>2 DEF FloorOf, e
  <2> QED BY <1>4, <2>3 DEF q, r
<1> QED BY <1>3, <1>4

LEMMA DivModIs ==
  ASSUME NEW a \in Ints(Int), NEW b \in Ints(Int), b.n # 0
  PROVE  /\ Normal(DivMod(a, b)[1]) /\ Normal(DivMod(a, b)[2])
         /\ DivMod(a, b)[1].n \in Int /\ DivMod(a, b)[2].n \in Int
         /\ FloorOf(a.n, b.n, DivMod(a, b)[1].n, DivMod(a, b)[2].n)
<1> DEFINE x == a.n
           y == b.n
           q == Quotient(x, y)
           r == Remainder(x, y)
<1>1. x \in Int /\ y \in Int /\ y # 0 /\ (a.arm = "small" => x \in Word) /\ (b.arm = "small" => y \in Word)
  BY IntIs
<1> HIDE DEF x, y
<1>2. q \in Int /\ r \in Int /\ Magnitude(r) < Magnitude(y)
        /\ (IF x < 0 THEN r <= 0 ELSE r >= 0)
        /\ Magnitude(y) * Magnitude(q) <= Magnitude(x)
  BY <1>1, Truncated
<1>3. IF Disagrees(r, y) THEN FloorOf(x, y, q - 1, r + y) /\ q <= 0 /\ Magnitude(y) > 1
      ELSE FloorOf(x, y, q, r)
  BY <1>1, Corrected
<1> DEFINE words == a.arm = "small" /\ b.arm = "small" /\ q \in Word
<1> HIDE DEF q, r
<1>4. CASE words /\ Disagrees(r, y)
  <2>1. DivMod(a, b) = <<Small(Wrap(q - 1)), Small(Wrap(r + y))>>
    BY <1>4 DEF DivMod, q, r, x, y
  <2>2. q - 1 \in Word
    <3> SUFFICES ASSUME q - 1 < WordMin PROVE FALSE
      BY <1>2, <1>4, WordIs
    <3>1. -q = WordMax + 1 /\ Magnitude(q) = WordMax + 1
      BY <1>2, <1>4, WordIs DEF Magnitude
    <3>2. Magnitude(x) <= WordMax + 1
      BY <1>1, <1>4, WordIs DEF Magnitude
    <3> DEFINE m == Magnitude(q)
               d == Magnitude(y)
    <3>3. m \in Nat /\ m > 0 /\ d \in Nat /\ d >= 2 /\ d * m <= m
      <4>1. d \in Nat /\ d > 1
        BY <1>1, <1>3, <1>4 DEF Magnitude
      <4>2. d * m <= Magnitude(x) /\ Magnitude(x) \in Int
        BY <1>1, <1>2 DEF Magnitude
      <4> HIDE DEF d
      <4> QED BY <3>1, <3>2, <4>1, <4>2, WordIs
    <3> HIDE DEF m, d
    <3>4. (d - 2) * m >= 0 /\ (d - 2) * m = d * m - 2 * m
      BY <3>3
    <3> QED BY <3>3, <3>4
  <2>3. r + y \in Word
    BY <1>1, <1>2, <1>3, <1>4, WordIs DEF FloorOf
  <2>4. Wrap(q - 1) = q - 1 /\ Wrap(r + y) = r + y
    BY <2>2, <2>3, WrapOfWord
  <2>5. Is(Small(q - 1), q - 1) /\ Is(Small(r + y), r + y)
    BY <2>2, <2>3, SmallIs
  <2> QED BY <1>2, <1>1, <1>3, <1>4, <2>1, <2>4, <2>5 DEF Is, x, y
<1>5. CASE words /\ ~Disagrees(r, y)
  <2>1. DivMod(a, b) = <<Small(q), Small(r)>>
    BY <1>5 DEF DivMod, q, r, x, y
  <2>2. r \in Word
    BY <1>1, <1>2, <1>3, <1>5, WordIs DEF FloorOf
  <2>3. Is(Small(q), q) /\ Is(Small(r), r)
    BY <1>5, <2>2, SmallIs
  <2> QED BY <1>2, <1>3, <1>5, <2>1, <2>3 DEF Is, x, y
<1>6. CASE ~words
  <2>1. DivMod(a, b) = IF Disagrees(r, y) THEN <<FromBig(q - 1), FromBig(r + y)>>
                       ELSE <<FromBig(q), FromBig(r)>>
    BY <1>6 DEF DivMod, q, r, x, y
  <2>2. Is(FromBig(q), q) /\ Is(FromBig(r), r) /\ Is(FromBig(q - 1), q - 1) /\ Is(FromBig(r + y), r + y)
    BY <1>1, <1>2, FromBigIs
  <2>3. CASE Disagrees(r, y)
    BY <1>1, <1>2, <1>3, <2>1, <2>2, <2>3 DEF Is, x, y
  <2>4. CASE ~Disagrees(r, y)
    BY <1>2, <1>3, <2>1, <2>2, <2>4 DEF Is, x, y
  <2> QED BY <2>3, <2>4
<1> QED BY <1>4, <1>5, <1>6

-----------------------------------------------------------------------------
(* Powers and shifts.                                                      *)

Kept(r, v, e, refused) == IF e < 0 \/ refused THEN r = NoInt ELSE Is(r, v)

LEMMA PowIs ==
  ASSUME NEW a \in Ints(Int), NEW e \in Ints(Int)
  PROVE  Kept(Pow(a, e), IF e.n < 0 THEN 0 ELSE Power(a.n, e.n), e.n,
              e.n > ExponentMax \/ (Bits(a.n) * e.n > MaxBits /\ Power(a.n, e.n) \notin Word))
<1> DEFINE x == a.n
           k == e.n
           p == Power(x, k)
           long == Bits(x) * k > MaxBits
<1>1. x \in Int /\ k \in Int /\ (a.arm = "small" <=> x \in Word) /\ (e.arm = "big" <=> k \notin Word)
  BY IntIs
<1>2. ExponentMax \in Int /\ ExponentMax <= WordMax
  BY ExponentAssumption, WordIs
<1> HIDE DEF x, k
<1>3. k >= 0 => p \in Int
  BY <1>1, PowerStep
<1> HIDE DEF p
<1>4. CASE k < 0 \/ k > ExponentMax
  BY <1>1, <1>4 DEF Pow, Kept, x, k
<1>5. CASE ~(k < 0 \/ k > ExponentMax)
  <2>1. e.arm # "big"
    BY <1>1, <1>2, <1>5, WordIs
  <2>2. Pow(a, e) = IF x \in Word /\ p \in Word THEN Small(p)
                    ELSE IF long THEN NoInt ELSE FromBig(p)
    BY <1>1, <1>5, <2>1 DEF Pow, p, x, k
  <2>3. Is(FromBig(p), p) /\ (p \in Word => Is(Small(p), p))
    BY <1>3, <1>1, <1>5, FromBigIs, SmallIs
  <2>4. x \notin Word /\ p \in Word => ~long
    <3> SUFFICES ASSUME x \notin Word, p \in Word PROVE ~long
      OBVIOUS
    <3>1. k = 0
      <4> SUFFICES ASSUME k # 0 PROVE FALSE
        OBVIOUS
      <4>1. x # 0 /\ k \in Nat /\ k > 0
        BY <1>1, <1>5, WordIs
      <4>2. Magnitude(p) >= Magnitude(x)
        BY <1>1, <4>1, PowerGrows DEF p
      <4>3. Magnitude(x) > WordMax
        BY <1>1, WordIs DEF Magnitude
      <4>4. p = WordMin /\ Magnitude(x) = WordMax + 1 /\ x > 0
        BY <1>1, <1>3, <1>5, <4>2, <4>3, WordIs DEF Magnitude
      <4>5. p >= 0
        <5> DEFINE A == {i \in Nat : Power(x, i) >= 0}
        <5>1. 0 \in A
          BY <1>1, PowerStep
        <5>2. ASSUME NEW i \in A PROVE i + 1 \in A
          <6>1. Power(x, i + 1) = x * Power(x, i) /\ Power(x, i) \in Nat /\ x \in Nat
            BY <1>1, <4>4, PowerStep
          <6> DEFINE w == Power(x, i)
          <6> HIDE DEF w
          <6>2. x * w >= 0
            BY <6>1 DEF w
          <6> QED BY <6>1, <6>2 DEF w
        <5>3. A = Nat
          <6> HIDE DEF A
          <6>1. A \subseteq Nat
            BY DEF A
          <6> QED BY <5>1, <5>2, <6>1, Induction
        <5> QED BY <4>1, <5>3 DEF p
      <4> QED BY <4>4, <4>5, WordIs
    <3>2. Bits(x) * k = 0
      BY <1>1, <3>1, BitsAreNatural
    <3> QED BY <3>2, MaxBitsAssumption
  <2> HIDE DEF long
  <2>5. Kept(Pow(a, e), p, k, k > ExponentMax \/ (long /\ p \notin Word))
    BY <1>5, <2>2, <2>3, <2>4 DEF Kept
  <2> QED BY <1>5, <2>5 DEF p, long, x, k
<1> QED BY <1>4, <1>5

LEMMA ShiftLeftIs ==
  ASSUME NEW a \in Ints(Int), NEW e \in Ints(Int)
  PROVE  Kept(ShiftLeft(a, e), IF e.n < 0 THEN 0 ELSE a.n * Power(2, e.n), e.n,
              e.n > WordMax \/ (a.n # 0 /\ Bits(a.n) + e.n > MaxBits))
<1> DEFINE x == a.n
           k == e.n
           p == Power(2, k)
           long == Bits(x) + k > MaxBits
<1>1. x \in Int /\ k \in Int /\ (e.arm = "big" <=> k \notin Word)
  BY IntIs
<1>2. k >= 0 => p \in Int
  <2> HIDE DEF k
  <2> QED BY <1>1, PowerStep
<1>3. ShiftLeft(a, e) = IF e.arm = "big" \/ k < 0 THEN NoInt ELSE IF x = 0 THEN Small(0)
                        ELSE IF long THEN NoInt ELSE FromBig(x * p)
  BY DEF ShiftLeft
<1> HIDE DEF p, long
<1>4. CASE k < 0 \/ k > WordMax
  <2>1. ShiftLeft(a, e) = NoInt
    BY <1>1, <1>3, <1>4, WordIs
  <2> QED BY <1>4, <2>1 DEF Kept
<1>5. CASE ~(k < 0 \/ k > WordMax)
  <2>1. e.arm # "big" /\ p \in Int
    BY <1>1, <1>2, <1>5, WordIs
  <2>2. x * p \in Int /\ (x = 0 => x * p = 0)
    BY <1>1, <2>1
  <2>3. Is(FromBig(x * p), x * p)
    BY <2>2, FromBigIs
  <2>4. Is(Small(0), 0)
    BY SmallIs, WordIs
  <2>5. Kept(ShiftLeft(a, e), x * p, k, k > WordMax \/ (x # 0 /\ long))
    <3> DEFINE v == x * p
    <3>1. (x = 0 => v = 0) /\ Is(FromBig(v), v)
      BY <2>2, <2>3
    <3>2. ShiftLeft(a, e) = IF x = 0 THEN Small(0) ELSE IF long THEN NoInt ELSE FromBig(v)
      BY <1>3, <1>5, <2>1
    <3> HIDE DEF v, x, k
    <3>3. Kept(ShiftLeft(a, e), v, k, k > WordMax \/ (x # 0 /\ long))
      BY <1>5, <2>4, <3>1, <3>2 DEF Kept
    <3> QED BY <3>3 DEF v
  <2> QED BY <1>5, <2>5 DEF p, long
<1> QED BY <1>4, <1>5

LEMMA ShiftRightIs ==
  ASSUME NEW a \in Ints(Int), NEW e \in Ints(Int)
  PROVE  Kept(ShiftRight(a, e), IF e.n < 0 THEN 0 ELSE a.n \div Power(2, e.n), e.n, e.n > WordMax)
<1> DEFINE x == a.n
           k == e.n
           p == Power(2, k)
           bits == Bits(x)
<1>1. x \in Int /\ k \in Int /\ (e.arm = "big" <=> k \notin Word) /\ bits \in Nat
  BY IntIs, BitsAreNatural
<1>2. k >= 0 => p \in Nat /\ p > 0
  <2> HIDE DEF k
  <2> QED BY <1>1, TwoPowers
<1>3. ShiftRight(a, e) = IF e.arm = "big" \/ k < 0 THEN NoInt
                         ELSE IF k >= bits + 1 THEN IF x < 0 THEN Small(-1) ELSE Small(0)
                         ELSE FromBig(x \div p)
  BY DEF ShiftRight
<1>4. k > bits => Magnitude(x) < p
  <2> SUFFICES ASSUME k > bits PROVE Magnitude(x) < p
    OBVIOUS
  <2>1. CASE x = 0
    BY <1>1, <1>2, <2>1 DEF Magnitude
  <2>2. CASE x # 0
    <3> HIDE DEF x, k
    <3>1. Magnitude(x) < Power(2, bits) /\ Magnitude(x) \in Nat
      BY <1>1, <2>2, BitsAre DEF Magnitude
    <3> HIDE DEF bits
    <3>2. Power(2, bits) <= Power(2, k) /\ Power(2, bits) \in Nat /\ Power(2, k) \in Nat
      BY <1>1, TwoPowers
    <3> QED BY <3>1, <3>2
  <2> QED BY <2>1, <2>2
<1> HIDE DEF p, bits, x, k
<1>5. CASE k < 0 \/ k > WordMax
  <2>1. ShiftRight(a, e) = NoInt
    BY <1>1, <1>3, <1>5, WordIs
  <2> QED BY <1>5, <2>1 DEF Kept, k
<1>6. CASE ~(k < 0 \/ k > WordMax)
  <2>1. e.arm # "big" /\ p \in Nat /\ p > 0
    BY <1>1, <1>2, <1>6, WordIs
  <2> DEFINE v == x \div p
  <2>2. v \in Int /\ Is(FromBig(v), v)
    BY <1>1, <2>1, FromBigIs
  <2>3. k > bits => v = IF x < 0 THEN -1 ELSE 0
    BY <1>1, <1>4, <2>1 DEF Magnitude
  <2>4. Is(Small(-1), -1) /\ Is(Small(0), 0)
    BY SmallIs, WordIs
  <2>5. ShiftRight(a, e) = IF k >= bits + 1 THEN IF x < 0 THEN Small(-1) ELSE Small(0) ELSE FromBig(v)
    BY <1>3, <1>6, <2>1
  <2> HIDE DEF v
  <2>6. Is(ShiftRight(a, e), v)
    BY <1>1, <2>2, <2>3, <2>4, <2>5
  <2> QED BY <1>6, <2>6 DEF Kept, v, p, x, k
<1> QED BY <1>5, <1>6

-----------------------------------------------------------------------------
(* IntsAreNumbers, for any integers and any word.                          *)

LEMMA IntsAnswered ==
  ASSUME NEW a \in Ints(Int), NEW b \in Ints(Int), question.a = a, question.b = b,
         answer' = <<[add |-> IntAdd(a, b), sub |-> IntSub(a, b), mul |-> IntMul(a, b),
                      neg |-> Neg(a), inv |-> Invert(a), abs |-> Abs(a),
                      divmod |-> IF b.n = 0 THEN << >> ELSE DivMod(a, b),
                      pow |-> Pow(a, b), shl |-> ShiftLeft(a, b), shr |-> ShiftRight(a, b),
                      less |-> IntLess(a, b)]>>,
         question' = question
  PROVE  IntsAreNumbers'
<1>1. /\ It'.add = IntAdd(a, b) /\ It'.sub = IntSub(a, b) /\ It'.mul = IntMul(a, b)
      /\ It'.neg = Neg(a) /\ It'.inv = Invert(a) /\ It'.abs = Abs(a)
      /\ It'.pow = Pow(a, b) /\ It'.shl = ShiftLeft(a, b) /\ It'.shr = ShiftRight(a, b)
      /\ It'.less = IntLess(a, b) /\ (b.n # 0 => It'.divmod = DivMod(a, b))
  BY DEF It
<1>2. Is(IntAdd(a, b), a.n + b.n) /\ Is(IntSub(a, b), a.n - b.n) /\ Is(IntMul(a, b), a.n * b.n)
  BY SumIs
<1>3. Is(Neg(a), -a.n) /\ Is(Invert(a), -a.n - 1) /\ Is(Abs(a), Magnitude(a.n))
  BY SignIs
<1>4. IntLess(a, b) <=> a.n < b.n
  BY LessIs
<1>5. b.n # 0 => /\ Normal(DivMod(a, b)[1]) /\ Normal(DivMod(a, b)[2])
                 /\ FloorOf(a.n, b.n, DivMod(a, b)[1].n, DivMod(a, b)[2].n)
  BY DivModIs
<1>6. Kept(Pow(a, b), IF b.n < 0 THEN 0 ELSE Power(a.n, b.n), b.n,
           b.n > ExponentMax \/ (Bits(a.n) * b.n > MaxBits /\ Power(a.n, b.n) \notin Word))
  BY PowIs
<1>7. Kept(ShiftLeft(a, b), IF b.n < 0 THEN 0 ELSE a.n * Power(2, b.n), b.n,
           b.n > WordMax \/ (a.n # 0 /\ Bits(a.n) + b.n > MaxBits))
  BY ShiftLeftIs
<1>8. Kept(ShiftRight(a, b), IF b.n < 0 THEN 0 ELSE a.n \div Power(2, b.n), b.n, b.n > WordMax)
  BY ShiftRightIs
<1>9. b.n <= WordMax => Kept(ShiftRight(a, b), IF b.n < 0 THEN 0 ELSE a.n \div Power(2, b.n), b.n, FALSE)
  <2>1. b.n <= WordMax => ~(b.n > WordMax)
    BY IntIs, WordIs
  <2> QED BY <1>8, <2>1 DEF Kept
<1> QED BY <1>1, <1>2, <1>3, <1>4, <1>5, <1>6, <1>7, <1>9 DEF IntsAreNumbers, Kept

-----------------------------------------------------------------------------
(* Ranges: how many values there are, what the walk gives, what is counted.*)

HowMany(s, t, d) ==
  LET span == IF d < 0 THEN s - t ELSE t - s
  IN  IF span <= 0 THEN 0 ELSE ((span - 1) \div Magnitude(d)) + 1

LEMMA HowManyIs ==
  ASSUME NEW s \in Int, NEW t \in Int, NEW d \in Int, d # 0
  PROVE  /\ HowMany(s, t, d) \in Nat /\ HowMany(s, t, d) <= Magnitude(t - s)
         /\ \A k \in Nat : k < HowMany(s, t, d) <=> IF d >= 0 THEN s + k * d < t ELSE s + k * d > t
<1> DEFINE span == IF d < 0 THEN s - t ELSE t - s
           w == Magnitude(d)
           q == (span - 1) \div w
           many == HowMany(s, t, d)
<1>1. span \in Int /\ w \in Nat /\ w > 0
  BY DEF Magnitude
<1>2. many = IF span <= 0 THEN 0 ELSE q + 1
  BY DEF HowMany
<1>3. span > 0 => q \in Nat /\ w * q <= span - 1 /\ span - 1 < w * q + w
  <2> HIDE DEF span, w
  <2> QED BY <1>1, Divided
<1> HIDE DEF q, many
<1>4. \A k \in Nat : (IF d >= 0 THEN s + k * d < t ELSE s + k * d > t) <=> w * k < span
  <2> TAKE k \in Nat
  <2>1. CASE d >= 0
    <3>1. w * k = k * d
      BY <2>1 DEF Magnitude
    <3> HIDE DEF w
    <3> DEFINE v == k * d
    <3>2. v \in Int
      OBVIOUS
    <3> HIDE DEF v
    <3> QED BY <2>1, <3>1, <3>2 DEF v
  <2>2. CASE d < 0
    <3>1. w * k = -(k * d)
      BY <2>2 DEF Magnitude
    <3> HIDE DEF w
    <3> DEFINE v == k * d
    <3>2. v \in Int
      OBVIOUS
    <3> HIDE DEF v
    <3> QED BY <2>2, <3>1, <3>2 DEF v
  <2> QED BY <2>1, <2>2
<1>5. span <= Magnitude(t - s)
  BY DEF Magnitude
<1>9. Magnitude(t - s) \in Nat
  BY DEF Magnitude
<1> HIDE DEF span, w
<1>6. CASE span <= 0
  <2>1. \A k \in Nat : w * k >= 0
    BY <1>1
  <2> QED BY <1>1, <1>2, <1>4, <1>6, <1>9, <2>1 DEF many
<1>7. CASE span > 0
  <2>1. q \in Nat /\ w * q <= span - 1 /\ span - 1 < w * q + w /\ many = q + 1
    BY <1>2, <1>3, <1>7, <1>1
  <2>2. w * q >= q
    <3>1. (w - 1) * q >= 0 /\ (w - 1) * q = w * q - q
      BY <1>1, <2>1
    <3> QED BY <3>1, <1>1, <2>1
  <2>3. ASSUME NEW k \in Nat PROVE k < many <=> w * k < span
    <3>1. CASE k <= q
      <4>1. (q - k) * w >= 0 /\ (q - k) * w = w * q - w * k
        BY <1>1, <2>1, <3>1
      <4> QED BY <1>1, <2>1, <3>1, <4>1
    <3>2. CASE k > q
      <4>1. (k - q - 1) * w >= 0 /\ (k - q - 1) * w = w * k - w * q - w
        BY <1>1, <2>1, <3>2
      <4> QED BY <1>1, <2>1, <3>2, <4>1
    <3> QED BY <2>1, <3>1, <3>2
  <2> QED BY <1>1, <1>4, <1>5, <1>9, <2>1, <2>2, <2>3 DEF many
<1> QED BY <1>1, <1>6, <1>7

(* What an operation gives can be given to the next.                       *)
LEMMA IntsStay ==
  /\ \A v \in Int : FromBig(v) \in Ints(Int) /\ FromBig(v).n = v
  /\ \A a, b \in Ints(Int) : /\ IntAdd(a, b) = FromBig(a.n + b.n)
                             /\ IntSub(a, b) = FromBig(a.n - b.n)
  /\ \A a \in Ints(Int) : Neg(a) = FromBig(-a.n)
  /\ Small(1) = FromBig(1)
<1>1. \A v \in Int : FromBig(v) \in Ints(Int) /\ FromBig(v).n = v
  BY DEF Ints, FromBig, Small, Big
<1>2. ASSUME NEW a \in Ints(Int), NEW b \in Ints(Int)
      PROVE  IntAdd(a, b) = FromBig(a.n + b.n) /\ IntSub(a, b) = FromBig(a.n - b.n)
  BY DEF IntAdd, IntSub, Arith, FromBig
<1>3. ASSUME NEW a \in Ints(Int) PROVE Neg(a) = FromBig(-a.n)
  BY DEF Neg, FromBig
<1>4. Small(1) = FromBig(1)
  BY WordIs DEF FromBig
<1> QED BY <1>1, <1>2, <1>3, <1>4

LEMMA CountIs ==
  ASSUME NEW start \in Ints(Int), NEW stop \in Ints(Int), NEW step \in Ints(Int), step.n # 0
  PROVE  Is(Count(start, stop, step), HowMany(start.n, stop.n, step.n))
<1> DEFINE s == start.n
           t == stop.n
           d == step.n
           many == HowMany(s, t, d)
           wide == IF d < 0 THEN s - t ELSE t - s
           span == IF d < 0 THEN IntSub(start, stop) ELSE IntSub(stop, start)
           stride == IF d < 0 THEN Neg(step) ELSE step
           last == IntSub(span, Small(1))
           q == DivMod(last, stride)[1]
           r == DivMod(last, stride)[2]
<1>1. s \in Int /\ t \in Int /\ d \in Int /\ d # 0 /\ start = FromBig(s) /\ stop = FromBig(t) /\ step = FromBig(d)
  BY IntIs
<1>2. span = FromBig(wide) /\ wide \in Int
  <2>1. IntSub(start, stop) = FromBig(s - t) /\ IntSub(stop, start) = FromBig(t - s)
    BY IntsStay
  <2> QED BY <1>1, <2>1
<1>3. stride = FromBig(Magnitude(d)) /\ Magnitude(d) \in Nat /\ Magnitude(d) > 0
  <2>1. Neg(step) = FromBig(-d)
    BY IntsStay
  <2> QED BY <1>1, <2>1 DEF Magnitude
<1>4. Count(start, stop, step) = IF span.n <= 0 THEN Small(0) ELSE IntAdd(q, Small(1))
  BY DEF Count
<1>5. many = IF wide <= 0 THEN 0 ELSE ((wide - 1) \div Magnitude(d)) + 1
  BY DEF HowMany
<1> DEFINE w == Magnitude(d)
<1>6. span.n = wide /\ span \in Ints(Int) /\ Small(1) = FromBig(1)
  BY <1>2, IntsStay
<1> HIDE DEF s, t, d, wide, span, stride, w
<1>7. CASE wide <= 0
  <2>1. Is(Small(0), 0)
    BY SmallIs, WordIs
  <2> QED BY <1>4, <1>5, <1>6, <1>7, <2>1 DEF many, s, t, d
<1>8. CASE wide > 0
  <2>1. last = FromBig(wide - 1)
    <3>1. FromBig(1) \in Ints(Int) /\ FromBig(1).n = 1
      BY IntsStay
    <3> QED BY <1>6, <3>1, IntsStay
  <2>2. last \in Ints(Int) /\ last.n = wide - 1 /\ stride \in Ints(Int) /\ stride.n = w
    BY <2>1, <1>2, <1>3, IntsStay DEF w
  <2> HIDE DEF last
  <2>3. Normal(q) /\ q.n \in Int /\ r.n \in Int /\ FloorOf(last.n, stride.n, q.n, r.n)
    <3>1. stride.n # 0
      BY <1>3, <2>2 DEF w
    <3> QED BY <2>2, <3>1, DivModIs
  <2>4. q \in Ints(Int)
    <3>1. q = FromBig(q.n)
      <4> DEFINE x == Quotient(last.n, stride.n)
                 y == Remainder(last.n, stride.n)
      <4>1. \E v \in Int : q = Small(v) \/ q = FromBig(v)
        <5>1. x \in Int /\ Wrap(x - 1) \in Int
          <6>1. last.n \in Int /\ stride.n \in Int /\ stride.n # 0
            BY <1>2, <1>3, <2>2 DEF w
          <6>2. x \in Int
            BY <6>1, Truncated
          <6> HIDE DEF x
          <6> QED BY <6>2, WordIs DEF Wrap
        <5>2. q \in {Small(Wrap(x - 1)), Small(x), FromBig(x - 1), FromBig(x)}
          BY DEF DivMod
        <5> HIDE DEF x, q
        <5>3. x - 1 \in Int
          BY <5>1
        <5> QED BY <5>1, <5>2, <5>3
      <4> HIDE DEF q, r
      <4> QED BY <2>3, <4>1 DEF Normal, FromBig, Small, Big
    <3> HIDE DEF q
    <3> QED BY <2>3, <3>1, IntsStay
  <2> HIDE DEF q, r
  <2>5. q.n = (wide - 1) \div w
    <3> DEFINE p == (wide - 1) \div w
    <3>1. p \in Int /\ w * p <= wide - 1 /\ wide - 1 < w * p + w
      BY <1>2, <1>3, <1>8, Divided DEF w
    <3> HIDE DEF p
    <3>2. FloorOf(wide - 1, w, p, (wide - 1) - w * p)
      <4>1. p * w = w * p /\ w * p \in Int
        BY <1>3, <3>1 DEF w
      <4> QED BY <1>2, <1>3, <3>1, <4>1 DEF FloorOf, w
    <3>3. (wide - 1) - w * p \in Int /\ wide - 1 \in Int /\ w \in Int /\ w > 0
      BY <1>2, <1>3, <3>1 DEF w
    <3>4. FloorOf(wide - 1, w, q.n, r.n)
      BY <2>2, <2>3
    <3>5. q.n = p
      BY <2>3, <3>1, <3>2, <3>3, <3>4, OneFloor
    <3> QED BY <3>5 DEF p
  <2>6. IntAdd(q, Small(1)) = FromBig(q.n + 1)
    <3>1. FromBig(1) \in Ints(Int) /\ FromBig(1).n = 1
      BY IntsStay
    <3> QED BY <1>6, <2>4, <3>1, IntsStay
  <2>7. Is(FromBig(q.n + 1), q.n + 1)
    BY <2>3, FromBigIs
  <2>8. many = q.n + 1
    BY <1>5, <1>8, <1>2, <2>5 DEF w
  <2> QED BY <1>4, <1>6, <1>8, <1>2, <2>6, <2>7, <2>8 DEF many, s, t, d
<1> QED BY <1>2, <1>7, <1>8

\* What a walk has given after k steps, when there are so many in all.
Spaced(s, d, m) == [i \in 1 .. m |-> FromBig(s + (i - 1) * d)]
Least(k, m) == IF k <= m THEN k ELSE m

LEMMA RangeWalkIs ==
  ASSUME NEW start \in Ints(Int), NEW stop \in Ints(Int), NEW step \in Ints(Int), step.n # 0,
         NEW n \in Nat, n >= HowMany(start.n, stop.n, step.n)
  PROVE  RangeWalk(start, stop, step, n)
           = Spaced(start.n, step.n, HowMany(start.n, stop.n, step.n))
<1> DEFINE s == start.n
           t == stop.n
           d == step.n
           many == HowMany(s, t, d)
           Over(v) == IF d >= 0 THEN v.n >= t ELSE v.n <= t
           Next1(w) == IF Over(w.next) THEN w
                       ELSE [next |-> IntAdd(w.next, step), given |-> Append(w.given, w.next)]
           first == [next |-> start, given |-> << >>]
           StateAt(k) == [next |-> FromBig(s + Least(k, many) * d), given |-> Spaced(s, d, Least(k, many))]
           IsWalk(f) == f = [k \in 0 .. n |-> IF k = 0 THEN first ELSE Next1(f[k - 1])]
           walked == CHOOSE f : IsWalk(f)
<1>1. s \in Int /\ t \in Int /\ d \in Int /\ d # 0 /\ start = FromBig(s) /\ step = FromBig(d)
  BY IntIs
<1>2. RangeWalk(start, stop, step, n) = walked[n].given
  BY DEF RangeWalk
<1> HIDE DEF s, t, d, many
<1>3. /\ many \in Nat
      /\ \A k \in Nat : k < many <=> IF d >= 0 THEN s + k * d < t ELSE s + k * d > t
  BY <1>1, HowManyIs DEF many
<1>4. StateAt(0) = first
  <2>1. Least(0, many) = 0
    BY <1>3 DEF Least
  <2>2. s + 0 * d = s
    BY <1>1
  <2>3. Spaced(s, d, 0) = << >>
    BY DEF Spaced
  <2> QED BY <1>1, <2>1, <2>2, <2>3
<1>5. ASSUME NEW k \in Nat PROVE StateAt(k + 1) = Next1(StateAt(k))
  <2> DEFINE m == Least(k, many)
             v == s + m * d
             next == FromBig(v)
  <2>1. m \in Nat /\ m <= many
    BY <1>3 DEF Least
  <2>2. v \in Int
    BY <1>1, <2>1
  <2>3. next.n = v /\ next \in Ints(Int)
    BY <2>2, IntsStay
  <2>4. StateAt(k) = [next |-> next, given |-> Spaced(s, d, m)]
    OBVIOUS
  <2>5. m < many <=> IF d >= 0 THEN v < t ELSE v > t
    BY <1>3, <2>1
  <2>6. Over(next) <=> m = many
    BY <1>1, <1>3, <2>1, <2>2, <2>3, <2>5 DEF t
  <2>7. CASE m = many
    <3>1. Least(k + 1, many) = many
      BY <1>3, <2>7 DEF Least
    <3>2. StateAt(k + 1) = StateAt(k)
      BY <2>7, <3>1
    <3> HIDE DEF StateAt, Over
    <3>3. Over(StateAt(k).next)
      BY <2>4, <2>6, <2>7
    <3> QED BY <3>2, <3>3
  <2>8. CASE m # many
    <3>1. m = k /\ Least(k + 1, many) = k + 1
      BY <1>3, <2>8 DEF Least
    <3>2. IntAdd(next, step) = FromBig(s + (k + 1) * d)
      <4>1. IntAdd(next, step) = FromBig(v + d)
        BY <2>3, IntsStay DEF d
      <4>2. v + d = s + (k + 1) * d
        BY <1>1, <3>1
      <4> QED BY <4>1, <4>2
    <3>3. Append(Spaced(s, d, k), next) = Spaced(s, d, k + 1)
      <4> DEFINE g == Spaced(s, d, k)
                 S == {FromBig(s + (i - 1) * d) : i \in 1 .. k + 1}
      <4>1. g \in Seq(S) /\ Len(g) = k
        <5>1. g = [i \in 1 .. k |-> FromBig(s + (i - 1) * d)]
          BY DEF Spaced
        <5>2. g \in [1 .. k -> S]
          BY <5>1
        <5>3. DOMAIN g = 1 .. k
          BY <5>1
        <5> HIDE DEF g, S
        <5>4. g \in Seq(S)
          BY <5>2, SeqDef
        <5> QED BY <5>3, <5>4, LenProperties
      <4>2. next \in S
        <5>1. k + 1 \in 1 .. k + 1 /\ (k + 1) - 1 = k
          OBVIOUS
        <5> QED BY <3>1, <5>1
      <4>3. \A i \in 1 .. k : g[i] = FromBig(s + (i - 1) * d)
        BY DEF Spaced
      <4> HIDE DEF g, S
      <4>4. Append(g, next) = [i \in 1 .. k + 1 |-> IF i = k + 1 THEN next ELSE g[i]]
        BY <4>1, <4>2
      <4>5. \A i \in 1 .. k + 1 : (IF i = k + 1 THEN next ELSE g[i]) = FromBig(s + (i - 1) * d)
        <5> TAKE i \in 1 .. k + 1
        <5>1. CASE i = k + 1
          BY <5>1, <3>1
        <5>2. CASE i # k + 1
          BY <5>2, <4>3
        <5> QED BY <5>1, <5>2
      <4> QED BY <4>4, <4>5 DEF Spaced, g
    <3>4. StateAt(k + 1) = [next |-> IntAdd(next, step), given |-> Append(Spaced(s, d, k), next)]
      BY <3>1, <3>2, <3>3
    <3>5. ~Over(StateAt(k).next) /\ StateAt(k).next = next /\ StateAt(k).given = Spaced(s, d, k)
      BY <2>4, <2>6, <2>8, <3>1
    <3> HIDE DEF StateAt, Over
    <3> QED BY <3>4, <3>5
  <2> QED BY <2>7, <2>8
<1> DEFINE h == [k \in 0 .. n |-> StateAt(k)]
<1> HIDE DEF StateAt, Next1, first
<1>6. IsWalk(h)
  <2>1. ASSUME NEW k \in 0 .. n PROVE StateAt(k) = IF k = 0 THEN first ELSE Next1(h[k - 1])
    <3>1. CASE k = 0
      BY <1>4, <3>1
    <3>2. CASE k # 0
      <4>1. k - 1 \in Nat /\ k - 1 \in 0 .. n /\ (k - 1) + 1 = k
        BY <3>2
      <4>2. StateAt(k) = Next1(StateAt(k - 1))
        BY <1>5, <4>1
      <4> QED BY <3>2, <4>1, <4>2
    <3> QED BY <3>1, <3>2
  <2> QED BY <2>1
<1>7. IsWalk(walked)
  <2> HIDE DEF IsWalk, h
  <2> QED BY <1>6
<1> HIDE DEF walked
<1> DEFINE A == {k \in Nat : k <= n => walked[k] = StateAt(k)}
<1>8. A = Nat
  <2>1. 0 \in A
    BY <1>4, <1>7
  <2>2. ASSUME NEW k \in A PROVE k + 1 \in A
    <3> SUFFICES ASSUME k + 1 <= n PROVE walked[k + 1] = StateAt(k + 1)
      OBVIOUS
    <3>1. k + 1 \in 0 .. n /\ k + 1 # 0 /\ (k + 1) - 1 = k /\ walked[k] = StateAt(k) /\ k \in Nat
      OBVIOUS
    <3>2. walked[k + 1] = Next1(walked[k])
      BY <1>7, <3>1
    <3> QED BY <1>5, <3>1, <3>2
  <2> HIDE DEF A
  <2>3. A \subseteq Nat
    BY DEF A
  <2> QED BY <2>1, <2>2, <2>3, Induction
<1>9. walked[n] = StateAt(n) /\ Least(n, many) = many
  <2>1. n \in A
    <3> HIDE DEF A
    <3> QED BY <1>8
  <2>2. n >= many
    BY DEF many, s, t, d
  <2> QED BY <1>3, <2>1, <2>2 DEF Least
<1> QED BY <1>2, <1>9 DEF StateAt, many, s, t, d

(* The values Python gives are those of the walk, and no two are the same. *)
LEMMA RangeValuesAre ==
  ASSUME NEW s \in Int, NEW t \in Int, NEW d \in Int, d # 0
  PROVE  /\ RangeValues(s, t, d) = {s + (i - 1) * d : i \in 1 .. HowMany(s, t, d)}
         /\ Cardinality(RangeValues(s, t, d)) = HowMany(s, t, d)
<1> DEFINE many == HowMany(s, t, d)
           far == Magnitude(t - s)
           V == {s + (i - 1) * d : i \in 1 .. many}
           values == RangeValues(s, t, d)
           f == [i \in 1 .. many |-> s + (i - 1) * d]
<1>1. /\ many \in Nat /\ many <= far /\ far \in Nat
      /\ \A k \in Nat : k < many <=> IF d >= 0 THEN s + k * d < t ELSE s + k * d > t
  BY HowManyIs DEF Magnitude
<1>2. values = {s + k * d : k \in 0 .. far} \intersect (IF d > 0 THEN s .. t - 1 ELSE t + 1 .. s)
  BY DEF RangeValues
<1> HIDE DEF many, far, values
<1>3. ASSUME NEW k \in Nat
      PROVE  s + k * d \in (IF d > 0 THEN s .. t - 1 ELSE t + 1 .. s) <=> k < many
  <2> DEFINE e == k * d
  <2>1. e \in Int /\ (d > 0 => e >= 0) /\ (d < 0 => e <= 0)
    OBVIOUS
  <2>2. k < many <=> IF d >= 0 THEN s + e < t ELSE s + e > t
    BY <1>1
  <2> HIDE DEF e
  <2>3. s + e \in (IF d > 0 THEN s .. t - 1 ELSE t + 1 .. s) <=> k < many
    BY <2>1, <2>2
  <2> QED BY <2>3 DEF e
<1>4. V \subseteq values
  <2> SUFFICES ASSUME NEW i \in 1 .. many PROVE s + (i - 1) * d \in values
    OBVIOUS
  <2> DEFINE k == i - 1
  <2>1. k \in Nat /\ k < many /\ k \in 0 .. far
    BY <1>1
  <2> HIDE DEF k
  <2>2. s + k * d \in values
    BY <1>2, <1>3, <2>1
  <2> QED BY <2>2 DEF k
<1>5. values \subseteq V
  <2> SUFFICES ASSUME NEW v \in values PROVE v \in V
    OBVIOUS
  <2>1. PICK k \in 0 .. far : v = s + k * d
    BY <1>2
  <2>2. v \in (IF d > 0 THEN s .. t - 1 ELSE t + 1 .. s)
    BY <1>2
  <2>3. k \in Nat /\ k < many
    BY <1>1, <1>3, <2>1, <2>2
  <2>4. k + 1 \in 1 .. many /\ (k + 1) - 1 = k
    BY <1>1, <2>3
  <2>5. v = s + ((k + 1) - 1) * d
    BY <2>1, <2>4
  <2> QED BY <2>4, <2>5
<1>6. values = V
  BY <1>4, <1>5
<1>7. f \in Bijection(1 .. many, V)
  <2>1. f \in [1 .. many -> V]
    OBVIOUS
  <2>2. \A v \in V : \E i \in 1 .. many : f[i] = v
    OBVIOUS
  <2>3. ASSUME NEW i \in 1 .. many, NEW j \in 1 .. many, f[i] = f[j] PROVE i = j
    <3>1. s + (i - 1) * d = s + (j - 1) * d
      BY <2>3
    <3>2. (i - j) * d = 0
      BY <3>1, <1>1
    <3> QED BY <3>2, <1>1
  <2> HIDE DEF f, V
  <2>4. DOMAIN f = 1 .. many
    BY <2>1
  <2> QED BY <2>1, <2>2, <2>3, <2>4 DEF Bijection, Injection, Surjection, IsInjective
<1>8. Cardinality(V) = many
  <2>1. IsFiniteSet(1 .. many) /\ Cardinality(1 .. many) = many
    <3>1. 1 \in Int /\ many \in Int /\ many >= 0
      BY <1>1
    <3> QED BY <3>1, FS_Interval
  <2>2. ExistsBijection(1 .. many, V)
    BY <1>7 DEF ExistsBijection
  <2> HIDE DEF V
  <2> QED BY <2>1, <2>2, FS_Bijection
<1> QED BY <1>6, <1>8 DEF many, values

LEMMA RangeAnswered ==
  ASSUME NEW start \in Ints(Int), NEW stop \in Ints(Int), NEW step \in Ints(Int), step.n # 0,
         NEW n \in Nat, n >= Magnitude(stop.n - start.n),
         question.start = start, question.stop = stop, question.step = step,
         answer' = <<[count |-> Count(start, stop, step), walk |-> RangeWalk(start, stop, step, n)]>>,
         question' = question
  PROVE  RangeCounts'
<1> DEFINE s == start.n
           t == stop.n
           d == step.n
           many == HowMany(s, t, d)
           walk == Spaced(s, d, many)
           values == RangeValues(s, t, d)
<1>1. s \in Int /\ t \in Int /\ d \in Int /\ d # 0
  BY IntIs
<1>2. many \in Nat /\ many <= Magnitude(t - s) /\ Magnitude(t - s) \in Nat
  <2> HIDE DEF s, t, d
  <2>1. Magnitude(t - s) \in Nat
    BY <1>1 DEF Magnitude
  <2>2. HowMany(s, t, d) \in Nat /\ HowMany(s, t, d) <= Magnitude(t - s)
    BY <1>1, HowManyIs
  <2> QED BY <2>1, <2>2
<1>3. It'.count = Count(start, stop, step) /\ It'.walk = walk
  <2>1. n >= many
    BY <1>2
  <2>2. RangeWalk(start, stop, step, n) = walk
    BY <2>1, RangeWalkIs
  <2> QED BY <2>2 DEF It
<1>4. Is(Count(start, stop, step), many)
  BY CountIs
<1>5. values = {s + (i - 1) * d : i \in 1 .. many} /\ Cardinality(values) = many
  <2> HIDE DEF s, t, d
  <2> QED BY <1>1, RangeValuesAre
<1> HIDE DEF s, t, d, many, values
<1>6. DOMAIN walk = 1 .. many /\ Len(walk) = many
  <2>1. walk \in Seq(Ints(Int))
    <3>1. walk \in [1 .. many -> Ints(Int)]
      <4>1. \A i \in 1 .. many : FromBig(s + (i - 1) * d) \in Ints(Int)
        BY <1>1, <1>2, IntsStay
      <4> QED BY <4>1 DEF Spaced
    <3> HIDE DEF walk
    <3> QED BY <1>2, <3>1, SeqDef
  <2>2. DOMAIN walk = 1 .. many
    BY DEF Spaced
  <2> HIDE DEF walk
  <2> QED BY <1>2, <2>1, <2>2, LenProperties
<1>7. \A i \in 1 .. many : Is(walk[i], s + (i - 1) * d)
  <2> TAKE i \in 1 .. many
  <2>1. s + (i - 1) * d \in Int
    BY <1>1, <1>2
  <2>2. walk[i] = FromBig(s + (i - 1) * d)
    BY DEF Spaced
  <2> QED BY <2>1, <2>2, FromBigIs
<1> HIDE DEF walk
<1>8. {walk[i].n : i \in 1 .. many} = values
  <2>1. \A i \in 1 .. many : walk[i].n = s + (i - 1) * d
    BY <1>7 DEF Is
  <2> QED BY <1>5, <2>1
<1>9. /\ Is(It'.count, Len(It'.walk))
      /\ {It'.walk[i].n : i \in DOMAIN It'.walk} = values
      /\ Cardinality(values) = Len(It'.walk)
      /\ \A i \in DOMAIN It'.walk : Is(It'.walk[i], s + (i - 1) * d)
  BY <1>3, <1>4, <1>5, <1>6, <1>7, <1>8
<1>10. question'.start.n = s /\ question'.stop.n = t /\ question'.step.n = d
  BY DEF s, t, d
<1> QED BY <1>9, <1>10 DEF RangeCounts, values

-----------------------------------------------------------------------------
(* map: where its sources are after k questions.                           *)

Sources == Seq(Nat) \ {<< >>}
TakenAt(sources, k) == [i \in DOMAIN sources |-> TakenOf(sources, i, k)]

LEMMA SourcesAre ==
  ASSUME NEW sources \in Sources
  PROVE  /\ DOMAIN sources \subseteq Nat \ {0} /\ 1 \in DOMAIN sources
         /\ \A i \in DOMAIN sources : sources[i] \in Nat /\ i \in Nat /\ i >= 1
         /\ \A i \in DOMAIN sources : \A j \in Nat : j >= 1 /\ j <= i => j \in DOMAIN sources
<1>1. PICK n \in Nat : sources \in [1 .. n -> Nat]
  BY SeqDef DEF Sources
<1>2. n # 0
  <2> SUFFICES ASSUME n = 0 PROVE FALSE
    OBVIOUS
  <2>1. Len(sources) = 0 /\ sources \in Seq(Nat)
    BY <1>1, LenProperties DEF Sources
  <2>2. sources = << >>
    BY <2>1, EmptySeq
  <2> QED BY <2>2 DEF Sources
<1>3. DOMAIN sources = 1 .. n
  BY <1>1
<1> QED BY <1>1, <1>2, <1>3

(* The least of what was asked and of the sources up to this one.          *)
LEMMA TakenIs ==
  ASSUME NEW sources \in Sources, NEW i \in DOMAIN sources, NEW k \in Nat
  PROVE  /\ TakenOf(sources, i, k) \in Nat /\ TakenOf(sources, i, k) <= k
         /\ \A j \in DOMAIN sources : j <= i => TakenOf(sources, i, k) <= sources[j]
         /\ \/ TakenOf(sources, i, k) = k
            \/ \E j \in DOMAIN sources : j <= i /\ TakenOf(sources, i, k) = sources[j]
<1> DEFINE S == {k} \union {sources[j] : j \in {l \in DOMAIN sources : l <= i}}
<1>1. S \in SUBSET Nat /\ S # {}
  BY SourcesAre
<1>2. TakenOf(sources, i, k) = Min(S)
  BY DEF TakenOf
<1>3. k \in S /\ \A j \in DOMAIN sources : j <= i => sources[j] \in S
  OBVIOUS
<1>4. \A v \in S : v = k \/ \E j \in DOMAIN sources : j <= i /\ v = sources[j]
  OBVIOUS
<1> HIDE DEF S
<1>5. Min(S) \in S /\ \A v \in S : Min(S) <= v
  BY <1>1, LeastOf
<1> QED BY <1>1, <1>2, <1>3, <1>4, <1>5

LEMMA ShortestIs ==
  ASSUME NEW sources \in Sources
  PROVE  /\ Shortest(sources) \in Nat
         /\ \E i \in DOMAIN sources : sources[i] = Shortest(sources)
         /\ \A i \in DOMAIN sources : Shortest(sources) <= sources[i]
<1> DEFINE S == {sources[i] : i \in DOMAIN sources}
<1>1. S \in SUBSET Nat /\ S # {}
  BY SourcesAre
<1>2. Shortest(sources) = Min(S)
  BY DEF Shortest
<1>3. (\A i \in DOMAIN sources : sources[i] \in S) /\ \A v \in S : \E i \in DOMAIN sources : sources[i] = v
  OBVIOUS
<1> HIDE DEF S
<1>4. Min(S) \in S /\ \A v \in S : Min(S) <= v
  BY <1>1, LeastOf
<1> QED BY <1>1, <1>2, <1>3, <1>4

(* The first that has ended, if one has.                                   *)
Over(sources, taken) == {i \in DOMAIN sources : ~Has(sources, taken, i)}

LEMMA RoundIs ==
  ASSUME NEW sources \in Sources, NEW taken \in [DOMAIN sources -> Nat]
  PROVE  LET round == Round(sources, taken)
         IN  /\ round.taken \in [DOMAIN sources -> Nat]
             /\ \/ round.ended = 0 /\ \A i \in DOMAIN sources : taken[i] < sources[i] /\ round.taken[i] = taken[i] + 1
                \/ /\ round.ended \in DOMAIN sources /\ round.ended # 0
                   /\ taken[round.ended] >= sources[round.ended]
                   /\ \A i \in DOMAIN sources :
                        /\ i < round.ended => taken[i] < sources[i]
                        /\ round.taken[i] = IF i < round.ended THEN taken[i] + 1 ELSE taken[i]
<1> DEFINE ended == Over(sources, taken)
           at == IF ended = {} THEN 0 ELSE Min(ended)
           round == Round(sources, taken)
<1>1. round = [ended |-> at, taken |-> [i \in DOMAIN sources |->
                                          IF at = 0 \/ i < at THEN taken[i] + 1 ELSE taken[i]]]
  BY DEF Round, Over
<1>2. \A i \in DOMAIN sources : /\ i \in Nat /\ i # 0 /\ sources[i] \in Nat /\ taken[i] \in Nat
                                /\ i \in ended <=> taken[i] >= sources[i]
  BY SourcesAre DEF Over, Has
<1>3. ended \in SUBSET Nat /\ ended \subseteq DOMAIN sources
  BY SourcesAre DEF Over
<1> HIDE DEF ended, round
<1>4. CASE ended = {}
  <2>1. round.ended = 0 /\ round.taken = [i \in DOMAIN sources |-> taken[i] + 1]
    BY <1>1, <1>4
  <2>2. \A i \in DOMAIN sources : taken[i] < sources[i]
    BY <1>2, <1>4
  <2> QED BY <1>2, <2>1, <2>2 DEF round
<1>5. CASE ended # {}
  <2>1. at \in ended /\ \A j \in ended : at <= j
    BY <1>3, <1>5, LeastOf
  <2>2. at \in Nat /\ at # 0 /\ at \in DOMAIN sources /\ taken[at] >= sources[at]
    BY <1>2, <1>3, <2>1
  <2> HIDE DEF at
  <2>3. round.ended = at /\ round.taken = [i \in DOMAIN sources |-> IF i < at THEN taken[i] + 1 ELSE taken[i]]
    BY <1>1, <2>2
  <2>4. \A i \in DOMAIN sources : i < at => taken[i] < sources[i]
    BY <1>2, <2>1, <2>2
  <2> QED BY <1>2, <2>2, <2>3, <2>4 DEF round
<1> QED BY <1>4, <1>5

(* One question moves every source as far as one question more should.     *)
LEMMA RoundMoves ==
  ASSUME NEW sources \in Sources, NEW k \in Nat
  PROVE  LET round == Round(sources, TakenAt(sources, k))
             short == Shortest(sources)
         IN  /\ round.taken = TakenAt(sources, k + 1)
             /\ k < short => round.ended = 0 /\ round.taken = [i \in DOMAIN sources |-> k + 1]
             /\ k >= short => round.ended # 0
<1> DEFINE taken == TakenAt(sources, k)
           round == Round(sources, taken)
           short == Shortest(sources)
           T(i) == TakenOf(sources, i, k)
           U(i) == TakenOf(sources, i, k + 1)
           D == DOMAIN sources
<1>1. \A i \in D : i \in Nat /\ sources[i] \in Nat /\ i # 0
  BY SourcesAre
<1>2. ASSUME NEW i \in D
      PROVE  /\ T(i) \in Nat /\ T(i) <= k /\ taken[i] = T(i)
             /\ \A j \in D : j <= i => T(i) <= sources[j]
             /\ T(i) = k \/ \E j \in D : j <= i /\ T(i) = sources[j]
  BY TakenIs DEF TakenAt
<1>3. ASSUME NEW i \in D
      PROVE  /\ U(i) \in Nat /\ U(i) <= k + 1
             /\ \A j \in D : j <= i => U(i) <= sources[j]
             /\ U(i) = k + 1 \/ \E j \in D : j <= i /\ U(i) = sources[j]
  BY TakenIs
<1>4. taken \in [D -> Nat]
  <2> HIDE DEF T
  <2>1. taken = [i \in D |-> taken[i]]
    BY DEF TakenAt
  <2> HIDE DEF taken
  <2> QED BY <1>2, <2>1
<1>5. TakenAt(sources, k + 1) = [i \in D |-> U(i)]
  BY DEF TakenAt
<1>6. short \in Nat /\ (\E i \in D : sources[i] = short) /\ \A i \in D : short <= sources[i]
  BY ShortestIs
<1> HIDE DEF taken, short, T, U
<1>7. /\ round.taken \in [D -> Nat]
      /\ \/ round.ended = 0 /\ \A i \in D : taken[i] < sources[i] /\ round.taken[i] = taken[i] + 1
         \/ /\ round.ended \in D /\ round.ended # 0
            /\ taken[round.ended] >= sources[round.ended]
            /\ \A i \in D : /\ i < round.ended => taken[i] < sources[i]
                            /\ round.taken[i] = IF i < round.ended THEN taken[i] + 1 ELSE taken[i]
  BY <1>4, RoundIs
<1> HIDE DEF round
<1>8. ASSUME NEW i \in D, \A j \in D : j <= i => taken[j] < sources[j]
      PROVE  T(i) = k /\ U(i) = k + 1
  <2>1. T(i) = k
    <3> SUFFICES ASSUME NEW j \in D, j <= i, T(i) = sources[j], T(i) # k PROVE FALSE
      BY <1>2
    <3>1. T(j) < sources[j] /\ T(j) \in Nat /\ T(i) < k
      BY <1>1, <1>2, <1>8
    <3>2. T(j) # k
      BY <1>1, <1>2, <3>1
    <3>3. PICK l \in D : l <= j /\ T(j) = sources[l]
      BY <1>2, <3>2
    <3>4. T(i) <= sources[l]
      BY <1>1, <1>2, <3>3
    <3> QED BY <1>1, <3>1, <3>3, <3>4
  <2>2. ASSUME NEW j \in D, j <= i PROVE sources[j] > k
    <3>1. T(j) = k \/ \E l \in D : l <= j /\ T(j) = sources[l]
      BY <1>2
    <3>2. T(j) < sources[j] /\ T(j) \in Nat
      BY <1>2, <1>8, <2>2
    <3>3. \A l \in D : l <= j => k <= sources[l]
      BY <1>1, <1>2, <2>1, <2>2
    <3> QED BY <1>1, <1>2, <3>1, <3>2, <3>3
  <2> QED BY <1>1, <1>3, <2>1, <2>2
<1>9. CASE round.ended = 0
  <2>1. \A i \in D : taken[i] < sources[i] /\ round.taken[i] = taken[i] + 1
    BY <1>7, <1>9
  <2>2. \A i \in D : T(i) = k /\ U(i) = k + 1 /\ taken[i] = k
    BY <1>2, <1>8, <2>1
  <2>3. round.taken = [i \in D |-> U(i)] /\ round.taken = [i \in D |-> k + 1]
    BY <1>7, <2>1, <2>2
  <2>4. k < short
    BY <1>1, <1>6, <2>1, <2>2
  <2> QED BY <1>5, <1>6, <1>9, <2>3, <2>4 DEF round, short, taken
<1>10. CASE round.ended # 0
  <2> DEFINE at == round.ended
  <2>1. /\ at \in D /\ taken[at] >= sources[at]
        /\ \A i \in D : /\ i < at => taken[i] < sources[i]
                        /\ round.taken[i] = IF i < at THEN taken[i] + 1 ELSE taken[i]
    BY <1>7, <1>10
  <2> HIDE DEF at
  <2>2. sources[at] <= k /\ at \in Nat
    BY <1>1, <1>2, <2>1
  <2>3. ASSUME NEW i \in D PROVE round.taken[i] = U(i)
    <3>1. CASE i < at
      <4>1. \A j \in D : j <= i => taken[j] < sources[j]
        BY <1>1, <2>1, <2>2, <3>1
      <4> QED BY <1>2, <1>8, <2>1, <3>1, <4>1
    <3>2. CASE ~(i < at)
      <4>1. at <= i
        BY <1>1, <2>2, <3>2
      <4>2. T(i) \in Nat /\ U(i) \in Nat /\ U(i) <= sources[at] /\ T(i) <= sources[at] /\ taken[i] = T(i)
        BY <1>2, <1>3, <2>1, <4>1
      <4>3. PICK j \in D : j <= i /\ U(i) = sources[j]
        BY <1>1, <1>3, <2>1, <2>2, <4>2
      <4>4. T(i) <= U(i)
        BY <1>2, <4>3
      <4>5. U(i) <= T(i)
        <5>1. CASE T(i) = k
          BY <1>1, <2>1, <2>2, <4>2, <5>1
        <5>2. CASE T(i) # k
          BY <1>2, <1>3, <5>2
        <5> QED BY <5>1, <5>2
      <4>6. U(i) = T(i)
        BY <4>2, <4>4, <4>5
      <4> QED BY <2>1, <3>2, <4>2, <4>6
    <3> QED BY <3>1, <3>2
  <2>4. round.taken = [i \in D |-> U(i)]
    BY <1>7, <2>3
  <2>5. k >= short
    BY <1>1, <1>6, <2>1, <2>2
  <2> QED BY <1>5, <1>6, <1>10, <2>4, <2>5 DEF round, short, taken
<1> QED BY <1>9, <1>10

(* Who is to blame at the first question after the last value.             *)
LEMMA VerdictIs ==
  ASSUME NEW sources \in Sources
  PROVE  MapStep(sources, TakenAt(sources, Shortest(sources)), TRUE).answers = Verdict(sources)
<1> DEFINE D == DOMAIN sources
           short == Shortest(sources)
           taken == TakenAt(sources, short)
           round == Round(sources, taken)
           at == round.ended
           shortOnes == {i \in D : sources[i] = short}
           longOnes == D \ shortOnes
           more == {i \in D : i > 1 /\ Has(sources, round.taken, i)}
<1>1. /\ D \subseteq Nat /\ 1 \in D
      /\ \A i \in D : i \in Nat /\ i >= 1 /\ sources[i] \in Nat
  BY SourcesAre
<1>2. short \in Nat /\ (\E i \in D : sources[i] = short) /\ \A i \in D : short <= sources[i]
  BY ShortestIs
<1>3. ASSUME NEW i \in D PROVE taken[i] = short
  <2>1. taken[i] = TakenOf(sources, i, short)
    BY DEF TakenAt
  <2>2. /\ TakenOf(sources, i, short) \in Nat /\ TakenOf(sources, i, short) <= short
        /\ \/ TakenOf(sources, i, short) = short
           \/ \E j \in D : j <= i /\ TakenOf(sources, i, short) = sources[j]
    BY <1>2, TakenIs
  <2> DEFINE v == TakenOf(sources, i, short)
  <2> HIDE DEF v, short
  <2>3. v = short
    BY <1>1, <1>2, <2>2 DEF v
  <2> QED BY <2>1, <2>3 DEF v
<1>4. taken \in [D -> Nat]
  <2>1. taken = [i \in D |-> taken[i]]
    BY DEF TakenAt
  <2> HIDE DEF taken, short
  <2> QED BY <1>2, <1>3, <2>1
<1>5. at # 0
  BY <1>2, RoundMoves
<1> HIDE DEF taken, short, round
<1>6. /\ at \in D /\ taken[at] >= sources[at]
      /\ \A i \in D : /\ i < at => taken[i] < sources[i]
                      /\ round.taken[i] = IF i < at THEN taken[i] + 1 ELSE taken[i]
  BY <1>4, <1>5, RoundIs DEF round
<1> HIDE DEF at
<1>7. at \in shortOnes /\ \A i \in shortOnes : at <= i
  BY <1>1, <1>2, <1>3, <1>6
<1>8. Min(shortOnes) = at
  <2>1. shortOnes \in SUBSET Nat /\ shortOnes # {}
    BY <1>1, <1>7
  <2> HIDE DEF shortOnes
  <2>2. Min(shortOnes) \in shortOnes /\ Min(shortOnes) <= at
    BY <1>7, <2>1, LeastOf
  <2>3. at \in Nat
    BY <1>1, <1>6
  <2> DEFINE m == Min(shortOnes)
  <2>4. m \in shortOnes /\ m <= at
    BY <2>2
  <2> HIDE DEF m
  <2>5. m \in Nat /\ at <= m
    BY <1>7, <2>1, <2>4
  <2>6. m = at
    BY <2>3, <2>4, <2>5
  <2> QED BY <2>6 DEF m
<1>9. MapStep(sources, taken, TRUE) = Uneven(sources, round.taken, at)
  BY <1>5 DEF MapStep, round, at
<1>10. Verdict(sources) = IF longOnes = {} THEN End
                          ELSE IF 1 \in longOnes THEN Shorter(Min(shortOnes))
                          ELSE Longer(Min(longOnes))
  BY DEF Verdict, short
<1>11. CASE at > 1
  <2>1. MapStep(sources, taken, TRUE).answers = Shorter(at)
    <3>1. Uneven(sources, round.taken, at) = Walked(round.taken, Shorter(at))
      BY <1>11 DEF Uneven
    <3>2. Walked(round.taken, Shorter(at)).answers = Shorter(at)
      BY DEF Walked
    <3> QED BY <1>9, <3>1, <3>2
  <2>2. 1 \in longOnes
    BY <1>1, <1>7, <1>11
  <2> HIDE DEF longOnes, shortOnes
  <2> QED BY <1>8, <1>10, <2>1, <2>2 DEF taken, short
<1>12. CASE ~(at > 1)
  <2>1. at = 1
    BY <1>1, <1>6, <1>12
  <2>2. \A i \in D : round.taken[i] = short
    BY <1>1, <1>3, <1>6, <2>1
  <2>3. more = longOnes
    BY <1>1, <1>2, <1>7, <2>1, <2>2 DEF Has
  <2>4. 1 \notin longOnes
    BY <1>7, <2>1
  <2>5. MapStep(sources, taken, TRUE).answers = IF more = {} THEN End ELSE Longer(Min(more))
    <3>1. Uneven(sources, round.taken, at)
            = IF more = {} THEN Walked(round.taken, End)
              ELSE Walked(Stepped(sources, round.taken, Min(more)), Longer(Min(more)))
      BY <2>1 DEF Uneven
    <3> HIDE DEF more
    <3>2. \A t, v : Walked(t, v).answers = v
      BY DEF Walked
    <3> QED BY <1>9, <3>1, <3>2
  <2> HIDE DEF more, longOnes, shortOnes
  <2> QED BY <1>10, <2>3, <2>4, <2>5 DEF taken, short
<1> QED BY <1>11, <1>12

\* What a map answers with.
MapAnswers(sources) ==
  [is : {"value", "end", "shorter", "longer"}, at : Nat \union [DOMAIN sources -> Nat]]

LEMMA MapStepIs ==
  ASSUME NEW sources \in Sources, NEW taken \in [DOMAIN sources -> Nat], NEW strict \in BOOLEAN
  PROVE  /\ MapStep(sources, taken, strict).taken \in [DOMAIN sources -> Nat]
         /\ MapStep(sources, taken, strict).answers \in MapAnswers(sources)
<1> DEFINE D == DOMAIN sources
           round == Round(sources, taken)
           at == round.ended
           gone == round.taken
           more == {i \in D : i > 1 /\ Has(sources, gone, i)}
<1>1. gone \in [D -> Nat] /\ (at = 0 \/ at \in D)
  BY RoundIs
<1>2. D \subseteq Nat
  BY SourcesAre
<1> HIDE DEF round
<1>3. MapStep(sources, taken, strict) = IF at = 0 THEN Walked(gone, Value(gone))
                                        ELSE IF strict THEN Uneven(sources, gone, at)
                                        ELSE Walked(gone, End)
  BY DEF MapStep, round
<1>4. Value(gone) \in MapAnswers(sources) /\ End \in MapAnswers(sources)
  BY <1>1 DEF Value, End, MapAnswers
<1>5. \A i \in Nat : Shorter(i) \in MapAnswers(sources) /\ Longer(i) \in MapAnswers(sources)
  BY DEF Shorter, Longer, MapAnswers
<1>6. CASE at = 0 \/ ~strict
  BY <1>1, <1>3, <1>4, <1>6 DEF Walked
<1>7. CASE at # 0 /\ strict
  <2> DEFINE u == Uneven(sources, gone, at)
  <2>1. MapStep(sources, taken, strict) = u /\ at \in Nat
    BY <1>1, <1>2, <1>3, <1>7
  <2>2. u = IF at > 1 THEN Walked(gone, Shorter(at)) ELSE IF more = {} THEN Walked(gone, End)
            ELSE Walked(Stepped(sources, gone, Min(more)), Longer(Min(more)))
    BY DEF Uneven
  <2>3. CASE at > 1 \/ more = {}
    BY <1>1, <1>4, <1>5, <2>1, <2>2, <2>3 DEF Walked
  <2>4. CASE ~(at > 1 \/ more = {})
    <3> DEFINE m == Min(more)
    <3>1. more \in SUBSET Nat /\ more \subseteq D
      BY <1>2
    <3>2. u = Walked(Stepped(sources, gone, m), Longer(m))
      BY <2>2, <2>4
    <3> HIDE DEF more, u
    <3>3. m \in D /\ m \in Nat
      BY <2>4, <3>1, LeastOf
    <3> HIDE DEF m, gone
    <3>4. Stepped(sources, gone, m) \in [D -> Nat]
      BY <1>1, <3>3 DEF Stepped
    <3> QED BY <1>5, <2>1, <3>2, <3>3, <3>4 DEF Walked
  <2> QED BY <2>3, <2>4
<1> QED BY <1>6, <1>7

\* What MapKeepsStep says of an answer, and where the sources are.
KeptStep(sources, strict, k, w) ==
  LET short == Shortest(sources)
  IN  /\ w.taken \in [DOMAIN sources -> Nat] /\ w.answers \in Seq(MapAnswers(sources))
      /\ Len(w.answers) = k
      /\ \A j \in 1 .. k : j <= short => w.answers[j] = Value([i \in DOMAIN sources |-> j])
      /\ (~strict \/ k <= short) => w.taken = TakenAt(sources, k)
      /\ ~strict => \A j \in 1 .. k : j > short => w.answers[j] = End
      /\ strict /\ k > short => w.answers[short + 1] = Verdict(sources)

AskedOnce(sources, strict, w) ==
  LET s == MapStep(sources, w.taken, strict)
  IN  Walked(s.taken, Append(w.answers, s.answers))

LEMMA NothingAsked ==
  ASSUME NEW sources \in Sources, NEW strict \in BOOLEAN
  PROVE  KeptStep(sources, strict, 0, Walked([i \in DOMAIN sources |-> 0], << >>))
<1> DEFINE none == [i \in DOMAIN sources |-> 0]
           w == Walked(none, << >>)
<1>1. w.taken = none /\ w.answers = << >>
  BY DEF Walked
<1>2. TakenAt(sources, 0) = none
  <2>1. \A i \in DOMAIN sources : TakenOf(sources, i, 0) \in Nat /\ TakenOf(sources, i, 0) <= 0
    BY TakenIs
  <2>2. \A i \in DOMAIN sources : TakenOf(sources, i, 0) = 0
    BY <2>1
  <2> QED BY <2>2 DEF TakenAt
<1>3. none \in [DOMAIN sources -> Nat]
  OBVIOUS
<1>4. Shortest(sources) \in Nat
  BY ShortestIs
<1>5. << >> \in Seq(MapAnswers(sources)) /\ Len(<< >>) = 0
  BY EmptySeq
<1> HIDE DEF none, w
<1>6. \A j \in 1 .. 0 : FALSE
  OBVIOUS
<1>7. KeptStep(sources, strict, 0, w)
  BY <1>1, <1>2, <1>3, <1>4, <1>5, <1>6 DEF KeptStep
<1> QED BY <1>7 DEF w, none

LEMMA OneMore ==
  ASSUME NEW sources \in Sources, NEW strict \in BOOLEAN, NEW k \in Nat, NEW w,
         KeptStep(sources, strict, k, w)
  PROVE  KeptStep(sources, strict, k + 1, AskedOnce(sources, strict, w))
<1> DEFINE D == DOMAIN sources
           V == MapAnswers(sources)
           short == Shortest(sources)
           s == MapStep(sources, w.taken, strict)
           next == AskedOnce(sources, strict, w)
           round == Round(sources, w.taken)
<1>1. /\ w.taken \in [D -> Nat] /\ w.answers \in Seq(V) /\ Len(w.answers) = k
      /\ \A j \in 1 .. k : j <= short => w.answers[j] = Value([i \in D |-> j])
      /\ (~strict \/ k <= short) => w.taken = TakenAt(sources, k)
      /\ ~strict => \A j \in 1 .. k : j > short => w.answers[j] = End
      /\ strict /\ k > short => w.answers[short + 1] = Verdict(sources)
  BY DEF KeptStep
<1>2. s.taken \in [D -> Nat] /\ s.answers \in V
  BY <1>1, MapStepIs
<1>3. next.taken = s.taken /\ next.answers = Append(w.answers, s.answers)
  BY DEF AskedOnce, Walked
<1>4. short \in Nat
  BY ShortestIs
<1> HIDE DEF V, short, s, next, round
<1>5. /\ next.answers \in Seq(V) /\ Len(next.answers) = k + 1
      /\ next.answers[k + 1] = s.answers
      /\ \A j \in 1 .. k : next.answers[j] = w.answers[j]
  <2> DEFINE a == w.answers
             e == s.answers
  <2>1. a \in Seq(V) /\ e \in V /\ Len(a) = k
    BY <1>1, <1>2
  <2> HIDE DEF a, e
  <2>2. /\ Append(a, e) \in Seq(V) /\ Len(Append(a, e)) = k + 1
        /\ Append(a, e)[k + 1] = e
        /\ \A j \in 1 .. k : Append(a, e)[j] = a[j]
    BY <2>1, AppendProperties
  <2> QED BY <1>3, <2>2 DEF a, e
<1>6. s = IF round.ended = 0 THEN Walked(round.taken, Value(round.taken))
          ELSE IF strict THEN Uneven(sources, round.taken, round.ended)
          ELSE Walked(round.taken, End)
  BY DEF s, MapStep, round
<1>7. \A t, v : Walked(t, v).taken = t /\ Walked(t, v).answers = v
  BY DEF Walked
<1>8. CASE ~strict \/ k <= short
  <2>1. w.taken = TakenAt(sources, k)
    BY <1>1, <1>8
  <2>2. /\ round.taken = TakenAt(sources, k + 1)
        /\ k < short => round.ended = 0 /\ round.taken = [i \in D |-> k + 1]
        /\ k >= short => round.ended # 0
    <3> DEFINE at == TakenAt(sources, k)
               r == Round(sources, at)
    <3>1. /\ r.taken = TakenAt(sources, k + 1)
          /\ k < short => r.ended = 0 /\ r.taken = [i \in D |-> k + 1]
          /\ k >= short => r.ended # 0
      BY RoundMoves DEF short
    <3>2. round = r
      BY <2>1 DEF round
    <3> HIDE DEF r
    <3> QED BY <3>1, <3>2
  <2>3. CASE k < short
    <3>1. s.taken = TakenAt(sources, k + 1) /\ s.answers = Value([i \in D |-> k + 1])
      BY <1>6, <1>7, <2>2, <2>3
    <3>2. \A j \in 1 .. k + 1 : j <= short => next.answers[j] = Value([i \in D |-> j])
      <4> TAKE j \in 1 .. k + 1
      <4>1. CASE j = k + 1
        BY <4>1, <1>5, <3>1
      <4>2. CASE j # k + 1
        <5>1. j \in 1 .. k
          BY <4>2
        <5> QED BY <1>1, <1>5, <5>1
      <4> QED BY <4>1, <4>2
    <3>3. (\A j \in 1 .. k + 1 : ~(j > short)) /\ ~(k + 1 > short)
      BY <1>4, <2>3
    <3> QED BY <1>2, <1>3, <1>4, <1>5, <2>3, <3>1, <3>2, <3>3 DEF KeptStep, V, short, next
  <2>4. CASE ~(k < short) /\ ~strict
    <3>1. s.taken = TakenAt(sources, k + 1) /\ s.answers = End
      BY <1>4, <1>6, <1>7, <2>2, <2>4
    <3>2. \A j \in 1 .. k + 1 : j <= short => next.answers[j] = Value([i \in D |-> j])
      <4> TAKE j \in 1 .. k + 1
      <4> SUFFICES ASSUME j <= short PROVE next.answers[j] = Value([i \in D |-> j])
        OBVIOUS
      <4>1. j \in 1 .. k
        BY <1>4, <2>4
      <4> QED BY <1>1, <1>5, <4>1
    <3>3. \A j \in 1 .. k + 1 : j > short => next.answers[j] = End
      <4> TAKE j \in 1 .. k + 1
      <4>1. CASE j = k + 1
        BY <4>1, <1>5, <3>1
      <4>2. CASE j # k + 1
        <5>1. j \in 1 .. k
          BY <4>2
        <5> QED BY <1>1, <1>5, <2>4, <5>1
      <4> QED BY <4>1, <4>2
    <3> QED BY <1>2, <1>3, <1>4, <1>5, <2>4, <3>1, <3>2, <3>3 DEF KeptStep, V, short, next
  <2>5. CASE ~(k < short) /\ strict
    <3>1. k = short
      BY <1>4, <1>8, <2>5
    <3>2. s.answers = Verdict(sources)
      BY <2>1, <2>5, <3>1, VerdictIs DEF s, short
    <3>3. \A j \in 1 .. k + 1 : j <= short => next.answers[j] = Value([i \in D |-> j])
      <4> TAKE j \in 1 .. k + 1
      <4> SUFFICES ASSUME j <= short PROVE next.answers[j] = Value([i \in D |-> j])
        OBVIOUS
      <4>1. j \in 1 .. k
        BY <1>4, <3>1
      <4> QED BY <1>1, <1>5, <4>1
    <3>4. next.answers[short + 1] = Verdict(sources)
      BY <1>5, <3>1, <3>2
    <3>5. ~(k + 1 <= short)
      BY <1>4, <3>1
    <3> QED BY <1>2, <1>3, <1>4, <1>5, <2>5, <3>3, <3>4, <3>5 DEF KeptStep, V, short, next
  <2> QED BY <2>3, <2>4, <2>5
<1>9. CASE ~(~strict \/ k <= short)
  <2>1. strict /\ k > short
    BY <1>4, <1>9
  <2>2. \A j \in 1 .. k + 1 : j <= short => next.answers[j] = Value([i \in D |-> j])
    <3> TAKE j \in 1 .. k + 1
    <3> SUFFICES ASSUME j <= short PROVE next.answers[j] = Value([i \in D |-> j])
      OBVIOUS
    <3>1. j \in 1 .. k
      BY <1>4, <2>1
    <3> QED BY <1>1, <1>5, <3>1
  <2>3. next.answers[short + 1] = Verdict(sources)
    <3>1. short + 1 \in 1 .. k
      BY <1>4, <2>1
    <3> QED BY <1>1, <1>5, <2>1, <3>1
  <2>4. ~(k + 1 <= short)
    BY <1>4, <2>1
  <2> QED BY <1>2, <1>3, <1>4, <1>5, <2>1, <2>2, <2>3, <2>4 DEF KeptStep, V, short, next
<1> QED BY <1>8, <1>9

LEMMA MapAskedIs ==
  ASSUME NEW sources \in Sources, NEW strict \in BOOLEAN, NEW n \in Nat
  PROVE  KeptStep(sources, strict, n, MapAsked(sources, strict, n))
<1> DEFINE W == [taken : [DOMAIN sources -> Nat], answers : Seq(MapAnswers(sources))]
           first == Walked([i \in DOMAIN sources |-> 0], << >>)
           Once(w) == AskedOnce(sources, strict, w)
           step == [k \in Nat |-> [w \in W |-> Once(w)]]
           IsAsked(f) == f = [k \in 0 .. n |-> IF k = 0 THEN first ELSE Once(f[k - 1])]
           asked == CHOOSE f : IsAsked(f)
<1>1. MapAsked(sources, strict, n) = asked[n]
  BY DEF MapAsked, AskedOnce
<1>2. first \in W
  <2>1. << >> \in Seq(MapAnswers(sources)) /\ [i \in DOMAIN sources |-> 0] \in [DOMAIN sources -> Nat]
    BY EmptySeq
  <2> QED BY <2>1 DEF Walked
<1>3. ASSUME NEW w \in W PROVE Once(w) \in W
  <2> DEFINE s == MapStep(sources, w.taken, strict)
  <2>1. s.taken \in [DOMAIN sources -> Nat] /\ s.answers \in MapAnswers(sources)
    BY MapStepIs
  <2> HIDE DEF s
  <2>2. Append(w.answers, s.answers) \in Seq(MapAnswers(sources))
    BY <2>1, AppendProperties
  <2>3. Once(w) = Walked(s.taken, Append(w.answers, s.answers))
    BY DEF AskedOnce, s
  <2> QED BY <2>1, <2>2, <2>3 DEF Walked
<1> HIDE DEF W, first, Once
<1>4. step \in Steps(W) /\ \A k \in Nat, w \in W : step[k][w] = Once(w)
  <2>1. \A k \in Nat : [w \in W |-> Once(w)] \in [W -> W]
    BY <1>3
  <2> QED BY <2>1 DEF Steps
<1> HIDE DEF step
<1>5. \E f : IsAsked(f)
  <2>1. PICK h : /\ h = [k \in 0 .. n |-> h[k]]
                 /\ h[0] = first /\ \A k \in 0 .. n : h[k] \in W
                 /\ \A k \in 1 .. n : h[k] = step[k - 1][h[k - 1]]
    BY <1>2, <1>4, RecursiveUpto
  <2>2. ASSUME NEW k \in 0 .. n PROVE h[k] = IF k = 0 THEN first ELSE Once(h[k - 1])
    <3>1. CASE k = 0
      BY <2>1, <3>1
    <3>2. CASE k # 0
      <4>1. k \in 1 .. n /\ k - 1 \in Nat /\ k - 1 \in 0 .. n
        BY <3>2
      <4>2. h[k] = step[k - 1][h[k - 1]] /\ h[k - 1] \in W
        BY <2>1, <4>1
      <4> QED BY <1>4, <3>2, <4>1, <4>2
    <3> QED BY <3>1, <3>2
  <2>3. h = [k \in 0 .. n |-> IF k = 0 THEN first ELSE Once(h[k - 1])]
    BY <2>1, <2>2
  <2>4. IsAsked(h)
    BY <2>3
  <2> HIDE DEF IsAsked
  <2> QED BY <2>4
<1>6. IsAsked(asked)
  <2> HIDE DEF IsAsked
  <2> QED BY <1>5
<1> HIDE DEF asked
<1> DEFINE A == {k \in Nat : k <= n => KeptStep(sources, strict, k, asked[k])}
<1>7. A = Nat
  <2>1. 0 \in A
    <3>1. asked[0] = first
      BY <1>6
    <3>2. KeptStep(sources, strict, 0, first)
      BY NothingAsked DEF first
    <3> QED BY <3>1, <3>2
  <2>2. ASSUME NEW k \in A PROVE k + 1 \in A
    <3> SUFFICES ASSUME k + 1 <= n PROVE KeptStep(sources, strict, k + 1, asked[k + 1])
      OBVIOUS
    <3>1. k \in Nat /\ k <= n /\ k + 1 \in 0 .. n /\ k + 1 # 0 /\ (k + 1) - 1 = k
      OBVIOUS
    <3>2. asked[k + 1] = Once(asked[k])
      BY <1>6, <3>1
    <3>3. KeptStep(sources, strict, k, asked[k])
      BY <3>1
    <3>4. KeptStep(sources, strict, k + 1, Once(asked[k]))
      BY <3>1, <3>3, OneMore DEF Once
    <3> QED BY <3>2, <3>4
  <2> HIDE DEF A
  <2>3. A \subseteq Nat
    BY DEF A
  <2> QED BY <2>1, <2>2, <2>3, Induction
<1>8. n \in A
  <2> HIDE DEF A
  <2> QED BY <1>7
<1> QED BY <1>1, <1>8

LEMMA MapAnswered ==
  ASSUME NEW sources \in Sources, NEW strict \in BOOLEAN, NEW n \in Nat,
         question.sources = sources, question.strict = strict, question.asked = n,
         answer' = <<MapAsked(sources, strict, n)>>, question' = question
  PROVE  MapKeepsStep'
<1> DEFINE w == MapAsked(sources, strict, n)
           short == Shortest(sources)
           D == DOMAIN sources
<1>1. It' = w /\ question'.sources = sources /\ question'.strict = strict /\ question'.asked = n
  BY DEF It
<1>2. KeptStep(sources, strict, n, w)
  BY MapAskedIs
<1> HIDE DEF w
<1>3. /\ w.answers \in Seq(MapAnswers(sources)) /\ Len(w.answers) = n
      /\ \A j \in 1 .. n : j <= short => w.answers[j] = Value([i \in D |-> j])
      /\ ~strict => \A j \in 1 .. n : j > short => w.answers[j] = End
      /\ strict /\ n > short => w.answers[short + 1] = Verdict(sources)
      /\ ~strict => w.taken = TakenAt(sources, n)
  BY <1>2 DEF KeptStep
<1>4. DOMAIN w.answers = 1 .. n
  <2> DEFINE a == w.answers
  <2>1. a \in Seq(MapAnswers(sources)) /\ Len(a) = n
    BY <1>3
  <2> HIDE DEF a
  <2>2. DOMAIN a = 1 .. n
    BY <2>1, LenProperties
  <2> QED BY <2>2 DEF a
<1>5. ~strict => \A i \in D : w.taken[i] = TakenOf(sources, i, n)
  BY <1>3 DEF TakenAt
<1> HIDE DEF short
<1> QED BY <1>1, <1>3, <1>4, <1>5 DEF MapKeepsStep, short

-----------------------------------------------------------------------------
(* Slices.  Python's ends and step may be any integers; the code pulls all *)
(* of them into the word first.                                            *)

Slices == [start : Parts, stop : Parts, step : Parts \ {Small(0)}]

\* The real step, and what it says of the direction.
StepOf(slice) == IF slice.step = Absent THEN 1 ELSE slice.step.n

LEMMA PartIs ==
  ASSUME NEW part \in Parts, part # Absent
  PROVE  /\ part \in Ints(Int) /\ part.n \in Int
         /\ part.n \in Word => Bound(part) = part.n
         /\ part.n \notin Word => Bound(part) = IF part.n < 0 THEN WordMin ELSE WordMax
         /\ Bound(part) \in Int /\ WordMin <= Bound(part) /\ Bound(part) <= WordMax
         /\ part.n < 0 <=> Bound(part) < 0
         /\ part.n = 0 => part = Small(0)
<1>1. part \in Ints(Int) /\ part.n \in Int /\ (part.arm = "small" <=> part.n \in Word)
        /\ part = FromBig(part.n)
  BY IntIs DEF Parts
<1>2. 0 \in Word /\ FromBig(0) = Small(0)
  BY WordIs DEF FromBig
<1>3. part.n = 0 => part = Small(0)
  BY <1>1, <1>2
<1>4. Bound(part) = IF part.n \in Word THEN part.n ELSE IF part.n < 0 THEN WordMin ELSE WordMax
  BY <1>1 DEF Bound
<1> QED BY <1>1, <1>3, <1>4, WordIs

(* An end that was pulled in says the same of every position.              *)
LEMMA ClampIs ==
  ASSUME NEW part \in Parts, part # Absent, NEW len \in Lengths, NEW otherwise
  PROVE  LET a == Points(part, len, otherwise)
         IN  /\ a \in Int
             /\ Clamp(Bound(part), len, FALSE) \in 0 .. len
             /\ Clamp(Bound(part), len, TRUE) \in -1 .. len - 1
             /\ \A j \in 0 .. len - 1 : /\ Clamp(Bound(part), len, FALSE) <= j <=> a <= j
                                        /\ Clamp(Bound(part), len, TRUE) >= j <=> a >= j
<1> DEFINE n == part.n
           v == Bound(part)
           a == Points(part, len, otherwise)
<1>1. /\ n \in Int /\ v \in Int /\ WordMin <= v /\ v <= WordMax /\ (n < 0 <=> v < 0)
      /\ n \in Word => v = n
      /\ n \notin Word => v = IF n < 0 THEN WordMin ELSE WordMax
  BY PartIs
<1>2. a = IF n < 0 THEN n + len ELSE n
  BY DEF Points
<1>3. len \in Nat /\ len <= WordMax
  BY WordIs DEF Lengths
<1> HIDE DEF n, v, a
<1>4. v < 0 => Saturate(v + len) = v + len
  BY <1>1, <1>3, WordIs DEF Saturate
<1> DEFINE f == Clamp(v, len, FALSE)
           b == Clamp(v, len, TRUE)
<1>5. f = IF v < 0 THEN IF v + len < 0 THEN 0 ELSE v + len ELSE IF v >= len THEN len ELSE v
  BY <1>4 DEF Clamp
<1>6. b = IF v < 0 THEN IF v + len < 0 THEN -1 ELSE v + len ELSE IF v >= len THEN len - 1 ELSE v
  BY <1>4 DEF Clamp
<1> HIDE DEF f, b
<1>7. f \in 0 .. len /\ b \in -1 .. len - 1 /\ a \in Int
  BY <1>1, <1>2, <1>3, <1>5, <1>6
<1>8. ASSUME NEW j \in 0 .. len - 1 PROVE (f <= j <=> a <= j) /\ (b >= j <=> a >= j)
  <2>1. CASE n \in Word
    BY <1>1, <1>2, <1>3, <1>5, <1>6, <2>1
  <2>2. CASE n \notin Word
    BY <1>1, <1>2, <1>3, <1>5, <1>6, <2>2, WordIs
  <2> QED BY <2>1, <2>2
<1> QED BY <1>7, <1>8 DEF f, b, v, a

LEMMA Multiples ==
  ASSUME NEW x \in Nat, NEW m \in Nat, m > 0
  PROVE  (x % m = 0) <=> \E k \in Nat : x = k * m
<1>1. ASSUME x % m = 0 PROVE \E k \in Nat : x = k * m
  <2>1. x \div m \in Nat /\ x = m * (x \div m) + (x % m)
    OBVIOUS
  <2> DEFINE k == x \div m
  <2>2. x = k * m /\ k \in Nat
    BY <1>1, <2>1
  <2> QED BY <2>2
<1>2. ASSUME NEW k \in Nat, x = k * m PROVE x % m = 0
  <2> DEFINE q == x \div m
             r == x % m
  <2>1. q \in Nat /\ r \in Nat /\ r < m /\ x = m * q + r
    OBVIOUS
  <2> HIDE DEF q, r
  <2>2. (k - q) * m = r
    BY <1>2, <2>1
  <2>3. k - q = 0
    <3>1. CASE k - q >= 1
      <4>1. (k - q - 1) * m >= 0 /\ (k - q - 1) * m = (k - q) * m - m
        BY <2>1, <3>1
      <4> QED BY <2>1, <2>2, <4>1
    <3>2. CASE k - q <= -1
      <4>1. (q - k - 1) * m >= 0 /\ (q - k - 1) * m = -((k - q) * m) - m
        BY <2>1, <3>2
      <4> QED BY <2>1, <2>2, <4>1
    <3> QED BY <2>1, <3>1, <3>2
  <2>4. r = 0
    BY <2>2, <2>3, <2>1
  <2> QED BY <2>4 DEF r
<1> QED BY <1>1, <1>2

\* From one position to another, the second left out, either way.
Towards(s, t, w) == {j \in Int : IF w > 0 THEN s <= j /\ j < t ELSE t < j /\ j <= s}

(* A stride w from s until t is passed comes to the multiples of d, if w   *)
(* is d or both are so long that there is only the first.                  *)
LEMMA StridesAre ==
  ASSUME NEW s \in Int, NEW t \in Int, NEW w \in Int, NEW d \in Int, w # 0, d # 0,
         Magnitude(t - s) <= WordMax,
         w < 0 <=> d < 0,
         w = d \/ (Magnitude(w) >= WordMax /\ Magnitude(d) >= WordMax)
  PROVE  /\ {s + (i - 1) * w : i \in 1 .. HowMany(s, t, w)}
              = {j \in Towards(s, t, w) : Magnitude(j - s) % Magnitude(d) = 0}
         /\ \A i \in 1 .. HowMany(s, t, w) : s + (i - 1) * w \in Towards(s, t, w)
<1> DEFINE many == HowMany(s, t, w)
           B == Towards(s, t, w)
           m == Magnitude(d)
<1>1. many \in Nat /\ \A k \in Nat : k < many <=> IF w >= 0 THEN s + k * w < t ELSE s + k * w > t
  BY HowManyIs
<1>2. m \in Nat /\ m > 0 /\ WordMax \in Nat /\ WordMax >= 1
  BY WordIs DEF Magnitude
<1> HIDE DEF many, m
<1>3. ASSUME NEW k \in Nat PROVE s + k * w \in B <=> k < many
  <2> DEFINE e == k * w
  <2>1. e \in Int /\ (w > 0 => e >= 0) /\ (w < 0 => e <= 0)
    OBVIOUS
  <2>2. k < many <=> IF w >= 0 THEN s + e < t ELSE s + e > t
    BY <1>1
  <2> HIDE DEF e
  <2>3. s + e \in B <=> k < many
    BY <2>1, <2>2 DEF Towards
  <2> QED BY <2>3 DEF e
<1>4. ASSUME NEW k \in Nat, k < many PROVE Magnitude((s + k * w) - s) % m = 0
  <2>1. CASE w = d
    <3>1. (s + k * w) - s = k * d
      BY <2>1
    <3>2. Magnitude(k * d) = k * m
      <4> DEFINE e == k * d
      <4>1. CASE d > 0
        <5>1. e >= 0 /\ e \in Int /\ m = d
          BY <4>1 DEF Magnitude, m
        <5> QED BY <5>1 DEF Magnitude
      <4>2. CASE d < 0
        <5>1. e <= 0 /\ e \in Int /\ m = -d /\ k * (-d) = -e
          BY <4>2 DEF Magnitude, m
        <5> QED BY <5>1 DEF Magnitude
      <4> QED BY <4>1, <4>2
    <3>3. k * m \in Nat
      BY <1>2
    <3> DEFINE x == k * m
    <3> HIDE DEF x
    <3>4. x % m = 0
      <4>1. \E l \in Nat : x = l * m
        BY DEF x
      <4>2. x \in Nat
        BY <3>3 DEF x
      <4> QED BY <1>2, <4>1, <4>2, Multiples
    <3> QED BY <3>1, <3>2, <3>4 DEF x
  <2>2. CASE w # d
    <3>1. k = 0
      <4> SUFFICES ASSUME k > 0 PROVE FALSE
        OBVIOUS
      <4>1. 1 < many
        <5> SUFFICES ASSUME ~(1 < many) PROVE FALSE
          OBVIOUS
        <5>1. k = 0 \/ ~(k < many)
          BY <1>1
        <5> QED BY <1>4, <5>1
      <4>2. IF w >= 0 THEN s + 1 * w < t ELSE s + 1 * w > t
        BY <1>1, <4>1
      <4>3. Magnitude(w) < Magnitude(t - s)
        BY <4>2 DEF Magnitude
      <4>4. Magnitude(w) \in Nat /\ Magnitude(t - s) \in Nat
        BY DEF Magnitude
      <4> QED BY <1>2, <2>2, <4>3, <4>4
    <3>2. (s + k * w) - s = 0
      BY <3>1
    <3>3. 0 % m = 0 /\ Magnitude(0) = 0
      BY <1>2 DEF Magnitude
    <3> QED BY <3>2, <3>3
  <2> QED BY <2>1, <2>2
<1>5. ASSUME NEW j \in B, Magnitude(j - s) % m = 0
      PROVE  \E k \in Nat : k < many /\ j = s + k * w
  <2>1. /\ j \in Int
        /\ IF w > 0 THEN s <= j /\ j < t ELSE t < j /\ j <= s
    BY DEF Towards
  <2>2. Magnitude(j - s) \in Nat /\ Magnitude(j - s) < WordMax
    BY <1>2, <2>1 DEF Magnitude
  <2> DEFINE x == Magnitude(j - s)
  <2> HIDE DEF x
  <2>3. PICK k \in Nat : x = k * m
    BY <1>2, <1>5, <2>2, Multiples DEF x
  <2>4. j = s + k * w
    <3>1. CASE w = d
      <4>1. CASE d > 0
        <5>1. x = j - s /\ m = d
          BY <2>1, <3>1, <4>1 DEF Magnitude, x, m
        <5> QED BY <2>1, <2>3, <3>1, <5>1
      <4>2. CASE d < 0
        <5>1. x = s - j /\ m = -d
          BY <2>1, <3>1, <4>2 DEF Magnitude, x, m
        <5>2. k * m = -(k * w)
          BY <3>1, <5>1
        <5> QED BY <2>1, <2>3, <5>1, <5>2
      <4> QED BY <4>1, <4>2
    <3>2. CASE w # d
      <4>1. m >= WordMax /\ x < m
        BY <1>2, <2>2, <3>2 DEF x, m, Magnitude
      <4>2. k = 0
        <5> SUFFICES ASSUME k >= 1 PROVE FALSE
          OBVIOUS
        <5>1. (k - 1) * m >= 0 /\ (k - 1) * m = k * m - m
          BY <1>2
        <5> QED BY <1>2, <2>2, <2>3, <4>1, <5>1 DEF x
      <4>3. x = 0
        BY <1>2, <2>3, <4>2
      <4>4. j = s
        BY <2>1, <4>3 DEF x, Magnitude
      <4> QED BY <4>2, <4>4
    <3> QED BY <3>1, <3>2
  <2>5. k < many
    BY <1>3, <2>4
  <2> QED BY <2>4, <2>5
<1>6. ASSUME NEW i \in 1 .. many
      PROVE  s + (i - 1) * w \in B /\ Magnitude((s + (i - 1) * w) - s) % m = 0
  <2> DEFINE k == i - 1
  <2>1. k \in Nat /\ k < many
    BY <1>1
  <2> HIDE DEF k
  <2>2. s + k * w \in B /\ Magnitude((s + k * w) - s) % m = 0
    BY <1>3, <1>4, <2>1
  <2> QED BY <2>2 DEF k
<1>7. ASSUME NEW j \in B, Magnitude(j - s) % m = 0
      PROVE  \E i \in 1 .. many : j = s + (i - 1) * w
  <2>1. PICK k \in Nat : k < many /\ j = s + k * w
    BY <1>5, <1>7
  <2>2. k + 1 \in 1 .. many /\ (k + 1) - 1 = k
    BY <1>1, <2>1
  <2>3. j = s + ((k + 1) - 1) * w
    BY <2>1, <2>2
  <2> QED BY <2>2, <2>3
<1>8. {s + (i - 1) * w : i \in 1 .. many} = {j \in B : Magnitude(j - s) % m = 0}
  <2> HIDE DEF B
  <2> QED BY <1>6, <1>7
<1>9. \A i \in 1 .. many : s + (i - 1) * w \in B
  BY <1>6
<1> QED BY <1>8, <1>9 DEF many, m

(* The magnitude of the least word wraps to the least word, and the        *)
(* quotient is still right.                                                *)
LEMMA StrideIs ==
  ASSUME NEW w \in Word, w # 0, NEW x \in 0 .. WordMax - 1
  PROVE  Quotient(x, Wrap(Magnitude(w))) = x \div Magnitude(w)
<1>1. w \in Int /\ WordMin <= w /\ w <= WordMax /\ WordMin = -WordMax - 1 /\ WordMax \in Nat /\ WordMax >= 1 /\ x \in Nat
        /\ WordMin \in Int
  <2>1. w \in Int
    BY WordIs DEF Word
  <2> QED BY <2>1, WordIs
<1> DEFINE m == Magnitude(w)
           q == x \div m
<1>2. m \in Nat /\ m > 0
  BY <1>1 DEF Magnitude
<1>3. CASE w # WordMin
  <2>1. m \in Word
    BY <1>1, <1>3, WordIs DEF Magnitude
  <2> HIDE DEF m
  <2>2. Wrap(m) = m
    BY <2>1, WrapOfWord
  <2>3. SignOf(x) = 1 /\ SignOf(m) = 1 /\ Magnitude(x) = x /\ Magnitude(m) = m
    BY <1>1, <1>2 DEF SignOf, Magnitude
  <2>4. Quotient(x, m) = 1 * 1 * q
    BY <2>3 DEF Quotient
  <2>5. q \in Int
    BY <1>1, <1>2
  <2> HIDE DEF q
  <2>6. Quotient(x, m) = q
    BY <2>4, <2>5
  <2> QED BY <2>2, <2>6 DEF q, m
<1>4. CASE w = WordMin
  <2>1. m = WordMax + 1
    BY <1>1, <1>4 DEF Magnitude
  <2>2. Wrap(m) = WordMin
    <3> DEFINE n == 2 * (WordMax + 1)
    <3>1. m - WordMin = n /\ n \in Nat /\ n > 0
      BY <1>1, <2>1
    <3> HIDE DEF n
    <3>2. n % n = 0
      <4>1. \E k \in Nat : n = k * n
        <5>1. n = 1 * n
          BY <3>1
        <5> QED BY <5>1
      <4> QED BY <3>1, <4>1, Multiples
    <3>3. Wrap(m) = ((m - WordMin) % n) + WordMin
      BY DEF Wrap, n
    <3> QED BY <1>1, <3>1, <3>2, <3>3
  <2>3. SignOf(x) = 1 /\ SignOf(WordMin) = -1 /\ Magnitude(x) = x /\ Magnitude(WordMin) = m
    BY <1>1, <2>1 DEF SignOf, Magnitude
  <2>4. q = 0
    <3> HIDE DEF m
    <3>1. q \in Nat /\ m * q <= x /\ x < m
      BY <1>1, <1>2, <2>1, Divided
    <3> HIDE DEF q
    <3> SUFFICES ASSUME q >= 1 PROVE FALSE
      BY <3>1
    <3>2. (q - 1) * m >= 0 /\ (q - 1) * m = m * q - m
      BY <1>2, <3>1
    <3> QED BY <1>1, <1>2, <3>1, <3>2
  <2>5. Quotient(x, WordMin) = 1 * (-1) * q
    BY <2>3 DEF Quotient
  <2> HIDE DEF q, m
  <2> QED BY <2>2, <2>4, <2>5 DEF q, m
<1> QED BY <1>3, <1>4

LEMMA StepWordIs ==
  ASSUME NEW slice \in Slices
  PROVE  LET d == StepOf(slice)
             w == IF slice.step = Absent THEN 1 ELSE Bound(slice.step)
         IN  /\ d \in Int /\ d # 0 /\ w \in Int /\ w # 0 /\ w \in Word
             /\ w < 0 <=> d < 0
             /\ w = d \/ (Magnitude(w) >= WordMax /\ Magnitude(d) >= WordMax)
<1>1. CASE slice.step = Absent
  BY <1>1, WordIs DEF StepOf
<1>2. CASE slice.step # Absent
  <2> DEFINE part == slice.step
             n == part.n
             w == Bound(part)
  <2>1. part \in Parts /\ part # Small(0)
    BY DEF Slices
  <2>2. /\ n \in Int /\ w \in Int /\ WordMin <= w /\ w <= WordMax /\ (n < 0 <=> w < 0)
        /\ n \in Word => w = n
        /\ n \notin Word => w = IF n < 0 THEN WordMin ELSE WordMax
        /\ n # 0
    <3> HIDE DEF part
    <3> QED BY <1>2, <2>1, PartIs DEF part
  <2>3. StepOf(slice) = n
    BY <1>2 DEF StepOf
  <2> HIDE DEF n, w
  <2>4. w # 0 /\ w \in Word /\ (w = n \/ (Magnitude(w) >= WordMax /\ Magnitude(n) >= WordMax))
    BY <2>2, WordIs DEF Magnitude
  <2> QED BY <1>2, <2>2, <2>3, <2>4 DEF w
<1> QED BY <1>1, <1>2

\* The positions between the ends, as Python has them.
BetweenEnds(slice, len) ==
  LET step == StepOf(slice)
      a == Points(slice.start, len, IF step > 0 THEN 0 ELSE len - 1)
      b == Points(slice.stop, len, IF step > 0 THEN len ELSE -1)
  IN  {j \in 0 .. len - 1 : IF step > 0 THEN a <= j /\ j < b ELSE b < j /\ j <= a}

LEMMA EndsAre ==
  ASSUME NEW slice \in Slices, NEW len \in Lengths
  PROVE  LET ix == Indices(slice, len)
             w == IF slice.step = Absent THEN 1 ELSE Bound(slice.step)
         IN  /\ ix.step = w /\ ix.start \in Int
             /\ \E stop \in Int :
                  /\ Magnitude(stop - ix.start) <= len
                  /\ BetweenEnds(slice, len) = Towards(ix.start, stop, w)
                  /\ ix.len = LET span == IF w < 0 THEN ix.start - stop ELSE stop - ix.start
                              IN  IF span > 0 THEN Quotient(span - 1, Wrap(Magnitude(w))) + 1 ELSE 0
<1> DEFINE d == StepOf(slice)
           w == IF slice.step = Absent THEN 1 ELSE Bound(slice.step)
           back == w < 0
           start == IF slice.start # Absent THEN Clamp(Bound(slice.start), len, back)
                    ELSE IF back THEN len - 1 ELSE 0
           stop == IF slice.stop # Absent THEN Clamp(Bound(slice.stop), len, back)
                   ELSE IF back THEN -1 ELSE len
           span == IF back THEN start - stop ELSE stop - start
           a == Points(slice.start, len, IF d > 0 THEN 0 ELSE len - 1)
           b == Points(slice.stop, len, IF d > 0 THEN len ELSE -1)
           ix == Indices(slice, len)
<1>1. ix = [start |-> start, step |-> w,
            len |-> IF span > 0 THEN Quotient(span - 1, Wrap(Magnitude(w))) + 1 ELSE 0]
  BY DEF Indices
<1>2. d \in Int /\ d # 0 /\ w \in Int /\ w # 0 /\ (w < 0 <=> d < 0)
  BY StepWordIs
<1>3. slice.start \in Parts /\ slice.stop \in Parts /\ len \in Nat
  BY WordIs DEF Slices, Lengths
<1>4. BetweenEnds(slice, len) = {j \in 0 .. len - 1 : IF d > 0 THEN a <= j /\ j < b ELSE b < j /\ j <= a}
  BY DEF BetweenEnds
<1> HIDE DEF d, w, ix
<1>5. start \in Int /\ stop \in Int /\ Magnitude(stop - start) <= len
        /\ BetweenEnds(slice, len) = Towards(start, stop, w)
  <2>1. CASE d > 0
    <3>1. w > 0 /\ back = FALSE
      BY <1>2, <2>1
    <3>2. start \in 0 .. len /\ \A j \in 0 .. len - 1 : (start <= j <=> a <= j)
      <4>1. CASE slice.start = Absent
        BY <1>3, <2>1, <3>1, <4>1 DEF Points
      <4>2. CASE slice.start # Absent
        <5>1. start = Clamp(Bound(slice.start), len, FALSE)
          BY <3>1, <4>2
        <5> HIDE DEF start
        <5> QED BY <1>3, <4>2, <5>1, ClampIs
      <4> QED BY <4>1, <4>2
    <3>3. stop \in 0 .. len /\ b \in Int /\ \A j \in 0 .. len - 1 : (stop <= j <=> b <= j)
      <4>1. CASE slice.stop = Absent
        BY <1>3, <2>1, <3>1, <4>1 DEF Points
      <4>2. CASE slice.stop # Absent
        <5>1. stop = Clamp(Bound(slice.stop), len, FALSE)
          BY <3>1, <4>2
        <5> HIDE DEF stop
        <5> QED BY <1>3, <4>2, <5>1, ClampIs
      <4> QED BY <4>1, <4>2
    <3> HIDE DEF start, stop, a, b
    <3>4. \A j \in Int : j \in BetweenEnds(slice, len) <=> (start <= j /\ j < stop)
      BY <1>3, <1>4, <2>1, <3>2, <3>3
    <3>5. BetweenEnds(slice, len) \subseteq Int
      BY <1>3, <1>4
    <3>6. Magnitude(stop - start) <= len
      BY <1>3, <3>2, <3>3 DEF Magnitude
    <3> QED BY <1>3, <3>1, <3>2, <3>3, <3>4, <3>5, <3>6 DEF Towards
  <2>2. CASE ~(d > 0)
    <3>1. w < 0 /\ back = TRUE /\ ~(w > 0)
      BY <1>2, <2>2
    <3>2. start \in -1 .. len - 1 /\ \A j \in 0 .. len - 1 : (start >= j <=> a >= j)
      <4>1. CASE slice.start = Absent
        BY <1>3, <2>2, <3>1, <4>1 DEF Points
      <4>2. CASE slice.start # Absent
        <5>1. start = Clamp(Bound(slice.start), len, TRUE)
          BY <3>1, <4>2
        <5> HIDE DEF start
        <5> QED BY <1>3, <4>2, <5>1, ClampIs
      <4> QED BY <4>1, <4>2
    <3>3. stop \in -1 .. len - 1 /\ b \in Int /\ \A j \in 0 .. len - 1 : (stop >= j <=> b >= j)
      <4>1. CASE slice.stop = Absent
        BY <1>3, <2>2, <3>1, <4>1 DEF Points
      <4>2. CASE slice.stop # Absent
        <5>1. stop = Clamp(Bound(slice.stop), len, TRUE)
          BY <3>1, <4>2
        <5> HIDE DEF stop
        <5> QED BY <1>3, <4>2, <5>1, ClampIs
      <4> QED BY <4>1, <4>2
    <3>7. a \in Int
      <4>1. CASE slice.start = Absent
        BY <1>3, <2>2, <4>1 DEF Points
      <4>2. CASE slice.start # Absent
        BY <1>3, <4>2, ClampIs
      <4> QED BY <4>1, <4>2
    <3> HIDE DEF start, stop, a, b
    <3>4. \A j \in Int : j \in BetweenEnds(slice, len) <=> (stop < j /\ j <= start)
      BY <1>3, <1>4, <2>2, <3>2, <3>3, <3>7
    <3>5. BetweenEnds(slice, len) \subseteq Int
      BY <1>3, <1>4
    <3>6. Magnitude(stop - start) <= len
      BY <1>3, <3>2, <3>3 DEF Magnitude
    <3> QED BY <1>3, <3>1, <3>2, <3>3, <3>4, <3>5, <3>6 DEF Towards
  <2> QED BY <2>1, <2>2
<1> HIDE DEF start, stop
<1>6. ix.start = start /\ ix.step = w
        /\ ix.len = IF span > 0 THEN Quotient(span - 1, Wrap(Magnitude(w))) + 1 ELSE 0
  BY <1>1
<1> QED BY <1>5, <1>6 DEF ix, w

(* The offsets of a slice are its stride, none of them beyond the word.    *)
LEMMA SliceIs ==
  ASSUME NEW slice \in Slices, NEW len \in Lengths
  PROVE  LET ix == Indices(slice, len)
             offsets == Offsets(ix)
         IN  /\ ix.len \in Nat /\ DOMAIN offsets = 1 .. ix.len /\ offsets = [i \in 1 .. ix.len |-> offsets[i]]
             /\ \A i \in 1 .. ix.len : offsets[i] = ix.start + (i - 1) * ix.step
             /\ ix.start \in Int /\ ix.step = IF slice.step = Absent THEN 1 ELSE Bound(slice.step)
             /\ {offsets[i] : i \in DOMAIN offsets} = Selected(slice, len)
             /\ \A i, j \in DOMAIN offsets :
                  i < j => IF StepOf(slice) > 0 THEN offsets[i] < offsets[j] ELSE offsets[i] > offsets[j]
<1> DEFINE d == StepOf(slice)
           w == IF slice.step = Absent THEN 1 ELSE Bound(slice.step)
           ix == Indices(slice, len)
           s == ix.start
           offsets == Offsets(ix)
           B == BetweenEnds(slice, len)
           first == IF d > 0 THEN Min(B) ELSE Max(B)
<1>1. /\ d \in Int /\ d # 0 /\ w \in Int /\ w # 0 /\ w \in Word /\ (w < 0 <=> d < 0)
      /\ w = d \/ (Magnitude(w) >= WordMax /\ Magnitude(d) >= WordMax)
  BY StepWordIs
<1>2. PICK t \in Int : /\ ix.step = w /\ s \in Int
                       /\ Magnitude(t - s) <= len /\ B = Towards(s, t, w)
                       /\ ix.len = LET span == IF w < 0 THEN s - t ELSE t - s
                                   IN  IF span > 0 THEN Quotient(span - 1, Wrap(Magnitude(w))) + 1 ELSE 0
  BY EndsAre
<1>3. len \in Nat /\ len <= WordMax /\ WordMax \in Nat /\ B \subseteq 0 .. len - 1
        /\ WordMin \in Int /\ WordMin = -WordMax - 1
  BY WordIs DEF Lengths, BetweenEnds
<1>4. Selected(slice, len) = {j \in B : Magnitude(j - first) % Magnitude(d) = 0}
  BY DEF Selected, BetweenEnds, StepOf
<1>5. offsets = [i \in 1 .. ix.len |-> Saturate(s + Saturate(w * (i - 1)))]
  BY <1>2 DEF Offsets
<1> HIDE DEF d, w, ix, B, s, offsets, first
<1> DEFINE many == HowMany(s, t, w)
<1>6. ix.len = many
  <2> DEFINE span == IF w < 0 THEN s - t ELSE t - s
  <2>1. many = IF span <= 0 THEN 0 ELSE ((span - 1) \div Magnitude(w)) + 1
    BY DEF HowMany
  <2>2. ix.len = IF span > 0 THEN Quotient(span - 1, Wrap(Magnitude(w))) + 1 ELSE 0
    BY <1>2
  <2>3. span \in Int /\ span <= WordMax
    BY <1>1, <1>2, <1>3 DEF Magnitude
  <2> HIDE DEF span
  <2>4. span > 0 => Quotient(span - 1, Wrap(Magnitude(w))) = (span - 1) \div Magnitude(w)
    <3> SUFFICES ASSUME span > 0 PROVE Quotient(span - 1, Wrap(Magnitude(w))) = (span - 1) \div Magnitude(w)
      OBVIOUS
    <3>1. span - 1 \in 0 .. WordMax - 1
      BY <1>3, <2>3
    <3> DEFINE x == span - 1
    <3> HIDE DEF x
    <3>2. Quotient(x, Wrap(Magnitude(w))) = x \div Magnitude(w)
      BY <1>1, <3>1, StrideIs DEF x
    <3> QED BY <3>2 DEF x
  <2> QED BY <2>1, <2>2, <2>3, <2>4
<1>7. /\ {s + (i - 1) * w : i \in 1 .. many} = {j \in B : Magnitude(j - s) % Magnitude(d) = 0}
      /\ \A i \in 1 .. many : s + (i - 1) * w \in B
  <2>1. Magnitude(t - s) <= WordMax
    BY <1>2, <1>3 DEF Magnitude
  <2> QED BY <1>1, <1>2, <2>1, StridesAre
<1>8. many \in Nat
  BY <1>1, <1>2, HowManyIs
<1> HIDE DEF many
<1>9. ASSUME NEW i \in 1 .. many PROVE offsets[i] = s + (i - 1) * w
  <2> DEFINE e == (i - 1) * w
  <2>1. e \in Int /\ w * (i - 1) = e /\ i \in 1 .. ix.len
    BY <1>1, <1>6, <1>8
  <2>2. s + e \in 0 .. len - 1
    BY <1>3, <1>7
  <2>3. (w > 0 => e >= 0) /\ (w < 0 => e <= 0)
    <3> DEFINE k == i - 1
    <3>1. k \in Nat
      BY <1>8
    <3> HIDE DEF k
    <3>2. (w > 0 => k * w >= 0) /\ (w < 0 => k * w <= 0)
      BY <1>1, <3>1
    <3> QED BY <3>2 DEF k
  <2> HIDE DEF e
  <2>4. IF w > 0 THEN s <= s + e /\ s + e < t ELSE t < s + e /\ s + e <= s
    <3>1. s + e \in Towards(s, t, w)
      BY <1>2, <1>7 DEF e
    <3> QED BY <3>1 DEF Towards
  <2>5. -WordMax <= e /\ e <= WordMax
    BY <1>1, <1>2, <1>3, <2>1, <2>4 DEF Magnitude
  <2>6. Saturate(e) = e /\ Saturate(s + e) = s + e
    BY <1>2, <1>3, <2>1, <2>2, <2>5 DEF Saturate
  <2>7. offsets[i] = Saturate(s + Saturate(w * (i - 1)))
    BY <1>5, <2>1
  <2>8. offsets[i] = s + e
    BY <2>1, <2>6, <2>7
  <2> QED BY <2>8 DEF e
<1>10. DOMAIN offsets = 1 .. many
  BY <1>5, <1>6
<1>11. {offsets[i] : i \in DOMAIN offsets} = {j \in B : Magnitude(j - s) % Magnitude(d) = 0}
  BY <1>7, <1>9, <1>10
<1>12. B # {} => first = s
  <2> SUFFICES ASSUME B # {} PROVE first = s
    OBVIOUS
  <2>1. B = {j \in Int : IF w > 0 THEN s <= j /\ j < t ELSE t < j /\ j <= s}
    BY <1>2 DEF Towards
  <2>2. s \in B
    <3>1. PICK j \in B : TRUE
      OBVIOUS
    <3> QED BY <1>1, <1>2, <2>1, <3>1
  <2>3. CASE d > 0
    <3>1. \A j \in B : s <= j
      BY <1>1, <2>1, <2>3
    <3>2. Min(B) \in B /\ \A j \in B : Min(B) <= j
      BY <2>2, <3>1 DEF Min
    <3>3. Min(B) \in Int
      BY <2>1, <3>2
    <3>4. s <= Min(B) /\ Min(B) <= s
      BY <2>2, <3>1, <3>2
    <3> DEFINE f == Min(B)
    <3> HIDE DEF f
    <3>5. f = s
      BY <1>2, <3>3, <3>4 DEF f
    <3> QED BY <2>3, <3>5 DEF f, first
  <2>4. CASE ~(d > 0)
    <3>1. \A j \in B : s >= j
      BY <1>1, <2>1, <2>4
    <3>2. Max(B) \in B /\ \A j \in B : Max(B) >= j
      BY <2>2, <3>1 DEF Max
    <3>3. Max(B) \in Int
      BY <2>1, <3>2
    <3>4. s >= Max(B) /\ Max(B) >= s
      BY <2>2, <3>1, <3>2
    <3> DEFINE f == Max(B)
    <3> HIDE DEF f
    <3>5. f = s
      BY <1>2, <3>3, <3>4 DEF f
    <3> QED BY <2>4, <3>5 DEF f, first
  <2> QED BY <2>3, <2>4
<1>13. {offsets[i] : i \in DOMAIN offsets} = Selected(slice, len)
  <2>1. CASE B = {}
    BY <1>4, <1>11, <2>1
  <2>2. CASE B # {}
    BY <1>4, <1>11, <1>12, <2>2
  <2> QED BY <2>1, <2>2
<1>14. ASSUME NEW i \in DOMAIN offsets, NEW j \in DOMAIN offsets, i < j
       PROVE  IF d > 0 THEN offsets[i] < offsets[j] ELSE offsets[i] > offsets[j]
  <2>1. offsets[i] = s + (i - 1) * w /\ offsets[j] = s + (j - 1) * w /\ i \in Nat /\ j \in Nat
    BY <1>8, <1>9, <1>10
  <2> DEFINE x == (i - 1) * w
             y == (j - 1) * w
             k == j - i
  <2>2. y - x = k * w /\ k \in Nat /\ k > 0 /\ x \in Int /\ y \in Int
    BY <1>1, <1>14, <2>1
  <2>3. (w > 0 => k * w > 0) /\ (w < 0 => k * w < 0)
    <3> HIDE DEF k
    <3> QED BY <1>1, <2>2
  <2> DEFINE z == k * w
  <2>4. y = x + z /\ (w > 0 => z > 0) /\ (w < 0 => z < 0) /\ z \in Int
    BY <1>1, <2>2, <2>3
  <2> HIDE DEF x, y, k, z
  <2>5. IF d > 0 THEN s + x < s + y ELSE s + x > s + y
    BY <1>1, <1>2, <2>2, <2>4
  <2> QED BY <2>1, <2>5 DEF x, y
<1>15. offsets = [i \in 1 .. ix.len |-> offsets[i]]
  <2>1. offsets = [i \in DOMAIN offsets |-> offsets[i]]
    BY <1>5
  <2> QED BY <1>6, <1>10, <2>1
<1> QED BY <1>2, <1>6, <1>8, <1>9, <1>10, <1>13, <1>14, <1>15 DEF d, w, s, offsets, ix

(* A slice with any ends and any step comes to the positions it selects,   *)
(* each of them once and in the direction of its step, however far its     *)
(* parts are beyond the word (Slice::indices, Indices::offsets).           *)
THEOREM SlicesSelect ==
  \A slice \in Slices, len \in Lengths :
    LET offsets == Offsets(Indices(slice, len))
    IN  /\ {offsets[i] : i \in DOMAIN offsets} = Selected(slice, len)
        /\ \A i, j \in DOMAIN offsets :
             i < j => IF StepOf(slice) > 0 THEN offsets[i] < offsets[j] ELSE offsets[i] > offsets[j]
BY SliceIs

-----------------------------------------------------------------------------
(* Lists.                                                                  *)

LEMMA RemoveAtIs ==
  ASSUME NEW S, NEW t \in Seq(S), NEW i \in 1 .. Len(t)
  PROVE  /\ RemoveAt(t, i) \in Seq(S) /\ Len(RemoveAt(t, i)) = Len(t) - 1 /\ Len(t) \in Nat
         /\ \A j \in 1 .. i - 1 : RemoveAt(t, i)[j] = t[j]
         /\ \A j \in i .. Len(t) - 1 : RemoveAt(t, i)[j] = t[j + 1]
<1> DEFINE n == Len(t)
           a == SubSeq(t, 1, i - 1)
           b == SubSeq(t, i + 1, n)
<1>1. n \in Nat /\ \A j \in 1 .. n : t[j] \in S
  BY LenProperties
<1>2. a \in Seq(S) /\ Len(a) = i - 1 /\ \A j \in 1 .. i - 1 : a[j] = t[j]
  <2>1. 1 \in Int /\ i - 1 \in Int /\ \A k \in 1 .. i - 1 : t[k] \in S
    BY <1>1
  <2>2. a \in Seq(S) /\ Len(a) = IF 1 <= i - 1 THEN (i - 1) - 1 + 1 ELSE 0
    BY <1>1, <2>1, SubSeqProperties
  <2>3. \A j \in 1 .. (i - 1) - 1 + 1 : a[j] = t[1 + j - 1]
    BY <1>1, <2>1, SubSeqProperties
  <2> HIDE DEF a
  <2> QED BY <1>1, <2>2, <2>3
<1>3. b \in Seq(S) /\ Len(b) = n - i /\ \A j \in 1 .. n - i : b[j] = t[i + j]
  <2>1. i + 1 \in Int /\ n \in Int /\ \A k \in i + 1 .. n : t[k] \in S
    BY <1>1
  <2>2. b \in Seq(S) /\ Len(b) = IF i + 1 <= n THEN n - (i + 1) + 1 ELSE 0
    BY <1>1, <2>1, SubSeqProperties
  <2>3. \A j \in 1 .. n - (i + 1) + 1 : b[j] = t[(i + 1) + j - 1]
    BY <1>1, <2>1, SubSeqProperties
  <2> HIDE DEF b
  <2> QED BY <1>1, <2>2, <2>3
<1>4. RemoveAt(t, i) = a \o b
  BY DEF RemoveAt
<1> HIDE DEF a, b, n
<1> DEFINE c == a \o b
<1>5. c \in Seq(S) /\ Len(c) = Len(a) + Len(b)
  BY <1>2, <1>3, ConcatProperties
<1>6. \A j \in 1 .. Len(a) + Len(b) : c[j] = IF j <= Len(a) THEN a[j] ELSE b[j - Len(a)]
  BY <1>2, <1>3, ConcatProperties
<1> HIDE DEF c
<1>7. Len(c) = n - 1
  BY <1>1, <1>2, <1>3, <1>5 DEF n
<1>8. \A j \in 1 .. i - 1 : c[j] = t[j]
  <2>1. \A j \in 1 .. i - 1 : j \in 1 .. Len(a) + Len(b) /\ j <= Len(a)
    BY <1>1, <1>2, <1>3 DEF n
  <2> QED BY <1>2, <1>6, <2>1
<1>9. ASSUME NEW j \in i .. n - 1 PROVE c[j] = t[j + 1]
  <2> DEFINE k == j - (i - 1)
  <2>1. k \in 1 .. n - i /\ j \in 1 .. Len(a) + Len(b) /\ ~(j <= Len(a)) /\ j - Len(a) = k /\ i + k = j + 1
    BY <1>1, <1>2, <1>3 DEF n
  <2> HIDE DEF k
  <2> QED BY <1>3, <1>6, <2>1
<1> QED BY <1>1, <1>4, <1>5, <1>7, <1>8, <1>9 DEF c, n

LEMMA LeavesMore ==
  ASSUME NEW S, NEW s \in Seq(S), NEW t \in Seq(S), NEW G \in SUBSET (1 .. Len(s)), NEW m \in 1 .. Len(s),
         \A g \in G : m < g, Leaves(t, s, G)
  PROVE  /\ Leaves(RemoveAt(t, m), s, G \union {m}) /\ m \in 1 .. Len(t)
         /\ RemoveAt(t, m) \in Seq(S)
<1> DEFINE n == Len(s)
           u == RemoveAt(t, m)
           Before(A, k) == {j \in A : j < k}
           H == G \union {m}
<1>1. n \in Nat /\ DOMAIN s = 1 .. n /\ Len(t) \in Nat
  BY LenProperties
<1>2. ASSUME NEW a \in Int, NEW b \in Int, a <= b + 1, NEW T, T \subseteq a .. b
      PROVE  IsFiniteSet(T) /\ Cardinality(T) \in Nat /\ Cardinality(T) <= b - a + 1
  <2>1. IsFiniteSet(a .. b) /\ Cardinality(a .. b) = b - a + 1
    BY <1>2, FS_Interval
  <2>2. IsFiniteSet(T) /\ Cardinality(T) <= Cardinality(a .. b)
    BY <1>2, <2>1, FS_Subset
  <2> QED BY <2>1, <2>2, FS_CardinalityType
<1>10. (\A g \in G : g \in 1 .. n /\ g \in Int /\ m < g) /\ m \in 1 .. n /\ m \in Int
  BY <1>1
<1>3. IsFiniteSet(G) /\ Cardinality(G) \in Nat /\ Cardinality(G) <= n - m
  <2>1. G \subseteq m + 1 .. n
    BY <1>1, <1>10
  <2>2. m + 1 \in Int /\ n \in Int /\ m + 1 <= n + 1 /\ n - (m + 1) + 1 = n - m
    BY <1>1, <1>10
  <2>3. IsFiniteSet(G) /\ Cardinality(G) \in Nat /\ Cardinality(G) <= n - (m + 1) + 1
    BY <1>2, <2>1, <2>2
  <2> QED BY <2>2, <2>3
<1>4. IsFiniteSet(H) /\ Cardinality(H) = Cardinality(G) + 1
  BY <1>3, FS_AddElement
<1>5. Len(t) = n - Cardinality(G) /\ m \in 1 .. Len(t) /\ \A k \in (1 .. n) \ G : t[k - Cardinality(Before(G, k))] = s[k]
  BY <1>1, <1>3 DEF Leaves
<1>6. /\ u \in Seq(S) /\ Len(u) = Len(t) - 1
      /\ \A j \in 1 .. m - 1 : u[j] = t[j]
      /\ \A j \in m .. Len(t) - 1 : u[j] = t[j + 1]
  BY <1>5, RemoveAtIs
<1> HIDE DEF u
<1>7. ASSUME NEW k \in (1 .. n) \ H PROVE u[k - Cardinality(Before(H, k))] = s[k]
  <2>1. t[k - Cardinality(Before(G, k))] = s[k]
    BY <1>5
  <2>4. k \in Int /\ k \in 1 .. n /\ k # m /\ k \notin G /\ \A j \in H : j \in Int /\ m <= j
    BY <1>1, <1>10
  <2>2. CASE k < m
    <3>1. Before(H, k) = {} /\ Before(G, k) = {}
      <4>1. \A j \in H : ~(j < k)
        BY <1>10, <2>2, <2>4
      <4> QED BY <4>1
    <3>2. Cardinality({}) = 0
      BY FS_EmptySet
    <3>3. k \in 1 .. m - 1 /\ k - 0 = k
      BY <1>1, <1>10, <2>2
    <3>4. t[k] = s[k]
      BY <2>1, <3>1, <3>2, <3>3
    <3>5. u[k] = s[k]
      BY <1>6, <3>3, <3>4
    <3> QED BY <3>1, <3>2, <3>3, <3>5
  <2>3. CASE k > m
    <3> DEFINE c == Cardinality(Before(G, k))
    <3>1. Before(G, k) \subseteq m + 1 .. k - 1
      <4>1. \A j \in G : j < k => j \in m + 1 .. k - 1
        BY <1>10, <2>4
      <4> QED BY <4>1
    <3>2. IsFiniteSet(Before(G, k)) /\ c \in Nat /\ c <= k - m - 1
      <4>1. m + 1 \in Int /\ k - 1 \in Int /\ m + 1 <= (k - 1) + 1 /\ (k - 1) - (m + 1) + 1 = k - m - 1
        BY <1>1, <1>10, <2>3
      <4> DEFINE T == Before(G, k)
      <4>2. T \subseteq m + 1 .. k - 1
        BY <3>1
      <4> HIDE DEF T
      <4>3. IsFiniteSet(T) /\ Cardinality(T) \in Nat /\ Cardinality(T) <= (k - 1) - (m + 1) + 1
        BY <1>2, <4>1, <4>2
      <4> QED BY <4>1, <4>3 DEF T
    <3>3. Before(H, k) = Before(G, k) \union {m} /\ m \notin Before(G, k)
      BY <2>3
    <3>4. Cardinality(Before(H, k)) = c + 1
      BY <3>2, <3>3, FS_AddElement
    <3>5. c >= 0 /\ k - c \in 1 .. Len(t)
      <4> DEFINE A == {j \in G : j > k}
      <4>1. A \subseteq k + 1 .. n /\ G = Before(G, k) \union A /\ Before(G, k) \intersect A = {}
        <5>1. \A j \in G : j < k \/ j > k
          BY <1>1, <1>10
        <5>2. A \subseteq k + 1 .. n
          <6>1. \A j \in G : j > k => j \in k + 1 .. n
            BY <1>1, <1>10, <2>4
          <6> QED BY <6>1
        <5>3. Before(G, k) \intersect A = {}
          <6>1. \A j \in G : ~(j < k /\ j > k)
            BY <1>10, <2>4
          <6> QED BY <6>1
        <5>4. G = Before(G, k) \union A
          BY <5>1
        <5> QED BY <5>2, <5>3, <5>4
      <4> HIDE DEF A, c
      <4>2. IsFiniteSet(A) /\ Cardinality(A) \in Nat /\ Cardinality(A) <= n - k
        <5>1. k + 1 \in Int /\ n \in Int /\ k + 1 <= n + 1 /\ n - (k + 1) + 1 = n - k
          BY <1>1
        <5>2. IsFiniteSet(A) /\ Cardinality(A) \in Nat /\ Cardinality(A) <= n - (k + 1) + 1
          BY <1>2, <4>1, <5>1
        <5> QED BY <5>1, <5>2
      <4>3. Cardinality(G) = c + Cardinality(A)
        <5>1. Cardinality(Before(G, k) \union A) = Cardinality(Before(G, k)) + Cardinality(A) - Cardinality(Before(G, k) \intersect A)
          BY <3>2, <4>2, FS_Union
        <5>2. Cardinality({}) = 0
          BY FS_EmptySet
        <5>3. Cardinality(G) = Cardinality(Before(G, k)) + Cardinality(A) - 0
          BY <4>1, <5>1, <5>2
        <5> QED BY <3>2, <4>2, <5>3 DEF c
      <4> QED BY <1>1, <1>3, <1>5, <2>3, <3>2, <4>2, <4>3
    <3> HIDE DEF c
    <3>6. k - (c + 1) \in m .. Len(t) - 1 /\ (k - (c + 1)) + 1 = k - c
      BY <1>1, <2>3, <3>2, <3>5
    <3>7. u[k - (c + 1)] = t[k - c]
      <4> DEFINE j == k - (c + 1)
      <4> HIDE DEF j
      <4>1. j \in m .. Len(t) - 1 /\ j + 1 = k - c
        BY <3>6 DEF j
      <4>2. u[j] = t[j + 1]
        BY <1>6, <4>1
      <4> QED BY <4>1, <4>2 DEF j
    <3> QED BY <2>1, <3>4, <3>7 DEF c
  <2> QED BY <1>1, <2>2, <2>3
<1>8. Len(u) = n - Cardinality(H)
  BY <1>1, <1>3, <1>4, <1>5, <1>6
<1>9. Leaves(u, s, H)
  BY <1>1, <1>7, <1>8 DEF Leaves
<1> QED BY <1>5, <1>6, <1>9 DEF u

LEMMA LettersAre ==
  ASSUME NEW n \in Nat
  PROVE  Letters(n) \in Seq(Int) /\ Len(Letters(n)) = n /\ DOMAIN Letters(n) = 1 .. n /\ \A k \in 1 .. n : Letters(n)[k] = k
<1> DEFINE s == Letters(n)
<1>1. s \in [1 .. n -> Int] /\ DOMAIN s = 1 .. n /\ \A k \in 1 .. n : s[k] = k
  BY DEF Letters
<1> HIDE DEF s
<1>2. s \in Seq(Int)
  BY <1>1, SeqDef
<1>3. Len(s) = n
  BY <1>1, <1>2, LenProperties
<1> QED BY <1>1, <1>2, <1>3 DEF s

LEMMA NoneLeft ==
  ASSUME NEW S, NEW s \in Seq(S)
  PROVE  Leaves(s, s, {})
<1>1. Cardinality({}) = 0 /\ Len(s) \in Nat /\ DOMAIN s = 1 .. Len(s)
  BY FS_EmptySet, LenProperties
<1>2. \A k : {j \in {} : j < k} = {}
  OBVIOUS
<1>3. \A k \in 1 .. Len(s) : k - 0 = k
  BY <1>1
<1> QED BY <1>1, <1>2, <1>3 DEF Leaves

\* An element by its index.
LEMMA ItemIsRight ==
  ASSUME NEW len \in Lengths, NEW index \in Ints(Int)
  PROVE  LET s == Letters(len)
             n == index.n
             k == IF n < 0 THEN n + Len(s) + 1 ELSE n + 1
         IN  IF k \in DOMAIN s
               THEN /\ GetItem(s, index) = Gives(<<s[k]>>)
                    /\ SetItem(s, index, 0) = Gives([i \in DOMAIN s |-> IF i = k THEN 0 ELSE s[i]])
                    /\ DelItem(s, index).error = "none" /\ Leaves(DelItem(s, index).items, s, {k})
             ELSE LET error == IF n \in Word THEN "out of range" ELSE "no index"
                  IN  /\ GetItem(s, index).error = error /\ SetItem(s, index, 0).error = error
                      /\ DelItem(s, index).error = error
<1> DEFINE s == Letters(len)
           n == index.n
           k == IF n < 0 THEN n + Len(s) + 1 ELSE n + 1
           o == Offset(index, Len(s))
           error == IF n \in Word THEN "out of range" ELSE "no index"
<1>1. len \in Nat /\ len <= WordMax
  BY WordIs DEF Lengths
<1>2. s \in Seq(Int) /\ Len(s) = len /\ DOMAIN s = 1 .. len
  BY <1>1, LettersAre
<1>3. n \in Int /\ (index.arm = "big" <=> n \notin Word)
  BY IntIs
<1> DEFINE at == IF n < 0 THEN n + len ELSE n
<1>4. o = IF index.arm = "big" THEN [error |-> "no index", at |-> 0]
          ELSE IF at < 0 \/ at >= len THEN [error |-> "out of range", at |-> 0]
          ELSE [error |-> "none", at |-> at]
  BY <1>2 DEF Offset
<1>5. /\ GetItem(s, index) = IF o.error # "none" THEN Error(o.error) ELSE Gives(<<At(s, o.at)>>)
      /\ SetItem(s, index, 0) = IF o.error # "none" THEN Error(o.error) ELSE Gives(ReplaceAt(s, o.at + 1, 0))
      /\ DelItem(s, index) = IF o.error # "none" THEN Error(o.error) ELSE Gives(RemoveAt(s, o.at + 1))
  BY DEF GetItem, SetItem, DelItem
<1> HIDE DEF s, n, o
<1>6. k = at + 1 /\ k \in Int
  BY <1>1, <1>2, <1>3
<1> HIDE DEF k
<1>7. CASE k \in DOMAIN s
  <2>1. index.arm # "big"
    BY <1>1, <1>2, <1>3, <1>6, <1>7, WordIs
  <2>2. o = [error |-> "none", at |-> at]
    <3>1. ~(at < 0 \/ at >= len)
      BY <1>1, <1>2, <1>3, <1>6, <1>7
    <3> HIDE DEF at
    <3> QED BY <1>4, <2>1, <3>1
  <2> HIDE DEF at
  <2>3. o.error = "none" /\ o.at + 1 = k /\ At(s, o.at) = s[k]
    BY <1>6, <2>2 DEF At
  <2>4. /\ GetItem(s, index) = Gives(<<s[k]>>) /\ SetItem(s, index, 0) = Gives(ReplaceAt(s, k, 0))
        /\ DelItem(s, index) = Gives(RemoveAt(s, k))
    BY <1>5, <2>3
  <2>5. ReplaceAt(s, k, 0) = [i \in DOMAIN s |-> IF i = k THEN 0 ELSE s[i]]
    <3>1. ReplaceAt(s, k, 0) = [s EXCEPT ![k] = 0]
      BY DEF ReplaceAt
    <3> QED BY <3>1
  <2>6. Leaves(RemoveAt(s, k), s, {k})
    <3> DEFINE none == {}
    <3>1. Leaves(s, s, none) /\ none \in SUBSET (1 .. Len(s)) /\ k \in 1 .. Len(s) /\ \A g \in none : k < g
      BY <1>2, <1>7, NoneLeft
    <3>2. none \union {k} = {k}
      OBVIOUS
    <3> HIDE DEF none
    <3>3. Leaves(RemoveAt(s, k), s, none \union {k})
      BY <1>2, <3>1, LeavesMore
    <3> QED BY <3>2, <3>3
  <2>7. DelItem(s, index).error = "none" /\ DelItem(s, index).items = RemoveAt(s, k)
    BY <2>4 DEF Gives
  <2> QED BY <1>7, <2>4, <2>5, <2>6, <2>7 DEF s, n, k
<1>8. CASE k \notin DOMAIN s
  <2>1. o.error = error
    <3>1. at < 0 \/ at >= len
      BY <1>1, <1>2, <1>3, <1>6, <1>8
    <3> HIDE DEF at
    <3> QED BY <1>3, <1>4, <3>1
  <2> HIDE DEF error
  <2>2. error # "none"
    BY DEF error
  <2>3. GetItem(s, index) = Error(error) /\ SetItem(s, index, 0) = Error(error) /\ DelItem(s, index) = Error(error)
    BY <1>5, <2>1, <2>2
  <2>4. Error(error).error = error
    BY DEF Error
  <2> QED BY <1>8, <2>3, <2>4 DEF error, s, n, k
<1> QED BY <1>7, <1>8

-----------------------------------------------------------------------------
(* Slices of a list.                                                       *)

\* The places a slice selects, and how many there are up to one of them.
Chosen(slice, len) == {j + 1 : j \in Selected(slice, len)}
UpTo(slice, len, k) == {j \in Chosen(slice, len) : IF StepOf(slice) > 0 THEN j <= k ELSE j >= k}

LEMMA ChosenIs ==
  ASSUME NEW slice \in Slices, NEW len \in Lengths
  PROVE  LET offsets == Offsets(Indices(slice, len))
             n == Indices(slice, len).len
         IN  /\ n \in Nat /\ offsets \in Seq(0 .. len - 1) /\ Len(offsets) = n /\ DOMAIN offsets = 1 .. n
             /\ \A i \in 1 .. n : offsets[i] \in 0 .. len - 1 /\ offsets[i] + 1 \in 1 .. len
             /\ Chosen(slice, len) = {offsets[i] + 1 : i \in 1 .. n} /\ Chosen(slice, len) \subseteq 1 .. len
             /\ IsFiniteSet(Chosen(slice, len)) /\ Cardinality(Chosen(slice, len)) = n
             /\ \A i \in 1 .. n : Cardinality(UpTo(slice, len, offsets[i] + 1)) = i
             /\ \A i, j \in 1 .. n :
                  i < j => IF StepOf(slice) > 0 THEN offsets[i] < offsets[j] ELSE offsets[i] > offsets[j]
<1> DEFINE offsets == Offsets(Indices(slice, len))
           n == Indices(slice, len).len
           C == Chosen(slice, len)
           up == StepOf(slice) > 0
<1>1. /\ n \in Nat /\ DOMAIN offsets = 1 .. n /\ offsets = [i \in 1 .. n |-> offsets[i]]
      /\ {offsets[i] : i \in 1 .. n} = Selected(slice, len)
      /\ \A i, j \in 1 .. n : i < j => IF up THEN offsets[i] < offsets[j] ELSE offsets[i] > offsets[j]
  BY SliceIs
<1>2. len \in Nat
  BY WordIs DEF Lengths
<1>3. Selected(slice, len) \subseteq 0 .. len - 1
  BY DEF Selected
<1> HIDE DEF offsets, n, up
<1>4. \A i \in 1 .. n : offsets[i] \in 0 .. len - 1 /\ offsets[i] + 1 \in 1 .. len
  BY <1>1, <1>2, <1>3
<1>5. offsets \in Seq(0 .. len - 1) /\ Len(offsets) = n
  <2>1. offsets \in [1 .. n -> 0 .. len - 1]
    BY <1>1, <1>4
  <2>2. offsets \in Seq(0 .. len - 1)
    BY <1>1, <2>1, SeqDef
  <2> QED BY <1>1, <2>2, LenProperties
<1>6. C = {offsets[i] + 1 : i \in 1 .. n}
  BY <1>1 DEF Chosen
<1> HIDE DEF C
<1>7. C \subseteq 1 .. len
  BY <1>4, <1>6
<1>8. \A i, j \in 1 .. n : (IF up THEN offsets[j] + 1 <= offsets[i] + 1 ELSE offsets[j] + 1 >= offsets[i] + 1) <=> j <= i
  <2> SUFFICES ASSUME NEW i \in 1 .. n, NEW j \in 1 .. n
               PROVE  (IF up THEN offsets[j] + 1 <= offsets[i] + 1 ELSE offsets[j] + 1 >= offsets[i] + 1) <=> j <= i
    OBVIOUS
  <2>1. offsets[i] \in Int /\ offsets[j] \in Int /\ (j < i \/ j = i \/ i < j)
    BY <1>2, <1>4
  <2>2. i < j => IF up THEN offsets[i] < offsets[j] ELSE offsets[i] > offsets[j]
    BY <1>1
  <2>3. j < i => IF up THEN offsets[j] < offsets[i] ELSE offsets[j] > offsets[i]
    BY <1>1
  <2> QED BY <2>1, <2>2, <2>3
<1>9. \A m \in 0 .. n : IsFiniteSet({offsets[j] + 1 : j \in 1 .. m}) /\ Cardinality({offsets[j] + 1 : j \in 1 .. m}) = m
  <2> SUFFICES ASSUME NEW m \in 0 .. n PROVE IsFiniteSet({offsets[j] + 1 : j \in 1 .. m}) /\ Cardinality({offsets[j] + 1 : j \in 1 .. m}) = m
    OBVIOUS
  <2> DEFINE T == {offsets[j] + 1 : j \in 1 .. m}
             f == [j \in 1 .. m |-> offsets[j] + 1]
  <2>1. \A i, j \in 1 .. m : i \in 1 .. n /\ j \in 1 .. n /\ (offsets[i] + 1 = offsets[j] + 1 => i = j)
    <3> SUFFICES ASSUME NEW i \in 1 .. m, NEW j \in 1 .. m
                 PROVE  i \in 1 .. n /\ j \in 1 .. n /\ (offsets[i] + 1 = offsets[j] + 1 => i = j)
      OBVIOUS
    <3>1. i \in 1 .. n /\ j \in 1 .. n
      BY <1>1
    <3>2. offsets[i] + 1 = offsets[j] + 1 => j <= i /\ i <= j
      BY <1>2, <1>4, <1>8, <3>1
    <3> QED BY <1>1, <3>1, <3>2
  <2>2. f \in Bijection(1 .. m, T)
    BY <2>1 DEF Bijection, Injection, Surjection, IsInjective
  <2>3. ExistsBijection(1 .. m, T)
    BY <2>2 DEF ExistsBijection
  <2>4. IsFiniteSet(1 .. m) /\ Cardinality(1 .. m) = m
    BY <1>1, FS_Interval
  <2> HIDE DEF T
  <2>5. IsFiniteSet(T) /\ Cardinality(T) = Cardinality(1 .. m)
    BY <2>3, <2>4, FS_Bijection
  <2> QED BY <2>4, <2>5 DEF T
<1>10. IsFiniteSet(C) /\ Cardinality(C) = n
  <2>1. n \in 0 .. n
    BY <1>1
  <2> QED BY <1>6, <1>9, <2>1
<1>11. ASSUME NEW i \in 1 .. n PROVE Cardinality(UpTo(slice, len, offsets[i] + 1)) = i
  <2>1. UpTo(slice, len, offsets[i] + 1) = {x \in C : IF up THEN x <= offsets[i] + 1 ELSE x >= offsets[i] + 1}
    BY DEF UpTo, C, up
  <2>2. UpTo(slice, len, offsets[i] + 1) = {offsets[j] + 1 : j \in {j \in 1 .. n : j <= i}}
    BY <1>6, <1>8, <2>1
  <2>3. {j \in 1 .. n : j <= i} = 1 .. i /\ i \in 0 .. n
    BY <1>1
  <2> QED BY <1>9, <2>2, <2>3
<1> QED BY <1>1, <1>4, <1>5, <1>6, <1>7, <1>10, <1>11 DEF offsets, n, C, up

\* Reading a slice.
LEMMA CutRead ==
  ASSUME NEW slice \in Slices, NEW len \in Lengths
  PROVE  LET items == GetSlice(Letters(len), slice).items
         IN  /\ {items[i] : i \in DOMAIN items} = Chosen(slice, len)
             /\ \A i, j \in DOMAIN items : i < j => IF StepOf(slice) > 0 THEN items[i] < items[j] ELSE items[i] > items[j]
<1> DEFINE s == Letters(len)
           offsets == Offsets(Indices(slice, len))
           n == Indices(slice, len).len
           items == GetSlice(s, slice).items
<1>1. /\ n \in Nat /\ DOMAIN offsets = 1 .. n
      /\ \A i \in 1 .. n : offsets[i] \in 0 .. len - 1 /\ offsets[i] + 1 \in 1 .. len
      /\ Chosen(slice, len) = {offsets[i] + 1 : i \in 1 .. n}
      /\ \A i, j \in 1 .. n : i < j => IF StepOf(slice) > 0 THEN offsets[i] < offsets[j] ELSE offsets[i] > offsets[j]
  BY ChosenIs
<1>2. len \in Nat /\ Len(s) = len /\ \A k \in 1 .. len : s[k] = k
  <2>1. len \in Nat
    BY WordIs DEF Lengths
  <2> QED BY <2>1, LettersAre
<1>3. items = [k \in DOMAIN offsets |-> At(s, offsets[k])]
  BY <1>2 DEF GetSlice, Gives
<1> HIDE DEF s, offsets, n, items
<1>4. DOMAIN items = 1 .. n /\ \A k \in 1 .. n : items[k] = offsets[k] + 1
  BY <1>1, <1>2, <1>3 DEF At
<1>5. {items[i] : i \in DOMAIN items} = Chosen(slice, len)
  BY <1>1, <1>4
<1>6. ASSUME NEW i \in 1 .. n, NEW j \in 1 .. n, i < j
      PROVE  IF StepOf(slice) > 0 THEN items[i] < items[j] ELSE items[i] > items[j]
  <2>1. offsets[i] \in Int /\ offsets[j] \in Int
    BY <1>1, <1>2
  <2>2. IF StepOf(slice) > 0 THEN offsets[i] < offsets[j] ELSE offsets[i] > offsets[j]
    BY <1>1, <1>6
  <2> QED BY <1>4, <2>1, <2>2
<1> QED BY <1>4, <1>5, <1>6 DEF s, items

LEMMA RemovedFrom ==
  ASSUME NEW S, NEW t \in Seq(S), IsInjective(t), NEW i \in 1 .. Len(t)
  PROVE  IsInjective(RemoveAt(t, i)) /\ ToSet(RemoveAt(t, i)) = ToSet(t) \ {t[i]}
<1> DEFINE n == Len(t)
           u == RemoveAt(t, i)
           from(j) == IF j < i THEN j ELSE j + 1
<1>1. /\ u \in Seq(S) /\ Len(u) = n - 1 /\ n \in Nat
      /\ (\A j \in 1 .. i - 1 : u[j] = t[j]) /\ (\A j \in i .. n - 1 : u[j] = t[j + 1])
  BY RemoveAtIs
<1>2. DOMAIN t = 1 .. n /\ DOMAIN u = 1 .. n - 1
  BY <1>1, LenProperties
<1>3. \A a, b \in 1 .. n : t[a] = t[b] => a = b
  BY <1>2 DEF IsInjective
<1> HIDE DEF u
<1>4. \A j \in 1 .. n - 1 : from(j) \in 1 .. n /\ from(j) # i /\ u[j] = t[from(j)]
  <2> SUFFICES ASSUME NEW j \in 1 .. n - 1 PROVE from(j) \in 1 .. n /\ from(j) # i /\ u[j] = t[from(j)]
    OBVIOUS
  <2>1. CASE j < i
    <3>1. j \in 1 .. i - 1
      BY <1>1, <2>1
    <3> QED BY <1>1, <2>1, <3>1
  <2>2. CASE ~(j < i)
    <3>1. j \in i .. n - 1
      BY <1>1, <2>2
    <3> QED BY <1>1, <2>2, <3>1
  <2> QED BY <2>1, <2>2
<1>5. \A a, b \in 1 .. n - 1 : from(a) = from(b) => a = b
  BY <1>1
<1>6. \A k \in 1 .. n : k # i => \E j \in 1 .. n - 1 : from(j) = k
  <2> SUFFICES ASSUME NEW k \in 1 .. n, k # i PROVE \E j \in 1 .. n - 1 : from(j) = k
    OBVIOUS
  <2>1. CASE k < i
    <3>1. k \in 1 .. n - 1 /\ from(k) = k
      BY <1>1, <2>1
    <3> QED BY <3>1
  <2>2. CASE ~(k < i)
    <3>1. k - 1 \in 1 .. n - 1 /\ from(k - 1) = k
      BY <1>1, <2>2
    <3> QED BY <3>1
  <2> QED BY <2>1, <2>2
<1> HIDE DEF from, n
<1>7. IsInjective(u)
  <2>1. \A a, b \in 1 .. n - 1 : u[a] = u[b] => a = b
    BY <1>3, <1>4, <1>5
  <2> QED BY <1>2, <2>1 DEF IsInjective
<1>8. ToSet(u) = {t[from(j)] : j \in 1 .. n - 1}
  BY <1>2, <1>4 DEF ToSet
<1>9. ToSet(t) = {t[k] : k \in 1 .. n}
  BY <1>2 DEF ToSet
<1>10. i \in 1 .. n
  BY DEF n
<1>11. \A x : x \in ToSet(u) => x \in ToSet(t) /\ x # t[i]
  BY <1>3, <1>4, <1>8, <1>9, <1>10
<1>12. \A x : x \in ToSet(t) /\ x # t[i] => x \in ToSet(u)
  <2> SUFFICES ASSUME NEW x, x \in ToSet(t), x # t[i] PROVE x \in ToSet(u)
    OBVIOUS
  <2>1. PICK k \in 1 .. n : x = t[k]
    BY <1>9
  <2>2. PICK j \in 1 .. n - 1 : from(j) = k
    BY <1>6, <2>1
  <2> QED BY <1>8, <2>1, <2>2
<1> QED BY <1>7, <1>11, <1>12 DEF u

\* A list of which some of the chosen places are removed, all of them behind
\* those that are still to be.
Halves(len) == [items : Seq(Int), doomed : Seq(0 .. len - 1)]
Gone(C, v) == C \ {x + 1 : x \in ToSet(v.doomed)}
Going(s, C, left, v) ==
  /\ v \in Halves(Len(s)) /\ Len(v.doomed) = left /\ IsInjective(v.doomed)
  /\ \A x \in ToSet(v.doomed) : x + 1 \in C /\ \A g \in Gone(C, v) : x + 1 < g
  /\ Leaves(v.items, s, Gone(C, v))

LEMMA RemoveLastIs ==
  ASSUME NEW s \in Seq(Int), NEW C \in SUBSET (1 .. Len(s)), NEW left \in Nat \ {0}, NEW v, Going(s, C, left, v)
  PROVE  Going(s, C, left - 1, RemoveLast(v))
<1> DEFINE len == Len(s)
           items == v.items
           doomed == v.doomed
           G == Gone(C, v)
           places == {x + 1 : x \in ToSet(doomed)}
<1>1. /\ items \in Seq(Int) /\ doomed \in Seq(0 .. len - 1) /\ Len(doomed) = left /\ IsInjective(doomed)
      /\ \A x \in ToSet(doomed) : x + 1 \in C /\ \A g \in G : x + 1 < g
      /\ Leaves(items, s, G)
  BY DEF Going, Halves
<1>2. len \in Nat /\ DOMAIN doomed = 1 .. left /\ \A i \in 1 .. left : doomed[i] \in 0 .. len - 1
  BY <1>1, LenProperties
<1>3. G = C \ places
  BY DEF Gone
<1> HIDE DEF len, items, doomed, G
<1> DEFINE IsLast(i) == \A j \in DOMAIN doomed : doomed[j] <= doomed[i]
           at == CHOOSE i \in DOMAIN doomed : IsLast(i)
<1>4. at \in 1 .. left /\ IsLast(at)
  <2>1. places \in SUBSET (1 .. len) /\ places # {}
    <3>1. \A x \in ToSet(doomed) : x + 1 \in 1 .. len
      BY <1>2 DEF ToSet
    <3>2. 1 \in 1 .. left
      OBVIOUS
    <3>3. doomed[1] + 1 \in places
      BY <1>2, <3>2 DEF ToSet
    <3> QED BY <3>1, <3>3
  <2>2. Max(places) \in places /\ \A p \in places : p <= Max(places)
    BY <1>2, <2>1, GreatestOf
  <2> DEFINE m == Max(places)
  <2>3. PICK i \in 1 .. left : m = doomed[i] + 1
    BY <1>2, <2>2 DEF ToSet
  <2>4. \A j \in 1 .. left : doomed[j] + 1 <= m
    BY <1>2, <2>2 DEF ToSet
  <2> HIDE DEF m
  <2>5. IsLast(i)
    BY <1>2, <2>3, <2>4
  <2> HIDE DEF IsLast
  <2> QED BY <1>2, <2>5
<1> DEFINE y == doomed[at]
           m == y + 1
           rest == RemoveAt(doomed, at)
           kept == RemoveAt(items, m)
           w == RemoveLast(v)
<1>5. w = [items |-> kept, doomed |-> rest]
  BY DEF RemoveLast, items, doomed
<1> HIDE DEF at
<1>6. y \in ToSet(doomed) /\ y \in 0 .. len - 1 /\ \A x \in ToSet(doomed) : x <= y /\ x \in Int
  <2>1. \A j \in 1 .. left : doomed[j] <= y
    BY <1>2, <1>4
  <2> HIDE DEF IsLast
  <2>2. y \in ToSet(doomed) /\ y \in 0 .. len - 1
    BY <1>2, <1>4 DEF ToSet
  <2> HIDE DEF y
  <2>3. ASSUME NEW x \in ToSet(doomed) PROVE x <= y /\ x \in Int
    <3>1. PICK j \in 1 .. left : x = doomed[j]
      BY <1>2 DEF ToSet
    <3>2. doomed[j] \in 0 .. len - 1
      BY <1>2
    <3> QED BY <1>2, <2>1, <3>1, <3>2
  <2> QED BY <2>2, <2>3
<1> HIDE DEF y
<1>7. m \in C /\ m \in 1 .. len /\ \A g \in G : m < g
  BY <1>1, <1>2, <1>6
<1>8. G \in SUBSET (1 .. len)
  BY <1>3 DEF len
<1>9. Leaves(kept, s, G \union {m}) /\ kept \in Seq(Int)
  <2> HIDE DEF m
  <2> QED BY <1>1, <1>7, <1>8, LeavesMore DEF len
<1>10. /\ rest \in Seq(0 .. len - 1) /\ Len(rest) = left - 1 /\ IsInjective(rest)
       /\ ToSet(rest) = ToSet(doomed) \ {y}
  <2>1. at \in 1 .. Len(doomed)
    BY <1>1, <1>4
  <2> QED BY <1>1, <2>1, RemoveAtIs, RemovedFrom DEF y
<1> HIDE DEF kept, rest, w
<1>11. w.items = kept /\ w.doomed = rest
  BY <1>5
<1>12. w \in Halves(len)
  BY <1>5, <1>9, <1>10 DEF Halves
<1>13. Gone(C, w) = G \union {m}
  <2>1. Gone(C, w) = C \ {x + 1 : x \in ToSet(rest)}
    BY <1>11 DEF Gone
  <2>2. \A p : p \in {x + 1 : x \in ToSet(rest)} <=> p \in places /\ p # m
    <3>1. \A x \in ToSet(doomed) : x # y <=> x + 1 # m
      BY <1>6
    <3> HIDE DEF m
    <3> QED BY <1>10, <3>1
  <2>3. m \in places
    BY <1>6
  <2> HIDE DEF places
  <2> QED BY <1>3, <1>7, <2>1, <2>2, <2>3
<1>14. \A x \in ToSet(rest) : x + 1 \in C /\ \A g \in G \union {m} : x + 1 < g
  BY <1>1, <1>6, <1>10
<1>15. Going(s, C, left - 1, w)
  BY <1>9, <1>10, <1>11, <1>12, <1>13, <1>14 DEF Going, len
<1> QED BY <1>15 DEF w

\* Deleting a slice: what is left lacks just the places it selects.
LEMMA CutDeleted ==
  ASSUME NEW slice \in Slices, NEW len \in Lengths
  PROVE  Leaves(DelSlice(Letters(len), slice).items, Letters(len), Chosen(slice, len))
<1> DEFINE s == Letters(len)
           offsets == Offsets(Indices(slice, len))
           n == Indices(slice, len).len
           C == Chosen(slice, len)
           W == Halves(len)
           start == [items |-> s, doomed |-> offsets]
<1>1. /\ n \in Nat /\ offsets \in Seq(0 .. len - 1) /\ Len(offsets) = n /\ DOMAIN offsets = 1 .. n
      /\ C = {offsets[i] + 1 : i \in 1 .. n} /\ C \in SUBSET (1 .. len)
      /\ \A i \in 1 .. n : offsets[i] \in 0 .. len - 1
  BY ChosenIs
<1>2. \A i, j \in 1 .. n : i < j => IF StepOf(slice) > 0 THEN offsets[i] < offsets[j] ELSE offsets[i] > offsets[j]
  BY ChosenIs
<1>3. len \in Nat /\ s \in Seq(Int) /\ Len(s) = len
  <2>1. len \in Nat
    BY WordIs DEF Lengths
  <2> QED BY <2>1, LettersAre
<1>4. DelSlice(s, slice) =
        LET left[k \in 0 .. n] == IF k = 0 THEN start ELSE RemoveLast(left[k - 1])
        IN  Gives(left[n].items)
  BY <1>1, <1>3 DEF DelSlice
<1> HIDE DEF s, offsets, n, C
<1>5. start \in W /\ start.items = s /\ start.doomed = offsets
  BY <1>1, <1>3 DEF Halves
<1> HIDE DEF start
<1>6. Going(s, C, n, start)
  <2>1. IsInjective(offsets)
    <3>1. \A i, j \in 1 .. n : offsets[i] = offsets[j] => i = j
      <4> SUFFICES ASSUME NEW i \in 1 .. n, NEW j \in 1 .. n, i # j PROVE offsets[i] # offsets[j]
        OBVIOUS
      <4>1. offsets[i] \in Int /\ offsets[j] \in Int /\ (i < j \/ j < i)
        BY <1>1, <1>3
      <4> QED BY <1>2, <4>1
    <3> QED BY <1>1, <3>1 DEF IsInjective
  <2>2. C = {x + 1 : x \in ToSet(offsets)}
    BY <1>1 DEF ToSet
  <2>3. Gone(C, start) = {}
    BY <1>5, <2>2 DEF Gone
  <2>4. Leaves(s, s, {})
    BY <1>3, NoneLeft
  <2>5. \A x \in ToSet(offsets) : x + 1 \in C
    BY <2>2
  <2> HIDE DEF W
  <2> QED BY <1>1, <1>3, <1>5, <2>1, <2>3, <2>4, <2>5 DEF Going, W
<1>7. ASSUME NEW t, t[0] = start, \A k \in 1 .. n : Going(s, C, n - (k - 1), t[k - 1]) => t[k] = RemoveLast(t[k - 1])
      PROVE  \A k \in 0 .. n : Going(s, C, n - k, t[k])
  <2> DEFINE S == {k \in 0 .. n : Going(s, C, n - k, t[k])}
  <2>1. 0 \in S
    <3>1. n - 0 = n /\ 0 \in 0 .. n
      BY <1>1
    <3> QED BY <1>6, <1>7, <3>1
  <2>2. ASSUME NEW k \in 1 .. n, k - 1 \in S PROVE k \in S
    <3> DEFINE left == n - (k - 1)
               v == t[k - 1]
    <3>1. left \in Nat \ {0} /\ left - 1 = n - k /\ k \in 0 .. n
      BY <1>1
    <3>2. Going(s, C, left, v) /\ t[k] = RemoveLast(v)
      BY <1>7, <2>2
    <3>3. C \in SUBSET (1 .. Len(s)) /\ s \in Seq(Int)
      BY <1>1, <1>3
    <3> HIDE DEF left, v
    <3>4. Going(s, C, left - 1, RemoveLast(v))
      BY <3>1, <3>2, <3>3, RemoveLastIs
    <3>5. Going(s, C, n - k, t[k])
      BY <3>1, <3>2, <3>4
    <3> QED BY <3>1, <3>5
  <2> HIDE DEF S
  <2>3. \A k \in 0 .. n : k \in S
    BY <1>1, <2>1, <2>2, StepByStep
  <2> QED BY <2>3 DEF S
<1> DEFINE Recurs(t) == t = [k \in 0 .. n |-> IF k = 0 THEN start ELSE RemoveLast(t[k - 1])]
           next == [k \in 1 .. n |-> [v \in W |-> IF RemoveLast(v) \in W THEN RemoveLast(v) ELSE v]]
<1>8. next \in [1 .. n -> [W -> W]]
  <2> HIDE DEF W
  <2> QED OBVIOUS
<1>9. \A k \in 1 .. n, v \in W : RemoveLast(v) \in W => next[k][v] = RemoveLast(v)
  OBVIOUS
<1> HIDE DEF next, W
<1>10. PICK h : Unrolled(h, n, W, start, next)
  BY <1>1, <1>5, <1>8, Unrolls
<1>11. ASSUME NEW k \in 1 .. n, NEW v, Going(s, C, n - (k - 1), v) PROVE v \in W /\ RemoveLast(v) \in W
  <2> DEFINE left == n - (k - 1)
  <2>1. left \in Nat \ {0}
    BY <1>1
  <2>2. C \in SUBSET (1 .. Len(s)) /\ s \in Seq(Int) /\ Going(s, C, left, v)
    BY <1>1, <1>3, <1>11
  <2> HIDE DEF left
  <2>3. Going(s, C, left - 1, RemoveLast(v))
    BY <2>1, <2>2, RemoveLastIs
  <2> QED BY <1>3, <2>2, <2>3 DEF Going, W
<1>12. h = [k \in 0 .. n |-> h[k]] /\ h[0] = start /\ \A k \in 1 .. n : h[k] = next[k][h[k - 1]]
  BY <1>10 DEF Unrolled
<1>13. \A k \in 1 .. n : Going(s, C, n - (k - 1), h[k - 1]) => h[k] = RemoveLast(h[k - 1])
  BY <1>9, <1>11, <1>12
<1>14. \A k \in 0 .. n : Going(s, C, n - k, h[k])
  BY <1>7, <1>12, <1>13
<1>15. Recurs(h)
  <2>1. ASSUME NEW k \in 1 .. n PROVE h[k] = RemoveLast(h[k - 1])
    <3>1. k - 1 \in 0 .. n
      BY <1>1
    <3> QED BY <1>13, <1>14, <3>1
  <2>2. \A k \in 0 .. n : k = 0 \/ k \in 1 .. n
    BY <1>1
  <2>3. \A k \in 0 .. n : h[k] = IF k = 0 THEN start ELSE RemoveLast(h[k - 1])
    BY <1>12, <2>1, <2>2
  <2> QED BY <1>12, <2>3
<1> DEFINE last == CHOOSE t : Recurs(t)
<1>16. Recurs(last)
  <2> HIDE DEF Recurs
  <2> QED BY <1>15
<1>17. DelSlice(s, slice).items = last[n].items
  BY <1>4 DEF Gives
<1> HIDE DEF last
<1>18. \A k \in 0 .. n : last[k] = IF k = 0 THEN start ELSE RemoveLast(last[k - 1])
  BY <1>16
<1> HIDE DEF Recurs
<1>19. last[0] = start /\ \A k \in 1 .. n : last[k] = RemoveLast(last[k - 1])
  BY <1>1, <1>18
<1>20. \A k \in 0 .. n : Going(s, C, n - k, last[k])
  BY <1>7, <1>19
<1> DEFINE end == last[n]
<1>21. Going(s, C, 0, end)
  <2>1. n \in 0 .. n /\ n - n = 0
    BY <1>1
  <2> QED BY <1>20, <2>1
<1> HIDE DEF end
<1>22. Gone(C, end) = C
  <2>1. end.doomed \in Seq(0 .. len - 1) /\ Len(end.doomed) = 0
    BY <1>3, <1>21 DEF Going, Halves
  <2>2. DOMAIN end.doomed = {}
    BY <2>1, LenProperties
  <2> QED BY <2>2 DEF Gone, ToSet
<1>23. Leaves(end.items, s, C)
  BY <1>21, <1>22 DEF Going
<1> QED BY <1>17, <1>23 DEF end, s, C

LEMMA NewsAre ==
  ASSUME NEW n \in Nat
  PROVE  News(n) \in Seq(Int) /\ Len(News(n)) = n /\ \A k \in 1 .. n : News(n)[k] = -k
<1> DEFINE s == News(n)
<1>1. s \in [1 .. n -> Int] /\ DOMAIN s = 1 .. n /\ \A k \in 1 .. n : s[k] = -k
  BY DEF News
<1> HIDE DEF s
<1>2. s \in Seq(Int)
  BY <1>1, SeqDef
<1>3. Len(s) = n
  BY <1>1, <1>2, LenProperties
<1> QED BY <1>1, <1>2, <1>3 DEF s

\* A run is a slice with no step or with a step of one, whatever the word is.
IsRun(slice) == slice.step = Absent \/ slice.step.n = 1
LEMMA RunIs ==
  ASSUME NEW slice \in Slices, NEW len \in Lengths
  PROVE  (Indices(slice, len).step = 1 <=> IsRun(slice)) /\ (IsRun(slice) => StepOf(slice) = 1)
<1> DEFINE part == slice.step
<1>1. Indices(slice, len).step = IF part = Absent THEN 1 ELSE Bound(part)
  BY SliceIs
<1>2. CASE part = Absent
  BY <1>1, <1>2 DEF IsRun, StepOf
<1>3. CASE part # Absent
  <2>1. part \in Parts
    BY DEF Slices
  <2> HIDE DEF part
  <2>2. part.n \in Int /\ (part.n \in Word => Bound(part) = part.n)
        /\ (part.n \notin Word => Bound(part) = IF part.n < 0 THEN WordMin ELSE WordMax)
    BY <1>3, <2>1, PartIs
  <2>3. WordMax \in Nat /\ WordMax >= 2 /\ WordMin = -WordMax - 1 /\ Word = WordMin .. WordMax
    BY WordIs DEF Word
  <2>4. Bound(part) = 1 <=> part.n = 1
    BY <2>2, <2>3
  <2> QED BY <1>1, <1>3, <2>4 DEF IsRun, StepOf, part
<1> QED BY <1>2, <1>3

\* Where a run is: at what it selects, or where it would be if it is empty.
PlaceOf(slice, len) ==
  LET from == Points(slice.start, len, 0)
  IN  IF Chosen(slice, len) # {} THEN Min(Chosen(slice, len)) - 1 ELSE Max({0, Min({from, len})})
LEMMA PlaceIs ==
  ASSUME NEW slice \in Slices, NEW len \in Lengths, IsRun(slice)
  PROVE  Indices(slice, len).start = PlaceOf(slice, len)
<1> DEFINE offsets == Offsets(Indices(slice, len))
           n == Indices(slice, len).len
           start == Indices(slice, len).start
           C == Chosen(slice, len)
           part == slice.start
           from == Points(part, len, 0)
<1>1. /\ n \in Nat /\ (\A i \in 1 .. n : offsets[i] \in 0 .. len - 1 /\ offsets[i] + 1 \in 1 .. len)
      /\ C = {offsets[i] + 1 : i \in 1 .. n} /\ C \subseteq 1 .. len
      /\ \A i, j \in 1 .. n : i < j => IF StepOf(slice) > 0 THEN offsets[i] < offsets[j] ELSE offsets[i] > offsets[j]
  BY ChosenIs
<1>2. start \in Int /\ \A i \in 1 .. n : offsets[i] = start + (i - 1) * Indices(slice, len).step
  BY SliceIs
<1>3. Indices(slice, len).step = 1 /\ StepOf(slice) = 1
  BY RunIs
<1>4. len \in Nat
  BY WordIs DEF Lengths
<1>5. (C # {} => PlaceOf(slice, len) = Min(C) - 1) /\ (C = {} => PlaceOf(slice, len) = Max({0, Min({from, len})}))
  BY DEF PlaceOf
<1>6. start = IF part # Absent THEN Clamp(Bound(part), len, FALSE) ELSE 0
  <2> DEFINE step == IF slice.step = Absent THEN 1 ELSE Bound(slice.step)
  <2>1. step = 1
    BY <1>3, SliceIs
  <2>2. (step < 0) = FALSE
    BY <2>1
  <2>3. start = IF part # Absent THEN Clamp(Bound(part), len, step < 0) ELSE IF step < 0 THEN len - 1 ELSE 0
    BY DEF Indices
  <2> HIDE DEF step
  <2> QED BY <2>2, <2>3
<1>7. part \in Parts
  BY DEF Slices
<1> HIDE DEF offsets, n, start, C, part
<1>8. CASE C # {}
  <2>1. Min(C) \in C /\ \A p \in C : Min(C) <= p
    <3>1. C \in SUBSET Nat
      BY <1>1, <1>4
    <3> QED BY <1>8, <3>1, LeastOf
  <2> DEFINE least == Min(C)
  <2>2. PICK i \in 1 .. n : least = offsets[i] + 1
    BY <1>1, <2>1
  <2>3. 1 \in 1 .. n /\ offsets[1] = start
    BY <1>1, <1>2, <1>3
  <2>4. offsets[1] + 1 \in C
    BY <1>1, <2>3
  <2>5. least <= offsets[1] + 1
    BY <2>1, <2>4
  <2> HIDE DEF least
  <2>6. 1 < i => offsets[1] < offsets[i]
    BY <1>1, <1>3, <2>3
  <2>7. least = start + 1
    <3>1. offsets[1] \in Int /\ offsets[i] \in Int
      BY <1>1, <1>4, <2>3
    <3>2. ~(1 < i)
      BY <2>2, <2>5, <2>6, <3>1
    <3>3. i = 1
      BY <1>1, <3>2
    <3> QED BY <2>2, <2>3, <3>3
  <2>8. PlaceOf(slice, len) = least - 1
    BY <1>5, <1>8 DEF least
  <2> QED BY <1>2, <2>7, <2>8 DEF start
<1>9. CASE C = {}
  <2>1. from \in Int /\ (part = Absent => from = 0)
    <3>1. CASE part = Absent
      BY <3>1 DEF Points
    <3>2. CASE part # Absent
      BY <1>7, <3>2, ClampIs
    <3> QED BY <3>1, <3>2
  <2>2. start \in 0 .. len /\ \A j \in 0 .. len - 1 : (start <= j <=> from <= j)
    <3>1. CASE part = Absent
      BY <1>4, <1>6, <2>1, <3>1
    <3>2. CASE part # Absent
      <4>1. start = Clamp(Bound(part), len, FALSE)
        BY <1>6, <3>2
      <4> QED BY <1>7, <3>2, <4>1, ClampIs
    <3> QED BY <3>1, <3>2
  <2> HIDE DEF from
  <2> DEFINE low == Min({from, len})
             high == Max({0, low})
  <2>3. low = IF from <= len THEN from ELSE len
    <3>1. \A x \in Int, y \in Int : Min({x, y}) = IF x <= y THEN x ELSE y
      BY DEF Min
    <3> QED BY <1>4, <2>1, <3>1
  <2> HIDE DEF low
  <2>4. high = IF low <= 0 THEN 0 ELSE low
    <3>1. \A x \in Int, y \in Int : Max({x, y}) = IF y <= x THEN x ELSE y
      BY DEF Max
    <3>2. low \in Int
      BY <1>4, <2>1, <2>3
    <3> QED BY <3>1, <3>2
  <2> HIDE DEF high
  <2>5. start = high
    <3>1. CASE len = 0
      BY <2>1, <2>2, <2>3, <2>4, <3>1
    <3>2. CASE len # 0
      <4>1. 0 \in 0 .. len - 1 /\ len - 1 \in 0 .. len - 1
        BY <1>4, <3>2
      <4>2. (start <= 0 <=> from <= 0) /\ (start <= len - 1 <=> from <= len - 1)
        BY <2>2, <4>1
      <4>3. start = len \/ start \in 0 .. len - 1
        BY <1>4, <2>2
      <4>4. from \in 0 .. len - 1 => (start <= from <=> from <= from)
        BY <2>2
      <4>5. start \in 0 .. len - 1 => (start <= start <=> from <= start)
        BY <2>2
      <4> QED BY <1>4, <2>1, <2>2, <2>3, <2>4, <4>2, <4>3, <4>4, <4>5
    <3> QED BY <3>1, <3>2
  <2>6. ~(C # {})
    BY <1>9
  <2>7. PlaceOf(slice, len) = high
    BY <1>5, <2>6 DEF high, low
  <2> QED BY <2>5, <2>7 DEF start
<1> QED BY <1>8, <1>9

\* Writing over a slice.
LEMMA CutWritten ==
  ASSUME NEW slice \in Slices, NEW len \in Lengths, NEW m \in Nat
  PROVE  LET s == Letters(len)
             new == News(m)
             C == Chosen(slice, len)
             place == PlaceOf(slice, len)
             set == SetSlice(s, slice, new)
         IN  /\ IsRun(slice) => set.items = SubSeq(s, 1, place) \o new \o SubSeq(s, place + Cardinality(C) + 1, len)
             /\ ~IsRun(slice) /\ m # Cardinality(C) => set.error = "other size"
             /\ ~IsRun(slice) /\ m = Cardinality(C) =>
                  set.items = [k \in 1 .. len |-> IF k \in C THEN new[Cardinality(UpTo(slice, len, k))] ELSE s[k]]
<1> DEFINE s == Letters(len)
           new == News(m)
           C == Chosen(slice, len)
           ix == Indices(slice, len)
           offsets == Offsets(ix)
           n == ix.len
           place == PlaceOf(slice, len)
           set == SetSlice(s, slice, new)
           Recurs(t) == t = [k \in 0 .. n |-> IF k = 0 THEN s ELSE ReplaceAt(t[k - 1], offsets[k] + 1, new[k])]
           put == CHOOSE t : Recurs(t)
<1>1. /\ n \in Nat /\ (\A i \in 1 .. n : offsets[i] \in 0 .. len - 1 /\ offsets[i] + 1 \in 1 .. len)
      /\ C = {offsets[i] + 1 : i \in 1 .. n} /\ Cardinality(C) = n
      /\ \A i \in 1 .. n : Cardinality(UpTo(slice, len, offsets[i] + 1)) = i
  BY ChosenIs
<1>2. len \in Nat
  BY WordIs DEF Lengths
<1>3. /\ s \in Seq(Int) /\ Len(s) = len /\ DOMAIN s = 1 .. len
      /\ new \in Seq(Int) /\ Len(new) = m /\ \A k \in 1 .. m : new[k] = -k
  BY <1>2, LettersAre, NewsAre
<1>4. set = IF ix.step = 1
              THEN Gives(SubSeq(s, 1, ix.start) \o new \o SubSeq(s, ix.start + n + 1, Len(s)))
            ELSE IF Len(new) # n THEN Error("other size")
            ELSE Gives(put[n])
  BY <1>3 DEF SetSlice
<1>5. (ix.step = 1 <=> IsRun(slice)) /\ (IsRun(slice) => ix.start = place)
  BY RunIs, PlaceIs
<1> HIDE DEF s, new, C, ix, offsets, n, place, set, put
<1>6. ASSUME IsRun(slice)
      PROVE  set.items = SubSeq(s, 1, place) \o new \o SubSeq(s, place + Cardinality(C) + 1, len)
  <2> DEFINE all == SubSeq(s, 1, place) \o new \o SubSeq(s, place + n + 1, len)
  <2>1. set = Gives(all)
    BY <1>3, <1>4, <1>5, <1>6
  <2>2. all = SubSeq(s, 1, place) \o new \o SubSeq(s, place + Cardinality(C) + 1, len)
    BY <1>1
  <2> HIDE DEF all
  <2>3. set.items = all
    BY <2>1 DEF Gives
  <2> QED BY <2>2, <2>3
<1>7. ~IsRun(slice) /\ m # Cardinality(C) => set.error = "other size"
  BY <1>1, <1>3, <1>4, <1>5 DEF Error
<1>8. ASSUME ~IsRun(slice), m = Cardinality(C)
      PROVE  set.items = [k \in 1 .. len |-> IF k \in C THEN new[Cardinality(UpTo(slice, len, k))] ELSE s[k]]
  <2> DEFINE PutIn(k) == {offsets[i] + 1 : i \in 1 .. k}
             v(p) == new[Cardinality(UpTo(slice, len, p))]
             upto(k) == [p \in 1 .. len |-> IF p \in PutIn(k) THEN v(p) ELSE s[p]]
             h == [k \in 0 .. n |-> upto(k)]
  <2>1. set.items = put[n]
    BY <1>1, <1>3, <1>4, <1>5, <1>8 DEF Gives
  <2>2. m = n
    BY <1>1, <1>8
  <2>3. upto(0) = s
    <3>1. PutIn(0) = {}
      OBVIOUS
    <3>2. s = [p \in 1 .. len |-> s[p]]
      <4> DEFINE t == s
      <4>1. t \in Seq(Int) /\ Len(t) = len
        BY <1>3
      <4> HIDE DEF t
      <4>2. t = [p \in 1 .. len |-> t[p]]
        BY <4>1, LenProperties
      <4> QED BY <4>2 DEF t
    <3> QED BY <3>1, <3>2
  <2>4. ASSUME NEW k \in 1 .. n PROVE upto(k) = ReplaceAt(upto(k - 1), offsets[k] + 1, new[k])
    <3> DEFINE q == offsets[k] + 1
               e == new[k]
               before == upto(k - 1)
    <3>1. q \in 1 .. len /\ v(q) = e
      BY <1>1, <1>3, <2>2
    <3>2. \A p : p \in PutIn(k) <=> p \in PutIn(k - 1) \/ p = q
      <4>1. \A i \in 1 .. k : i \in 1 .. k - 1 \/ i = k
        BY <1>1
      <4>2. \A i \in 1 .. k - 1 : i \in 1 .. k
        BY <1>1
      <4>3. k \in 1 .. k
        BY <1>1
      <4> QED BY <4>1, <4>2, <4>3
    <3>3. before = [p \in 1 .. len |-> IF p \in PutIn(k - 1) THEN v(p) ELSE s[p]]
      OBVIOUS
    <3> HIDE DEF PutIn, v, q, e
    <3>4. upto(k) = [p \in 1 .. len |-> IF p = q THEN e ELSE before[p]]
      <4>1. \A p \in 1 .. len : (IF p \in PutIn(k) THEN v(p) ELSE s[p]) = IF p = q THEN e ELSE before[p]
        BY <3>1, <3>2, <3>3
      <4> HIDE DEF before
      <4> QED BY <4>1
    <3> HIDE DEF before
    <3>5. ReplaceAt(before, q, e) = [before EXCEPT ![q] = e]
      BY DEF ReplaceAt
    <3>6. DOMAIN before = 1 .. len
      BY <3>3
    <3>7. [before EXCEPT ![q] = e] = [p \in 1 .. len |-> IF p = q THEN e ELSE before[p]]
      BY <3>6
    <3> QED BY <3>4, <3>5, <3>7 DEF before, q, e
  <2> HIDE DEF upto
  <2>5. Recurs(h)
    <3>1. ASSUME NEW k \in 0 .. n PROVE h[k] = IF k = 0 THEN s ELSE ReplaceAt(h[k - 1], offsets[k] + 1, new[k])
      <4>1. CASE k = 0
        BY <2>3, <4>1
      <4>2. CASE k # 0
        <5>1. k \in 1 .. n /\ k - 1 \in 0 .. n
          BY <1>1, <4>2
        <5> QED BY <2>4, <4>2, <5>1
      <4> QED BY <4>1, <4>2
    <3>2. h = [k \in 0 .. n |-> h[k]]
      OBVIOUS
    <3> HIDE DEF h
    <3> QED BY <3>1, <3>2
  <2>6. Recurs(put)
    <3> HIDE DEF Recurs
    <3> QED BY <2>5 DEF put
  <2>7. \A k \in 0 .. n : put[k] = IF k = 0 THEN s ELSE ReplaceAt(put[k - 1], offsets[k] + 1, new[k])
    BY <2>6
  <2> HIDE DEF Recurs
  <2> DEFINE S == {k \in 0 .. n : put[k] = upto(k)}
  <2>8. 0 \in S
    BY <1>1, <2>3, <2>7
  <2>9. ASSUME NEW k \in 1 .. n, k - 1 \in S PROVE k \in S
    <3>1. k \in 0 .. n /\ k # 0
      BY <1>1
    <3> QED BY <2>4, <2>7, <2>9, <3>1
  <2> HIDE DEF S
  <2>10. n \in S
    <3>1. \A k \in 0 .. n : k \in S
      BY <1>1, <2>8, <2>9, StepByStep
    <3> QED BY <1>1, <3>1
  <2>11. put[n] = upto(n)
    BY <2>10 DEF S
  <2>12. PutIn(n) = C
    BY <1>1
  <2> QED BY <2>1, <2>11, <2>12 DEF upto
<1> QED BY <1>6, <1>7, <1>8 DEF s, new, C, place, set

-----------------------------------------------------------------------------
(* Unpacking.                                                              *)

\* Targets of which each goes on where the one before it stops.
LEMMA CountsUp ==
  ASSUME NEW ss \in Seq(Seq(Int)), NEW g \in [0 .. Len(ss) -> Nat], g[0] = 0,
         \A k \in 1 .. Len(ss) : g[k] = g[k - 1] + Len(ss[k]) /\ \A j \in 1 .. Len(ss[k]) : ss[k][j] = g[k - 1] + j
  PROVE  FlattenSeq(ss) = Letters(g[Len(ss)])
<1> DEFINE L == Len(ss)
           flat == FlattenSeq(ss)
           n == g[L]
<1>1. flat \in Seq(Int) /\ \E from : Lies(from, ss, flat)
  BY FlattenLies
<1>2. L \in Nat /\ (\A k \in 1 .. L : ss[k] \in Seq(Int)) /\ \A k \in 1 .. L : Len(ss[k]) \in Nat
  <2>1. L \in Nat /\ \A k \in 1 .. L : ss[k] \in Seq(Int)
    BY LenProperties
  <2> QED BY <2>1, LenProperties
<1>3. PICK from : Lies(from, ss, flat)
  BY <1>1
<1> HIDE DEF flat, L
<1>4. from[0] = 0 /\ Len(flat) = from[L] /\ \A k \in 0 .. L : from[k] \in Nat
  BY <1>3 DEF Lies, L
<1>5. \A k \in 1 .. L : k - 1 \in 0 .. L /\ from[k] = from[k - 1] + Len(ss[k])
  BY <1>3 DEF Lies, L
<1>6. \A k \in 1 .. L : \A j \in 1 .. Len(ss[k]) : flat[from[k - 1] + j] = ss[k][j]
  BY <1>3 DEF Lies, L
<1>7. \A k \in 0 .. L : g[k] \in Nat
  BY DEF L
<1>8. \A k \in 1 .. L : g[k] = g[k - 1] + Len(ss[k]) /\ \A j \in 1 .. Len(ss[k]) : ss[k][j] = g[k - 1] + j
  BY DEF L
<1> DEFINE S == {k \in 0 .. L : from[k] = g[k] /\ \A j \in 1 .. g[k] : flat[j] = j}
<1>9. 0 \in S
  BY <1>2, <1>4
<1>10. ASSUME NEW k \in 1 .. L, k - 1 \in S PROVE k \in S
  <2> DEFINE a == g[k - 1]
             l == Len(ss[k])
  <2>1. /\ from[k - 1] = a /\ (\A j \in 1 .. a : flat[j] = j) /\ a \in Nat /\ l \in Nat /\ k \in 0 .. L
    BY <1>2, <1>5, <1>7, <1>10
  <2>2. from[k] = a + l /\ g[k] = a + l
    BY <1>5, <1>8, <2>1
  <2>3. \A j \in 1 .. l : flat[a + j] = a + j
    BY <1>6, <1>8, <2>1
  <2> HIDE DEF a, l
  <2>4. ASSUME NEW j \in 1 .. a + l PROVE flat[j] = j
    <3>1. CASE j <= a
      <4>1. j \in 1 .. a
        BY <2>1, <3>1
      <4> QED BY <2>1, <4>1
    <3>2. CASE ~(j <= a)
      <4> DEFINE i == j - a
      <4>1. i \in 1 .. l /\ a + i = j
        BY <2>1, <3>2
      <4> HIDE DEF i
      <4>2. flat[a + i] = a + i
        BY <2>3, <4>1
      <4> QED BY <4>1, <4>2
    <3> QED BY <3>1, <3>2
  <2> QED BY <2>1, <2>2, <2>4
<1> HIDE DEF S
<1>11. L \in S
  <2>1. \A k \in 0 .. L : k \in S
    BY <1>2, <1>9, <1>10, StepByStep
  <2> QED BY <1>2, <2>1
<1>12. n \in Nat /\ Len(flat) = n /\ \A j \in 1 .. n : flat[j] = j
  BY <1>2, <1>4, <1>7, <1>11 DEF S
<1> HIDE DEF n
<1> DEFINE s == Letters(n)
<1>13. s \in Seq(Int) /\ Len(s) = n /\ \A j \in 1 .. n : s[j] = j
  BY <1>12, LettersAre
<1> HIDE DEF s
<1>14. flat = s
  <2>1. \A j \in 1 .. Len(flat) : flat[j] = s[j]
    BY <1>12, <1>13
  <2>2. Len(flat) = Len(s)
    BY <1>12, <1>13
  <2> QED BY <1>1, <1>13, <2>1, <2>2, SeqEqual
<1> QED BY <1>14 DEF flat, s, n, L

LEMMA UnpackIsRight ==
  ASSUME NEW n \in Nat, NEW before \in Nat, NEW star \in BOOLEAN, NEW after \in Nat
  PROVE  UnpackAsMeant(n, before, star, after, Unpack(n, before, star, after))
<1> DEFINE least == before + after
           wanted == IF star THEN n ELSE Min({n, least + 1})
           values == [k \in 1 .. wanted |-> k]
           A == [k \in 1 .. before |-> <<values[k]>>]
           B == IF star THEN <<SubSeq(values, before + 1, wanted - after)>> ELSE << >>
           C == [k \in 1 .. after |-> <<values[wanted - after + k]>>]
           u == Unpack(n, before, star, after)
           Ok == IF star THEN n >= least ELSE n = least
<1> SUFFICES UnpackAsMeant(n, before, star, after, u)
  OBVIOUS
<1>1. u = IF wanted < least THEN [error |-> "few", counted |-> wanted, targets |-> << >>]
          ELSE IF ~star /\ wanted > least THEN [error |-> "many", counted |-> n, targets |-> << >>]
          ELSE [error |-> "none", counted |-> wanted, targets |-> A \o B \o C]
  BY DEF Unpack
<1>2. wanted = IF star THEN n ELSE IF n <= least + 1 THEN n ELSE least + 1
  <2>1. \A x \in Int, y \in Int : Min({x, y}) = IF x <= y THEN x ELSE y
    BY DEF Min
  <2>2. least + 1 \in Int /\ n \in Int
    OBVIOUS
  <2> QED BY <2>1, <2>2
<1> HIDE DEF u, wanted, A, B, C
<1>3. CASE ~Ok
  <2>1. u.error = (IF n < least THEN "few" ELSE "many") /\ u.counted = n
    <3>1. CASE n < least
      <4>1. wanted = n /\ wanted < least
        BY <1>2, <3>1
      <4>2. u = [error |-> "few", counted |-> wanted, targets |-> << >>]
        BY <1>1, <4>1
      <4> QED BY <3>1, <4>1, <4>2
    <3>2. CASE ~(n < least)
      <4>1. ~star /\ wanted > least /\ ~(wanted < least)
        BY <1>2, <1>3, <3>2
      <4>2. u = [error |-> "many", counted |-> n, targets |-> << >>]
        BY <1>1, <4>1
      <4> QED BY <3>2, <4>2
    <3> QED BY <3>1, <3>2
  <2> QED BY <1>3, <2>1 DEF UnpackAsMeant
<1>4. CASE Ok
  <2> DEFINE ss == A \o B \o C
             b == IF star THEN 1 ELSE 0
             middle == IF star THEN n - least ELSE 0
             g == [k \in 0 .. before + b + after |-> IF k <= before THEN k ELSE (k - b) + middle]
  <2>1. wanted = n /\ n >= least /\ middle \in Nat /\ n = least + middle /\ b \in {0, 1} /\ (~star => middle = 0)
    BY <1>2, <1>4
  <2>2. u.error = "none" /\ u.targets = ss
    <3>1. ~(wanted < least) /\ ~(~star /\ wanted > least)
      BY <1>4, <2>1
    <3>2. u = [error |-> "none", counted |-> wanted, targets |-> ss]
      BY <1>1, <3>1
    <3> HIDE DEF ss
    <3> QED BY <3>2
  <2>3. DOMAIN values = 1 .. n /\ (\A k \in 1 .. n : values[k] = k) /\ values \in Seq(Int) /\ Len(values) = n
    <3>1. values \in [1 .. n -> Int] /\ DOMAIN values = 1 .. n /\ \A k \in 1 .. n : values[k] = k
      BY <2>1
    <3> HIDE DEF values
    <3>2. values \in Seq(Int)
      BY <3>1, SeqDef
    <3> QED BY <3>1, <3>2, LenProperties
  <2> HIDE DEF values
  <2>4. \A x \in Int : <<x>> \in Seq(Int) /\ Len(<<x>>) = 1 /\ <<x>>[1] = x
    OBVIOUS
  <2>5. A \in Seq(Seq(Int)) /\ Len(A) = before /\ \A k \in 1 .. before : A[k] = <<k>>
    <3>1. \A k \in 1 .. before : k \in 1 .. n /\ values[k] = k
      BY <2>1, <2>3
    <3>2. A = [k \in 1 .. before |-> <<k>>]
      BY <3>1 DEF A
    <3>3. A \in [1 .. before -> Seq(Int)]
      BY <2>4, <3>2
    <3>4. A \in Seq(Seq(Int))
      BY <3>3, SeqDef
    <3> QED BY <3>2, <3>3, <3>4, LenProperties
  <2>6. C \in Seq(Seq(Int)) /\ Len(C) = after /\ \A k \in 1 .. after : C[k] = <<(n - after) + k>>
    <3>1. \A k \in 1 .. after : (n - after) + k \in 1 .. n /\ values[(n - after) + k] = (n - after) + k
      BY <2>1, <2>3
    <3>2. C = [k \in 1 .. after |-> <<(n - after) + k>>]
      BY <2>1, <3>1 DEF C
    <3>3. \A k \in 1 .. after : (n - after) + k \in Int
      OBVIOUS
    <3>4. C \in [1 .. after -> Seq(Int)]
      BY <2>4, <3>2, <3>3
    <3>5. C \in Seq(Seq(Int))
      BY <3>4, SeqDef
    <3> QED BY <3>2, <3>4, <3>5, LenProperties
  <2> DEFINE t == SubSeq(values, before + 1, n - after)
  <2>7. t \in Seq(Int) /\ Len(t) = n - least /\ \A j \in 1 .. n - least : t[j] = before + j
    <3> DEFINE i == before + 1
               e == n - after
    <3>1. i \in Int /\ e \in Int /\ \A k \in i .. e : k \in 1 .. n /\ values[k] \in Int
      BY <2>1, <2>3
    <3>2. i .. e \subseteq DOMAIN values
      BY <2>3, <3>1
    <3> HIDE DEF i, e
    <3> DEFINE w == SubSeq(values, i, e)
    <3>3. w \in Seq(Int) /\ Len(w) = IF i <= e THEN e - i + 1 ELSE 0
      BY <2>3, <3>1, <3>2, SubSeqProperties
    <3>4. \A j \in 1 .. e - i + 1 : w[j] = values[i + j - 1]
      BY <2>3, <3>1, <3>2, SubSeqProperties
    <3> HIDE DEF w
    <3>5. e - i + 1 = n - least /\ (~(i <= e) => n - least = 0)
      BY <2>1 DEF i, e
    <3>6. \A j \in 1 .. n - least : i + j - 1 = before + j /\ before + j \in 1 .. n
      BY <2>1 DEF i, e
    <3>7. \A j \in 1 .. n - least : w[j] = before + j
      BY <2>3, <3>4, <3>5, <3>6
    <3>8. Len(w) = n - least
      BY <3>3, <3>5
    <3> QED BY <3>3, <3>7, <3>8 DEF w, i, e
  <2>8. B \in Seq(Seq(Int)) /\ Len(B) = b /\ (star => B[1] = t)
    <3>1. CASE star
      <4>1. B = <<t>>
        BY <2>1, <3>1 DEF B
      <4> HIDE DEF t
      <4> QED BY <2>7, <3>1, <4>1
    <3>2. CASE ~star
      <4>1. B = << >>
        BY <3>2 DEF B
      <4> QED BY <3>2, <4>1
    <3> QED BY <3>1, <3>2
  <2> HIDE DEF t, b, middle
  <2> DEFINE AB == A \o B
  <2>9. AB \in Seq(Seq(Int)) /\ Len(AB) = before + b
    BY <2>5, <2>8, ConcatProperties
  <2>10. \A k \in 1 .. before + b : AB[k] = IF k <= before THEN A[k] ELSE B[k - before]
    BY <2>5, <2>8, ConcatProperties
  <2> HIDE DEF AB
  <2>11. ss \in Seq(Seq(Int)) /\ Len(ss) = (before + b) + after
    BY <2>6, <2>9, ConcatProperties DEF AB
  <2>12. \A k \in 1 .. (before + b) + after : ss[k] = IF k <= before + b THEN AB[k] ELSE C[k - (before + b)]
    BY <2>6, <2>9, ConcatProperties, SMTT(20) DEF AB
  <2> HIDE DEF ss
  <2> DEFINE L == (before + b) + after
  <2>13. g \in [0 .. L -> Nat] /\ g[0] = 0 /\ \A k \in 0 .. L : g[k] = IF k <= before THEN k ELSE (k - b) + middle
    BY <2>1
  <2> HIDE DEF g
  <2>14. g[L] = n
    BY <2>1, <2>13 DEF b, middle
  <2>15. ASSUME NEW k \in 1 .. L
         PROVE  /\ g[k] = g[k - 1] + Len(ss[k]) /\ \A j \in 1 .. Len(ss[k]) : ss[k][j] = g[k - 1] + j
                /\ ~(star /\ k = before + 1) => Len(ss[k]) = 1
    <3>1. k - 1 \in 0 .. L /\ k \in 0 .. L
      BY <2>1
    <3>2. CASE k <= before
      <4>1. ss[k] = <<k>>
        <5>1. k \in 1 .. before + b /\ k \in 1 .. before /\ k \in 1 .. (before + b) + after /\ k <= before + b
          BY <2>1, <3>2
        <5>2. ss[k] = AB[k]
          BY <2>12, <5>1
        <5>3. AB[k] = A[k]
          BY <2>10, <3>2, <5>1
        <5> QED BY <2>5, <5>1, <5>2, <5>3
      <4>2. g[k] = k /\ g[k - 1] = k - 1
        BY <2>13, <3>1, <3>2
      <4>3. Len(ss[k]) = 1 /\ ss[k][1] = k
        BY <2>4, <4>1
      <4> QED BY <4>2, <4>3
    <3>3. CASE star /\ k = before + 1
      <4>1. b = 1 /\ middle = n - least
        BY <3>3 DEF b, middle
      <4>2. ss[k] = t
        <5>1. k \in 1 .. before + b /\ k \in 1 .. (before + b) + after /\ k <= before + b /\ ~(k <= before) /\ k - before = 1
          BY <3>3, <4>1
        <5>2. ss[k] = AB[k]
          BY <2>12, <5>1
        <5>3. AB[k] = B[1]
          BY <2>10, <5>1
        <5> QED BY <2>8, <3>3, <5>2, <5>3
      <4>3. g[k] = before + middle /\ g[k - 1] = before
        BY <2>1, <2>13, <3>1, <3>3, <4>1
      <4> QED BY <2>1, <2>7, <3>3, <4>1, <4>2, <4>3
    <3>4. CASE ~(k <= before) /\ ~(star /\ k = before + 1)
      <4> DEFINE i == k - (before + b)
      <4>1. i \in 1 .. after /\ ~(k <= before + b) /\ k \in 1 .. (before + b) + after
        BY <3>4 DEF b
      <4>2. ss[k] = <<(n - after) + i>>
        <5>1. ss[k] = C[i]
          BY <2>12, <4>1
        <5> HIDE DEF i
        <5> QED BY <2>6, <4>1, <5>1
      <4> DEFINE x == (n - after) + i
      <4>3. x \in Int /\ x = (k - b) + middle
        BY <2>1
      <4>4. g[k] = x
        BY <2>1, <2>13, <3>1, <3>4, <4>3
      <4>5. g[k - 1] = x - 1
        <5>1. CASE k - 1 <= before
          <6>1. b = 0 /\ middle = 0 /\ k - 1 = before
            BY <2>1, <3>4, <5>1 DEF b
          <6> QED BY <2>13, <3>1, <4>3, <5>1, <6>1
        <5>2. CASE ~(k - 1 <= before)
          BY <2>1, <2>13, <3>1, <4>3, <5>2
        <5> QED BY <5>1, <5>2
      <4> HIDE DEF x
      <4>6. Len(ss[k]) = 1 /\ ss[k][1] = x
        BY <2>4, <4>2, <4>3 DEF x
      <4> QED BY <4>3, <4>4, <4>5, <4>6
    <3> QED BY <3>2, <3>3, <3>4
  <2>16. Len(ss) = L /\ DOMAIN ss = 1 .. L
    BY <2>11, LenProperties
  <2>17. FlattenSeq(ss) = Letters(n)
    <3> HIDE DEF L
    <3>1. g \in [0 .. Len(ss) -> Nat] /\ g[0] = 0
      BY <2>13, <2>16
    <3>2. \A k \in 1 .. Len(ss) : g[k] = g[k - 1] + Len(ss[k]) /\ \A j \in 1 .. Len(ss[k]) : ss[k][j] = g[k - 1] + j
      BY <2>15, <2>16
    <3>3. FlattenSeq(ss) = Letters(g[Len(ss)])
      BY <2>11, <3>1, <3>2, CountsUp
    <3> QED BY <2>14, <2>16, <3>3
  <2>18. Len(ss) = least + (IF star THEN 1 ELSE 0)
    BY <2>1, <2>16 DEF b
  <2>19. \A k \in DOMAIN ss : ~(star /\ k = before + 1) => Len(ss[k]) = 1
    BY <2>15, <2>16
  <2> QED BY <1>4, <2>2, <2>17, <2>18, <2>19 DEF UnpackAsMeant
<1> QED BY <1>3, <1>4

-----------------------------------------------------------------------------
(* Questions about lists.                                                  *)

LEMMA CutIsRight ==
  ASSUME NEW q \in AnyCut
  PROVE  LET s == Letters(q.len)
             new == News(q.new)
         IN  CutAsMeant(s, new, q, [get |-> GetSlice(s, q), del |-> DelSlice(s, q), set |-> SetSlice(s, q, new)])
<1> DEFINE len == q.len
           m == q.new
           s == Letters(len)
           new == News(m)
           slice == [start |-> q.start, stop |-> q.stop, step |-> q.step]
           C == Chosen(slice, len)
           get == GetSlice(s, q)
           del == DelSlice(s, q)
           set == SetSlice(s, q, new)
           backwards == q.step # Absent /\ q.step.n < 0
           Turn(k) == Cardinality({j \in C : IF backwards THEN j >= k ELSE j <= k})
<1>1. len \in Lengths /\ m \in Nat /\ q.start \in Parts /\ q.stop \in Parts /\ q.step \in Ints(Int \ {0}) \union {Absent}
  BY DEF AnyCut
<1>2. slice \in Slices
  <2>1. \A part \in Ints(Int \ {0}) \union {Absent} : part \in Parts \ {Small(0)}
    <3>1. \A v \in Int \ {0} : FromBig(v) \in Ints(Int) /\ FromBig(v) # Small(0)
      BY DEF Ints, FromBig, Small, Big
    <3>2. Absent # Small(0)
      BY DEF Absent, Small
    <3> QED BY <3>1, <3>2 DEF Parts, Ints
  <2> QED BY <1>1, <2>1 DEF Slices
<1>3. slice.start = q.start /\ slice.stop = q.stop /\ slice.step = q.step
  OBVIOUS
<1>4. len \in Nat /\ s \in Seq(Int) /\ Len(s) = len /\ DOMAIN s = 1 .. len /\ Len(new) = m
  <2>1. len \in Nat
    BY <1>1, WordIs DEF Lengths
  <2> QED BY <1>1, <2>1, LettersAre, NewsAre
<1>5. \A n : Indices(q, n) = Indices(slice, n) /\ Selected(q, n) = Selected(slice, n)
  BY DEF Indices, Selected
<1>6. get = GetSlice(s, slice) /\ del = DelSlice(s, slice) /\ set = SetSlice(s, slice, new)
  <2> HIDE DEF s, slice, new
  <2> DEFINE ix == Indices(slice, Len(s))
  <2>1. Indices(q, Len(s)) = ix
    BY <1>5
  <2> HIDE DEF ix
  <2>2. get = GetSlice(s, slice)
    BY <2>1 DEF GetSlice, ix
  <2>3. del = DelSlice(s, slice)
    BY <2>1, Zenon DEF DelSlice, ix
  <2>4. set = SetSlice(s, slice, new)
    <3> DEFINE Written(i) ==
                 LET offsets == Offsets(i)
                     put[k \in 0 .. i.len] ==
                       IF k = 0 THEN s ELSE ReplaceAt(put[k - 1], offsets[k] + 1, new[k])
                 IN  IF i.step = 1
                       THEN Gives(SubSeq(s, 1, i.start) \o new \o SubSeq(s, i.start + i.len + 1, Len(s)))
                     ELSE IF Len(new) # i.len THEN Error("other size")
                     ELSE Gives(put[i.len])
    <3>1. set = Written(Indices(q, Len(s)))
      BY DEF set, SetSlice
    <3>2. SetSlice(s, slice, new) = Written(ix)
      BY DEF SetSlice, ix
    <3> HIDE DEF Written
    <3> QED BY <2>1, <3>1, <3>2
  <2> QED BY <2>2, <2>3, <2>4
<1>7. C = {j + 1 : j \in Selected(q, Len(s))}
  BY <1>4, <1>5 DEF Chosen
<1>8. (StepOf(slice) > 0 <=> ~backwards) /\ StepOf(slice) \in Int
  <2>1. StepOf(slice) \in Int /\ StepOf(slice) # 0
    BY <1>2, StepWordIs
  <2>2. StepOf(slice) = IF q.step = Absent THEN 1 ELSE q.step.n
    BY DEF StepOf
  <2> QED BY <2>1, <2>2
<1>9. PlaceOf(slice, len) = LET from == Points(q.start, Len(s), 0)
                            IN  IF C # {} THEN Min(C) - 1 ELSE Max({0, Min({from, Len(s)})})
  BY <1>4 DEF PlaceOf
<1>10. IsRun(slice) <=> q.step = Absent \/ q.step.n = 1
  BY DEF IsRun
<1>11. \A k : Cardinality(UpTo(slice, len, k)) = Turn(k)
  <2>1. \A k : UpTo(slice, len, k) = {j \in C : IF backwards THEN j >= k ELSE j <= k}
    BY <1>8 DEF UpTo
  <2> QED BY <2>1
<1> HIDE DEF slice, s, new, get, del, set, Turn
<1>12. /\ {get.items[i] : i \in DOMAIN get.items} = C
       /\ \A i, j \in DOMAIN get.items :
            i < j => IF StepOf(slice) > 0 THEN get.items[i] < get.items[j] ELSE get.items[i] > get.items[j]
  BY <1>1, <1>2, <1>6, CutRead DEF s
<1>13. Leaves(del.items, s, C)
  BY <1>1, <1>2, <1>6, CutDeleted DEF s
<1>14. /\ IsRun(slice) => set.items = SubSeq(s, 1, PlaceOf(slice, len)) \o new
                                        \o SubSeq(s, PlaceOf(slice, len) + Cardinality(C) + 1, len)
       /\ ~IsRun(slice) /\ m # Cardinality(C) => set.error = "other size"
       /\ ~IsRun(slice) /\ m = Cardinality(C) =>
            set.items = [k \in 1 .. len |-> IF k \in C THEN new[Cardinality(UpTo(slice, len, k))] ELSE s[k]]
  BY <1>1, <1>2, <1>6, CutWritten, ZenonT(30) DEF s, new
<1> DEFINE place == PlaceOf(slice, len)
           run == q.step = Absent \/ q.step.n = 1
<1>15. IF run THEN set.items = SubSeq(s, 1, place) \o new \o SubSeq(s, place + Cardinality(C) + 1, Len(s))
       ELSE IF Len(new) # Cardinality(C) THEN set.error = "other size"
       ELSE set.items = [k \in DOMAIN s |-> IF k \in C THEN new[Turn(k)] ELSE s[k]]
  <2>1. [k \in 1 .. len |-> IF k \in C THEN new[Cardinality(UpTo(slice, len, k))] ELSE s[k]]
          = [k \in DOMAIN s |-> IF k \in C THEN new[Turn(k)] ELSE s[k]]
    BY <1>4, <1>11
  <2> HIDE DEF C, place
  <2> QED BY <1>4, <1>10, <1>14, <2>1 DEF place, C
<1>16. \A i, j \in DOMAIN get.items :
         i < j => IF backwards THEN get.items[i] > get.items[j] ELSE get.items[i] < get.items[j]
  BY <1>8, <1>12
<1> DEFINE r == [get |-> get, del |-> del, set |-> set]
<1>17. r.get = get /\ r.del = del /\ r.set = set
  OBVIOUS
<1> HIDE DEF C, place, r
<1> DEFINE Says(c, p) ==
             LET TurnIn(k) == Cardinality({j \in c : IF backwards THEN j >= k ELSE j <= k})
             IN  /\ {r.get.items[i] : i \in DOMAIN r.get.items} = c
                 /\ \A i, j \in DOMAIN r.get.items :
                      i < j => IF backwards THEN r.get.items[i] > r.get.items[j] ELSE r.get.items[i] < r.get.items[j]
                 /\ Leaves(r.del.items, s, c)
                 /\ IF run THEN r.set.items = SubSeq(s, 1, p) \o new \o SubSeq(s, p + Cardinality(c) + 1, Len(s))
                    ELSE IF Len(new) # Cardinality(c) THEN r.set.error = "other size"
                    ELSE r.set.items = [k \in DOMAIN s |-> IF k \in c THEN new[TurnIn(k)] ELSE s[k]]
           chosen == {j + 1 : j \in Selected(q, Len(s))}
           from == Points(q.start, Len(s), 0)
           lies == IF chosen # {} THEN Min(chosen) - 1 ELSE Max({0, Min({from, Len(s)})})
<1>18. Says(C, place)
  <2>1. {r.get.items[i] : i \in DOMAIN r.get.items} = C
    BY <1>12, <1>17
  <2>2. \A i, j \in DOMAIN r.get.items :
          i < j => IF backwards THEN r.get.items[i] > r.get.items[j] ELSE r.get.items[i] < r.get.items[j]
    BY <1>16, <1>17
  <2>3. Leaves(r.del.items, s, C)
    BY <1>13, <1>17
  <2>4. IF run THEN r.set.items = SubSeq(s, 1, place) \o new \o SubSeq(s, place + Cardinality(C) + 1, Len(s))
        ELSE IF Len(new) # Cardinality(C) THEN r.set.error = "other size"
        ELSE r.set.items = [k \in DOMAIN s |-> IF k \in C THEN new[Turn(k)] ELSE s[k]]
    <3> HIDE DEF run
    <3> QED BY <1>15, <1>17
  <2> QED BY <2>1, <2>2, <2>3, <2>4 DEF Turn
<1>19. CutAsMeant(s, new, q, r) <=> Says(chosen, lies)
  BY DEF CutAsMeant
<1>20. C = chosen /\ place = lies
  BY <1>7, <1>9 DEF place
<1>21. CutAsMeant(s, new, q, r)
  <2> HIDE DEF Says, chosen, lies
  <2> QED BY <1>18, <1>19, <1>20
<1> QED BY <1>21 DEF r, s, new, get, del, set

-----------------------------------------------------------------------------
(* Two values.                                                             *)

LEMMA PairIsRight ==
  ASSUME NEW a \in AllValues, NEW b \in AllValues, NEW r,
         r.equal = Equals(a, b), r.hashes = <<Hash(a), Hash(b)>>, r.order = Order(a, b)
  PROVE  PairAsMeant(a, b, r)
<1> DEFINE x == Hash(a)
           y == Hash(b)
           order == Order(a, b)
           equal == Equals(a, b)
<1>1. /\ equal => x = y
      /\ IsNumber(a) => x.hashable
      /\ IsNumber(a) /\ IsNumber(b) =>
           /\ equal <=> ~IsNan(a) /\ ~IsNan(b) /\ SameNumber(a, b)
           /\ ~order["<"].error
           /\ order["<"].is <=> ~IsNan(a) /\ ~IsNan(b) /\ Below(a, b)
           /\ order[">"].is <=> ~IsNan(a) /\ ~IsNan(b) /\ Below(b, a)
      /\ Agrees(order, equal)
  BY ValuesCompare
<1> HIDE DEF x, y, order, equal
<1>2. r.equal = equal /\ r.hashes[1] = x /\ r.hashes[2] = y /\ r.order = order
  <2>1. r.hashes = <<x, y>>
    BY DEF x, y
  <2> QED BY <2>1 DEF equal, order
<1> QED BY <1>1, <1>2 DEF PairAsMeant, Agrees

-----------------------------------------------------------------------------
(* What holds of every answer, whatever was asked.                         *)

Right == IntsAreNumbers /\ RangeCounts /\ MapKeepsStep /\ BindsAsWritten /\ ItemsAsMeant /\ ComparesAsMeant
Ask ==
  question \in AnyInts \union AnyRange \union AnyMap \union AnyBind \union AnyCall \union AnyHistory
                 \union AnyItem \union AnyCut \union AnyUnpack \union AnyMethod \union AnyOne \union AnyOperands
                 \union AnyPair

LEMMA NotAnswered ==
  ASSUME answer = << >>
  PROVE  Right
BY DEF Right, IntsAreNumbers, RangeCounts, MapKeepsStep, BindsAsWritten, ItemsAsMeant, ComparesAsMeant, Answered

LEMMA AskedIs ==
  ASSUME Ask
  PROVE  \/ question.about = "ints" /\ question \in AnyInts
         \/ question.about = "range" /\ question \in AnyRange
         \/ question.about = "map" /\ question \in AnyMap
         \/ question.about = "bind" /\ question \in AnyBind
         \/ question.about = "call" /\ question \in AnyCall
         \/ question.about = "attributes" /\ question \in AnyHistory
         \/ question.about = "item" /\ question \in AnyItem
         \/ question.about = "cut" /\ question \in AnyCut
         \/ question.about = "unpack" /\ question \in AnyUnpack
         \/ question.about = "set" /\ question \in AnyMethod
         \/ question.about = "member" /\ question \in AnyOne
         \/ question.about = "operands" /\ question \in AnyOperands
         \/ question.about = "values" /\ question \in AnyPair
BY DEF Ask, AnyInts, AnyRange, AnyMap, AnyBind, AnyCall, AnyHistory,
       AnyItem, AnyCut, AnyUnpack, AnyMethod, AnyOne, AnyOperands, AnyPair

LEMMA StepIsRight ==
  ASSUME Ask, Answering
  PROVE  Right'
<1>1. CASE AnswerInts
  <2>1. question.about = "ints" /\ question' = question
    BY <1>1 DEF AnswerInts, Asked, Answer
  <2>2. question \in AnyInts
    BY <2>1, AskedIs
  <2> DEFINE a == question.a
             b == question.b
  <2>3. a \in Ints(Int) /\ b \in Ints(Int)
    BY <2>2 DEF AnyInts
  <2>4. answer' = <<[add |-> IntAdd(a, b), sub |-> IntSub(a, b), mul |-> IntMul(a, b),
                     neg |-> Neg(a), inv |-> Invert(a), abs |-> Abs(a),
                     divmod |-> IF b.n = 0 THEN << >> ELSE DivMod(a, b),
                     pow |-> Pow(a, b), shl |-> ShiftLeft(a, b), shr |-> ShiftRight(a, b),
                     less |-> IntLess(a, b)]>>
    BY <1>1 DEF AnswerInts, Answer
  <2>5. question.a = a /\ question.b = b
    OBVIOUS
  <2> HIDE DEF a, b
  <2>6. IntsAreNumbers'
    BY <2>1, <2>3, <2>4, <2>5, IntsAnswered
  <2>7. RangeCounts' /\ MapKeepsStep' /\ BindsAsWritten' /\ ItemsAsMeant' /\ ComparesAsMeant'
    BY <2>1 DEF RangeCounts, MapKeepsStep, BindsAsWritten, ItemsAsMeant, ComparesAsMeant, Answered
  <2> QED BY <2>6, <2>7 DEF Right
<1>2. CASE AnswerRange
  <2>1. question.about = "range" /\ question' = question
    BY <1>2 DEF AnswerRange, Asked, Answer
  <2>2. question \in AnyRange
    BY <2>1, AskedIs
  <2> DEFINE start == question.start
             stop == question.stop
             step == question.step
             n == question.walked
  <2>3. /\ start \in Ints(Int) /\ stop \in Ints(Int) /\ step \in Ints(Int \ {0})
        /\ n \in Nat /\ n >= Magnitude(stop.n - start.n)
    BY <2>2 DEF AnyRange
  <2>4. answer' = <<[count |-> Count(start, stop, step), walk |-> RangeWalk(start, stop, step, n)]>>
    BY <1>2 DEF AnswerRange, Answer
  <2>5. question.start = start /\ question.stop = stop /\ question.step = step
    OBVIOUS
  <2> HIDE DEF start, stop, step, n
  <2>6. step \in Ints(Int) /\ step.n # 0
    BY <2>3 DEF Ints, FromBig, Small, Big
  <2>7. RangeCounts'
    BY <2>1, <2>3, <2>4, <2>5, <2>6, RangeAnswered
  <2>8. IntsAreNumbers' /\ MapKeepsStep' /\ BindsAsWritten' /\ ItemsAsMeant' /\ ComparesAsMeant'
    BY <2>1 DEF IntsAreNumbers, MapKeepsStep, BindsAsWritten, ItemsAsMeant, ComparesAsMeant, Answered
  <2> QED BY <2>7, <2>8 DEF Right
<1>3. CASE AnswerMap
  <2>1. question.about = "map" /\ question' = question
    BY <1>3 DEF AnswerMap, Asked, Answer
  <2>2. question \in AnyMap
    BY <2>1, AskedIs
  <2> DEFINE sources == question.sources
             strict == question.strict
             n == question.asked
  <2>3. sources \in Sources /\ strict \in BOOLEAN /\ n \in Nat
    BY <2>2 DEF AnyMap, Sources
  <2>4. answer' = <<MapAsked(sources, strict, n)>>
    BY <1>3 DEF AnswerMap, Answer
  <2>5. question.sources = sources /\ question.strict = strict /\ question.asked = n
    OBVIOUS
  <2> HIDE DEF sources, strict, n
  <2>6. MapKeepsStep'
    BY <2>1, <2>3, <2>4, <2>5, MapAnswered
  <2>7. IntsAreNumbers' /\ RangeCounts' /\ BindsAsWritten' /\ ItemsAsMeant' /\ ComparesAsMeant'
    BY <2>1 DEF IntsAreNumbers, RangeCounts, BindsAsWritten, ItemsAsMeant, ComparesAsMeant, Answered
  <2> QED BY <2>6, <2>7 DEF Right
<1>4. CASE AnswerBind
  <2>1. question.about = "bind" /\ question' = question
    BY <1>4 DEF AnswerBind, Asked, Answer
  <2>2. question \in AnyBind
    BY <2>1, AskedIs
  <2> DEFINE q == question
             f == question.f
             b == Bind(f, q)
  <2>3. f \in AnyShape /\ AreArguments(q)
    BY <2>2 DEF AnyBind, AreArguments
  <2>4. answer' = <<b>>
    BY <1>4 DEF AnswerBind, Answer
  <2>5. question.f = f /\ question = q
    OBVIOUS
  <2> HIDE DEF q, f
  <2>6. /\ b.error = "none" <=> Legal(f, q)
        /\ IF b.error = "none" THEN BoundRight(f, q, b) ELSE Blamed(f, q, b.error)
    BY <2>3, BindIsRight
  <2> HIDE DEF b
  <2>7. It' = b
    BY <2>4 DEF It
  <2>8. BindsAsWritten'
    BY <2>1, <2>5, <2>6, <2>7 DEF BindsAsWritten, Answered
  <2>9. IntsAreNumbers' /\ RangeCounts' /\ MapKeepsStep' /\ ItemsAsMeant' /\ ComparesAsMeant'
    BY <2>1 DEF IntsAreNumbers, RangeCounts, MapKeepsStep, ItemsAsMeant, ComparesAsMeant, Answered
  <2> QED BY <2>8, <2>9 DEF Right
<1>5. CASE AnswerObject
  <2>1. CASE Asked("call") /\ Answer(Invoke(question.callee, question.args, question.written))
    <3>1. question.about = "call" /\ question' = question
      BY <2>1 DEF Asked, Answer
    <3>2. question \in AnyCall
      BY <3>1, AskedIs
    <3> DEFINE callee == question.callee
               args == question.args
               written == question.written
               r == Invoke(callee, args, written)
    <3>3. callee \in AnyCallee /\ args \in Nat /\ written \in Seq(AnyWritten)
      BY <3>2 DEF AnyCall
    <3>4. answer' = <<r>>
      BY <2>1 DEF Answer
    <3>5. question.callee = callee /\ question.args = args /\ question.written = written
      OBVIOUS
    <3> HIDE DEF callee, args, written
    <3>6. CallsAsMeant(callee, args, written, r)
      BY <3>3, CallIsRight
    <3> HIDE DEF r
    <3>7. It' = r
      BY <3>4 DEF It
    <3>8. BindsAsWritten'
      BY <3>1, <3>5, <3>6, <3>7 DEF BindsAsWritten, Answered
    <3>9. IntsAreNumbers' /\ RangeCounts' /\ MapKeepsStep' /\ ItemsAsMeant' /\ ComparesAsMeant'
      BY <3>1 DEF IntsAreNumbers, RangeCounts, MapKeepsStep, ItemsAsMeant, ComparesAsMeant, Answered
    <3> QED BY <3>8, <3>9 DEF Right
  <2>2. CASE /\ Asked("attributes")
             /\ LET s == After(question.history)
                IN  Answer([refused |-> s.refused,
                            found |-> [o \in DOMAIN s.own |->
                                         [n \in Names |-> Attribute(s.own, question.based, o, n)]]])
    <3>1. question.about = "attributes" /\ question' = question
      BY <2>2 DEF Asked, Answer
    <3>2. question \in AnyHistory
      BY <3>1, AskedIs
    <3> DEFINE history == question.history
               based == question.based
               s == After(history)
               own == s.own
               found == [o \in DOMAIN own |-> [n \in Names |-> Attribute(own, based, o, n)]]
               a == [refused |-> s.refused, found |-> found]
    <3>3. history \in Seq(AnyOperation) /\ based \in BOOLEAN
      BY <3>2 DEF AnyHistory
    <3>4. answer' = <<a>>
      BY <2>2 DEF Answer
    <3>5. question.history = history /\ question.based = based
      OBVIOUS
    <3> HIDE DEF history, based
    <3>6. DOMAIN own = Holders /\ Holds(history, own) /\ s.refused = RefusedMeant(history)
      BY <3>3, AfterHolds
    <3> HIDE DEF own
    <3>7. a.refused = RefusedMeant(history) /\ a.found = found /\ DOMAIN found = Holders
      BY <3>6
    <3>8. ASSUME NEW o \in Holders, NEW n \in Names
          PROVE  LET meant == AttributeMeant(history, based, o, n)
                 IN  IF meant = {} THEN found[o][n] = Missing ELSE meant = {found[o][n]}
      <4>1. found[o][n] = Attribute(own, based, o, n)
        BY <3>6
      <4> HIDE DEF found
      <4> QED BY <3>3, <3>6, <4>1, AttributeIsRight
    <3> HIDE DEF found, a
    <3>9. It' = a
      BY <3>4 DEF It
    <3>10. BindsAsWritten'
      BY <3>1, <3>5, <3>7, <3>8, <3>9 DEF BindsAsWritten, Answered
    <3>11. IntsAreNumbers' /\ RangeCounts' /\ MapKeepsStep' /\ ItemsAsMeant' /\ ComparesAsMeant'
      BY <3>1 DEF IntsAreNumbers, RangeCounts, MapKeepsStep, ItemsAsMeant, ComparesAsMeant, Answered
    <3> QED BY <3>10, <3>11 DEF Right
  <2> QED BY <1>5, <2>1, <2>2 DEF AnswerObject
<1>6. CASE AnswerItem
  <2>1. question.about = "item" /\ question' = question
    BY <1>6 DEF AnswerItem, Asked, Answer
  <2>2. question \in AnyItem
    BY <2>1, AskedIs
  <2> DEFINE len == question.len
             index == question.index
             s == Letters(len)
             get == GetItem(s, index)
             set == SetItem(s, index, 0)
             del == DelItem(s, index)
  <2>3. len \in Lengths /\ index \in Ints(Int)
    BY <2>2 DEF AnyItem
  <2>4. answer' = <<[get |-> get, set |-> set, del |-> del]>>
    BY <1>6 DEF AnswerItem, Answer
  <2>5. question.len = len /\ question.index = index
    OBVIOUS
  <2> HIDE DEF len, index
  <2> DEFINE r == [get |-> get, set |-> set, del |-> del]
  <2>6. r.get = get /\ r.set = set /\ r.del = del /\ \A how \in {"get", "set", "del"} : r[how] \in {get, set, del}
    OBVIOUS
  <2> HIDE DEF r
  <2>7. ItemAsMeant(s, index.n, r)
    BY <2>3, <2>6, ItemIsRight DEF ItemAsMeant
  <2>8. It' = r
    BY <2>4 DEF It, r
  <2>9. ItemsAsMeant'
    BY <2>1, <2>5, <2>7, <2>8 DEF ItemsAsMeant, Answered
  <2>10. IntsAreNumbers' /\ RangeCounts' /\ MapKeepsStep' /\ BindsAsWritten' /\ ComparesAsMeant'
    BY <2>1 DEF IntsAreNumbers, RangeCounts, MapKeepsStep, BindsAsWritten, ComparesAsMeant, Answered
  <2> QED BY <2>9, <2>10 DEF Right
<1>7. CASE AnswerCut
  <2>1. question.about = "cut" /\ question' = question
    BY <1>7 DEF AnswerCut, Asked, Answer
  <2>2. question \in AnyCut
    BY <2>1, AskedIs
  <2> DEFINE q == question
             s == Letters(q.len)
             new == News(q.new)
             r == [get |-> GetSlice(s, q), del |-> DelSlice(s, q), set |-> SetSlice(s, q, new)]
  <2>3. answer' = <<r>>
    BY <1>7 DEF AnswerCut, Answer
  <2>4. CutAsMeant(s, new, q, r)
    BY <2>2, CutIsRight
  <2> HIDE DEF r
  <2>5. It' = r
    BY <2>3 DEF It
  <2>6. ItemsAsMeant'
    BY <2>1, <2>4, <2>5 DEF ItemsAsMeant, Answered
  <2>7. IntsAreNumbers' /\ RangeCounts' /\ MapKeepsStep' /\ BindsAsWritten' /\ ComparesAsMeant'
    BY <2>1 DEF IntsAreNumbers, RangeCounts, MapKeepsStep, BindsAsWritten, ComparesAsMeant, Answered
  <2> QED BY <2>6, <2>7 DEF Right
<1>8. CASE AnswerUnpack
  <2>1. question.about = "unpack" /\ question' = question
    BY <1>8 DEF AnswerUnpack, Asked, Answer
  <2>2. question \in AnyUnpack
    BY <2>1, AskedIs
  <2> DEFINE n == question.n
             before == question.before
             star == question.star
             after == question.after
             u == Unpack(n, before, star, after)
  <2>3. n \in Nat /\ before \in Nat /\ star \in BOOLEAN /\ after \in Nat
    BY <2>2 DEF AnyUnpack
  <2>4. answer' = <<u>>
    BY <1>8 DEF AnswerUnpack, Answer
  <2>5. question.n = n /\ question.before = before /\ question.star = star /\ question.after = after
    OBVIOUS
  <2> HIDE DEF n, before, star, after
  <2>6. UnpackAsMeant(n, before, star, after, u)
    BY <2>3, UnpackIsRight
  <2> HIDE DEF u
  <2>7. It' = u
    BY <2>4 DEF It
  <2>8. ItemsAsMeant'
    BY <2>1, <2>5, <2>6, <2>7 DEF ItemsAsMeant, Answered
  <2>9. IntsAreNumbers' /\ RangeCounts' /\ MapKeepsStep' /\ BindsAsWritten' /\ ComparesAsMeant'
    BY <2>1 DEF IntsAreNumbers, RangeCounts, MapKeepsStep, BindsAsWritten, ComparesAsMeant, Answered
  <2> QED BY <2>8, <2>9 DEF Right
<1>9. CASE AnswerSet
  <2>1. CASE Asked("set") /\ Answer([method \in Methods |-> Method(method, question.held, question.others)])
    <3>1. question.about = "set" /\ question' = question
      BY <2>1 DEF Asked, Answer
    <3>2. question \in AnyMethod
      BY <3>1, AskedIs
    <3> DEFINE held == question.held
               others == question.others
               r == [method \in Methods |-> Method(method, held, others)]
    <3>3. held \in AnySet /\ others \in Seq(AnyOther)
      BY <3>2 DEF AnyMethod
    <3>4. answer' = <<r>>
      BY <2>1 DEF Answer
    <3>5. question.held = held /\ question.others = others
      OBVIOUS
    <3> HIDE DEF held, others
    <3>6. \A method \in Methods : MethodAsMeant(method, held, others, r[method])
      BY <3>3, MethodIsRight
    <3> HIDE DEF r
    <3>7. It' = r
      BY <3>4 DEF It
    <3>8. ItemsAsMeant'
      BY <3>1, <3>5, <3>6, <3>7 DEF ItemsAsMeant, Answered
    <3>9. IntsAreNumbers' /\ RangeCounts' /\ MapKeepsStep' /\ BindsAsWritten' /\ ComparesAsMeant'
      BY <3>1 DEF IntsAreNumbers, RangeCounts, MapKeepsStep, BindsAsWritten, ComparesAsMeant, Answered
    <3> QED BY <3>8, <3>9 DEF Right
  <2>2. CASE Asked("member") /\ Answer([method \in MemberMethods |-> OneMember(method, question.held, question.m)])
    <3>1. question.about = "member" /\ question' = question
      BY <2>2 DEF Asked, Answer
    <3>2. question \in AnyOne
      BY <3>1, AskedIs
    <3> DEFINE held == question.held
               m == question.m
               r == [method \in MemberMethods |-> OneMember(method, held, m)]
    <3>3. held \in AnySet /\ m \in [kind : Nat, copy : Nat, hashable : BOOLEAN]
      BY <3>2 DEF AnyOne
    <3>4. answer' = <<r>>
      BY <2>2 DEF Answer
    <3>5. question.held = held /\ question.m = m
      OBVIOUS
    <3> HIDE DEF held, m
    <3>6. \A method \in MemberMethods : r[method] = OneMember(method, held, m)
      OBVIOUS
    <3> HIDE DEF r
    <3>7. MemberAsMeant(held, m, r)
      BY <3>3, <3>6, MemberIsRight
    <3>8. It' = r
      BY <3>4 DEF It
    <3>9. ItemsAsMeant'
      BY <3>1, <3>5, <3>7, <3>8 DEF ItemsAsMeant, Answered
    <3>10. IntsAreNumbers' /\ RangeCounts' /\ MapKeepsStep' /\ BindsAsWritten' /\ ComparesAsMeant'
      BY <3>1 DEF IntsAreNumbers, RangeCounts, MapKeepsStep, BindsAsWritten, ComparesAsMeant, Answered
    <3> QED BY <3>9, <3>10 DEF Right
  <2>3. CASE /\ Asked("operands")
             /\ LET a == question.objects.x
                    b == question.objects[question.right]
                IN  Answer([inplace |-> [op \in Operators |-> InPlace(op, question.objects, "x", question.right)],
                            order |-> IF a.type = "set" /\ b.type = "set"
                                        THEN {[op \in {"<", "<=", ">", ">="} |-> SetOrder(op, a.items, b.items)]} ELSE {}])
    <3>1. question.about = "operands" /\ question' = question
      BY <2>3 DEF Asked, Answer
    <3>2. question \in AnyOperands
      BY <3>1, AskedIs
    <3> DEFINE objects == question.objects
               right == question.right
               a == objects.x
               b == objects[right]
               inplace == [op \in Operators |-> InPlace(op, objects, "x", right)]
               less == [op \in {"<", "<=", ">", ">="} |-> SetOrder(op, a.items, b.items)]
               order == IF a.type = "set" /\ b.type = "set" THEN {less} ELSE {}
    <3>3. objects \in [x : AnyThing, y : AnyThing] /\ right \in {"x", "y"}
      BY <3>2 DEF AnyOperands
    <3>4. answer' = <<[inplace |-> inplace, order |-> order]>>
      BY <2>3 DEF Answer
    <3>5. question.objects = objects /\ question.right = right
      OBVIOUS
    <3> HIDE DEF objects, right
    <3>6. a \in AnyThing /\ b \in AnyThing
      BY <3>3
    <3>7. \A op \in Operators : InPlaceAsMeant(op, objects, right, inplace[op])
      BY <3>3, InPlaceIsRight
    <3> HIDE DEF a, b, inplace
    <3>8. \A o \in order : OrderAsMeant(a, b, o)
      <4>1. a.type = "set" /\ b.type = "set" => a.items \in AnySet /\ b.items \in AnySet
        BY <3>6, ThingIs
      <4>2. \A op \in {"<", "<=", ">", ">="} : less[op] = SetOrder(op, a.items, b.items)
        OBVIOUS
      <4> HIDE DEF less
      <4>3. a.type = "set" /\ b.type = "set" => OrderAsMeant(a, b, less)
        BY <4>1, <4>2, OrderIsRight
      <4> QED BY <4>3
    <3>9. a = question.objects.x /\ b = question.objects[question.right]
      BY <3>5 DEF a, b
    <3> HIDE DEF order
    <3>10. It' = [inplace |-> inplace, order |-> order]
      BY <3>4 DEF It
    <3>11. (It').inplace = inplace /\ (It').order = order
      BY <3>10
    <3>12. ItemsAsMeant'
      BY <3>1, <3>5, <3>7, <3>8, <3>9, <3>11 DEF ItemsAsMeant, Answered
    <3>13. IntsAreNumbers' /\ RangeCounts' /\ MapKeepsStep' /\ BindsAsWritten' /\ ComparesAsMeant'
      BY <3>1 DEF IntsAreNumbers, RangeCounts, MapKeepsStep, BindsAsWritten, ComparesAsMeant, Answered
    <3> QED BY <3>12, <3>13 DEF Right
  <2> QED BY <1>9, <2>1, <2>2, <2>3 DEF AnswerSet
<1>10. CASE AnswerValues
  <2>1. question.about = "values" /\ question' = question
    BY <1>10 DEF AnswerValues, Asked, Answer
  <2>2. question \in AnyPair
    BY <2>1, AskedIs
  <2> DEFINE a == question.a
             b == question.b
             r == [equal |-> Equals(a, b), hashes |-> <<Hash(a), Hash(b)>>, order |-> Order(a, b)]
  <2>3. a \in AllValues /\ b \in AllValues
    BY <2>2 DEF AnyPair
  <2>4. answer' = <<r>>
    BY <1>10 DEF AnswerValues, Answer
  <2>5. question.a = a /\ question.b = b
    OBVIOUS
  <2> HIDE DEF a, b
  <2>6. r.equal = Equals(a, b) /\ r.hashes = <<Hash(a), Hash(b)>> /\ r.order = Order(a, b)
    OBVIOUS
  <2> HIDE DEF r
  <2>7. PairAsMeant(a, b, r)
    BY <2>3, <2>6, PairIsRight
  <2>8. It' = r
    BY <2>4 DEF It
  <2>9. ComparesAsMeant'
    BY <2>1, <2>5, <2>7, <2>8 DEF ComparesAsMeant, Answered
  <2>10. IntsAreNumbers' /\ RangeCounts' /\ MapKeepsStep' /\ BindsAsWritten' /\ ItemsAsMeant'
    BY <2>1 DEF IntsAreNumbers, RangeCounts, MapKeepsStep, BindsAsWritten, ItemsAsMeant, Answered
  <2> QED BY <2>9, <2>10 DEF Right
<1> QED BY <1>1, <1>2, <1>3, <1>4, <1>5, <1>6, <1>7, <1>8, <1>9, <1>10 DEF Answering

LEMMA AnswersInvariant == AnswersSpec => [](Ask /\ Right)
<1>1. Asking => Ask /\ Right
  BY NotAnswered DEF Asking, Ask
<1>2. Ask /\ Right /\ [Answering]_functionVars => (Ask /\ Right)'
  <2> SUFFICES ASSUME Ask, Right, [Answering]_functionVars PROVE Ask' /\ Right'
    OBVIOUS
  <2>1. CASE Answering
    <3>1. question' = question
      BY <2>1 DEF Answering, AnswerInts, AnswerRange, AnswerMap, AnswerBind, AnswerObject,
                  AnswerItem, AnswerCut, AnswerUnpack, AnswerSet, AnswerValues, Answer
    <3> QED BY <2>1, <3>1, StepIsRight DEF Ask
  <2>2. CASE UNCHANGED functionVars
    BY <2>2 DEF functionVars, Ask, Right, IntsAreNumbers, RangeCounts, MapKeepsStep, BindsAsWritten,
                    ItemsAsMeant, ComparesAsMeant, Answered, It
  <2> QED BY <2>1, <2>2
<1> QED BY <1>1, <1>2, PTL DEF AnswersSpec

(* Every operation on integers gives the number it should, in the arm the  *)
(* number belongs in, at both ends of any word (int.rs).                   *)
THEOREM ArmsAreRight == AnswersSpec => []IntsAreNumbers
<1>1. Right => IntsAreNumbers
  BY DEF Right
<1> QED BY <1>1, AnswersInvariant, PTL

(* A range of any ends and any step has as many values as it says, and     *)
(* they are Python's, in order (Range::count).                             *)
THEOREM RangesAreCounted == AnswersSpec => []RangeCounts
<1>1. Right => RangeCounts
  BY DEF Right
<1> QED BY <1>1, AnswersInvariant, PTL

(* A map over any sources keeps step with them, asked as often as one      *)
(* likes, and blames the right argument if they were to match (lazy.rs).   *)
THEOREM MapsKeepStep == AnswersSpec => []MapKeepsStep
<1>1. Right => MapKeepsStep
  BY DEF Right
<1> QED BY <1>1, AnswersInvariant, PTL

(* A call of any function, with any arguments and any keywords, puts every *)
(* argument where the language says or is refused for the first thing that *)
(* is wrong, and an attribute is what its history made of it, however long *)
(* that is (Function::bind, invoke, attribute).                            *)
THEOREM CallsAreRight == AnswersSpec => []BindsAsWritten
<1>1. Right => BindsAsWritten
  BY DEF Right
<1> QED BY <1>1, AnswersInvariant, PTL

(* An index and a slice read, delete and write what they select and no     *)
(* more, unpacking shares out all of a value in order, and a method or an  *)
(* operator of sets works on what its arguments' Python left of the set    *)
(* and changes no other object: for lists of any length a word can count,  *)
(* any slice, any set and any arguments, whatever they do meanwhile        *)
(* (get_item, set_item, del_item, unpack, every, inplace).                 *)
THEOREM ItemsAreRight == AnswersSpec => []ItemsAsMeant
<1>1. Right => ItemsAsMeant
  BY DEF Right
<1> QED BY <1>1, AnswersInvariant, PTL

(* Equal values have one hash, numbers of every type compare as numbers,   *)
(* and the orders of any two values agree with each other and with their   *)
(* equality: for a word, a modulus and digits of any length, and for       *)
(* values nested as deep as one likes (hash.rs, compare, order).           *)
THEOREM ValuesAreRight == AnswersSpec => []ComparesAsMeant
<1>1. Right => ComparesAsMeant
  BY DEF Right
<1> QED BY <1>1, AnswersInvariant, PTL

=============================================================================
