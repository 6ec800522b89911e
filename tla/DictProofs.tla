----------------------------- MODULE DictProofs -----------------------------
(***************************************************************************)
(* The dict is the ordered map, and a loop over it sees what it should,    *)
(* for any keys, hashes and values, with tombstones and rebuilds.          *)
(*                                                                         *)
(* What a table has to be for its probes to be right is Filing: the length *)
(* is a power of two, so that every walk goes everywhere; a third of it is *)
(* empty, tombstones counted as taken; slots and live entries point at     *)
(* each other; no key is there twice; and the walk of a key comes to its   *)
(* slot before it comes to an empty one.  The last is what a deletion      *)
(* would break if it emptied its slot.                                     *)
(***************************************************************************)
EXTENDS DictWalk, Recursion, FiniteSetTheorems, SequenceTheorems

-----------------------------------------------------------------------------
(* The walk goes through every slot of a table.  Once the high bits of the *)
(* hash are gone a step takes slot s to 5s + 1, modulo the length of the   *)
(* table, which is a power of two.  After i more steps it is at            *)
(* 5^i s + C(i), with 5^i = 4 C(i) + 1.  Two places of one walk that are d *)
(* steps apart are therefore the same slot only if the length divides C(d) *)
(* times an odd number, which means that it divides d: C(2e) is twice C(e) *)
(* times an odd number.  So the length many places that follow each other  *)
(* are different, and are all there are.                                   *)

LEMMA TwoToStep ==
  /\ TwoTo \in [Nat -> Nat]
  /\ TwoTo[0] = 1
  /\ \A e \in Nat : TwoTo[e + 1] = 2 * TwoTo[e] /\ TwoTo[e] > 0
<1> DEFINE step == [e \in Nat |-> [v \in Nat |-> 2 * v]]
           Is(f) == f = [e \in Nat |-> IF e = 0 THEN 1 ELSE 2 * f[e - 1]]
<1>1. \E f : Is(f)
  <2>1. step \in [Nat -> [Nat -> Nat]]
    OBVIOUS
  <2>2. \A e, v \in Nat : step[e][v] = 2 * v
    OBVIOUS
  <2> HIDE DEF step
  <2>3. PICK f \in [Nat -> Nat] : f[0] = 1 /\ \A e \in Nat : f[e + 1] = step[e][f[e]]
    <3>1. 1 \in Nat /\ step \in Steps(Nat)
      BY <2>1 DEF Steps
    <3>2. PICK f : Follows(f, Nat, 1, step)
      BY <3>1, RecursiveFunction
    <3> QED BY <3>2 DEF Follows
  <2>4. ASSUME NEW e \in Nat PROVE f[e] = IF e = 0 THEN 1 ELSE 2 * f[e - 1]
    <3>1. CASE e = 0
      BY <2>3, <3>1
    <3>2. CASE e # 0
      <4>1. e - 1 \in Nat /\ (e - 1) + 1 = e
        BY <3>2
      <4>2. f[e] = step[e - 1][f[e - 1]] /\ f[e - 1] \in Nat
        BY <2>3, <4>1
      <4> QED BY <2>2, <3>2, <4>1, <4>2
    <3> QED BY <3>1, <3>2
  <2>5. Is(f)
    BY <2>3, <2>4
  <2> QED BY <2>5
<1>2. Is(TwoTo)
  <2> HIDE DEF Is
  <2>1. TwoTo = CHOOSE f : Is(f)
    BY DEF TwoTo, Is
  <2> QED BY <1>1, <2>1
<1>3. /\ TwoTo[0] = 1
      /\ \A e \in Nat : TwoTo[e + 1] = 2 * TwoTo[e]
      /\ TwoTo = [e \in Nat |-> TwoTo[e]]
  <2>1. ASSUME NEW e \in Nat PROVE TwoTo[e] = IF e = 0 THEN 1 ELSE 2 * TwoTo[e - 1]
    BY <1>2
  <2>2. TwoTo = [e \in Nat |-> TwoTo[e]]
    BY <1>2
  <2> HIDE DEF Is
  <2>3. ASSUME NEW e \in Nat PROVE TwoTo[e + 1] = 2 * TwoTo[e]
    <3>1. e + 1 \in Nat /\ e + 1 # 0 /\ (e + 1) - 1 = e
      OBVIOUS
    <3> QED BY <2>1, <3>1
  <2>4. TwoTo[0] = 1
    BY <2>1
  <2> QED BY <2>2, <2>3, <2>4
<1> HIDE DEF Is
<1> DEFINE S == {e \in Nat : TwoTo[e] \in Nat /\ TwoTo[e] > 0}
<1>4. 0 \in S
  BY <1>3
<1>5. ASSUME NEW e \in S PROVE e + 1 \in S
  <2>1. e \in Nat /\ e + 1 \in Nat /\ TwoTo[e] \in Nat /\ TwoTo[e] > 0
    OBVIOUS
  <2>2. TwoTo[e + 1] = 2 * TwoTo[e]
    BY <1>3, <2>1
  <2> QED BY <2>1, <2>2
<1>6. S = Nat
  <2> HIDE DEF S
  <2>1. S \subseteq Nat
    BY DEF S
  <2> QED BY <1>4, <1>5, <2>1, Induction
<1>7. \A e \in Nat : TwoTo[e] \in Nat /\ TwoTo[e] > 0
  BY <1>6
<1> HIDE DEF S
<1> QED BY <1>3, <1>7

-----------------------------------------------------------------------------
(* Divisibility by powers of two.                                          *)
Divides(n, x) == \E q \in Nat : x = n * q
Odd(x) == \E y \in Nat : x = 2 * y + 1

\* An odd factor does not matter to a power of two.
LEMMA OddCancels ==
  ASSUME NEW k \in Nat, NEW m \in Nat, Odd(m), NEW x \in Nat, Divides(TwoTo[k], m * x)
  PROVE  Divides(TwoTo[k], x)
<1> DEFINE S == {e \in Nat : \A y \in Nat : Divides(TwoTo[e], m * y) => Divides(TwoTo[e], y)}
<1>1. 0 \in S
  <2>1. ASSUME NEW y \in Nat PROVE Divides(TwoTo[0], y)
    <3>1. TwoTo[0] = 1
      BY TwoToStep
    <3>2. y = 1 * y
      OBVIOUS
    <3> QED BY <3>1, <3>2 DEF Divides
  <2> QED BY <2>1
<1>2. ASSUME NEW e \in S PROVE e + 1 \in S
  <2>1. e \in Nat /\ e + 1 \in Nat /\ TwoTo[e] \in Nat /\ TwoTo[e + 1] = 2 * TwoTo[e]
    BY TwoToStep
  <2>2. ASSUME NEW y \in Nat, Divides(TwoTo[e + 1], m * y) PROVE Divides(TwoTo[e + 1], y)
    <3>1. PICK q \in Nat : m * y = 2 * TwoTo[e] * q
      BY <2>1, <2>2 DEF Divides
    <3>2. PICK h \in Nat : m = 2 * h + 1
      BY DEF Odd
    <3>3. PICK z \in Nat : y = 2 * z
      <4>1. y = 2 * (TwoTo[e] * q - h * y)
        <5>1. m * y = 2 * (h * y) + y
          BY <3>2
        <5>2. h * y \in Nat /\ TwoTo[e] * q \in Nat /\ m * y = 2 * (TwoTo[e] * q)
          BY <2>1, <3>1
        <5>3. \A a, b, c \in Nat : a = 2 * b + y /\ a = 2 * c => y = 2 * (c - b)
          OBVIOUS
        <5>4. m * y \in Nat
          OBVIOUS
        <5> QED BY <5>1, <5>2, <5>3, <5>4, SMTT(20)
      <4>2. TwoTo[e] * q - h * y \in Int
        BY <2>1
      <4> QED BY <4>1, <4>2
    <3>4. m * z = TwoTo[e] * q
      <4>1. m * y = 2 * (m * z)
        BY <3>3
      <4>2. m * y = 2 * (TwoTo[e] * q) /\ m * z \in Nat /\ TwoTo[e] * q \in Nat
        BY <2>1, <3>1
      <4> QED BY <4>1, <4>2, SMTT(20)
    <3>5. Divides(TwoTo[e], z)
      BY <3>4 DEF Divides
    <3>6. PICK r \in Nat : z = TwoTo[e] * r
      BY <3>5 DEF Divides
    <3>7. y = TwoTo[e + 1] * r
      BY <2>1, <3>3, <3>6
    <3> QED BY <3>7 DEF Divides
  <2> QED BY <2>1, <2>2
<1>3. S = Nat
  <2> HIDE DEF S
  <2>1. S \subseteq Nat
    BY DEF S
  <2> QED BY <1>1, <1>2, <2>1, Induction
<1> QED BY <1>3

-----------------------------------------------------------------------------
(* Where 5s + 1 leads: after d steps, to (4C(d) + 1)s + C(d).              *)
By5 == [e \in Nat |-> [v \in Nat |-> 5 * v + 1]]
C == CHOOSE f : Follows(f, Nat, 0, By5)

LEMMA CSteps ==
  /\ C \in [Nat -> Nat] /\ C[0] = 0
  /\ \A d \in Nat : C[d + 1] = 5 * C[d] + 1
<1>1. By5 \in Steps(Nat) /\ 0 \in Nat
  BY DEF By5, Steps
<1>2. Follows(C, Nat, 0, By5)
  BY <1>1, RecursiveFunction DEF C
<1>3. \A d, v \in Nat : By5[d][v] = 5 * v + 1
  BY DEF By5
<1> QED BY <1>2, <1>3, ZenonT(30) DEF Follows

LEMMA CSum ==
  ASSUME NEW i \in Nat, NEW j \in Nat
  PROVE  C[i + j] = C[j] * (4 * C[i] + 1) + C[i]
<1> DEFINE S == {d \in Nat : C[i + d] = C[d] * (4 * C[i] + 1) + C[i]}
<1>1. 0 \in S
  BY CSteps
<1>2. ASSUME NEW d \in S PROVE d + 1 \in S
  <2>1. d \in Nat /\ i + d \in Nat /\ i + (d + 1) = (i + d) + 1
        /\ C[d] \in Nat /\ C[i] \in Nat /\ C[i + d] = C[d] * (4 * C[i] + 1) + C[i]
    BY CSteps
  <2>2. C[(i + d) + 1] = 5 * C[i + d] + 1 /\ C[d + 1] = 5 * C[d] + 1
    BY <2>1, CSteps
  <2>3. (5 * C[d] + 1) * (4 * C[i] + 1) + C[i] = 5 * (C[d] * (4 * C[i] + 1) + C[i]) + 1
    BY <2>1
  <2> QED BY <2>1, <2>2, <2>3
<1>3. S = Nat
  <2> HIDE DEF S
  <2>1. S \subseteq Nat
    BY DEF S
  <2> QED BY <1>1, <1>2, <2>1, Induction
<1> QED BY <1>3

\* A power of two divides C(d) only if it divides d.
LEMMA CDivides ==
  ASSUME NEW k \in Nat, NEW d \in Nat, Divides(TwoTo[k], C[d])
  PROVE  Divides(TwoTo[k], d)
<1> DEFINE S == {e \in Nat : \A x \in Nat : Divides(TwoTo[e], C[x]) => Divides(TwoTo[e], x)}
<1>1. 0 \in S
  <2>1. ASSUME NEW y \in Nat PROVE Divides(TwoTo[0], y)
    <3>1. TwoTo[0] = 1 /\ y = 1 * y
      BY TwoToStep
    <3> QED BY <3>1 DEF Divides
  <2> QED BY <2>1
<1>2. ASSUME NEW e \in S PROVE e + 1 \in S
  <2>1. e \in Nat /\ e + 1 \in Nat /\ TwoTo[e] \in Nat /\ TwoTo[e + 1] = 2 * TwoTo[e]
    BY TwoToStep
  <2>2. ASSUME NEW x \in Nat, Divides(TwoTo[e + 1], C[x]) PROVE Divides(TwoTo[e + 1], x)
    <3>1. PICK q \in Nat : C[x] = 2 * (TwoTo[e] * q)
      <4>1. PICK q \in Nat : C[x] = (2 * TwoTo[e]) * q
        BY <2>1, <2>2 DEF Divides
      <4> QED BY <2>1, <4>1
    <3>2. PICK y \in Nat : x = 2 * y \/ x = 2 * y + 1
      <4>1. x \div 2 \in Nat /\ (x = 2 * (x \div 2) \/ x = 2 * (x \div 2) + 1)
        OBVIOUS
      <4> QED BY <4>1
    <3>3. C[y] \in Nat /\ C[y + y] = C[y] * (4 * C[y] + 1) + C[y]
      BY CSteps, CSum
    <3>4. C[y + y] = 2 * ((2 * C[y] + 1) * C[y])
      BY <3>3
    <3>5. x = 2 * y
      <4> SUFFICES ASSUME x = 2 * y + 1 PROVE FALSE
        BY <3>2
      <4>1. x = (y + y) + 1 /\ y + y \in Nat
        OBVIOUS
      <4>2. C[x] = 5 * C[y + y] + 1
        BY <4>1, CSteps
      <4>3. (2 * C[y] + 1) * C[y] \in Nat /\ TwoTo[e] * q \in Nat
        BY <2>1, <3>3
      <4> QED BY <3>1, <3>4, <4>2, <4>3
    <3>6. (2 * C[y] + 1) * C[y] = TwoTo[e] * q
      <4>1. (2 * C[y] + 1) * C[y] \in Nat /\ TwoTo[e] * q \in Nat /\ x = y + y
        BY <2>1, <3>3, <3>5
      <4> QED BY <3>1, <3>4, <4>1
    <3>7. Odd(2 * C[y] + 1) /\ 2 * C[y] + 1 \in Nat
      BY <3>3 DEF Odd
    <3>8. Divides(TwoTo[e], (2 * C[y] + 1) * C[y])
      BY <3>6 DEF Divides
    <3>9. Divides(TwoTo[e], C[y])
      <4> HIDE DEF S
      <4> QED BY <2>1, <3>3, <3>7, <3>8, OddCancels
    <3>10. PICK r \in Nat : y = TwoTo[e] * r
      BY <3>9 DEF Divides
    <3>11. x = TwoTo[e + 1] * r
      BY <2>1, <3>5, <3>10
    <3> QED BY <3>11 DEF Divides
  <2> QED BY <2>1, <2>2
<1>3. S = Nat
  <2> HIDE DEF S
  <2>1. S \subseteq Nat
    BY DEF S
  <2> QED BY <1>1, <1>2, <2>1, Induction
<1> QED BY <1>3

-----------------------------------------------------------------------------
(* The length many places that follow each other are all there are.        *)
LEMMA DivMod ==
  ASSUME NEW v \in Nat, NEW n \in Nat, n > 0
  PROVE  /\ v \div n \in Nat /\ v % n \in 0 .. n - 1
         /\ v = n * (v \div n) + (v % n)
<1>1. v \div n \in Nat /\ v % n \in 0 .. n - 1
  OBVIOUS
<1>2. v \div n \in Int
  OBVIOUS
<1>3. v % n \in Int
  OBVIOUS
<1>4. v = n * (v \div n) + (v % n)
  BY <1>2, <1>3
<1> QED BY <1>1, <1>4

LEMMA Ahead ==
  ASSUME NEW n \in Nat, n > 0, NEW s \in [Nat -> Nat],
         \A i \in Nat : s[i + 1] = (s[i] * 5 + 1) % n,
         NEW i \in Nat, NEW d \in Nat
  PROVE  \E q \in Nat : (4 * C[d] + 1) * s[i] + C[d] = s[i + d] + n * q
<1> DEFINE S == {x \in Nat : \E q \in Nat : (4 * C[x] + 1) * s[i] + C[x] = s[i + x] + n * q}
<1>1. 0 \in S
  <2>1. (4 * C[0] + 1) * s[i] + C[0] = s[i + 0] + n * 0
    BY CSteps
  <2> QED BY <2>1
<1>2. ASSUME NEW x \in S PROVE x + 1 \in S
  <2>1. x \in Nat /\ x + 1 \in Nat /\ i + x \in Nat /\ i + (x + 1) = (i + x) + 1
        /\ C[x] \in Nat /\ C[x + 1] = 5 * C[x] + 1 /\ s[i] \in Nat /\ s[i + x] \in Nat
    BY CSteps
  <2>2. PICK q \in Nat : (4 * C[x] + 1) * s[i] + C[x] = s[i + x] + n * q
    OBVIOUS
  <2> DEFINE a == C[x]
             b == s[i]
             c == s[i + x]
             v == c * 5 + 1
  <2>3. s[(i + x) + 1] = v % n
    BY <2>1
  <2>4. v \in Nat /\ v \div n \in Nat /\ v % n \in Nat /\ v = n * (v \div n) + (v % n)
    <3>1. v \in Nat
      <4>1. c \in Nat
        BY <2>1
      <4> HIDE DEF S, c
      <4> QED BY <4>1
    <3> HIDE DEF v, S
    <3>2. n \in Nat /\ n > 0
      OBVIOUS
    <3> QED BY ONLY <3>1, <3>2, DivMod
  <2>5. (4 * (5 * a + 1) + 1) * b + (5 * a + 1) = 5 * ((4 * a + 1) * b + a) + 1
    BY <2>1
  <2>6. 5 * ((4 * a + 1) * b + a) + 1 = v + 5 * (n * q)
    <3>1. n * q \in Nat /\ (4 * a + 1) * b + a \in Nat
      BY <2>1
    <3> QED BY <2>1, <2>2, <3>1
  <2>7. v + 5 * (n * q) = (v % n) + n * (5 * q + v \div n)
    <3>1. n * (5 * q + v \div n) = 5 * (n * q) + n * (v \div n)
      <4> HIDE DEF v
      <4> QED BY <2>4
    <3>2. n * q \in Nat /\ n * (v \div n) \in Nat
      <4> HIDE DEF v
      <4> QED BY <2>4
    <3> HIDE DEF v
    <3> QED BY <2>4, <3>1, <3>2
  <2>8. (4 * C[x + 1] + 1) * s[i] + C[x + 1] = s[i + (x + 1)] + n * (5 * q + v \div n)
    BY <2>1, <2>3, <2>5, <2>6, <2>7
  <2>9. 5 * q + v \div n \in Nat
    <3> HIDE DEF v
    <3> QED BY <2>4
  <2> QED BY <2>1, <2>8, <2>9
<1>3. S = Nat
  <2> HIDE DEF S
  <2>1. S \subseteq Nat
    BY DEF S
  <2> QED BY <1>1, <1>2, <2>1, Induction
<1>4. d \in S
  <2> HIDE DEF S
  <2> QED BY <1>3
<1> QED BY <1>4

LEMMA NoReturn ==
  ASSUME NEW k \in Nat, NEW s \in [Nat -> Nat],
         \A i \in Nat : s[i + 1] = (s[i] * 5 + 1) % TwoTo[k],
         NEW i \in Nat, NEW d \in Nat, 0 < d, d < TwoTo[k]
  PROVE  s[i] # s[i + d]
<1> SUFFICES ASSUME s[i + d] = s[i] PROVE FALSE
  OBVIOUS
<1>1. TwoTo[k] \in Nat /\ TwoTo[k] > 0
  BY TwoToStep
<1>2. PICK q \in Nat : (4 * C[d] + 1) * s[i] + C[d] = s[i] + TwoTo[k] * q
  <2> DEFINE n == TwoTo[k]
  <2>1. n \in Nat /\ n > 0 /\ \A j \in Nat : s[j + 1] = (s[j] * 5 + 1) % n
    BY <1>1
  <2> HIDE DEF n
  <2>2. PICK q \in Nat : (4 * C[d] + 1) * s[i] + C[d] = s[i + d] + n * q
    BY <2>1, Ahead, ZenonT(30)
  <2> QED BY <2>2 DEF n
<1>3. C[d] \in Nat /\ s[i] \in Nat
  BY CSteps
<1>4. (4 * s[i] + 1) * C[d] = TwoTo[k] * q
  <2>1. (4 * C[d] + 1) * s[i] + C[d] = (4 * s[i] + 1) * C[d] + s[i]
    BY <1>3
  <2>2. (4 * s[i] + 1) * C[d] \in Nat /\ TwoTo[k] * q \in Nat
    BY <1>1, <1>3
  <2> QED BY <1>2, <1>3, <2>1, <2>2
<1>5. Odd(4 * s[i] + 1) /\ 4 * s[i] + 1 \in Nat
  <2>1. 4 * s[i] + 1 = 2 * (2 * s[i]) + 1 /\ 2 * s[i] \in Nat
    BY <1>3
  <2> QED BY <1>3, <2>1 DEF Odd
<1>6. Divides(TwoTo[k], C[d])
  <2> DEFINE m == 4 * s[i] + 1
             x == C[d]
  <2>1. m \in Nat /\ Odd(m) /\ x \in Nat /\ Divides(TwoTo[k], m * x)
    BY <1>3, <1>4, <1>5 DEF Divides
  <2> HIDE DEF m, x
  <2>2. Divides(TwoTo[k], x)
    BY <2>1, OddCancels
  <2> QED BY <2>2 DEF x
<1>7. PICK r \in Nat : d = TwoTo[k] * r
  BY <1>6, CDivides DEF Divides
<1>8. r # 0
  BY <1>1, <1>7
<1>9. TwoTo[k] * r >= TwoTo[k]
  <2> DEFINE n == TwoTo[k]
  <2>1. \A a, b \in Nat : b # 0 => a * b >= a
    OBVIOUS
  <2> QED BY <1>1, <1>8, <2>1
<1> QED BY <1>1, <1>7, <1>9

LEMMA AllAround ==
  ASSUME NEW k \in Nat, NEW s \in [Nat -> Nat],
         \A i \in Nat : s[i + 1] = (s[i] * 5 + 1) % TwoTo[k],
         NEW start \in Nat, \A i \in Nat : s[i] \in 0 .. TwoTo[k] - 1,
         NEW t \in 0 .. TwoTo[k] - 1
  PROVE  \E i \in start .. start + TwoTo[k] - 1 : s[i] = t
<1> DEFINE n == TwoTo[k]
           A == start .. start + n - 1
           B == (0 .. n - 1) \ {t}
           f == [i \in A |-> s[i]]
<1>1. n \in Nat /\ n > 0
  BY TwoToStep
<1> HIDE DEF n
<1> SUFFICES ASSUME \A i \in A : s[i] # t PROVE FALSE
  BY DEF n
<1>2. IsFiniteSet(A) /\ Cardinality(A) = n
  <2>1. start \in Int /\ start + n - 1 \in Int /\ start <= start + n - 1
    BY <1>1
  <2>2. (start + n - 1) - start + 1 = n
    BY <1>1
  <2> HIDE DEF A
  <2>3. A = start .. (start + n - 1)
    BY DEF A
  <2> QED BY <2>1, <2>2, <2>3, FS_Interval
<1>3. IsFiniteSet(0 .. n - 1) /\ Cardinality(0 .. n - 1) = n
  <2>1. 0 \in Int /\ n - 1 \in Int /\ 0 <= n - 1 /\ (n - 1) - 0 + 1 = n
    BY <1>1
  <2> QED BY <2>1, FS_Interval
<1>4. IsFiniteSet(B) /\ Cardinality(B) = n - 1
  BY <1>1, <1>3, FS_RemoveElement DEF n
<1>5. f \in [A -> B]
  BY <1>1 DEF n
<1>6. PICK i, j \in A : i # j /\ f[i] = f[j]
  <2> HIDE DEF A, B, f
  <2>1. Cardinality(B) < Cardinality(A)
    BY <1>1, <1>2, <1>4
  <2> QED BY <1>2, <1>4, <1>5, <2>1, FS_PigeonHole
<1>7. s[i] = s[j]
  BY <1>6
<1>8. ASSUME NEW a \in A, NEW b \in A, a < b, s[a] = s[b] PROVE FALSE
  <2>1. a \in Nat /\ b - a \in Nat /\ 0 < b - a /\ b - a < TwoTo[k] /\ b = a + (b - a)
    BY <1>1, <1>8 DEF n
  <2>2. s[a] # s[a + (b - a)]
    BY <2>1, NoReturn
  <2> QED BY <1>8, <2>1, <2>2
<1> QED BY <1>1, <1>6, <1>7, <1>8

-----------------------------------------------------------------------------
(* The walk as a function of the number of steps.                          *)
Spot(n) == [slot : 0 .. n - 1, perturb : Nat]
Onward(n, p) ==
  [slot |-> (p.slot * 5 + (p.perturb \div 32) + 1) % n, perturb |-> p.perturb \div 32]

Goes(at, hash, n) ==
  /\ at \in [Nat -> Spot(n)]
  /\ at[0] = [slot |-> hash % n, perturb |-> hash]
  /\ \A i \in Nat : at[i + 1] = Onward(n, at[i])

LEMMA OnwardType ==
  ASSUME NEW n \in Nat, n > 0, NEW p \in Spot(n)
  PROVE  Onward(n, p) \in Spot(n)
<1>1. p.slot \in Nat /\ p.perturb \in Nat
  BY DEF Spot
<1>2. p.perturb \div 32 \in Nat
  BY <1>1
<1>3. p.slot * 5 + (p.perturb \div 32) + 1 \in Nat
  BY <1>1, <1>2
<1>4. (p.slot * 5 + (p.perturb \div 32) + 1) % n \in 0 .. n - 1
  BY <1>3, DivMod
<1> QED BY <1>2, <1>4 DEF Onward, Spot

LEMMA SomeGoes ==
  ASSUME NEW hash \in Nat, NEW n \in Nat, n > 0
  PROVE  \E at : Goes(at, hash, n)
<1> DEFINE start == [slot |-> hash % n, perturb |-> hash]
           step == [i \in Nat |-> [p \in Spot(n) |-> Onward(n, p)]]
<1>1. start \in Spot(n)
  BY DivMod DEF Spot
<1>2. step \in Steps(Spot(n))
  BY OnwardType DEF Steps
<1>3. \A i \in Nat : \A p \in Spot(n) : step[i][p] = Onward(n, p)
  OBVIOUS
<1> HIDE DEF step
<1>4. PICK at : Follows(at, Spot(n), start, step)
  <2> HIDE DEF start
  <2> QED BY <1>1, <1>2, RecursiveFunction
<1>5. Goes(at, hash, n)
  BY <1>3, <1>4 DEF Follows, Goes
<1> QED BY <1>5

LEMMA WalkedIs ==
  ASSUME NEW hash \in Nat, NEW n \in Nat, n > 0, NEW at, Goes(at, hash, n), NEW m \in Nat
  PROVE  Walked(hash, n)[m] = [j \in 1 .. m + 1 |-> at[j - 1]]
<1> DEFINE first == <<[slot |-> hash % n, perturb |-> hash]>>
           Is(w) == w = [i \in Nat |-> IF i = 0 THEN first
                                       ELSE Append(w[i - 1], Onward(n, w[i - 1][i]))]
           w0 == [i \in Nat |-> [j \in 1 .. i + 1 |-> at[j - 1]]]
<1>1. Walked(hash, n) = CHOOSE w : Is(w)
  BY DEF Walked, Onward
<1>2. at \in [Nat -> Spot(n)] /\ first = <<at[0]>> /\ \A i \in Nat : at[i + 1] = Onward(n, at[i])
  BY DEF Goes
<1> HIDE DEF first
<1>3. w0[0] = first
  <2>1. w0[0] = [j \in 1 .. 1 |-> at[j - 1]]
    OBVIOUS
  <2>2. <<at[0]>> = [j \in 1 .. 1 |-> at[0]]
    OBVIOUS
  <2> QED BY <1>2, <2>1, <2>2
<1>4. ASSUME NEW i \in Nat, i # 0 PROVE w0[i] = Append(w0[i - 1], Onward(n, w0[i - 1][i]))
  <2>1. i - 1 \in Nat /\ (i - 1) + 1 = i /\ i \in 1 .. (i - 1) + 1
    BY <1>4
  <2>2. w0[i - 1] = [j \in 1 .. i |-> at[j - 1]] /\ w0[i] = [j \in 1 .. i + 1 |-> at[j - 1]]
    BY <2>1
  <2>3. Onward(n, w0[i - 1][i]) = at[i]
    BY <1>2, <2>1, <2>2
  <2>4. w0[i - 1] \in Seq(Spot(n)) /\ Len(w0[i - 1]) = i
    <3>1. \A j \in 1 .. i : at[j - 1] \in Spot(n)
      BY <1>2
    <3>2. w0[i - 1] \in [1 .. i -> Spot(n)]
      <4> HIDE DEF w0
      <4> QED BY <2>2, <3>1
    <3> HIDE DEF w0
    <3> QED BY <3>2
  <2>5. at[i] \in Spot(n)
    BY <1>2
  <2> DEFINE s == w0[i - 1]
             x == at[i]
  <2>6. Append(s, x) = [j \in 1 .. i + 1 |-> IF j = i + 1 THEN x ELSE s[j]]
    <3>1. s \in Seq(Spot(n)) /\ Len(s) = i /\ x \in Spot(n)
      <4> HIDE DEF w0
      <4> QED BY <2>4, <2>5
    <3> HIDE DEF s, x
    <3>2. Append(s, x) \in [1 .. i + 1 -> Spot(n)]
      <4>1. Append(s, x) \in Seq(Spot(n)) /\ Len(Append(s, x)) = i + 1
        BY <3>1, AppendProperties
      <4> QED BY <4>1, LenProperties
    <3>3. \A j \in 1 .. i + 1 : Append(s, x)[j] = IF j = i + 1 THEN x ELSE s[j]
      BY <3>1
    <3> QED BY <3>2, <3>3
  <2>7. [j \in 1 .. i + 1 |-> IF j = i + 1 THEN x ELSE s[j]] = [j \in 1 .. i + 1 |-> at[j - 1]]
    <3>1. ASSUME NEW j \in 1 .. i + 1 PROVE (IF j = i + 1 THEN x ELSE s[j]) = at[j - 1]
      <4>1. CASE j = i + 1
        <5>1. j - 1 = i
          BY <4>1
        <5> QED BY <4>1, <5>1
      <4>2. CASE j # i + 1
        <5>1. j \in 1 .. i
          BY <4>2
        <5> HIDE DEF w0
        <5> QED BY <2>2, <4>2, <5>1
      <4> QED BY <4>1, <4>2
    <3> HIDE DEF s, x
    <3> QED BY <3>1
  <2> QED BY <2>2, <2>3, <2>6, <2>7
<1>5. Is(w0)
  <2>1. w0 = [i \in Nat |-> w0[i]]
    OBVIOUS
  <2> HIDE DEF w0
  <2>2. \A i \in Nat : w0[i] = IF i = 0 THEN first
                                ELSE Append(w0[i - 1], Onward(n, w0[i - 1][i]))
    BY <1>3, <1>4
  <2> QED BY <2>1, <2>2
<1>6. Is(Walked(hash, n))
  <2> HIDE DEF Is, w0
  <2> QED BY <1>1, <1>5
<1> DEFINE W == Walked(hash, n)
           S == {i \in Nat : W[i] = w0[i]}
<1>7. W[0] = first /\ \A i \in Nat : i # 0 => W[i] = Append(W[i - 1], Onward(n, W[i - 1][i]))
  <2> HIDE DEF W
  <2>1. Is(W)
    BY <1>6 DEF W
  <2> QED BY <2>1
<1> HIDE DEF W, w0, Is
<1>8. 0 \in S
  BY <1>3, <1>7
<1>9. ASSUME NEW i \in S PROVE i + 1 \in S
  <2>1. i \in Nat /\ i + 1 \in Nat /\ i + 1 # 0 /\ (i + 1) - 1 = i /\ W[i] = w0[i]
    OBVIOUS
  <2>2. W[i + 1] = Append(W[i], Onward(n, W[i][i + 1]))
    BY <1>7, <2>1
  <2>3. w0[i + 1] = Append(w0[i], Onward(n, w0[i][i + 1]))
    BY <1>4, <2>1
  <2> QED BY <2>1, <2>2, <2>3
<1>10. S = Nat
  <2> HIDE DEF S
  <2>1. S \subseteq Nat
    BY DEF S
  <2> QED BY <1>8, <1>9, <2>1, Induction
<1>11. W[m] = w0[m]
  BY <1>10
<1> QED BY <1>11 DEF W, w0

LEMMA WalkIs ==
  ASSUME NEW hash \in Nat, NEW n \in Nat, n > 0, NEW at, Goes(at, hash, n)
  PROVE  Walk(hash, n) = [i \in 1 .. Reach(n) + 1 |-> at[i - 1].slot + 1]
<1>1. Reach(n) \in Nat
  BY ShiftsAssumption DEF Reach
<1>2. Walked(hash, n)[Reach(n)] = [j \in 1 .. Reach(n) + 1 |-> at[j - 1]]
  BY <1>1, WalkedIs
<1> DEFINE m == Reach(n)
           p == Walked(hash, n)[m]
<1>3. Walk(hash, n) = [i \in DOMAIN p |-> p[i].slot + 1]
  BY DEF Walk
<1> HIDE DEF m, p
<1>4. p = [j \in 1 .. m + 1 |-> at[j - 1]] /\ m = Reach(n)
  BY <1>2 DEF m, p
<1> QED BY <1>3, <1>4

-----------------------------------------------------------------------------
(* After Shifts steps nothing of the hash is left to mix in.               *)
LEMMA ThirtyTwo == ASSUME NEW e \in Nat PROVE TwoTo[e + 5] = 32 * TwoTo[e]
<1>1. /\ e + 1 \in Nat /\ e + 2 \in Nat /\ e + 3 \in Nat /\ e + 4 \in Nat
      /\ e + 2 = (e + 1) + 1 /\ e + 3 = (e + 2) + 1 /\ e + 4 = (e + 3) + 1 /\ e + 5 = (e + 4) + 1
  OBVIOUS
<1>2. \A d \in Nat : TwoTo[d] \in Nat /\ TwoTo[d + 1] = 2 * TwoTo[d]
  BY TwoToStep
<1> QED BY <1>1, <1>2, SMTT(20)

LEMMA NothingLeft ==
  ASSUME NEW hash \in Nat, NEW n \in Nat, n > 0, NEW at, Goes(at, hash, n),
         hash < TwoTo[5 * Shifts], NEW i \in Nat
  PROVE  at[Shifts + i].perturb = 0
<1>1. Shifts \in Nat
  BY ShiftsAssumption
<1>2. /\ at[0].perturb = hash
      /\ \A j \in Nat : at[j].perturb \in Nat /\ at[j + 1].perturb = at[j].perturb \div 32
  <2>1. at[0].perturb = hash
    BY DEF Goes
  <2>2. ASSUME NEW j \in Nat PROVE at[j].perturb \in Nat /\ at[j + 1].perturb = at[j].perturb \div 32
    <3>1. at[j] \in Spot(n) /\ at[j + 1] = Onward(n, at[j])
      BY DEF Goes
    <3> QED BY <3>1 DEF Spot, Onward
  <2> QED BY <2>1, <2>2
<1> DEFINE S == {j \in Nat : j <= Shifts => at[j].perturb < TwoTo[5 * (Shifts - j)]}
           T == {j \in Nat : at[Shifts + j].perturb = 0}
<1>3. 0 \in S
  BY <1>1, <1>2
<1>4. ASSUME NEW j \in S PROVE j + 1 \in S
  <2> SUFFICES ASSUME j + 1 <= Shifts PROVE at[j + 1].perturb < TwoTo[5 * (Shifts - (j + 1))]
    OBVIOUS
  <2> DEFINE e == 5 * (Shifts - (j + 1))
  <2>1. e \in Nat /\ 5 * (Shifts - j) = e + 5
    BY <1>1
  <2>2. TwoTo[e + 5] = 32 * TwoTo[e] /\ TwoTo[e] \in Nat
    BY <2>1, ThirtyTwo, TwoToStep
  <2>3. at[j].perturb < TwoTo[e + 5] /\ j \in Nat
    BY <1>1, <2>1
  <2> HIDE DEF e
  <2>4. \A p, q \in Nat : p < 32 * q => p \div 32 < q
    OBVIOUS
  <2>5. at[j].perturb \div 32 < TwoTo[e]
    BY <1>2, <2>2, <2>3, <2>4
  <2> QED BY <1>2, <2>3, <2>5 DEF e
<1>5. S = Nat
  <2> HIDE DEF S
  <2>1. S \subseteq Nat
    BY DEF S
  <2> QED BY <1>3, <1>4, <2>1, Induction
<1>6. 0 \in T
  <2>1. Shifts \in S
    BY <1>1, <1>5
  <2>2. at[Shifts].perturb < TwoTo[5 * (Shifts - Shifts)]
    BY <1>1, <2>1
  <2>3. 5 * (Shifts - Shifts) = 0 /\ Shifts + 0 = Shifts
    BY <1>1
  <2> HIDE DEF S
  <2> QED BY <1>1, <1>2, <2>2, <2>3, TwoToStep
<1>7. ASSUME NEW j \in T PROVE j + 1 \in T
  <2>1. j \in Nat /\ Shifts + j \in Nat /\ Shifts + (j + 1) = (Shifts + j) + 1
    BY <1>1
  <2> QED BY <1>2, <2>1
<1>8. T = Nat
  <2> HIDE DEF S, T
  <2>1. T \subseteq Nat
    BY DEF T
  <2> QED BY <1>6, <1>7, <2>1, Induction
<1> HIDE DEF S
<1> QED BY <1>8

-----------------------------------------------------------------------------
\* What the places of a walk are.
LEMMA WalkType ==
  ASSUME NEW hash \in Nat, NEW n \in Nat, n > 0
  PROVE  Walk(hash, n) \in [1 .. Reach(n) + 1 -> 1 .. n]
<1>1. PICK at : Goes(at, hash, n)
  BY SomeGoes
<1>2. \A i \in 1 .. Reach(n) + 1 : at[i - 1].slot + 1 \in 1 .. n
  <2> SUFFICES ASSUME NEW i \in 1 .. Reach(n) + 1 PROVE at[i - 1].slot + 1 \in 1 .. n
    OBVIOUS
  <2>1. i - 1 \in Nat
    BY ShiftsAssumption DEF Reach
  <2>2. at[i - 1] \in Spot(n)
    BY <1>1, <2>1 DEF Goes
  <2>3. at[i - 1].slot \in 0 .. n - 1
    BY <2>2 DEF Spot
  <2> QED BY <2>3
<1> QED BY <1>1, <1>2, WalkIs

(* The walk reaches every slot of the table (dict.rs, Walk, "what makes it *)
(* reach every slot in the table"), for any hash and any power of two.     *)
THEOREM WalkVisitsAll ==
  ASSUME NEW hash \in Nat, hash < TwoTo[5 * Shifts],
         NEW k \in Nat, NEW s \in 1 .. TwoTo[k]
  PROVE  \E i \in DOMAIN Walk(hash, TwoTo[k]) : Walk(hash, TwoTo[k])[i] = s
<1> DEFINE n == TwoTo[k]
<1>1. n \in Nat /\ n > 0 /\ Shifts \in Nat
  BY TwoToStep, ShiftsAssumption
<1> HIDE DEF n
<1>2. PICK at : Goes(at, hash, n)
  BY <1>1, SomeGoes
<1> DEFINE slots == [i \in Nat |-> at[Shifts + i].slot]
<1>3. ASSUME NEW i \in Nat
      PROVE  slots[i] \in 0 .. n - 1 /\ slots[i + 1] = (slots[i] * 5 + 1) % n
  <2>1. Shifts + i \in Nat /\ Shifts + (i + 1) = (Shifts + i) + 1 /\ i + 1 \in Nat
    BY <1>1
  <2>2. at[Shifts + i] \in Spot(n) /\ at[(Shifts + i) + 1] = Onward(n, at[Shifts + i])
    BY <1>2, <2>1 DEF Goes
  <2>3. at[Shifts + i].perturb = 0
    BY <1>1, <1>2, NothingLeft
  <2>4. 0 \div 32 = 0
    OBVIOUS
  <2>5. at[Shifts + i].slot \in 0 .. n - 1
    BY <2>2 DEF Spot
  <2>6. at[(Shifts + i) + 1].slot = (at[Shifts + i].slot * 5 + 0 + 1) % n
    BY <2>2, <2>3, <2>4 DEF Onward
  <2>7. at[Shifts + i].slot * 5 + 0 + 1 = at[Shifts + i].slot * 5 + 1
    BY <2>5
  <2> QED BY <2>1, <2>5, <2>6, <2>7
<1>4. slots \in [Nat -> Nat]
  <2> SUFFICES ASSUME NEW i \in Nat PROVE at[Shifts + i].slot \in Nat
    OBVIOUS
  <2>1. slots[i] \in 0 .. n - 1
    BY <1>3
  <2>2. slots[i] \in Nat
    <3> HIDE DEF slots
    <3> QED BY <1>1, <2>1
  <2> QED BY <2>2
<1> HIDE DEF slots
<1>5. PICK i \in 0 .. 0 + n - 1 : slots[i] = s - 1
  <2>1. s - 1 \in 0 .. n - 1
    BY <1>1 DEF n
  <2> DEFINE start == 0
             t == s - 1
  <2>2. /\ start \in Nat /\ t \in 0 .. TwoTo[k] - 1
        /\ \A j \in Nat : slots[j + 1] = (slots[j] * 5 + 1) % TwoTo[k]
        /\ \A j \in Nat : slots[j] \in 0 .. TwoTo[k] - 1
    BY <1>3, <2>1 DEF n
  <2> HIDE DEF start, t
  <2>3. \E j \in start .. start + TwoTo[k] - 1 : slots[j] = t
    <3>1. \A f \in [Nat -> Nat] :
            /\ \A j \in Nat : f[j + 1] = (f[j] * 5 + 1) % TwoTo[k]
            /\ \A j \in Nat : f[j] \in 0 .. TwoTo[k] - 1
            => \E j \in start .. start + TwoTo[k] - 1 : f[j] = t
      BY <2>2, AllAround
    <3> QED BY <1>4, <2>2, <3>1
  <2> QED BY <2>3 DEF start, t, n
<1>6. i \in Nat /\ Shifts + i + 1 \in 1 .. Reach(n) + 1 /\ (Shifts + i + 1) - 1 = Shifts + i
  BY <1>1 DEF Reach
<1>7. Walk(hash, n) = [j \in 1 .. Reach(n) + 1 |-> at[j - 1].slot + 1]
  BY <1>1, <1>2, WalkIs
<1>8. Walk(hash, n)[Shifts + i + 1] = at[Shifts + i].slot + 1
  BY <1>6, <1>7
<1>9. at[Shifts + i].slot + 1 = s
  BY <1>1, <1>5, <1>6 DEF slots, n
<1> QED BY <1>6, <1>7, <1>8, <1>9 DEF n

-----------------------------------------------------------------------------
(* The table.                                                              *)

\* First is the least, where there is one.

LEMMA FirstIs ==
  ASSUME NEW S \in SUBSET Nat, S # {}
  PROVE  First(S) \in S /\ \A j \in S : First(S) <= j
<1>1. \E i \in S : \A j \in S : i <= j
  BY LeastNatural
<1> QED BY <1>1 DEF First

LEMMA PowerIsNext ==
  ASSUME NEW m \in Nat
  PROVE  \E e \in Nat : NextPowerOfTwo(m) = TwoTo[e] /\ TwoTo[e] >= m
<1> DEFINE S == {e \in Nat : TwoTo[e] >= e}
           E == {e \in 0 .. m : TwoTo[e] >= m}
<1>1. 0 \in S
  BY TwoToStep
<1>2. ASSUME NEW e \in S PROVE e + 1 \in S
  <2>1. TwoTo[e] \in Nat /\ TwoTo[e] > 0 /\ TwoTo[e + 1] = 2 * TwoTo[e] /\ TwoTo[e] >= e
    BY TwoToStep
  <2> QED BY <2>1
<1>3. S = Nat
  <2> HIDE DEF S
  <2>1. S \subseteq Nat
    BY DEF S
  <2> QED BY <1>1, <1>2, <2>1, Induction
<1>4. m \in S
  BY <1>3
<1>5. m \in E
  BY <1>4
<1>6. E \in SUBSET Nat /\ NextPowerOfTwo(m) = TwoTo[First(E)]
  BY DEF NextPowerOfTwo
<1> HIDE DEF S, E
<1>7. First(E) \in E
  BY <1>5, <1>6, FirstIs
<1>8. First(E) \in Nat /\ TwoTo[First(E)] >= m
  BY <1>7 DEF E
<1> QED BY <1>6, <1>8

-----------------------------------------------------------------------------
(* The live entries.                                                       *)

\* The positions up to p that are live, in order, and what is there.
Spread(at, p, es, L) ==
  /\ L \in Seq(Entry)
  /\ at \in [1 .. Len(L) -> 1 .. p]
  /\ \A i, j \in 1 .. Len(L) : i < j => at[i] < at[j]
  /\ \A i \in 1 .. Len(L) : L[i] = es[at[i]] /\ es[at[i]] # Hole
  /\ \A q \in 1 .. p : es[q] # Hole => \E i \in 1 .. Len(L) : at[i] = q

Keeps(kept, es) ==
  /\ DOMAIN kept = 0 .. Len(es)
  /\ kept[0] = << >>
  /\ \A p \in 1 .. Len(es) :
       kept[p] = IF es[p] = Hole THEN kept[p - 1] ELSE Append(kept[p - 1], es[p])

Listing == Seq(Entry \union {Hole})

LEMMA SomeKeeps ==
  ASSUME NEW es \in Listing
  PROVE  \E kept : Keeps(kept, es) /\ Live(es) = kept[Len(es)]
<1> DEFINE step == [i \in Nat |-> [v \in Seq(Entry) |->
                      IF i + 1 \in 1 .. Len(es) /\ es[i + 1] # Hole THEN Append(v, es[i + 1]) ELSE v]]
           Is(f) == f = [p \in 0 .. Len(es) |->
                           IF p = 0 THEN << >>
                           ELSE IF es[p] = Hole THEN f[p - 1] ELSE Append(f[p - 1], es[p])]
<1>1. Len(es) \in Nat /\ \A p \in 1 .. Len(es) : es[p] # Hole => es[p] \in Entry
  BY DEF Listing
<1>2. step \in Steps(Seq(Entry))
  <2> SUFFICES ASSUME NEW i \in Nat, NEW v \in Seq(Entry), i + 1 \in 1 .. Len(es), es[i + 1] # Hole
               PROVE  Append(v, es[i + 1]) \in Seq(Entry)
    BY DEF Steps
  <2> QED BY <1>1, AppendProperties
<1>3. \A i \in Nat, v \in Seq(Entry) :
        step[i][v] = IF i + 1 \in 1 .. Len(es) /\ es[i + 1] # Hole THEN Append(v, es[i + 1]) ELSE v
  OBVIOUS
<1> HIDE DEF step
<1>4. PICK f : Follows(f, Seq(Entry), << >>, step)
  <2>1. << >> \in Seq(Entry)
    OBVIOUS
  <2> QED BY <1>2, <2>1, RecursiveFunction
<1> DEFINE g == [p \in 0 .. Len(es) |-> f[p]]
<1>5. Is(g)
  <2>1. ASSUME NEW p \in 1 .. Len(es)
        PROVE  g[p] = IF es[p] = Hole THEN g[p - 1] ELSE Append(g[p - 1], es[p])
    <3>1. p - 1 \in Nat /\ (p - 1) + 1 = p /\ p - 1 \in 0 .. Len(es) /\ p \in 0 .. Len(es)
      BY <1>1
    <3>2. f[p - 1] \in Seq(Entry) /\ f[p] = step[p - 1][f[p - 1]]
      BY <1>4, <3>1 DEF Follows
    <3> QED BY <1>3, <3>1, <3>2
  <2>2. g[0] = << >>
    BY <1>1, <1>4 DEF Follows
  <2>3. g = [p \in 0 .. Len(es) |-> g[p]]
    OBVIOUS
  <2> HIDE DEF g
  <2>4. ASSUME NEW p \in 0 .. Len(es)
        PROVE  g[p] = IF p = 0 THEN << >>
                      ELSE IF es[p] = Hole THEN g[p - 1] ELSE Append(g[p - 1], es[p])
    BY <1>1, <2>1, <2>2
  <2> QED BY <2>3, <2>4
<1> DEFINE kept == CHOOSE h : Is(h)
<1>6. Is(kept)
  <2> HIDE DEF Is, g
  <2> QED BY <1>5
<1>7. Live(es) = kept[Len(es)]
  BY DEF Live
<1> HIDE DEF kept, g
<1>8. Keeps(kept, es)
  <2>1. DOMAIN kept = 0 .. Len(es)
    BY <1>6
  <2>2. ASSUME NEW p \in 0 .. Len(es)
        PROVE  kept[p] = IF p = 0 THEN << >>
                         ELSE IF es[p] = Hole THEN kept[p - 1] ELSE Append(kept[p - 1], es[p])
    BY <1>6
  <2>3. kept[0] = << >>
    BY <1>1, <2>2
  <2>4. \A p \in 1 .. Len(es) : p \in 0 .. Len(es) /\ p # 0
    BY <1>1
  <2> HIDE DEF Is
  <2> QED BY <2>1, <2>2, <2>3, <2>4 DEF Keeps
<1> QED BY <1>7, <1>8

\* One position more.
LEMMA SpreadOn ==
  ASSUME NEW es, NEW p \in Nat, NEW L, NEW at, Spread(at, p, es, L),
         es[p + 1] \in Entry, es[p + 1] # Hole
  PROVE  \E to : Spread(to, p + 1, es, Append(L, es[p + 1]))
<1> DEFINE n == Len(L)
           M == Append(L, es[p + 1])
           to == [i \in 1 .. n + 1 |-> IF i = n + 1 THEN p + 1 ELSE at[i]]
<1>1. L \in Seq(Entry) /\ n \in Nat /\ at \in [1 .. n -> 1 .. p]
  BY DEF Spread
<1>2. M \in Seq(Entry) /\ Len(M) = n + 1 /\ M[n + 1] = es[p + 1]
      /\ \A i \in 1 .. n : M[i] = L[i]
  BY <1>1, AppendProperties
<1> HIDE DEF n, M
<1>3. to \in [1 .. n + 1 -> 1 .. p + 1]
  BY <1>1
<1>4. /\ to[n + 1] = p + 1
      /\ \A i \in 1 .. n : to[i] = at[i] /\ i # n + 1
      /\ \A i \in 1 .. n + 1 : i = n + 1 \/ i \in 1 .. n
  BY <1>1
<1> HIDE DEF to
<1>5. ASSUME NEW i \in 1 .. n + 1, NEW j \in 1 .. n + 1, i < j PROVE to[i] < to[j]
  <2>1. i \in 1 .. n
    BY <1>1, <1>5
  <2>2. CASE j = n + 1
    BY <1>1, <1>4, <2>1, <2>2
  <2>3. CASE j # n + 1
    BY <1>4, <1>5, <2>1, <2>3 DEF Spread, n
  <2> QED BY <2>2, <2>3
<1>6. \A i \in 1 .. n + 1 : M[i] = es[to[i]] /\ es[to[i]] # Hole
  BY <1>2, <1>4 DEF Spread, n
<1>7. ASSUME NEW q \in 1 .. p + 1, es[q] # Hole PROVE \E i \in 1 .. n + 1 : to[i] = q
  <2>1. CASE q = p + 1
    BY <1>1, <1>4, <2>1
  <2>2. CASE q # p + 1
    <3>1. q \in 1 .. p
      BY <2>2
    <3>2. PICK i \in 1 .. n : at[i] = q
      BY <1>7, <3>1 DEF Spread, n
    <3> QED BY <1>1, <1>4, <3>2
  <2> QED BY <2>1, <2>2
<1>8. Spread(to, p + 1, es, M)
  BY <1>2, <1>3, <1>5, <1>6, <1>7 DEF Spread
<1> QED BY <1>8 DEF M

LEMMA LiveSpread ==
  ASSUME NEW es \in Listing
  PROVE  \E at : Spread(at, Len(es), es, Live(es))
<1>1. PICK kept : Keeps(kept, es) /\ Live(es) = kept[Len(es)]
  BY SomeKeeps
<1>2. Len(es) \in Nat /\ \A p \in 1 .. Len(es) : es[p] # Hole => es[p] \in Entry
  BY DEF Listing
<1> DEFINE S == {p \in Nat : p <= Len(es) => \E at : Spread(at, p, es, kept[p])}
<1>3. 0 \in S
  <2>1. Spread([i \in 1 .. 0 |-> i], 0, es, << >>)
    BY DEF Spread
  <2>2. \E at : Spread(at, 0, es, kept[0])
    BY <1>1, <2>1 DEF Keeps
  <2> QED BY <2>2
<1>4. ASSUME NEW p \in S PROVE p + 1 \in S
  <2> SUFFICES ASSUME p + 1 <= Len(es) PROVE \E at : Spread(at, p + 1, es, kept[p + 1])
    OBVIOUS
  <2>1. p \in Nat /\ p <= Len(es) /\ p + 1 \in 1 .. Len(es) /\ (p + 1) - 1 = p
    BY <1>2
  <2>2. PICK at : Spread(at, p, es, kept[p])
    BY <2>1
  <2>3. kept[p + 1] = IF es[p + 1] = Hole THEN kept[p] ELSE Append(kept[p], es[p + 1])
    BY <1>1, <2>1 DEF Keeps
  <2>4. CASE es[p + 1] = Hole
    <3>1. 1 .. p \subseteq 1 .. p + 1 /\ \A q \in 1 .. p + 1 : es[q] # Hole => q \in 1 .. p
      BY <2>1, <2>4
    <3>2. at \in [1 .. Len(kept[p]) -> 1 .. p + 1]
      BY <2>2, <3>1 DEF Spread
    <3>3. Spread(at, p + 1, es, kept[p])
      <4> HIDE DEF S
      <4> QED BY <2>2, <3>1, <3>2 DEF Spread
    <3> QED BY <2>3, <2>4, <3>3
  <2>5. CASE es[p + 1] # Hole
    <3> HIDE DEF S
    <3> QED BY <1>2, <2>1, <2>2, <2>3, <2>5, SpreadOn
  <2> QED BY <2>4, <2>5
<1>5. S = Nat
  <2> HIDE DEF S
  <2>1. S \subseteq Nat
    BY DEF S
  <2> QED BY <1>3, <1>4, <2>1, Induction
<1>6. Len(es) \in S
  <2> HIDE DEF S
  <2> QED BY <1>2, <1>5
<1> QED BY <1>1, <1>2, <1>6

\* There is only one way to list them.
LEMMA OneSpread ==
  ASSUME NEW es, NEW p \in Nat, NEW L, NEW at, Spread(at, p, es, L), NEW M, NEW to, Spread(to, p, es, M)
  PROVE  L = M
<1>1. /\ L \in Seq(Entry) /\ Len(L) \in Nat /\ at \in [1 .. Len(L) -> 1 .. p]
      /\ M \in Seq(Entry) /\ Len(M) \in Nat /\ to \in [1 .. Len(M) -> 1 .. p]
  BY DEF Spread
<1> DEFINE S == {n \in Nat : \A i \in 1 .. n : i <= Len(L) /\ i <= Len(M) => at[i] = to[i]}
<1>2. 0 \in S
  OBVIOUS
<1>3. ASSUME NEW n \in S PROVE n + 1 \in S
  <2>1. n \in Nat /\ \A i \in 1 .. n : i <= Len(L) /\ i <= Len(M) => at[i] = to[i]
    BY <1>3
  <2> HIDE DEF S
  <2>2. ASSUME n + 1 <= Len(L), n + 1 <= Len(M) PROVE at[n + 1] = to[n + 1]
    <3>1. n + 1 \in 1 .. Len(L) /\ n + 1 \in 1 .. Len(M)
      BY <1>1, <2>1, <2>2
    <3>2. at[n + 1] \in 1 .. p /\ to[n + 1] \in 1 .. p
      BY <1>1, <3>1
    <3>3. ASSUME at[n + 1] < to[n + 1] PROVE FALSE
      <4>1. PICK j \in 1 .. Len(M) : to[j] = at[n + 1]
        BY <3>1, <3>2 DEF Spread
      <4>2. j < n + 1
        BY <1>1, <2>1, <3>1, <3>2, <3>3, <4>1 DEF Spread
      <4>3. j \in 1 .. n /\ j <= Len(L) /\ j \in 1 .. Len(L)
        BY <1>1, <2>1, <2>2, <4>2
      <4>4. at[j] = to[j] /\ at[j] < at[n + 1]
        BY <2>1, <3>1, <4>2, <4>3 DEF Spread
      <4> QED BY <3>2, <4>1, <4>4
    <3>4. ASSUME to[n + 1] < at[n + 1] PROVE FALSE
      <4>1. PICK j \in 1 .. Len(L) : at[j] = to[n + 1]
        BY <3>1, <3>2 DEF Spread
      <4>2. j < n + 1
        BY <1>1, <2>1, <3>1, <3>2, <3>4, <4>1 DEF Spread
      <4>3. j \in 1 .. n /\ j <= Len(M) /\ j \in 1 .. Len(M)
        BY <1>1, <2>1, <2>2, <4>2
      <4>4. at[j] = to[j] /\ to[j] < to[n + 1]
        BY <2>1, <3>1, <4>2, <4>3 DEF Spread
      <4> QED BY <3>2, <4>1, <4>4
    <3> QED BY <3>2, <3>3, <3>4
  <2>3. \A i \in 1 .. n + 1 : i \in 1 .. n \/ i = n + 1
    BY <2>1
  <2> QED BY <2>1, <2>2, <2>3 DEF S
<1>4. S = Nat
  <2> HIDE DEF S
  <2>1. S \subseteq Nat
    BY DEF S
  <2> QED BY <1>2, <1>3, <2>1, Induction
<1>5. \A i \in Nat : i >= 1 /\ i <= Len(L) /\ i <= Len(M) => at[i] = to[i]
  <2> SUFFICES ASSUME NEW i \in Nat, i >= 1, i <= Len(L), i <= Len(M) PROVE at[i] = to[i]
    OBVIOUS
  <2>1. i \in S /\ i \in 1 .. i
    BY <1>4
  <2> QED BY <2>1
<1> HIDE DEF S
<1>6. ASSUME Len(L) < Len(M) PROVE FALSE
  <2> DEFINE m == Len(L) + 1
  <2>1. m \in 1 .. Len(M)
    BY <1>1, <1>6
  <2>2. PICK i \in 1 .. Len(L) : at[i] = to[m]
    BY <1>1, <2>1 DEF Spread
  <2>3. i \in Nat /\ i >= 1 /\ i <= Len(L) /\ i <= Len(M) /\ i < m /\ i \in 1 .. Len(M)
    BY <1>1, <1>6
  <2>4. to[i] < to[m]
    BY <2>1, <2>3 DEF Spread
  <2> QED BY <1>1, <1>5, <2>1, <2>2, <2>3, <2>4
<1>7. ASSUME Len(M) < Len(L) PROVE FALSE
  <2> DEFINE m == Len(M) + 1
  <2>1. m \in 1 .. Len(L)
    BY <1>1, <1>7
  <2>2. PICK i \in 1 .. Len(M) : to[i] = at[m]
    BY <1>1, <2>1 DEF Spread
  <2>3. i \in Nat /\ i >= 1 /\ i <= Len(L) /\ i <= Len(M) /\ i < m /\ i \in 1 .. Len(L)
    BY <1>1, <1>7
  <2>4. at[i] < at[m]
    BY <2>1, <2>3 DEF Spread
  <2> QED BY <1>1, <1>5, <2>1, <2>2, <2>3, <2>4
<1>8. Len(L) = Len(M)
  BY <1>1, <1>6, <1>7
<1>9. \A i \in 1 .. Len(L) : at[i] = to[i]
  BY <1>1, <1>5, <1>8
<1>10. \A i \in 1 .. Len(L) : L[i] = M[i]
  BY <1>8, <1>9 DEF Spread
<1> QED BY <1>1, <1>8, <1>10, SeqEqual

LEMMA LiveIs ==
  ASSUME NEW es \in Listing, NEW L, NEW at, Spread(at, Len(es), es, L)
  PROVE  Live(es) = L
<1>1. Len(es) \in Nat
  BY DEF Listing
<1> QED BY <1>1, LiveSpread, OneSpread

\* What an append, a deletion, an overwriting and a compaction do to the list.
LEMMA LiveAppended ==
  ASSUME NEW es \in Listing, NEW e \in Entry
  PROVE  Append(es, e) \in Listing /\ Live(Append(es, e)) = Append(Live(es), e)
<1> DEFINE fs == Append(es, e)
           n == Len(es)
<1>1. n \in Nat /\ fs \in Listing /\ Len(fs) = n + 1 /\ fs[n + 1] = e
      /\ \A q \in 1 .. n : fs[q] = es[q]
  BY AppendProperties DEF Listing
<1>2. PICK at : Spread(at, n, es, Live(es))
  BY LiveSpread
<1> HIDE DEF fs
<1>3. Spread(at, n, fs, Live(es))
  BY <1>1, <1>2 DEF Spread
<1>4. e # Hole
  BY SentinelsAssumption DEF Entry
<1>5. \E to : Spread(to, n + 1, fs, Append(Live(es), fs[n + 1]))
  <2> HIDE DEF n
  <2> QED BY <1>1, <1>3, <1>4, SpreadOn
<1> QED
  <2> HIDE DEF n
  <2>1. Live(fs) = Append(Live(es), e)
    BY <1>1, <1>5, LiveIs
  <2> QED BY <1>1, <2>1 DEF fs

LEMMA LiveOverwritten ==
  ASSUME NEW es \in Listing, NEW at, Spread(at, Len(es), es, Live(es)),
         NEW i \in 1 .. Len(Live(es)), NEW e \in Entry
  PROVE  Live([es EXCEPT ![at[i]] = e]) = [Live(es) EXCEPT ![i] = e]
<1> DEFINE n == Len(es)
           L == Live(es)
           p == at[i]
           fs == [es EXCEPT ![p] = e]
           M == [L EXCEPT ![i] = e]
<1>1. /\ n \in Nat /\ L \in Seq(Entry) /\ Len(L) \in Nat /\ at \in [1 .. Len(L) -> 1 .. n]
      /\ p \in 1 .. n /\ L[i] = es[p] /\ es[p] # Hole
  BY DEF Spread, Listing
<1>4. e # Hole
  BY SentinelsAssumption DEF Entry
<1> HIDE DEF p
<1>5. fs \in Listing /\ Len(fs) = n /\ \A q \in 1 .. n : fs[q] = IF q = p THEN e ELSE es[q]
  BY <1>1, ExceptSeq DEF Listing
<1> HIDE DEF L, n
<1>6. M \in Seq(Entry) /\ Len(M) = Len(L) /\ \A j \in 1 .. Len(L) : M[j] = IF j = i THEN e ELSE L[j]
  BY <1>1, ExceptSeq DEF L
<1>7. \A j \in 1 .. Len(L) : at[j] = p => j = i
  <2> SUFFICES ASSUME NEW j \in 1 .. Len(L), at[j] = p, j # i PROVE FALSE
    OBVIOUS
  <2>1. i \in 1 .. Len(L) /\ (i < j \/ j < i)
    BY <1>1 DEF L
  <2> QED BY <1>1, <2>1 DEF Spread, L, n, p
<1> HIDE DEF fs, M
<1>8. Spread(at, n, fs, M)
  <2>1. at \in [1 .. Len(M) -> 1 .. n] /\ \A j, k \in 1 .. Len(M) : j < k => at[j] < at[k]
    BY <1>1, <1>6 DEF Spread, L
  <2>2. \A j \in 1 .. Len(M) : M[j] = fs[at[j]] /\ fs[at[j]] # Hole
    <3> SUFFICES ASSUME NEW j \in 1 .. Len(L) PROVE M[j] = fs[at[j]] /\ fs[at[j]] # Hole
      BY <1>6
    <3>1. at[j] \in 1 .. n /\ L[j] = es[at[j]] /\ es[at[j]] # Hole
      BY <1>1 DEF Spread, L
    <3>2. at[i] = p
      BY DEF p
    <3> QED BY <1>4, <1>5, <1>6, <1>7, <3>1, <3>2
  <2>3. \A q \in 1 .. n : fs[q] # Hole => \E j \in 1 .. Len(M) : at[j] = q
    BY <1>1, <1>5, <1>6 DEF Spread, L, n
  <2> QED BY <1>6, <2>1, <2>2, <2>3 DEF Spread
<1>9. Live(fs) = M
  BY <1>5, <1>8, LiveIs
<1> QED BY <1>9 DEF fs, M, p, L

\* The list without its i-th entry (Abstract!Without).
But(L, i) == SubSeq(L, 1, i - 1) \o SubSeq(L, i + 1, Len(L))

LEMMA ButIs ==
  ASSUME NEW L \in Seq(Entry), NEW i \in 1 .. Len(L)
  PROVE  /\ But(L, i) \in Seq(Entry) /\ Len(But(L, i)) = Len(L) - 1
         /\ \A j \in 1 .. Len(L) - 1 : But(L, i)[j] = L[IF j < i THEN j ELSE j + 1]
<1> DEFINE n == Len(L)
           a == SubSeq(L, 1, i - 1)
           b == SubSeq(L, i + 1, n)
<1>1. n \in Nat /\ i \in 1 .. n /\ \A j \in 1 .. n : L[j] \in Entry
  OBVIOUS
<1>2. i - 1 \in Int /\ i + 1 \in Int /\ n \in Int
  BY <1>1
<1>3. a \in Seq(Entry) /\ Len(a) = i - 1 /\ \A j \in 1 .. i - 1 : a[j] = L[j]
  <2>1. \A j \in 1 .. i - 1 : L[j] \in Entry
    BY <1>1
  <2>2. /\ a \in Seq(Entry) /\ Len(a) = IF 1 <= i - 1 THEN (i - 1) - 1 + 1 ELSE 0
        /\ \A j \in 1 .. (i - 1) - 1 + 1 : a[j] = L[1 + j - 1]
    BY <1>2, <2>1, SubSeqProperties
  <2> HIDE DEF a
  <2>3. \A j \in 1 .. i - 1 : 1 + j - 1 = j
    BY <1>2
  <2>4. (i - 1) - 1 + 1 = i - 1
    BY <1>2
  <2> QED BY <1>1, <1>2, <2>2, <2>3, <2>4
<1>4. b \in Seq(Entry) /\ Len(b) = n - i /\ \A j \in 1 .. n - i : b[j] = L[i + j]
  <2>1. \A j \in i + 1 .. n : L[j] \in Entry
    BY <1>1
  <2>2. /\ b \in Seq(Entry) /\ Len(b) = IF i + 1 <= n THEN n - (i + 1) + 1 ELSE 0
        /\ \A j \in 1 .. n - (i + 1) + 1 : b[j] = L[(i + 1) + j - 1]
    BY <1>2, <2>1, SubSeqProperties
  <2> HIDE DEF b, n
  <2>3. \A j \in 1 .. n - i : (i + 1) + j - 1 = i + j
    BY <1>1, <1>2
  <2>4. n - (i + 1) + 1 = n - i
    BY <1>1, <1>2
  <2> QED BY <1>1, <1>2, <2>2, <2>3, <2>4
<1>5. But(L, i) = a \o b
  BY DEF But
<1> HIDE DEF a, b, n
<1>6. /\ But(L, i) \in Seq(Entry) /\ Len(But(L, i)) = (i - 1) + (n - i)
      /\ \A j \in 1 .. (i - 1) + (n - i) : But(L, i)[j] = IF j <= i - 1 THEN a[j] ELSE b[j - (i - 1)]
  BY <1>3, <1>4, <1>5, ConcatProperties
<1>7. (i - 1) + (n - i) = n - 1
  BY <1>1
<1>8. ASSUME NEW j \in 1 .. n - 1 PROVE But(L, i)[j] = L[IF j < i THEN j ELSE j + 1]
  <2>1. CASE j < i
    <3>1. j \in 1 .. i - 1 /\ j <= i - 1
      BY <1>1, <2>1
    <3> QED BY <1>3, <1>6, <1>7, <2>1, <3>1
  <2>2. CASE ~(j < i)
    <3>1. j - (i - 1) \in 1 .. n - i /\ i + (j - (i - 1)) = j + 1 /\ ~(j <= i - 1)
      BY <1>1, <2>2
    <3> QED BY <1>4, <1>6, <1>7, <2>2, <3>1
  <2> QED BY <2>1, <2>2
<1> QED BY <1>6, <1>7, <1>8 DEF n

LEMMA LiveDeleted ==
  ASSUME NEW es \in Listing, NEW at, Spread(at, Len(es), es, Live(es)), NEW i \in 1 .. Len(Live(es))
  PROVE  LET fs == [es EXCEPT ![at[i]] = Hole]
         IN  fs \in Listing /\ Live(fs) = But(Live(es), i)
<1> DEFINE n == Len(es)
           L == Live(es)
           p == at[i]
           fs == [es EXCEPT ![p] = Hole]
           M == But(L, i)
           to == [j \in 1 .. Len(L) - 1 |-> at[IF j < i THEN j ELSE j + 1]]
<1>1. /\ n \in Nat /\ L \in Seq(Entry) /\ Len(L) \in Nat /\ at \in [1 .. Len(L) -> 1 .. n]
      /\ p \in 1 .. n
  BY DEF Spread, Listing
<1> HIDE DEF p
<1>2. fs \in Listing /\ Len(fs) = n /\ \A q \in 1 .. n : fs[q] = IF q = p THEN Hole ELSE es[q]
  BY <1>1, ExceptSeq DEF Listing
<1> HIDE DEF L, n
<1>3. /\ M \in Seq(Entry) /\ Len(M) = Len(L) - 1 /\ i \in 1 .. Len(L)
      /\ \A j \in 1 .. Len(L) - 1 : M[j] = L[IF j < i THEN j ELSE j + 1]
  BY <1>1, ButIs DEF L
<1>4. ASSUME NEW j \in 1 .. Len(L) - 1
      PROVE  \E k \in 1 .. Len(L) : /\ to[j] = at[k] /\ M[j] = L[k] /\ k # i
                                    /\ k = IF j < i THEN j ELSE j + 1
  <2> DEFINE k == IF j < i THEN j ELSE j + 1
  <2>1. k \in 1 .. Len(L) /\ k # i
    BY <1>1, <1>3
  <2>2. to[j] = at[k] /\ M[j] = L[k]
    <3> HIDE DEF M
    <3> QED BY <1>3
  <2> HIDE DEF to, M
  <2> QED BY <2>1, <2>2
<1>5. \A j \in 1 .. Len(L) : at[j] = p => j = i
  <2> SUFFICES ASSUME NEW j \in 1 .. Len(L), at[j] = p, j # i PROVE FALSE
    OBVIOUS
  <2>1. i \in 1 .. Len(L) /\ (i < j \/ j < i)
    BY <1>1, <1>3
  <2> QED BY <1>1, <2>1 DEF Spread, L, n, p
<1>6. to \in [1 .. Len(L) - 1 -> 1 .. n]
  <2>1. \A j \in 1 .. Len(L) - 1 : to[j] \in 1 .. n
    BY <1>1, <1>4
  <2> QED BY <2>1
<1>7. ASSUME NEW j \in 1 .. Len(L), j # i PROVE \E k \in 1 .. Len(L) - 1 : to[k] = at[j]
  <2>1. CASE j < i
    <3>1. j \in 1 .. Len(L) - 1
      BY <1>1, <1>3, <2>1
    <3> QED BY <2>1, <3>1
  <2>2. CASE ~(j < i)
    <3>1. j - 1 \in 1 .. Len(L) - 1 /\ ~(j - 1 < i) /\ (j - 1) + 1 = j
      BY <1>1, <1>3, <1>7, <2>2
    <3> QED BY <3>1
  <2> QED BY <2>1, <2>2
<1> HIDE DEF fs, M, to
<1>8. Spread(to, n, fs, M)
  <2>1. ASSUME NEW j \in 1 .. Len(L) - 1, NEW k \in 1 .. Len(L) - 1, j < k
        PROVE  to[j] < to[k]
    <3>1. PICK a \in 1 .. Len(L) : to[j] = at[a] /\ a = IF j < i THEN j ELSE j + 1
      BY <1>4
    <3>2. PICK b \in 1 .. Len(L) : to[k] = at[b] /\ b = IF k < i THEN k ELSE k + 1
      BY <1>4
    <3>3. a < b
      BY <1>1, <1>3, <2>1, <3>1, <3>2
    <3> QED BY <3>1, <3>2, <3>3 DEF Spread, L
  <2>2. ASSUME NEW j \in 1 .. Len(L) - 1 PROVE M[j] = fs[to[j]] /\ fs[to[j]] # Hole
    <3>1. PICK k \in 1 .. Len(L) : to[j] = at[k] /\ M[j] = L[k] /\ k # i
      BY <1>4
    <3>2. at[k] \in 1 .. n /\ at[k] # p /\ L[k] = es[at[k]] /\ es[at[k]] # Hole
      BY <1>1, <1>5, <3>1 DEF Spread, L
    <3> QED BY <1>2, <3>1, <3>2
  <2>3. ASSUME NEW q \in 1 .. n, fs[q] # Hole PROVE \E j \in 1 .. Len(L) - 1 : to[j] = q
    <3>1. q # p /\ es[q] # Hole
      BY <1>2, <2>3
    <3>2. PICK j \in 1 .. Len(L) : at[j] = q
      BY <3>1 DEF Spread, L, n
    <3>3. j # i
      BY <3>1, <3>2 DEF p
    <3> QED BY <1>7, <3>2, <3>3
  <2> QED BY <1>3, <1>6, <2>1, <2>2, <2>3 DEF Spread
<1>9. Live(fs) = M
  BY <1>2, <1>8, LiveIs
<1> QED BY <1>2, <1>9 DEF fs, M, p, L

LEMMA LiveWhole ==
  ASSUME NEW L \in Seq(Entry)
  PROVE  L \in Listing /\ Live(L) = L /\ Spread([i \in 1 .. Len(L) |-> i], Len(L), L, L)
<1>1. L \in Listing /\ \A i \in 1 .. Len(L) : L[i] # Hole
  <2>1. \A e \in Entry : e # Hole
    BY SentinelsAssumption DEF Entry
  <2> QED BY <2>1 DEF Listing
<1>2. Spread([i \in 1 .. Len(L) |-> i], Len(L), L, L)
  BY <1>1 DEF Spread
<1> QED BY <1>1, <1>2, LiveIs

-----------------------------------------------------------------------------
(* A table and the entries it files.                                       *)

IsLive(es, p) == p \in 1 .. Len(es) /\ es[p] # Hole
Taken(table) == {s \in DOMAIN table : table[s] # Empty}

\* The walk for a key comes to a slot before it comes to an empty one.
Reached(table, k, s) ==
  \E i \in DOMAIN Walk(Hash[k], Len(table)) :
    /\ Walk(Hash[k], Len(table))[i] = s
    /\ \A j \in 1 .. i - 1 : table[Walk(Hash[k], Len(table))[j]] # Empty

Shape(table, es) ==
  /\ es \in Listing
  /\ table \in Seq((1 .. Len(es)) \union {Empty, Dummy})
  /\ table # << >> => \E k \in Nat : Len(table) = TwoTo[k]

\* A third of the table is empty: every taken slot was paid for by an entry.
Roomy(table, es) ==
  Cardinality(Taken(table)) <= Len(es) /\ Len(es) * 3 <= Len(table) * 2

Pointing(table, es) ==
  /\ \A s \in DOMAIN table : table[s] \in 1 .. Len(es) => es[table[s]] # Hole
  /\ \A p \in 1 .. Len(es) : es[p] # Hole => \E s \in DOMAIN table : table[s] = p
  /\ \A s, t \in DOMAIN table : table[s] \in 1 .. Len(es) /\ table[s] = table[t] => s = t

InReach(table, es) ==
  \A s \in DOMAIN table : table[s] \in 1 .. Len(es) => Reached(table, es[table[s]].key, s)

KeysOnce(es) ==
  \A p, q \in 1 .. Len(es) :
    es[p] # Hole /\ es[q] # Hole /\ Same[es[p].key] = Same[es[q].key] => p = q

Filing(table, es) ==
  Shape(table, es) /\ Roomy(table, es) /\ Pointing(table, es) /\ InReach(table, es) /\ KeysOnce(es)

LEMMA ShapeFacts ==
  ASSUME NEW table, NEW es, Shape(table, es)
  PROVE  /\ Len(es) \in Nat /\ Len(table) \in Nat /\ DOMAIN table = 1 .. Len(table)
         /\ \A p \in 1 .. Len(es) : es[p] \in Entry \/ es[p] = Hole
         /\ \A s \in DOMAIN table : table[s] \in (1 .. Len(es)) \union {Empty, Dummy}
         /\ \A p \in 1 .. Len(es) : p # Empty /\ p # Dummy
         /\ IsFiniteSet(Taken(table))
<1>1. Len(table) \in Nat /\ DOMAIN table = 1 .. Len(table)
  BY DEF Shape
<1>2. IsFiniteSet(1 .. Len(table))
  BY <1>1, FS_Interval
<1>3. IsFiniteSet(Taken(table))
  BY <1>1, <1>2, FS_Subset DEF Taken
<1> QED BY <1>1, <1>3, SentinelsAssumption DEF Shape, Listing

\* There is always an empty slot, and every walk comes to it.
LEMMA EmptySomewhere ==
  ASSUME NEW table, NEW es, Shape(table, es), Roomy(table, es), table # << >>
  PROVE  \E s \in DOMAIN table : table[s] = Empty
<1>1. Len(es) \in Nat /\ Len(table) \in Nat /\ DOMAIN table = 1 .. Len(table) /\ Len(table) > 0
  <2>1. Len(es) \in Nat /\ Len(table) \in Nat /\ DOMAIN table = 1 .. Len(table)
    BY ShapeFacts
  <2> QED BY <2>1 DEF Shape
<1>2. Len(es) < Len(table)
  BY <1>1 DEF Roomy
<1> SUFFICES ASSUME \A s \in DOMAIN table : table[s] # Empty PROVE FALSE
  OBVIOUS
<1>3. Taken(table) = 1 .. Len(table)
  BY <1>1 DEF Taken
<1>4. Cardinality(1 .. Len(table)) = Len(table)
  BY <1>1, FS_Interval
<1> QED BY <1>1, <1>2, <1>3, <1>4 DEF Roomy

LEMMA WalkFinds ==
  ASSUME NEW table, NEW es, Shape(table, es), table # << >>, NEW k \in Keys
  PROVE  /\ Walk(Hash[k], Len(table)) \in [1 .. Reach(Len(table)) + 1 -> DOMAIN table]
         /\ Reach(Len(table)) \in Nat
         /\ \A s \in DOMAIN table : \E i \in DOMAIN Walk(Hash[k], Len(table)) :
              Walk(Hash[k], Len(table))[i] = s
<1>1. Len(table) \in Nat /\ DOMAIN table = 1 .. Len(table) /\ Len(table) > 0
  <2>1. Len(table) \in Nat /\ DOMAIN table = 1 .. Len(table)
    BY ShapeFacts
  <2> QED BY <2>1 DEF Shape
<1>2. Hash[k] \in Nat /\ Hash[k] < TwoTo[5 * Shifts]
  BY KeysAssumption, ShiftsAssumption
<1> DEFINE h == Hash[k]
<1> HIDE DEF h
<1>3. PICK e \in Nat : Len(table) = TwoTo[e]
  BY DEF Shape
<1>4. Walk(h, Len(table)) \in [1 .. Reach(Len(table)) + 1 -> 1 .. Len(table)]
  BY <1>1, <1>2, WalkType DEF h
<1>5. \A s \in 1 .. TwoTo[e] : \E i \in DOMAIN Walk(h, TwoTo[e]) : Walk(h, TwoTo[e])[i] = s
  BY <1>2, WalkVisitsAll DEF h
<1>6. Reach(Len(table)) \in Nat
  BY <1>1, ShiftsAssumption DEF Reach
<1> QED BY <1>1, <1>3, <1>4, <1>5, <1>6 DEF h

-----------------------------------------------------------------------------
(* Probing.                                                                *)

Found(p, table, es, k) ==
  /\ p.slot \in DOMAIN table /\ p.position = table[p.slot] /\ p.position \in 1 .. Len(es)
  /\ es[p.position] # Hole /\ Same[es[p.position].key] = Same[k]

Missing(p, table, es, k) ==
  /\ p.position = Empty
  /\ p.slot \in DOMAIN table /\ table[p.slot] \in {Empty, Dummy} /\ Reached(table, k, p.slot)
  /\ \A q \in 1 .. Len(es) : es[q] # Hole => Same[es[q].key] # Same[k]

LEMMA ProbeIs ==
  ASSUME NEW table, NEW es, Filing(table, es), table # << >>, NEW k \in Keys
  PROVE  Found(Probe(table, es, k), table, es, k) \/ Missing(Probe(table, es, k), table, es, k)
<1> DEFINE walk == Walk(Hash[k], Len(table))
           m == Reach(Len(table)) + 1
           Matches(i) == table[walk[i]] \in DOMAIN es /\ Same[es[table[walk[i]]].key] = Same[k]
           ends == {i \in DOMAIN walk : table[walk[i]] = Empty \/ Matches(i)}
           stop == First(ends)
           reusable == {i \in 1 .. stop : table[walk[i]] = Dummy}
           probe == Probe(table, es, k)
<1>1. Shape(table, es) /\ Roomy(table, es) /\ Pointing(table, es) /\ InReach(table, es) /\ KeysOnce(es)
  BY DEF Filing
<1>2. m \in Nat /\ walk \in [1 .. m -> DOMAIN table]
      /\ \A s \in DOMAIN table : \E i \in 1 .. m : walk[i] = s
  <2>1. Reach(Len(table)) \in Nat
    BY <1>1, WalkFinds
  <2>2. walk \in [1 .. m -> DOMAIN table]
    BY <1>1, WalkFinds
  <2>3. \A s \in DOMAIN table : \E i \in DOMAIN walk : walk[i] = s
    BY <1>1, WalkFinds
  <2> HIDE DEF walk
  <2> QED BY <2>1, <2>2, <2>3
<1>3. /\ Len(es) \in Nat /\ DOMAIN es = 1 .. Len(es)
      /\ \A s \in DOMAIN table : table[s] \in (1 .. Len(es)) \union {Empty, Dummy}
      /\ \A p \in 1 .. Len(es) : p # Empty /\ p # Dummy
  <2>1. DOMAIN es = 1 .. Len(es)
    BY <1>1 DEF Shape, Listing
  <2> QED BY <1>1, <2>1, ShapeFacts
<1>4. probe = IF Matches(stop)
                THEN [slot |-> walk[stop], position |-> table[walk[stop]]]
                ELSE [slot |-> walk[IF reusable = {} THEN stop ELSE First(reusable)],
                      position |-> Empty]
  BY DEF Probe
<1> HIDE DEF walk, m, probe
<1>5. ends \in SUBSET Nat /\ ends # {} /\ ends \subseteq 1 .. m
  <2>1. PICK s \in DOMAIN table : table[s] = Empty
    BY <1>1, EmptySomewhere
  <2> QED BY <1>2, <2>1
<1>6. stop \in 1 .. m /\ stop \in ends /\ \A j \in ends : stop <= j
  <2> HIDE DEF ends
  <2> QED BY <1>5, FirstIs
<1>7. table[walk[stop]] = Empty \/ Matches(stop)
  BY <1>6
<1>8. \A j \in 1 .. stop - 1 : table[walk[j]] # Empty /\ ~ Matches(j)
  <2> HIDE DEF stop
  <2>1. \A j \in 1 .. stop - 1 : j \in DOMAIN walk /\ ~(stop <= j)
    BY <1>2, <1>6
  <2> HIDE DEF Matches
  <2> QED BY <1>6, <2>1
<1> HIDE DEF stop, ends
<1>9. CASE Matches(stop)
  <2>1. probe.slot = walk[stop] /\ probe.position = table[walk[stop]]
    BY <1>4, <1>9
  <2> QED BY <1>1, <1>2, <1>3, <1>6, <1>9, <2>1 DEF Found, Pointing, probe
<1>10. CASE ~ Matches(stop)
  <2> DEFINE put == IF reusable = {} THEN stop ELSE First(reusable)
  <2>1. probe.slot = walk[put] /\ probe.position = Empty
    BY <1>4, <1>10
  <2>2. put \in 1 .. stop /\ table[walk[put]] \in {Empty, Dummy}
    <3>1. reusable \in SUBSET Nat
      BY <1>6
    <3>2. reusable # {} => First(reusable) \in reusable
      <4> HIDE DEF reusable
      <4> QED BY <3>1, FirstIs
    <3> QED BY <1>6, <1>7, <1>10, <3>2
  <2> HIDE DEF put, reusable
  <2>3. put \in 1 .. m /\ \A j \in 1 .. put - 1 : table[walk[j]] # Empty
    BY <1>2, <1>6, <1>8, <2>2
  <2>4. Reached(table, k, walk[put])
    BY <1>2, <2>3 DEF Reached, walk
  <2>5. ASSUME NEW q \in 1 .. Len(es), es[q] # Hole, Same[es[q].key] = Same[k] PROVE FALSE
    <3>1. PICK s \in DOMAIN table : table[s] = q
      BY <1>1, <2>5 DEF Pointing
    <3>2. Reached(table, es[q].key, s)
      BY <1>1, <3>1 DEF InReach
    <3>3. es[q].key \in Keys
      BY <1>1, <2>5, ShapeFacts DEF Entry
    <3>4. Hash[es[q].key] = Hash[k]
      BY <2>5, <3>3, KeysAssumption
    <3>5. PICK i \in DOMAIN walk : walk[i] = s /\ \A j \in 1 .. i - 1 : table[walk[j]] # Empty
      BY <3>2, <3>4 DEF Reached, walk
    <3>6. Matches(i)
      BY <1>3, <2>5, <3>1, <3>5
    <3>7. i \in ends /\ i \in 1 .. m
      BY <1>2, <3>5, <3>6 DEF ends
    <3>8. stop <= i
      BY <1>6, <3>7
    <3>9. ~(stop < i)
      BY <1>6, <1>7, <1>10, <3>5, <3>7
    <3>10. stop = i
      BY <1>2, <1>6, <3>7, <3>8, <3>9
    <3> QED BY <1>10, <3>6, <3>10
  <2>6. walk[put] \in DOMAIN table
    BY <1>2, <2>3
  <2> QED BY <2>1, <2>2, <2>4, <2>5, <2>6 DEF Missing, probe
<1> QED BY <1>9, <1>10

-----------------------------------------------------------------------------
(* What is done to a table and its entries.                                *)

\* A slot that is filled or left as it was keeps every walk going.
LEMMA StillReached ==
  ASSUME NEW table, NEW n \in Nat, DOMAIN table = 1 .. n, Len(table) = n, NEW x, x # Empty, NEW s,
         NEW k, NEW t, Reached(table, k, t)
  PROVE  Reached([table EXCEPT ![s] = x], k, t)
<1> DEFINE to == [table EXCEPT ![s] = x]
<1>1. DOMAIN to = 1 .. n /\ \A u : to[u] = IF u = s /\ u \in DOMAIN table THEN x ELSE table[u]
  OBVIOUS
<1> QED BY DEF Reached

LEMMA NewEntry ==
  ASSUME NEW table, NEW es, Filing(table, es), (Len(es) + 1) * 3 <= Len(table) * 2,
         NEW e \in Entry, \A q \in 1 .. Len(es) : es[q] # Hole => Same[es[q].key] # Same[e.key],
         NEW s \in DOMAIN table, table[s] \in {Empty, Dummy}, Reached(table, e.key, s)
  PROVE  Filing([table EXCEPT ![s] = Len(es) + 1], Append(es, e))
<1> DEFINE n == Len(es)
           to == [table EXCEPT ![s] = n + 1]
           fs == Append(es, e)
<1>1. Shape(table, es) /\ Roomy(table, es) /\ Pointing(table, es) /\ InReach(table, es) /\ KeysOnce(es)
  BY DEF Filing
<1>2. /\ n \in Nat /\ Len(table) \in Nat /\ DOMAIN table = 1 .. Len(table)
      /\ \A p \in 1 .. n : es[p] \in Entry \/ es[p] = Hole
      /\ \A t \in DOMAIN table : table[t] \in (1 .. n) \union {Empty, Dummy}
      /\ IsFiniteSet(Taken(table))
  BY <1>1, ShapeFacts
<1>3. fs \in Listing /\ Len(fs) = n + 1 /\ fs[n + 1] = e /\ \A q \in 1 .. n : fs[q] = es[q]
  BY <1>1, AppendProperties DEF Shape, Listing
<1>4. e # Hole /\ Empty \notin 1 .. n + 1 /\ Dummy \notin 1 .. n + 1
  BY <1>2, SentinelsAssumption DEF Entry
<1>5. /\ DOMAIN to = DOMAIN table /\ Len(to) = Len(table)
      /\ \A t \in DOMAIN table : to[t] = IF t = s THEN n + 1 ELSE table[t]
      /\ to \in Seq((1 .. n + 1) \union {Empty, Dummy})
  <2>1. table \in Seq((1 .. n + 1) \union {Empty, Dummy})
    BY <1>1, <1>2 DEF Shape
  <2>2. n + 1 \in (1 .. n + 1) \union {Empty, Dummy} /\ s \in 1 .. Len(table)
    BY <1>2
  <2>3. /\ to \in Seq((1 .. n + 1) \union {Empty, Dummy}) /\ Len(to) = Len(table)
        /\ \A t \in 1 .. Len(table) : to[t] = IF t = s THEN n + 1 ELSE table[t]
    <3> HIDE DEF n
    <3> QED BY <2>1, <2>2, ExceptSeq
  <2> QED BY <1>2, <2>3
<1> HIDE DEF n, fs
<1>6. Shape(to, fs)
  <2>1. to # << >> => \E k \in Nat : Len(to) = TwoTo[k]
    BY <1>1, <1>2, <1>5 DEF Shape
  <2> QED BY <1>3, <1>5, <2>1 DEF Shape
<1>7. Roomy(to, fs)
  <2>1. Taken(to) = Taken(table) \union {s}
    BY <1>2, <1>4, <1>5 DEF Taken
  <2>2. Cardinality(Taken(to)) <= Cardinality(Taken(table)) + 1 /\ Cardinality(Taken(table)) \in Nat
    <3>1. Cardinality(Taken(table)) \in Nat
      BY <1>2, FS_CardinalityType
    <3>2. Cardinality(Taken(table) \union {s}) =
            IF s \in Taken(table) THEN Cardinality(Taken(table)) ELSE Cardinality(Taken(table)) + 1
      BY <1>2, FS_AddElement
    <3> HIDE DEF to
    <3> QED BY <2>1, <3>1, <3>2
  <2>3. Cardinality(Taken(table)) <= n
    BY <1>1 DEF Roomy, n
  <2>4. Cardinality(Taken(to)) \in Nat
    BY <1>2, <2>1, FS_AddElement, FS_CardinalityType
  <2> HIDE DEF to
  <2> QED BY <1>2, <1>3, <1>5, <2>2, <2>3, <2>4 DEF Roomy, n
<1>8. Pointing(to, fs)
  <2> HIDE DEF to
  <2>1. \A t \in DOMAIN table : t # s /\ table[t] \in 1 .. n + 1 => table[t] \in 1 .. n
    BY <1>2, <1>4
  <2>2. \A t \in DOMAIN to : to[t] \in 1 .. Len(fs) => fs[to[t]] # Hole
    BY <1>1, <1>2, <1>3, <1>4, <1>5, <2>1 DEF Pointing, n
  <2>3. ASSUME NEW p \in 1 .. Len(fs), fs[p] # Hole PROVE \E t \in DOMAIN to : to[t] = p
    <3>1. CASE p = n + 1
      BY <1>5, <3>1
    <3>2. CASE p # n + 1
      <4>1. p \in 1 .. n /\ es[p] # Hole
        BY <1>2, <1>3, <2>3, <3>2
      <4>2. PICK t \in DOMAIN table : table[t] = p
        BY <1>1, <4>1 DEF Pointing, n
      <4>3. t # s
        BY <1>4, <1>2, <4>1, <4>2
      <4> QED BY <1>5, <4>2, <4>3
    <3> QED BY <3>1, <3>2
  <2>4. ASSUME NEW t \in DOMAIN to, NEW u \in DOMAIN to, to[t] \in 1 .. Len(fs), to[t] = to[u]
        PROVE  t = u
    BY <1>1, <1>2, <1>3, <1>5, <2>1, <2>4 DEF Pointing, n
  <2> QED BY <2>2, <2>3, <2>4 DEF Pointing
<1>9. InReach(to, fs)
  <2> SUFFICES ASSUME NEW t \in DOMAIN to, to[t] \in 1 .. Len(fs) PROVE Reached(to, fs[to[t]].key, t)
    BY DEF InReach
  <2>1. \A k, u : Reached(table, k, u) => Reached(to, k, u)
    <3>1. n + 1 # Empty
      BY <1>2, <1>4
    <3> QED BY <1>2, <3>1, StillReached
  <2> HIDE DEF to
  <2>2. CASE t = s
    BY <1>3, <1>5, <2>1, <2>2
  <2>3. CASE t # s
    <3>1. to[t] = table[t] /\ table[t] \in 1 .. n
      BY <1>2, <1>3, <1>4, <1>5, <2>3
    <3> QED BY <1>1, <1>3, <1>5, <2>1, <3>1 DEF InReach, n
  <2> QED BY <2>2, <2>3
<1>10. KeysOnce(fs)
  <2> SUFFICES ASSUME NEW p \in 1 .. Len(fs), NEW q \in 1 .. Len(fs), fs[p] # Hole, fs[q] # Hole,
                      Same[fs[p].key] = Same[fs[q].key]
               PROVE  p = q
    BY DEF KeysOnce
  <2>1. (p = n + 1 \/ p \in 1 .. n) /\ (q = n + 1 \/ q \in 1 .. n)
    BY <1>2, <1>3
  <2> QED BY <1>1, <1>2, <1>3, <2>1 DEF KeysOnce, n
<1> QED BY <1>6, <1>7, <1>8, <1>9, <1>10 DEF Filing, fs, n

LEMMA NewValue ==
  ASSUME NEW table, NEW es, Filing(table, es), NEW p \in 1 .. Len(es), es[p] # Hole, NEW v \in Values
  PROVE  Filing(table, [es EXCEPT ![p].value = v])
<1> DEFINE n == Len(es)
           e == [es[p] EXCEPT !.value = v]
           fs == [es EXCEPT ![p] = e]
<1>1. Shape(table, es) /\ Roomy(table, es) /\ Pointing(table, es) /\ InReach(table, es) /\ KeysOnce(es)
  BY DEF Filing
<1>2. es[p] \in Entry
  BY <1>1, ShapeFacts
<1>3. e \in Entry /\ e.key = es[p].key
  BY <1>2 DEF Entry
<1>4. e # Hole
  BY <1>3, SentinelsAssumption DEF Entry
<1> HIDE DEF e
<1>5. fs \in Listing /\ Len(fs) = n /\ \A q \in 1 .. n : fs[q] = IF q = p THEN e ELSE es[q]
  BY <1>1, <1>3, ExceptSeq DEF Listing, Shape
<1> HIDE DEF fs
<1>6. \A q \in 1 .. n : (fs[q] # Hole <=> es[q] # Hole) /\ fs[q].key = es[q].key
  BY <1>3, <1>4, <1>5
<1>7. Shape(table, fs) /\ Roomy(table, fs)
  BY <1>1, <1>5 DEF Shape, Roomy
<1>8. Pointing(table, fs)
  BY <1>1, <1>5, <1>6 DEF Pointing
<1>9. InReach(table, fs)
  BY <1>1, <1>5, <1>6 DEF InReach
<1>10. KeysOnce(fs)
  BY <1>1, <1>5, <1>6 DEF KeysOnce
<1>11. fs = [es EXCEPT ![p].value = v]
  BY DEF fs, e
<1> QED BY <1>7, <1>8, <1>9, <1>10, <1>11 DEF Filing

LEMMA NoEntry ==
  ASSUME NEW table, NEW es, Filing(table, es), NEW s \in DOMAIN table, table[s] \in 1 .. Len(es)
  PROVE  Filing([table EXCEPT ![s] = Dummy], [es EXCEPT ![table[s]] = Hole])
<1> DEFINE n == Len(es)
           p == table[s]
           to == [table EXCEPT ![s] = Dummy]
           fs == [es EXCEPT ![p] = Hole]
<1>1. Shape(table, es) /\ Roomy(table, es) /\ Pointing(table, es) /\ InReach(table, es) /\ KeysOnce(es)
  BY DEF Filing
<1>2. /\ n \in Nat /\ Len(table) \in Nat /\ DOMAIN table = 1 .. Len(table)
      /\ \A t \in DOMAIN table : table[t] \in (1 .. n) \union {Empty, Dummy}
      /\ p \in 1 .. n /\ Empty \notin 1 .. n /\ Dummy \notin 1 .. n /\ Dummy # Empty
  BY <1>1, ShapeFacts, SentinelsAssumption
<1>3. fs \in Listing /\ Len(fs) = n /\ \A q \in 1 .. n : fs[q] = IF q = p THEN Hole ELSE es[q]
  BY <1>1, <1>2, ExceptSeq DEF Listing, Shape
<1>4. /\ DOMAIN to = DOMAIN table /\ Len(to) = Len(table)
      /\ \A t \in DOMAIN table : to[t] = IF t = s THEN Dummy ELSE table[t]
      /\ to \in Seq((1 .. n) \union {Empty, Dummy})
  <2>1. table \in Seq((1 .. n) \union {Empty, Dummy})
    BY <1>1 DEF Shape
  <2>2. Dummy \in (1 .. n) \union {Empty, Dummy} /\ s \in 1 .. Len(table)
    BY <1>2
  <2>3. /\ to \in Seq((1 .. n) \union {Empty, Dummy}) /\ Len(to) = Len(table)
        /\ \A t \in 1 .. Len(table) : to[t] = IF t = s THEN Dummy ELSE table[t]
    <3> HIDE DEF n
    <3> QED BY <2>1, <2>2, ExceptSeq
  <2> QED BY <1>2, <2>3
<1>5. \A t \in DOMAIN table : to[t] \in 1 .. n <=> t # s /\ table[t] \in 1 .. n
  BY <1>2, <1>4
<1> HIDE DEF n, fs, p
<1>6. Shape(to, fs)
  <2>1. to # << >> => \E k \in Nat : Len(to) = TwoTo[k]
    BY <1>1, <1>2, <1>4 DEF Shape
  <2> QED BY <1>3, <1>4, <2>1 DEF Shape
<1>7. Roomy(to, fs)
  <2>1. Taken(to) = Taken(table)
    BY <1>2, <1>4 DEF Taken, p
  <2> HIDE DEF to
  <2> QED BY <1>1, <1>3, <1>4, <2>1 DEF Roomy, n
<1>8. InReach(to, fs)
  <2> SUFFICES ASSUME NEW t \in DOMAIN to, to[t] \in 1 .. Len(fs) PROVE Reached(to, fs[to[t]].key, t)
    BY DEF InReach
  <2>1. \A k, u : Reached(table, k, u) => Reached(to, k, u)
    BY <1>2, StillReached
  <2> HIDE DEF to
  <2>2. t # s /\ to[t] = table[t] /\ table[t] \in 1 .. n
    BY <1>3, <1>4, <1>5
  <2>3. table[t] # p
    BY <1>1, <1>2, <1>4, <2>2 DEF Pointing, n, p
  <2> QED BY <1>1, <1>3, <1>4, <2>1, <2>2, <2>3 DEF InReach, n
<1>9. Pointing(to, fs)
  <2> HIDE DEF to
  <2>0. \A t \in DOMAIN to : to[t] \in 1 .. n => to[t] = table[t] /\ t # s /\ table[t] # p
    BY <1>1, <1>2, <1>4, <1>5 DEF Pointing, n, p
  <2>1. \A t \in DOMAIN to : to[t] \in 1 .. n => fs[to[t]] # Hole
    BY <1>1, <1>3, <1>4, <2>0 DEF Pointing, n
  <2>2. ASSUME NEW q \in 1 .. n, fs[q] # Hole PROVE \E t \in DOMAIN to : to[t] = q
    <3>1. q # p /\ es[q] # Hole
      BY <1>3, <2>2
    <3>2. PICK t \in DOMAIN table : table[t] = q
      BY <1>1, <3>1 DEF Pointing, n
    <3> QED BY <1>4, <3>1, <3>2 DEF p
  <2>3. \A t, u \in DOMAIN to : to[t] \in 1 .. n /\ to[t] = to[u] => t = u
    BY <1>1, <1>4, <2>0 DEF Pointing, n
  <2> QED BY <1>3, <2>1, <2>2, <2>3 DEF Pointing
<1>10. KeysOnce(fs)
  BY <1>1, <1>3 DEF KeysOnce, n
<1> QED BY <1>6, <1>7, <1>8, <1>9, <1>10 DEF Filing, fs, n, p

LEMMA EmptyTable ==
  ASSUME NEW k \in Nat
  PROVE  Filing([s \in 1 .. TwoTo[k] |-> Empty], << >>)
<1> DEFINE n == TwoTo[k]
           table == [s \in 1 .. n |-> Empty]
<1>1. n \in Nat
  BY TwoToStep
<1>2. Len(table) = n /\ DOMAIN table = 1 .. n /\ table \in Seq((1 .. 0) \union {Empty, Dummy})
  BY <1>1
<1>3. Shape(table, << >>)
  <2>1. Len(<< >>) = 0 /\ << >> \in Listing
    BY DEF Listing
  <2> HIDE DEF table
  <2> QED BY <1>2, <2>1 DEF Shape
<1>4. Roomy(table, << >>)
  <2>1. Taken(table) = {}
    BY DEF Taken
  <2> HIDE DEF table, n
  <2> QED BY <1>1, <1>2, <2>1, FS_EmptySet DEF Roomy
<1> QED BY <1>2, <1>3, <1>4 DEF Filing, Pointing, InReach, KeysOnce

-----------------------------------------------------------------------------
(* Room.                                                                   *)

LEMMA FiledIs ==
  ASSUME NEW live \in Seq(Entry), KeysOnce(live), NEW k \in Nat, Len(live) * 3 <= TwoTo[k] * 2
  PROVE  Filing(Filed(live, TwoTo[k]), live) /\ Len(Filed(live, TwoTo[k])) = TwoTo[k]
<1> DEFINE n == TwoTo[k]
           m == Len(live)
           Put(before, p) ==
             LET walk == Walk(Hash[live[p].key], n)
                 open == {i \in DOMAIN walk : before[walk[i]] = Empty}
             IN  [before EXCEPT ![walk[First(open)]] = p]
           Is(f) == f = [p \in 0 .. m |-> IF p = 0 THEN [s \in 1 .. n |-> Empty] ELSE Put(f[p - 1], p)]
<1>1. n \in Nat /\ n > 0 /\ m \in Nat /\ \A p \in 1 .. m : live[p] \in Entry
  <2>1. n \in Nat /\ n > 0
    BY TwoToStep
  <2> QED BY <2>1
<1>2. \E f : Is(f)
  <2> DEFINE V == [1 .. n -> (0 .. m) \union {Empty}]
             start == [s \in 1 .. n |-> Empty]
             step == [i \in Nat |-> [t \in V |-> IF i + 1 \in 1 .. m THEN Put(t, i + 1) ELSE t]]
  <2>1. start \in V
    OBVIOUS
  <2>2. step \in Steps(V)
    <3> SUFFICES ASSUME NEW i \in Nat, NEW t \in V, i + 1 \in 1 .. m PROVE Put(t, i + 1) \in V
      BY DEF Steps
    <3> DEFINE w == Walk(Hash[live[i + 1].key], n)
               x == w[First({j \in DOMAIN w : t[w[j]] = Empty})]
    <3>1. Put(t, i + 1) = [t EXCEPT ![x] = i + 1]
      OBVIOUS
    <3> HIDE DEF x, Put
    <3>2. i + 1 \in 0 .. m
      OBVIOUS
    <3> QED BY <3>1, <3>2
  <2>3. \A i \in Nat, t \in V : step[i][t] = IF i + 1 \in 1 .. m THEN Put(t, i + 1) ELSE t
    OBVIOUS
  <2> HIDE DEF V, start, step
  <2>4. PICK g : Follows(g, V, start, step)
    BY <2>1, <2>2, RecursiveFunction
  <2> DEFINE f == [p \in 0 .. m |-> g[p]]
  <2>5. ASSUME NEW p \in 0 .. m, p # 0 PROVE g[p] = Put(g[p - 1], p)
    <3> HIDE DEF Put
    <3>1. p - 1 \in Nat /\ (p - 1) + 1 = p /\ p \in 1 .. m
      BY <1>1, <2>5
    <3>2. g[p - 1] \in V /\ g[p] = step[p - 1][g[p - 1]]
      BY <2>4, <3>1 DEF Follows
    <3> QED BY <2>3, <3>1, <3>2
  <2>6. g[0] = start
    BY <2>4 DEF Follows
  <2>7. ASSUME NEW p \in 0 .. m
        PROVE  f[p] = IF p = 0 THEN [s \in 1 .. n |-> Empty] ELSE Put(f[p - 1], p)
    <3>1. CASE p = 0
      BY <2>6, <3>1 DEF start
    <3>2. CASE p # 0
      <4>1. p - 1 \in 0 .. m
        BY <1>1, <3>2
      <4>2. f[p - 1] = g[p - 1] /\ f[p] = g[p]
        BY <4>1
      <4> HIDE DEF f, Put
      <4> QED BY <2>5, <3>2, <4>2
    <3> QED BY <3>1, <3>2
  <2>8. f = [p \in 0 .. m |-> f[p]]
    OBVIOUS
  <2> HIDE DEF f, Put
  <2>9. Is(f)
    BY <2>7, <2>8
  <2> HIDE DEF Is
  <2> QED BY <2>9
<1> DEFINE filed == CHOOSE f : Is(f)
<1>3. Is(filed)
  <2> HIDE DEF Is
  <2> QED BY <1>2
<1>4. Filed(live, n) = filed[m]
  BY DEF Filed
<1> HIDE DEF filed
<1>5. filed[0] = [s \in 1 .. n |-> Empty] /\ \A p \in 1 .. m : filed[p] = Put(filed[p - 1], p)
  <2> HIDE DEF Put
  <2>1. \A p \in 0 .. m : filed[p] = IF p = 0 THEN [s \in 1 .. n |-> Empty] ELSE Put(filed[p - 1], p)
    BY <1>3
  <2>2. \A p \in 1 .. m : p \in 0 .. m /\ p # 0
    BY <1>1
  <2> HIDE DEF Is
  <2> QED BY <1>1, <2>1, <2>2
<1> HIDE DEF Is
<1> DEFINE S == {p \in Nat : p <= m => Filing(filed[p], SubSeq(live, 1, p)) /\ Len(filed[p]) = n}
<1>6. 0 \in S
  <2>1. SubSeq(live, 1, 0) = << >>
    BY SubSeqEmpty
  <2>2. Filing(filed[0], << >>)
    BY <1>5, EmptyTable
  <2>3. Len(filed[0]) = n
    <3> HIDE DEF n, Put
    <3>1. filed[0] = [s \in 1 .. n |-> Empty]
      BY <1>5
    <3> QED BY <1>1, <3>1
  <2> HIDE DEF n
  <2> QED BY <2>1, <2>2, <2>3
<1>7. ASSUME NEW p \in S PROVE p + 1 \in S
  <2> SUFFICES ASSUME p + 1 <= m
               PROVE  Filing(filed[p + 1], SubSeq(live, 1, p + 1)) /\ Len(filed[p + 1]) = n
    OBVIOUS
  <2> DEFINE es == SubSeq(live, 1, p)
             e == live[p + 1]
             t == filed[p]
             w == Walk(Hash[e.key], n)
             open == {i \in DOMAIN w : t[w[i]] = Empty}
             s == w[First(open)]
  <2>1. p \in Nat /\ p <= m /\ p + 1 \in 1 .. m /\ (p + 1) - 1 = p
    BY <1>1
  <2>2. Filing(t, es) /\ Len(t) = n
    BY <2>1
  <2> HIDE DEF S
  <2>3. es \in Seq(Entry) /\ Len(es) = p /\ \A i \in 1 .. p : es[i] = live[i]
    <3>1. \A i \in 1 .. p : live[i] \in Entry
      BY <1>1, <2>1
    <3>2. /\ es \in Seq(Entry) /\ Len(es) = IF 1 <= p THEN p - 1 + 1 ELSE 0
          /\ \A i \in 1 .. p - 1 + 1 : es[i] = live[1 + i - 1]
      BY <2>1, <3>1, SubSeqProperties
    <3> HIDE DEF es
    <3>3. p - 1 + 1 = p /\ \A i \in 1 .. p : 1 + i - 1 = i
      BY <2>1
    <3> QED BY <2>1, <3>2, <3>3
  <2>4. SubSeq(live, 1, p + 1) = Append(es, e)
    <3>1. \A i \in 1 .. p + 1 : live[i] \in Entry
      BY <1>1, <2>1
    <3>2. /\ SubSeq(live, 1, p + 1) \in Seq(Entry)
          /\ Len(SubSeq(live, 1, p + 1)) = IF 1 <= p + 1 THEN (p + 1) - 1 + 1 ELSE 0
          /\ \A i \in 1 .. (p + 1) - 1 + 1 : SubSeq(live, 1, p + 1)[i] = live[1 + i - 1]
      BY <2>1, <3>1, SubSeqProperties
    <3> DEFINE fs == SubSeq(live, 1, p + 1)
    <3> HIDE DEF fs, es
    <3>3. (p + 1) - 1 + 1 = p + 1 /\ \A i \in 1 .. p + 1 : 1 + i - 1 = i
      BY <2>1
    <3>4. fs \in Seq(Entry) /\ Len(fs) = p + 1 /\ \A i \in 1 .. p + 1 : fs[i] = live[i]
      BY <2>1, <3>2, <3>3 DEF fs
    <3>5. e \in Entry
      BY <1>1, <2>1
    <3>6. /\ Append(es, e) \in Seq(Entry) /\ Len(Append(es, e)) = p + 1
          /\ Append(es, e)[p + 1] = e /\ \A i \in 1 .. p : Append(es, e)[i] = es[i]
      BY <2>3, <3>5, AppendProperties
    <3>7. \A i \in 1 .. p + 1 : fs[i] = Append(es, e)[i]
      <4> SUFFICES ASSUME NEW i \in 1 .. p + 1 PROVE fs[i] = Append(es, e)[i]
        OBVIOUS
      <4>1. i = p + 1 \/ i \in 1 .. p
        BY <2>1
      <4> QED BY <2>3, <3>4, <3>6, <4>1
    <3>8. fs = Append(es, e)
      BY <3>4, <3>6, <3>7, SeqEqual
    <3> QED BY <3>8 DEF fs
  <2>5. filed[p + 1] = [t EXCEPT ![s] = p + 1]
    <3>1. filed[p + 1] = Put(filed[p], p + 1)
      <4> DEFINE q == p + 1
      <4>1. q \in 1 .. m /\ q - 1 = p
        BY <2>1
      <4> HIDE DEF q, Put
      <4>2. filed[q] = Put(filed[q - 1], q)
        BY <1>5, <4>1
      <4> QED BY <4>1, <4>2 DEF q
    <3> QED BY <3>1
  <2> HIDE DEF es, t
  <2>6. e \in Entry /\ e.key \in Keys
    BY <1>1, <2>1 DEF Entry
  <2>7. Shape(t, es) /\ Roomy(t, es) /\ t # << >> /\ DOMAIN t = 1 .. n
    <3>1. Shape(t, es) /\ Roomy(t, es)
      BY <2>2 DEF Filing
    <3>2. DOMAIN t = 1 .. Len(t)
      BY <3>1, ShapeFacts
    <3> HIDE DEF n
    <3> QED BY <1>1, <2>2, <3>1, <3>2
  <2>8. /\ w \in [1 .. Reach(n) + 1 -> DOMAIN t] /\ Reach(n) \in Nat
        /\ \A u \in DOMAIN t : \E i \in DOMAIN w : w[i] = u
    <3>1. Walk(Hash[e.key], Len(t)) = w
      BY <2>2
    <3> DEFINE key == e.key
    <3> HIDE DEF w, n, e
    <3>2. key \in Keys
      BY <2>6
    <3> HIDE DEF key
    <3>3. /\ Walk(Hash[key], Len(t)) \in [1 .. Reach(Len(t)) + 1 -> DOMAIN t] /\ Reach(Len(t)) \in Nat
          /\ \A u \in DOMAIN t : \E i \in DOMAIN Walk(Hash[key], Len(t)) : Walk(Hash[key], Len(t))[i] = u
      BY <2>7, <3>2, WalkFinds
    <3> QED BY <2>2, <3>1, <3>3 DEF key
  <2> HIDE DEF w, n, e
  <2>9. open \in SUBSET Nat /\ open # {}
    <3>1. PICK u \in DOMAIN t : t[u] = Empty
      BY <2>7, EmptySomewhere
    <3> QED BY <2>8, <3>1
  <2>10. First(open) \in open /\ \A j \in open : First(open) <= j
    <3> HIDE DEF open
    <3> QED BY <2>9, FirstIs
  <2> DEFINE at == First(open)
  <2>11. at \in 1 .. Reach(n) + 1 /\ t[w[at]] = Empty /\ s = w[at]
    BY <2>8, <2>10
  <2>12. \A j \in 1 .. at - 1 : t[w[j]] # Empty
    <3> SUFFICES ASSUME NEW j \in 1 .. at - 1, t[w[j]] = Empty PROVE FALSE
      OBVIOUS
    <3> HIDE DEF at
    <3>1. j \in DOMAIN w /\ ~(at <= j)
      BY <2>8, <2>11
    <3> QED BY <2>10, <3>1 DEF at
  <2> HIDE DEF at, open, s
  <2>13. s \in DOMAIN t /\ t[s] = Empty /\ Reached(t, e.key, s)
    BY <2>2, <2>8, <2>11, <2>12 DEF Reached, w
  <2>14. \A q \in 1 .. Len(es) : es[q] # Hole => Same[es[q].key] # Same[e.key]
    <3> SUFFICES ASSUME NEW q \in 1 .. p, Same[live[q].key] = Same[e.key] PROVE FALSE
      BY <2>3
    <3>1. q \in 1 .. m /\ q # p + 1 /\ live[q] # Hole /\ e # Hole
      BY <1>1, <2>1, <2>6, SentinelsAssumption DEF Entry
    <3> QED BY <2>1, <3>1 DEF KeysOnce, e
  <2>15. (Len(es) + 1) * 3 <= Len(t) * 2
    BY <1>1, <2>1, <2>2, <2>3 DEF n
  <2>16. Filing([t EXCEPT ![s] = Len(es) + 1], Append(es, e))
    BY <2>2, <2>6, <2>13, <2>14, <2>15, NewEntry
  <2>17. Len([t EXCEPT ![s] = p + 1]) = n
    <3>1. Shape([t EXCEPT ![s] = p + 1], Append(es, e))
      BY <2>3, <2>16 DEF Filing
    <3>2. DOMAIN [t EXCEPT ![s] = p + 1] = 1 .. n /\ n \in Nat
      BY <1>1, <2>7
    <3>3. DOMAIN [t EXCEPT ![s] = p + 1] = 1 .. Len([t EXCEPT ![s] = p + 1])
          /\ Len([t EXCEPT ![s] = p + 1]) \in Nat
      BY <3>1, ShapeFacts
    <3> DEFINE a == Len([t EXCEPT ![s] = p + 1])
    <3> HIDE DEF a
    <3>4. 1 .. a = 1 .. n /\ a \in Nat
      BY <3>2, <3>3 DEF a
    <3>5. a = n
      BY <3>2, <3>4
    <3> QED BY <3>5 DEF a
  <2> QED BY <2>3, <2>4, <2>5, <2>16, <2>17
<1>8. S = Nat
  <2> HIDE DEF S
  <2>1. S \subseteq Nat
    BY DEF S
  <2> QED BY <1>6, <1>7, <2>1, Induction
<1>9. Filing(filed[m], SubSeq(live, 1, m)) /\ Len(filed[m]) = n
  <2>1. m \in S
    BY <1>1, <1>8
  <2> QED BY <1>1, <2>1
<1>10. SubSeq(live, 1, m) = live
  BY SubSeqFull
<1> HIDE DEF S, n
<1> QED BY <1>4, <1>9, <1>10 DEF n

LEMMA RebuiltSizeIs ==
  ASSUME NEW live \in Seq(Entry)
  PROVE  \E k \in Nat : RebuiltSize(live) = TwoTo[k] /\ (Len(live) + 1) * 3 <= TwoTo[k]
<1> DEFINE wanted == (Len(live) + 1) * 3
           least == IF wanted > Minimum THEN wanted ELSE Minimum
<1>1. wanted \in Nat /\ Minimum \in Nat
  BY MinimumAssumption
<1>2. RebuiltSize(live) = NextPowerOfTwo(least)
  BY DEF RebuiltSize
<1> HIDE DEF wanted
<1>3. least \in Nat /\ wanted <= least
  BY <1>1
<1> HIDE DEF least
<1>4. PICK k \in Nat : NextPowerOfTwo(least) = TwoTo[k] /\ TwoTo[k] >= least
  BY <1>3, PowerIsNext
<1>5. TwoTo[k] \in Nat
  BY TwoToStep
<1>6. wanted <= TwoTo[k]
  BY <1>1, <1>3, <1>4, <1>5
<1> QED BY <1>2, <1>4, <1>6 DEF wanted

\* The live entries of a filing, in a list of their own.
LEMMA LiveOnce ==
  ASSUME NEW table, NEW es, Filing(table, es)
  PROVE  Live(es) \in Seq(Entry) /\ KeysOnce(Live(es))
<1>1. PICK at : Spread(at, Len(es), es, Live(es))
  BY LiveSpread DEF Filing, Shape
<1> DEFINE L == Live(es)
<1>2. KeysOnce(es)
  BY DEF Filing
<1>3. L \in Seq(Entry) /\ at \in [1 .. Len(L) -> 1 .. Len(es)] /\ Len(L) \in Nat /\ Len(es) \in Nat
  BY <1>1 DEF Spread, Filing, Shape, Listing
<1>4. ASSUME NEW i \in 1 .. Len(L), NEW j \in 1 .. Len(L), Same[L[i].key] = Same[L[j].key]
      PROVE  i = j
  <2>1. at[i] \in 1 .. Len(es) /\ at[j] \in 1 .. Len(es) /\ L[i] = es[at[i]] /\ L[j] = es[at[j]]
        /\ es[at[i]] # Hole /\ es[at[j]] # Hole
    BY <1>1, <1>3 DEF Spread
  <2>2. at[i] = at[j]
    BY <1>2, <1>4, <2>1 DEF KeysOnce
  <2>3. ~(i < j) /\ ~(j < i)
    BY <1>1, <2>1, <2>2, SMTT(20) DEF Spread
  <2> QED BY <1>3, <2>3
<1> QED BY <1>3, <1>4 DEF KeysOnce

LEMMA ReservedIs ==
  ASSUME Filing(indices, entries)
  PROVE  /\ Filing(Reserved.table, Reserved.entries) /\ Reserved.table # << >>
         /\ (Len(Reserved.entries) + 1) * 3 <= Len(Reserved.table) * 2
         /\ Live(Reserved.entries) = Live(entries)
<1>1. Shape(indices, entries) /\ Roomy(indices, entries)
  BY DEF Filing
<1>2. Len(entries) \in Nat /\ Len(indices) \in Nat
  BY <1>1, ShapeFacts
<1>3. CASE indices = << >>
  <2>1. Len(indices) = 0
    BY <1>3
  <2>2. Len(entries) = 0
    BY <1>1, <1>2, <2>1 DEF Roomy
  <2>3. entries = << >>
    BY <1>1, <2>2 DEF Shape, Listing
  <2>4. Reserved = [table |-> NewTable, entries |-> entries]
    BY <1>3 DEF Reserved
  <2>5. PICK e \in 1 .. Minimum : Minimum = TwoTo[e]
    BY MinimumAssumption
  <2>6. Filing(NewTable, << >>)
    BY <2>5, MinimumAssumption, EmptyTable DEF NewTable
  <2>7. Minimum \in Nat /\ Minimum >= 2
    <3>1. e - 1 \in Nat /\ (e - 1) + 1 = e /\ Minimum \in Nat
      BY <2>5, MinimumAssumption
    <3>2. TwoTo[e - 1] \in Nat /\ TwoTo[e - 1] > 0 /\ TwoTo[(e - 1) + 1] = 2 * TwoTo[e - 1]
      BY <3>1, TwoToStep
    <3> QED BY <2>5, <3>1, <3>2
  <2>8. Len(NewTable) = Minimum /\ NewTable # << >>
    BY <2>7 DEF NewTable
  <2> QED BY <2>2, <2>3, <2>4, <2>6, <2>7, <2>8
<1>4. CASE indices # << >> /\ Crowded
  <2> DEFINE live == Live(entries)
             n == RebuiltSize(live)
  <2>1. Reserved = [table |-> Filed(live, n), entries |-> live]
    BY <1>4 DEF Reserved
  <2>2. live \in Seq(Entry) /\ KeysOnce(live) /\ Len(live) \in Nat
    BY LiveOnce
  <2>3. Live(live) = live
    BY <2>2, LiveWhole
  <2> HIDE DEF live
  <2>4. PICK k \in Nat : n = TwoTo[k] /\ (Len(live) + 1) * 3 <= TwoTo[k]
    BY <2>2, RebuiltSizeIs
  <2> HIDE DEF n
  <2>5. TwoTo[k] \in Nat
    BY TwoToStep
  <2>6. Len(live) * 3 <= TwoTo[k] * 2 /\ (Len(live) + 1) * 3 <= TwoTo[k] * 2 /\ TwoTo[k] > 0
    BY <2>2, <2>4, <2>5
  <2>7. Filing(Filed(live, n), live) /\ Len(Filed(live, n)) = n
    BY <2>2, <2>4, <2>6, FiledIs
  <2>8. Filed(live, n) # << >>
    <3> DEFINE t == Filed(live, n)
    <3> HIDE DEF t
    <3>1. Len(t) > 0
      BY <2>4, <2>6, <2>7 DEF t
    <3> QED BY <3>1 DEF t
  <2> QED BY <2>1, <2>3, <2>4, <2>6, <2>7, <2>8 DEF live
<1>5. CASE indices # << >> /\ ~ Crowded
  <2>1. Reserved = [table |-> indices, entries |-> entries]
    BY <1>5 DEF Reserved
  <2>2. (Len(entries) + 1) * 3 <= Len(indices) * 2
    BY <1>2, <1>5 DEF Crowded
  <2> QED BY <1>5, <2>1, <2>2
<1> QED BY <1>3, <1>4, <1>5

-----------------------------------------------------------------------------
(* What a probe says of the list.                                          *)

\* The places of a list that hold a key (Abstract!At).
Having(L, k) == {i \in DOMAIN L : Same[L[i].key] = Same[k]}

LEMMA FoundInList ==
  ASSUME NEW table, NEW es, Filing(table, es), NEW k \in Keys, NEW p, Found(p, table, es, k)
  PROVE  \E at, i : /\ Spread(at, Len(es), es, Live(es)) /\ i \in 1 .. Len(Live(es))
                    /\ at[i] = p.position /\ Live(es)[i] = es[p.position]
                    /\ Having(Live(es), k) = {i}
<1> DEFINE L == Live(es)
<1>1. PICK at : Spread(at, Len(es), es, L)
  BY LiveSpread DEF Filing, Shape
<1>2. p.position \in 1 .. Len(es) /\ es[p.position] # Hole /\ Same[es[p.position].key] = Same[k]
  BY DEF Found
<1>3. PICK i \in 1 .. Len(L) : at[i] = p.position
  BY <1>1, <1>2 DEF Spread
<1>4. L[i] = es[p.position]
  BY <1>1, <1>3 DEF Spread
<1>5. L \in Seq(Entry) /\ KeysOnce(L)
  BY LiveOnce
<1>6. DOMAIN L = 1 .. Len(L) /\ \A j \in 1 .. Len(L) : L[j] # Hole
  <2>1. DOMAIN L = 1 .. Len(L) /\ \A j \in 1 .. Len(L) : L[j] \in Entry
    <3> HIDE DEF L
    <3> QED BY <1>5
  <2>2. \A e \in Entry : e # Hole
    BY SentinelsAssumption DEF Entry
  <2> HIDE DEF L
  <2> QED BY <2>1, <2>2
<1>7. Having(L, k) = {i}
  <2>1. i \in Having(L, k)
    BY <1>2, <1>3, <1>4, <1>6 DEF Having
  <2>2. \A j \in Having(L, k) : j = i
    BY <1>2, <1>4, <1>5, <1>6 DEF Having, KeysOnce
  <2> QED BY <2>1, <2>2
<1> HIDE DEF L
<1> QED BY <1>1, <1>3, <1>4, <1>7 DEF L

LEMMA MissingInList ==
  ASSUME NEW table, NEW es, Filing(table, es), NEW k \in Keys, NEW p, Missing(p, table, es, k)
  PROVE  Having(Live(es), k) = {}
<1>1. PICK at : Spread(at, Len(es), es, Live(es))
  BY LiveSpread DEF Filing, Shape
<1> SUFFICES ASSUME NEW i \in Having(Live(es), k) PROVE FALSE
  OBVIOUS
<1>2. i \in 1 .. Len(Live(es)) /\ Same[Live(es)[i].key] = Same[k]
  BY <1>1 DEF Having, Spread
<1>3. at[i] \in 1 .. Len(es) /\ es[at[i]] # Hole /\ Live(es)[i] = es[at[i]]
  BY <1>1, <1>2 DEF Spread
<1> QED BY <1>2, <1>3 DEF Missing

-----------------------------------------------------------------------------
(* The invariant.                                                          *)

Inv ==
  /\ Filing(indices, entries)
  /\ used = Len(Live(entries))
  /\ answer \in Values \union {None}

LEMMA EmptyDict == Filing(<< >>, << >>) /\ Live(<< >>) = << >>
<1>1. << >> \in Seq(Entry) /\ Len(<< >>) = 0 /\ << >> \in Seq((1 .. 0) \union {Empty, Dummy})
  OBVIOUS
<1>2. Live(<< >>) = << >>
  BY <1>1, LiveWhole
<1>3. << >> \in Listing
  BY <1>1, LiveWhole
<1>4. Cardinality(Taken(<< >>)) = 0
  <2>1. Taken(<< >>) = {}
    BY DEF Taken
  <2> QED BY <2>1, FS_EmptySet
<1>5. Shape(<< >>, << >>) /\ Roomy(<< >>, << >>)
  BY <1>1, <1>3, <1>4 DEF Shape, Roomy
<1> QED BY <1>1, <1>2, <1>5 DEF Filing, Pointing, InReach, KeysOnce

LEMMA InvInit == Init => Inv /\ Abstract!Init
<1> SUFFICES ASSUME Init PROVE Inv /\ Abstract!Init
  OBVIOUS
<1> QED BY EmptyDict DEF Init, Inv, Abstract!Init

LEMMA LookupIs ==
  ASSUME Inv, NEW k \in Keys
  PROVE  \/ /\ Lookup(k).position # Empty /\ Found(Lookup(k), indices, entries, k)
         \/ /\ Lookup(k).position = Empty /\ Having(Live(entries), k) = {}
<1>1. Shape(indices, entries)
  BY DEF Inv, Filing
<1>2. CASE indices = << >>
  <2>1. Len(indices) = 0
    BY <1>2
  <2>2. Len(entries) = 0
    BY <1>1, <2>1, ShapeFacts DEF Inv, Filing, Roomy
  <2>3. entries = << >>
    BY <1>1, <2>2 DEF Shape, Listing
  <2>4. Having(Live(entries), k) = {}
    BY <2>3, EmptyDict DEF Having
  <2> QED BY <1>2, <2>4 DEF Lookup
<1>3. CASE indices # << >>
  <2>1. Lookup(k) = Probe(indices, entries, k)
    BY <1>3 DEF Lookup
  <2>2. Found(Lookup(k), indices, entries, k) \/ Missing(Lookup(k), indices, entries, k)
    BY <1>3, <2>1, ProbeIs DEF Inv
  <2> DEFINE p == Lookup(k)
  <2> HIDE DEF p
  <2>3. Found(p, indices, entries, k) => p.position # Empty
    BY <1>1, ShapeFacts DEF Found
  <2>4. Missing(p, indices, entries, k) => p.position = Empty /\ Having(Live(entries), k) = {}
    BY MissingInList DEF Missing, Inv
  <2> QED BY <2>2, <2>3, <2>4 DEF p
<1> QED BY <1>2, <1>3

-----------------------------------------------------------------------------
(* Every operation keeps the invariant and is the abstract one.            *)

LEMMA GetStep ==
  ASSUME Inv, NEW k \in Keys, Get(k)
  PROVE  Inv' /\ Abstract!Get(k)
<1> DEFINE p == Lookup(k)
           L == Live(entries)
<1>1. /\ answer' = IF p.position = Empty THEN None ELSE entries[p.position].value
      /\ indices' = indices /\ entries' = entries /\ used' = used
  BY DEF Get
<1>2. \/ p.position # Empty /\ Found(p, indices, entries, k)
      \/ p.position = Empty /\ Having(L, k) = {}
  BY LookupIs
<1> HIDE DEF p
<1>3. CASE p.position # Empty /\ Found(p, indices, entries, k)
  <2>1. PICK i : i \in 1 .. Len(L) /\ L[i] = entries[p.position] /\ Having(L, k) = {i}
    BY <1>3, FoundInList DEF Inv
  <2>2. (CHOOSE j \in {i} : TRUE) = i
    OBVIOUS
  <2>3. entries[p.position].value \in Values
    <3>1. p.position \in 1 .. Len(entries) /\ entries[p.position] # Hole
      BY <1>3 DEF Found
    <3>2. entries[p.position] \in Entry
      BY <3>1, ShapeFacts DEF Inv, Filing
    <3> QED BY <3>2 DEF Entry
  <2>4. Inv'
    BY <1>1, <1>3, <2>3 DEF Inv
  <2>5. Abstract!Get(k)
    BY <1>1, <1>3, <2>1, <2>2 DEF Abstract!Get, Abstract!At, Having
  <2> QED BY <2>4, <2>5
<1>4. CASE p.position = Empty /\ Having(L, k) = {}
  <2>1. Inv'
    BY <1>1, <1>4 DEF Inv
  <2>2. Abstract!Get(k)
    BY <1>1, <1>4 DEF Abstract!Get, Abstract!At, Having
  <2> QED BY <2>1, <2>2
<1> QED BY <1>2, <1>3, <1>4

LEMMA InsertStep ==
  ASSUME Inv, NEW k \in Keys, NEW v \in Values, Insert(k, v)
  PROVE  Inv' /\ Abstract!Insert(k, v)
<1> DEFINE r == Reserved
           p == Probe(r.table, r.entries, k)
           L == Live(r.entries)
<1>1. /\ Filing(r.table, r.entries) /\ r.table # << >>
      /\ (Len(r.entries) + 1) * 3 <= Len(r.table) * 2
      /\ L = Live(entries)
  BY ReservedIs DEF Inv
<1>2. IF p.position # Empty
        THEN /\ answer' = r.entries[p.position].value
             /\ entries' = [r.entries EXCEPT ![p.position].value = v]
             /\ indices' = r.table
             /\ used' = used
        ELSE /\ answer' = None
             /\ entries' = Append(r.entries, [key |-> k, value |-> v])
             /\ indices' = [r.table EXCEPT ![p.slot] = Len(r.entries) + 1]
             /\ used' = used + 1
  BY DEF Insert
<1>3. Found(p, r.table, r.entries, k) \/ Missing(p, r.table, r.entries, k)
  <2> HIDE DEF r
  <2> QED BY <1>1, ProbeIs
<1> HIDE DEF r, p
<1>4. Shape(r.table, r.entries) /\ r.entries \in Listing /\ Len(L) \in Nat
  BY <1>1, LiveOnce DEF Filing, Shape
<1>5. CASE Found(p, r.table, r.entries, k)
  <2>1. PICK at, i : /\ Spread(at, Len(r.entries), r.entries, L) /\ i \in 1 .. Len(L)
                     /\ at[i] = p.position /\ L[i] = r.entries[p.position] /\ Having(L, k) = {i}
    BY <1>1, <1>5, FoundInList
  <2>2. p.position # Empty /\ p.position \in 1 .. Len(r.entries) /\ r.entries[p.position] # Hole
    BY <1>4, <1>5, ShapeFacts DEF Found
  <2>3. r.entries[p.position].value \in Values
    <3>1. r.entries[p.position] \in Entry
      BY <1>4, <2>2, ShapeFacts
    <3> QED BY <3>1 DEF Entry
  <2>4. Filing(indices', entries')
    BY <1>1, <1>2, <2>2, NewValue
  <2>5. Live(entries') = [L EXCEPT ![i].value = v]
    <3> DEFINE es == r.entries
               e == [es[at[i]] EXCEPT !.value = v]
    <3>1. entries' = [es EXCEPT ![at[i]].value = v]
      BY <1>2, <2>1, <2>2
    <3>2. es \in Listing /\ Spread(at, Len(es), es, Live(es)) /\ i \in 1 .. Len(Live(es))
      BY <1>4, <2>1
    <3>3. es[at[i]] \in Entry /\ es[at[i]] = Live(es)[i]
      BY <1>4, <2>1, <2>2, ShapeFacts
    <3> HIDE DEF es
    <3>4. entries' = [es EXCEPT ![at[i]] = e]
      BY <3>1
    <3>5. e \in Entry
      BY <3>3 DEF Entry
    <3>6. [Live(es) EXCEPT ![i].value = v] = [Live(es) EXCEPT ![i] = e]
      BY <3>3
    <3> HIDE DEF e
    <3>7. Live([es EXCEPT ![at[i]] = e]) = [Live(es) EXCEPT ![i] = e]
      BY <3>2, <3>5, LiveOverwritten
    <3> QED BY <3>4, <3>6, <3>7 DEF es
  <2>6. Len([L EXCEPT ![i].value = v]) = Len(L)
    BY <1>1, LiveOnce
  <2>7. Inv'
    BY <1>1, <1>2, <2>2, <2>3, <2>4, <2>5, <2>6 DEF Inv
  <2>8. Abstract!Insert(k, v)
    <3>1. i \in Abstract!At(k)
      BY <1>1, <2>1 DEF Abstract!At, Having
    <3>2. answer' = Live(entries)[i].value /\ Live(entries') = [Live(entries) EXCEPT ![i].value = v]
      BY <1>1, <1>2, <2>1, <2>2, <2>5
    <3> QED BY <3>1, <3>2 DEF Abstract!Insert
  <2> QED BY <2>7, <2>8
<1>6. CASE Missing(p, r.table, r.entries, k)
  <2> DEFINE e == [key |-> k, value |-> v]
  <2>1. e \in Entry /\ e.key = k
    BY DEF Entry
  <2>2. p.position = Empty /\ Having(L, k) = {}
    BY <1>1, <1>6, MissingInList DEF Missing
  <2>3. entries' = Append(r.entries, e) /\ indices' = [r.table EXCEPT ![p.slot] = Len(r.entries) + 1]
        /\ answer' = None /\ used' = used + 1
    BY <1>2, <2>2
  <2> HIDE DEF e
  <2>4. Filing(indices', entries')
    BY <1>1, <1>6, <2>1, <2>3, NewEntry DEF Missing
  <2>5. Live(entries') = Append(L, e)
    BY <1>4, <2>1, <2>3, LiveAppended
  <2>6. Len(Append(L, e)) = Len(L) + 1
    BY <1>1, <2>1, LiveOnce, AppendProperties
  <2>7. Inv'
    BY <1>1, <2>3, <2>4, <2>5, <2>6 DEF Inv
  <2>8. Abstract!Insert(k, v)
    BY <1>1, <2>2, <2>3, <2>5 DEF Abstract!Insert, Abstract!At, Having, e
  <2> QED BY <2>7, <2>8
<1> QED BY <1>3, <1>5, <1>6

LEMMA RemoveStep ==
  ASSUME Inv, NEW k \in Keys, Remove(k)
  PROVE  /\ Inv'
         /\ \/ Abstract!At(k) = {} /\ answer' = None /\ Live(entries') = Live(entries)
            \/ \E i : /\ Abstract!At(k) = {i} /\ i \in 1 .. Len(Live(entries))
                      /\ Live(entries') = But(Live(entries), i) /\ answer' = Live(entries)[i].value
<1> DEFINE p == Lookup(k)
           L == Live(entries)
<1>1. IF p.position = Empty
        THEN answer' = None /\ indices' = indices /\ entries' = entries /\ used' = used
        ELSE /\ indices' = [indices EXCEPT ![p.slot] = Dummy]
             /\ entries' = [entries EXCEPT ![p.position] = Hole]
             /\ used' = used - 1
             /\ answer' = entries[p.position].value
  BY DEF Remove
<1>2. \/ p.position # Empty /\ Found(p, indices, entries, k)
      \/ p.position = Empty /\ Having(L, k) = {}
  BY LookupIs
<1> HIDE DEF p
<1>3. CASE p.position # Empty /\ Found(p, indices, entries, k)
  <2>1. PICK at, i : /\ Spread(at, Len(entries), entries, L) /\ i \in 1 .. Len(L)
                     /\ at[i] = p.position /\ L[i] = entries[p.position] /\ Having(L, k) = {i}
    BY <1>3, FoundInList DEF Inv
  <2>2. /\ p.slot \in DOMAIN indices /\ p.position = indices[p.slot]
        /\ p.position \in 1 .. Len(entries) /\ entries[p.position] # Hole
    BY <1>3 DEF Found
  <2>3. entries[p.position].value \in Values
    <3>1. entries[p.position] \in Entry
      BY <2>2, ShapeFacts DEF Inv, Filing
    <3> QED BY <3>1 DEF Entry
  <2>4. Filing(indices', entries')
    BY <1>1, <1>3, <2>2, NoEntry DEF Inv
  <2>5. Live(entries') = But(L, i)
    BY <1>1, <1>3, <2>1, LiveDeleted DEF Inv, Filing, Shape
  <2>6. Len(But(L, i)) = Len(L) - 1
    BY <2>1, LiveOnce, ButIs DEF Inv
  <2>7. Inv'
    BY <1>1, <1>3, <2>3, <2>4, <2>5, <2>6 DEF Inv
  <2>8. Abstract!At(k) = {i} /\ answer' = L[i].value
    BY <1>1, <1>3, <2>1 DEF Abstract!At, Having
  <2> QED BY <2>1, <2>5, <2>7, <2>8
<1>4. CASE p.position = Empty /\ Having(L, k) = {}
  <2>1. Inv'
    BY <1>1, <1>4 DEF Inv
  <2>2. Abstract!At(k) = {}
    BY <1>4 DEF Abstract!At, Having
  <2> QED BY <1>1, <1>4, <2>1, <2>2
<1> QED BY <1>2, <1>3, <1>4

\* Abstract!Without is But.
LEMMA RemoveIs ==
  ASSUME Inv, NEW k \in Keys, Remove(k)
  PROVE  Inv' /\ Abstract!Remove(k)
<1>1. CASE Abstract!At(k) = {} /\ answer' = None /\ Live(entries') = Live(entries)
  <2>1. Abstract!Remove(k)
    BY <1>1 DEF Abstract!Remove
  <2> QED BY <2>1, RemoveStep
<1>2. ASSUME NEW i, Abstract!At(k) = {i}, Live(entries') = But(Live(entries), i),
             answer' = Live(entries)[i].value
      PROVE  Abstract!Remove(k)
  <2>1. Abstract!Without(i) = But(Live(entries), i)
    BY DEF Abstract!Without, But
  <2> QED BY <1>2, <2>1 DEF Abstract!Remove
<1> QED BY <1>1, <1>2, RemoveStep

LEMMA PopItemStep == ASSUME Inv, PopItem PROVE Inv' /\ Abstract!PopItem
<1> DEFINE L == Live(entries)
           k == L[used].key
<1>1. L \in Seq(Entry) /\ used = Len(L) /\ used > 0 /\ used \in 1 .. Len(L) /\ L # << >>
  <2>1. L \in Seq(Entry) /\ used = Len(L) /\ used > 0
    BY LiveOnce DEF Inv, PopItem
  <2> HIDE DEF L
  <2> QED BY <2>1
<1>2. k \in Keys
  <2>1. L[used] \in Entry
    BY <1>1
  <2> QED BY <2>1 DEF Entry
<1>3. Remove(k)
  BY DEF PopItem
<1>4. used \in Abstract!At(k)
  BY <1>1 DEF Abstract!At
<1> HIDE DEF k
<1>5. Inv' /\ Live(entries') = But(L, used) /\ answer' = L[used].value
  BY <1>2, <1>3, <1>4, RemoveStep
<1>6. Abstract!Without(Len(L)) = But(L, used)
  BY <1>1 DEF Abstract!Without, But
<1> QED BY <1>1, <1>5, <1>6 DEF Abstract!PopItem

LEMMA SetDefaultStep ==
  ASSUME Inv, NEW k \in Keys, NEW v \in Values, SetDefault(k, v)
  PROVE  Inv' /\ Abstract!SetDefault(k, v)
<1>1. CASE Contains(k)
  <2>1. Get(k)
    BY <1>1 DEF SetDefault
  <2>2. Found(Lookup(k), indices, entries, k)
    BY <1>1, LookupIs DEF Contains
  <2>3. Abstract!At(k) # {}
    BY <2>2, FoundInList DEF Inv, Abstract!At, Having
  <2>4. Inv' /\ Abstract!Get(k)
    BY <2>1, GetStep
  <2> QED BY <2>3, <2>4 DEF Abstract!SetDefault
<1>2. CASE ~ Contains(k)
  <2>1. Insert(k, v)
    BY <1>2 DEF SetDefault
  <2>2. Abstract!At(k) = {}
    BY <1>2, LookupIs DEF Contains, Abstract!At, Having
  <2>3. Inv' /\ Abstract!Insert(k, v)
    BY <2>1, InsertStep
  <2> QED BY <2>2, <2>3 DEF Abstract!SetDefault
<1> QED BY <1>1, <1>2

LEMMA ClearStep == ASSUME Clear PROVE Inv' /\ Abstract!Clear
<1> QED BY EmptyDict DEF Clear, Inv, Abstract!Clear

LEMMA StepIs == ASSUME Inv, [Next]_vars PROVE Inv' /\ [Abstract!Next]_(Abstract!vars)
<1>1. ASSUME NEW k \in Keys, Get(k) PROVE Inv' /\ Abstract!Next
  BY <1>1, GetStep DEF Abstract!Next
<1>2. ASSUME NEW k \in Keys, Remove(k) PROVE Inv' /\ Abstract!Next
  BY <1>2, RemoveIs DEF Abstract!Next
<1>3. ASSUME NEW k \in Keys, NEW v \in Values, Insert(k, v) PROVE Inv' /\ Abstract!Next
  BY <1>3, InsertStep DEF Abstract!Next
<1>4. ASSUME NEW k \in Keys, NEW v \in Values, SetDefault(k, v) PROVE Inv' /\ Abstract!Next
  BY <1>4, SetDefaultStep DEF Abstract!Next
<1>5. ASSUME PopItem PROVE Inv' /\ Abstract!Next
  BY <1>5, PopItemStep DEF Abstract!Next
<1>6. ASSUME Clear PROVE Inv' /\ Abstract!Next
  BY <1>6, ClearStep DEF Abstract!Next
<1>7. ASSUME UNCHANGED vars PROVE Inv' /\ UNCHANGED Abstract!vars
  BY <1>7 DEF vars, Inv, Abstract!vars
<1> QED BY <1>1, <1>2, <1>3, <1>4, <1>5, <1>6, <1>7 DEF Next

LEMMA InvSays == ASSUME Inv PROVE TypeOK /\ SlotsAndEntries /\ WalksEnd
<1>1. Shape(indices, entries) /\ Roomy(indices, entries) /\ Pointing(indices, entries)
  BY DEF Inv, Filing
<1>2. DOMAIN entries = 1 .. Len(entries)
  BY <1>1 DEF Shape, Listing
<1>3. TypeOK
  BY <1>1, <1>2 DEF Inv, TypeOK, Shape, Listing
<1>4. SlotsAndEntries
  <2> SUFFICES ASSUME NEW p \in DOMAIN entries, entries[p] # Hole
               PROVE  Cardinality({s \in DOMAIN indices : indices[s] = p}) = 1
    BY <1>1, <1>2 DEF SlotsAndEntries, Pointing
  <2>1. PICK s \in DOMAIN indices : indices[s] = p
    BY <1>1, <1>2 DEF Pointing
  <2>2. {t \in DOMAIN indices : indices[t] = p} = {s}
    BY <1>1, <1>2, <2>1 DEF Pointing
  <2> QED BY <2>2, FS_Singleton
<1>5. WalksEnd
  <2> SUFFICES ASSUME indices # << >>, NEW k \in Keys
               PROVE  \E i \in DOMAIN Walk(Hash[k], Len(indices)) :
                        indices[Walk(Hash[k], Len(indices))[i]] = Empty
    BY DEF WalksEnd
  <2>1. PICK s \in DOMAIN indices : indices[s] = Empty
    BY <1>1, EmptySomewhere
  <2> QED BY <1>1, <2>1, WalkFinds
<1> QED BY <1>3, <1>4, <1>5

-----------------------------------------------------------------------------
LEMMA InvHolds == Spec => []Inv
<1>1. Init => Inv
  BY InvInit
<1>2. Inv /\ [Next]_vars => Inv'
  BY StepIs
<1> QED BY <1>1, <1>2, PTL DEF Spec

(* The table and the entries are what they should be: a slot is empty, a   *)
(* tombstone or a position, and the count is the number of live entries.   *)
THEOREM Typed == Spec => []TypeOK
<1>1. Inv => TypeOK
  BY InvSays
<1> QED BY <1>1, InvHolds, PTL

(* However the inserts, the deletions and the rebuilds followed each       *)
(* other, a slot points at a live entry and every live entry has one slot. *)
THEOREM SlotsMatchEntries == Spec => []SlotsAndEntries
<1>1. Inv => SlotsAndEntries
  BY InvSays
<1> QED BY <1>1, InvHolds, PTL

(* Every walk comes to an empty slot, tombstones or not: Walk::next needs  *)
(* no bound.                                                               *)
THEOREM EveryWalkEnds == Spec => []WalksEnd
<1>1. Inv => WalksEnd
  BY InvSays
<1> QED BY <1>1, InvHolds, PTL

(* The dict implements the ordered map, for all keys, hashes and values.   *)
THEOREM ImplementsMap == Spec => RefinesAbstract
<1>1. Init => Abstract!Init
  BY InvInit
<1>2. Inv /\ [Next]_vars => [Abstract!Next]_(Abstract!vars)
  BY StepIs
<1> QED BY <1>1, <1>2, InvHolds, PTL DEF Spec, RefinesAbstract, Abstract!Spec

-----------------------------------------------------------------------------
(* A loop over a dict.                                                     *)

Home(es, p, k) == p \in 1 .. Len(es) /\ es[p] # Hole /\ KeyOf(es[p]) = k

\* A key that stays moves towards the front if it moves, and past no other.
Moves(es, fs) ==
  /\ \A k, p, q : Home(es, p, k) /\ Home(fs, q, k) => q <= p
  /\ \A j, k, p, q, s, t :
       Home(es, p, j) /\ Home(fs, q, j) /\ Home(es, s, k) /\ Home(fs, t, k) /\ p < s => q < t

LEMMA OneHome ==
  ASSUME NEW es, KeysOnce(es), NEW k, NEW p, Home(es, p, k), NEW q, Home(es, q, k)
  PROVE  p = q
BY DEF Home, KeysOnce, KeyOf

LEMMA PlaceIs ==
  ASSUME NEW es \in Listing, KeysOnce(es), NEW k
  PROVE  /\ k \in Present(es) <=> \E p : Home(es, p, k)
         /\ k \in Present(es) => Home(es, Place(es, k), k) /\ Place(es, k) \in Nat
         /\ \A p : Home(es, p, k) => Place(es, k) = p
<1>1. DOMAIN es = 1 .. Len(es)
  BY DEF Listing
<1>2. k \in Present(es) <=> \E p : Home(es, p, k)
  BY <1>1 DEF Present, Home
<1>3. \A p : Home(es, p, k) => Home(es, Place(es, k), k)
  <2> SUFFICES ASSUME NEW p, Home(es, p, k) PROVE Home(es, Place(es, k), k)
    OBVIOUS
  <2>1. \E q \in DOMAIN es : es[q] # Hole /\ KeyOf(es[q]) = k
    BY <1>1 DEF Home
  <2>2. Place(es, k) \in DOMAIN es /\ es[Place(es, k)] # Hole /\ KeyOf(es[Place(es, k)]) = k
    BY <2>1 DEF Place
  <2> QED BY <1>1, <2>2 DEF Home
<1>4. \A p : Home(es, p, k) => Place(es, k) = p
  BY <1>3, OneHome
<1>5. \A p : Home(es, p, k) => p \in Nat
  BY DEF Home
<1> QED BY <1>2, <1>3, <1>4, <1>5

LEMMA StayingPut ==
  ASSUME NEW es, KeysOnce(es), NEW fs,
         \A k, q : Home(fs, q, k) => Home(es, q, k) \/ \A p : ~ Home(es, p, k)
  PROVE  Moves(es, fs)
<1>1. \A k, p, q : Home(es, p, k) /\ Home(fs, q, k) => q = p
  BY OneHome
<1>2. \A k, p : Home(es, p, k) => p <= p
  BY DEF Home
<1> QED BY <1>1, <1>2 DEF Moves

LEMMA Compacting ==
  ASSUME NEW table, NEW es, Filing(table, es)
  PROVE  Moves(es, Live(es)) /\ \A k, p : Home(es, p, k) => \E q : Home(Live(es), q, k)
<1> DEFINE L == Live(es)
<1>1. PICK at : Spread(at, Len(es), es, L)
  BY LiveSpread DEF Filing, Shape
<1>2. /\ L \in Seq(Entry) /\ Len(L) \in Nat /\ Len(es) \in Nat /\ at \in [1 .. Len(L) -> 1 .. Len(es)]
      /\ KeysOnce(es)
  BY <1>1 DEF Spread, Filing, Shape, Listing
<1>3. \A k, q : Home(L, q, k) => q \in 1 .. Len(L) /\ Home(es, at[q], k)
  BY <1>1, <1>2 DEF Spread, Home
<1>4. \A e \in Entry : e # Hole
  BY SentinelsAssumption DEF Entry
<1> HIDE DEF L
<1>5. ASSUME NEW k, NEW p, Home(es, p, k) PROVE \E q : Home(L, q, k)
  <2>1. PICK q \in 1 .. Len(L) : at[q] = p
    BY <1>1, <1>5 DEF Spread, Home
  <2>2. L[q] \in Entry /\ L[q] = es[p]
    BY <1>1, <1>2, <2>1 DEF Spread
  <2> QED BY <1>4, <1>5, <2>2 DEF Home
<1>6. \A q \in 1 .. Len(L) : q <= at[q]
  <2> DEFINE S == {q \in Nat : q \in 1 .. Len(L) => q <= at[q]}
  <2>1. 0 \in S
    OBVIOUS
  <2>2. ASSUME NEW q \in S PROVE q + 1 \in S
    <3> SUFFICES ASSUME q + 1 \in 1 .. Len(L) PROVE q + 1 <= at[q + 1]
      OBVIOUS
    <3>1. at[q + 1] \in 1 .. Len(es)
      BY <1>2
    <3>2. CASE q = 0
      BY <3>1, <3>2
    <3>3. CASE q # 0
      <4>1. q \in 1 .. Len(L) /\ q \in Nat
        BY <1>2, <3>3
      <4>2. at[q] \in 1 .. Len(es) /\ q <= at[q]
        BY <1>2, <4>1
      <4>3. at[q] < at[q + 1]
        BY <1>1, <4>1 DEF Spread
      <4> QED BY <3>1, <4>1, <4>2, <4>3
    <3> QED BY <3>2, <3>3
  <2>3. S = Nat
    <3> HIDE DEF S
    <3>1. S \subseteq Nat
      BY DEF S
    <3> QED BY <2>1, <2>2, <3>1, Induction
  <2> QED BY <2>3
<1>7. \A k, p, q : Home(es, p, k) /\ Home(L, q, k) => q \in 1 .. Len(L) /\ at[q] = p
  BY <1>2, <1>3, OneHome
<1>8. \A k, p, q : Home(es, p, k) /\ Home(L, q, k) => q <= p
  BY <1>6, <1>7
<1>9. ASSUME NEW j, NEW k, NEW p, NEW q, NEW s, NEW t,
             Home(es, p, j), Home(L, q, j), Home(es, s, k), Home(L, t, k), p < s
      PROVE  q < t
  <2>1. q \in 1 .. Len(L) /\ t \in 1 .. Len(L) /\ at[q] = p /\ at[t] = s
    BY <1>7, <1>9
  <2>2. p \in 1 .. Len(es) /\ s \in 1 .. Len(es)
    BY <1>9 DEF Home
  <2>3. t < q => at[t] < at[q]
    BY <1>1, <2>1 DEF Spread
  <2>4. t # q /\ ~(t < q)
    BY <1>9, <2>1, <2>2, <2>3
  <2> QED BY <1>2, <2>1, <2>4
<1>10. Moves(es, L)
  BY <1>8, <1>9 DEF Moves
<1> QED BY <1>5, <1>10 DEF L

LEMMA MovesOn ==
  ASSUME NEW es, NEW rs, NEW fs, Moves(es, rs), Moves(rs, fs),
         \A k, p : Home(es, p, k) => \E q : Home(rs, q, k)
  PROVE  Moves(es, fs)
<1>1. ASSUME NEW k, NEW p, NEW q, Home(es, p, k), Home(fs, q, k) PROVE q <= p
  <2>1. PICK m : Home(rs, m, k)
    BY <1>1
  <2>2. m <= p /\ q <= m
    BY <1>1, <2>1 DEF Moves
  <2>3. m \in Nat /\ p \in Nat /\ q \in Nat
    BY <1>1, <2>1 DEF Home
  <2> QED BY <2>2, <2>3
<1>2. ASSUME NEW j, NEW k, NEW p, NEW q, NEW s, NEW t,
             Home(es, p, j), Home(fs, q, j), Home(es, s, k), Home(fs, t, k), p < s
      PROVE  q < t
  <2>1. PICK m : Home(rs, m, j)
    BY <1>2
  <2>2. PICK n : Home(rs, n, k)
    BY <1>2
  <2>3. m < n
    BY <1>2, <2>1, <2>2 DEF Moves
  <2> QED BY <1>2, <2>1, <2>2, <2>3 DEF Moves
<1> QED BY <1>1, <1>2 DEF Moves

LEMMA ReservedMoves ==
  ASSUME Inv
  PROVE  /\ Moves(entries, Reserved.entries)
         /\ \A k, p : Home(entries, p, k) => \E q : Home(Reserved.entries, q, k)
<1>1. Moves(entries, entries)
  BY StayingPut DEF Inv, Filing
<1>2. CASE indices # << >> /\ Crowded
  <2>1. Reserved.entries = Live(entries)
    BY <1>2 DEF Reserved
  <2> QED BY <2>1, Compacting DEF Inv
<1>3. CASE ~(indices # << >> /\ Crowded)
  <2>1. Reserved.entries = entries
    BY <1>3 DEF Reserved
  <2> QED BY <1>1, <2>1
<1> QED BY <1>2, <1>3

LEMMA InsertMoves ==
  ASSUME Inv, NEW k \in Keys, NEW v \in Values, Insert(k, v)
  PROVE  Moves(entries, entries')
<1> DEFINE r == Reserved
           p == Probe(r.table, r.entries, k)
           rs == r.entries
<1>1. Filing(r.table, rs) /\ r.table # << >>
  BY ReservedIs DEF Inv
<1>2. IF p.position # Empty
        THEN entries' = [rs EXCEPT ![p.position].value = v]
        ELSE entries' = Append(rs, [key |-> k, value |-> v])
  BY DEF Insert
<1>3. Found(p, r.table, rs, k) \/ Missing(p, r.table, rs, k)
  <2> HIDE DEF r
  <2> QED BY <1>1, ProbeIs
<1> HIDE DEF r, p
<1>4. rs \in Listing /\ KeysOnce(rs) /\ Len(rs) \in Nat /\ \A q \in 1 .. Len(rs) : rs[q] \in Entry \/ rs[q] = Hole
  BY <1>1, ShapeFacts DEF Filing, Shape
<1> HIDE DEF rs
<1>5. Moves(rs, entries')
  <2>1. CASE Found(p, r.table, rs, k)
    <3>1. p.position # Empty /\ p.position \in 1 .. Len(rs) /\ rs[p.position] # Hole
      BY <1>1, <2>1, ShapeFacts DEF Found, Filing
    <3> DEFINE m == p.position
               e == [rs[m] EXCEPT !.value = v]
    <3>2. entries' = [rs EXCEPT ![m] = e]
      BY <1>2, <3>1
    <3>3. rs[m] \in Entry
      BY <1>4, <3>1
    <3>4. e \in Entry /\ e.key = rs[m].key
      BY <3>3 DEF Entry
    <3> HIDE DEF m, e
    <3>5. m \in 1 .. Len(rs) /\ rs[m] # Hole
      BY <3>1 DEF m
    <3>6. Len(entries') = Len(rs) /\ \A q \in 1 .. Len(rs) : entries'[q] = IF q = m THEN e ELSE rs[q]
      BY <1>4, <3>2, <3>4, <3>5, ExceptSeq DEF Listing
    <3>7. \A j, q : Home(entries', q, j) => Home(rs, q, j)
      BY <3>4, <3>5, <3>6 DEF Home, KeyOf
    <3> QED BY <1>4, <3>7, StayingPut
  <2>2. CASE Missing(p, r.table, rs, k)
    <3> DEFINE e == [key |-> k, value |-> v]
    <3>1. entries' = Append(rs, e) /\ e \in Entry /\ e.key = k
      BY <1>2, <2>2 DEF Missing, Entry
    <3> HIDE DEF e
    <3>2. /\ Len(entries') = Len(rs) + 1 /\ entries'[Len(rs) + 1] = e
          /\ \A q \in 1 .. Len(rs) : entries'[q] = rs[q]
      BY <1>4, <3>1, AppendProperties DEF Listing
    <3>3. \A q : ~ Home(rs, q, KeyOf(e))
      BY <2>2, <3>1 DEF Missing, Home, KeyOf
    <3>4. ASSUME NEW j, NEW q, Home(entries', q, j)
          PROVE  Home(rs, q, j) \/ \A m : ~ Home(rs, m, j)
      <4>1. q = Len(rs) + 1 \/ q \in 1 .. Len(rs)
        BY <1>4, <3>2, <3>4 DEF Home
      <4> QED BY <3>2, <3>3, <3>4, <4>1 DEF Home
    <3> QED BY <1>4, <3>4, StayingPut
  <2> QED BY <1>3, <2>1, <2>2
<1>6. Moves(entries, rs) /\ \A j, q : Home(entries, q, j) => \E m : Home(rs, m, j)
  BY ReservedMoves DEF rs, r
<1> QED BY <1>5, <1>6, MovesOn

LEMMA RemoveMoves ==
  ASSUME Inv, NEW k \in Keys, Remove(k)
  PROVE  Moves(entries, entries')
<1> DEFINE p == Lookup(k)
<1>1. entries' = entries \/ entries' = [entries EXCEPT ![p.position] = Hole]
  BY DEF Remove
<1>2. \A j, q : Home(entries', q, j) => Home(entries, q, j)
  <2>1. entries \in Seq(Entry \union {Hole})
    BY DEF Inv, Filing, Shape, Listing
  <2> HIDE DEF p
  <2>2. Len([entries EXCEPT ![p.position] = Hole]) = Len(entries)
    BY <2>1
  <2> QED BY <1>1, <2>1, <2>2 DEF Home
<1> QED BY <1>2, StayingPut DEF Inv, Filing

LEMMA BodyMoves == ASSUME Inv, Next PROVE Moves(entries, entries')
<1>1. ASSUME entries' = entries PROVE Moves(entries, entries')
  BY <1>1, StayingPut DEF Inv, Filing
<1>2. ASSUME NEW k \in Keys, Get(k) PROVE Moves(entries, entries')
  BY <1>1, <1>2 DEF Get
<1>3. ASSUME NEW k \in Keys, Remove(k) PROVE Moves(entries, entries')
  BY <1>3, RemoveMoves
<1>4. ASSUME NEW k \in Keys, NEW v \in Values, Insert(k, v) PROVE Moves(entries, entries')
  BY <1>4, InsertMoves
<1>5. ASSUME NEW k \in Keys, NEW v \in Values, SetDefault(k, v) PROVE Moves(entries, entries')
  BY <1>2, <1>4, <1>5 DEF SetDefault
<1>6. ASSUME PopItem PROVE Moves(entries, entries')
  <2> DEFINE k == Live(entries)[used].key
  <2>1. Remove(k)
    BY <1>6 DEF PopItem
  <2>2. used \in 1 .. Len(Live(entries)) /\ Live(entries) \in Seq(Entry)
    <3>1. Live(entries) \in Seq(Entry) /\ used = Len(Live(entries)) /\ used > 0
      BY <1>6, LiveOnce DEF Inv, PopItem
    <3> QED BY <3>1
  <2>3. k \in Keys
    <3>1. Live(entries)[used] \in Entry
      BY <2>2
    <3> QED BY <3>1 DEF Entry
  <2> HIDE DEF k
  <2> QED BY <1>3, <2>1, <2>3
<1>7. ASSUME Clear PROVE Moves(entries, entries')
  <2>1. \A q, j : ~ Home(entries', q, j)
    BY <1>7 DEF Clear, Home
  <2> QED BY <2>1, StayingPut DEF Inv, Filing
<1> QED BY <1>2, <1>3, <1>4, <1>5, <1>6, <1>7 DEF Next

LoopType ==
  [state : {"none", "going", "done", "raised"}, at : Nat, size : Nat, seen : Seq(Keys),
   kept : SUBSET Keys, calm : BOOLEAN, moved : BOOLEAN, steps : Nat]

\* A kept key that came out is not ahead of the position, and one that is not
\* ahead of it came out, unless a rebuild moved it there.
Behind ==
  /\ \A i \in DOMAIN loop.seen : loop.seen[i] \in loop.kept => Place(entries, loop.seen[i]) <= loop.at
  /\ ~loop.moved => \A k \in loop.kept : Place(entries, k) <= loop.at => k \in Seen

LoopInv ==
  /\ loop \in LoopType
  /\ loop.kept \subseteq Present(entries)
  /\ loop.state = "none" => loop = NoLoop
  /\ Behind
  /\ InOrderOnce
  /\ CompleteUnlessMoved

LEMMA NoLoopIs ==
  ASSUME loop = NoLoop
  PROVE  LoopInv
<1>1. /\ loop.state = "none" /\ loop.seen = << >> /\ loop.kept = {} /\ loop.moved = FALSE
      /\ loop.at = 0 /\ loop.size = 0 /\ loop.calm = TRUE /\ loop.steps = 0
  BY DEF NoLoop, Loop
<1>2. loop \in LoopType
  BY DEF NoLoop, Loop, LoopType
<1> QED BY <1>1, <1>2 DEF LoopInv, Behind, InOrderOnce, CompleteUnlessMoved, Finished

LEMMA PresentKeys == ASSUME Inv PROVE Present(entries) \subseteq Keys
<1>1. \A p \in DOMAIN entries : entries[p] # Hole => entries[p] \in Entry
  BY DEF Inv, Filing, Shape, Listing
<1> QED BY <1>1, KeysAssumption DEF Present, KeyOf, Entry

LEMMA OverStep == ASSUME Inv, Over PROVE LoopInv'
<1>1. /\ loop' = [state |-> "going", at |-> 0, size |-> used, seen |-> << >>,
                  kept |-> Present(entries), calm |-> TRUE, moved |-> FALSE, steps |-> 0]
      /\ entries' = entries
  BY DEF Over, Loop, vars
<1>2. loop' \in LoopType
  BY <1>1, PresentKeys, LiveOnce DEF LoopType, Inv
<1>3. /\ loop'.seen = << >> /\ loop'.kept = Present(entries) /\ loop'.at = 0 /\ loop'.state = "going"
  BY <1>1
<1>4. \A k \in Present(entries) : ~(Place(entries, k) <= 0)
  <2> SUFFICES ASSUME NEW k \in Present(entries) PROVE ~(Place(entries, k) <= 0)
    OBVIOUS
  <2>1. Home(entries, Place(entries, k), k)
    BY PlaceIs DEF Inv, Filing, Shape
  <2> QED BY <2>1 DEF Home
<1> QED BY <1>1, <1>2, <1>3, <1>4 DEF LoopInv, Behind, InOrderOnce, CompleteUnlessMoved, Finished

LEMMA NextEntry ==
  ASSUME Inv, NEW from \in Nat
  PROVE  /\ EntryAt(from).found \in BOOLEAN
         /\ EntryAt(from).found => /\ EntryAt(from).next \in Nat /\ EntryAt(from).next > from
                                   /\ Home(entries, EntryAt(from).next, EntryAt(from).key)
                                   /\ EntryAt(from).key \in Keys
                                   /\ \A p, k : Home(entries, p, k) /\ p > from => EntryAt(from).next <= p
         /\ ~ EntryAt(from).found => \A p, k : Home(entries, p, k) => p <= from
<1> DEFINE found == {p \in DOMAIN entries : p > from /\ entries[p] # Hole}
<1>1. EntryAt(from) = IF found = {} THEN [found |-> FALSE]
                      ELSE [found |-> TRUE, key |-> KeyOf(entries[First(found)]), next |-> First(found)]
  BY DEF EntryAt
<1>2. DOMAIN entries = 1 .. Len(entries) /\ found \in SUBSET Nat
  BY DEF Inv, Filing, Shape, Listing
<1>3. CASE found = {}
  <2>1. EntryAt(from).found = FALSE
    BY <1>1, <1>3
  <2>2. ASSUME NEW p, NEW k, Home(entries, p, k) PROVE p <= from
    BY <1>2, <1>3, <2>2 DEF Home
  <2> QED BY <2>1, <2>2
<1>4. CASE found # {}
  <2> DEFINE p == First(found)
  <2>1. EntryAt(from) = [found |-> TRUE, key |-> KeyOf(entries[p]), next |-> p]
    BY <1>1, <1>4
  <2>2. p \in found /\ \A q \in found : p <= q
    <3> HIDE DEF found
    <3> QED BY <1>2, <1>4, FirstIs
  <2> HIDE DEF p
  <2>3. Home(entries, p, KeyOf(entries[p])) /\ p \in Nat /\ p > from
    BY <1>2, <2>2 DEF Home
  <2>4. KeyOf(entries[p]) \in Keys
    BY <1>2, <2>2, PresentKeys DEF Present
  <2>5. ASSUME NEW q, NEW k, Home(entries, q, k), q > from PROVE p <= q
    BY <1>2, <2>2, <2>5 DEF Home
  <2> HIDE DEF found
  <2>6. EntryAt(from).found = TRUE /\ EntryAt(from).key = KeyOf(entries[p]) /\ EntryAt(from).next = p
    BY <2>1
  <2> QED BY <2>3, <2>4, <2>5, <2>6
<1> QED BY <1>3, <1>4

LEMMA StepStep == ASSUME Inv, LoopInv, Step PROVE LoopInv'
<1> DEFINE e == EntryAt(loop.at)
<1>1. /\ loop.state = "going" /\ entries' = entries /\ loop \in LoopType
      /\ loop' = IF used # loop.size THEN [loop EXCEPT !.state = "raised"]
                 ELSE IF ~e.found    THEN [loop EXCEPT !.state = "done"]
                 ELSE [loop EXCEPT !.at = e.next, !.seen = Append(@, e.key)]
  BY DEF Step, Going, LoopInv, vars
<1>2. /\ loop.kept \subseteq Present(entries) /\ Behind /\ InOrderOnce /\ loop.at \in Nat
      /\ KeysOnce(entries) /\ entries \in Listing
  BY DEF LoopInv, Inv, Filing, Shape, LoopType
<1>3. \A k \in loop.kept : Home(entries, Place(entries, k), k) /\ Place(entries, k) \in Nat
  BY <1>2, PlaceIs
<1>4. ASSUME NEW s \in {"raised", "done"}, loop' = [loop EXCEPT !.state = s],
             s = "done" => ~e.found
      PROVE  LoopInv'
  <2>1. /\ loop' \in LoopType /\ loop'.state = s /\ loop'.seen = loop.seen /\ loop'.kept = loop.kept
        /\ loop'.at = loop.at /\ loop'.moved = loop.moved
    BY <1>1, <1>4 DEF LoopType
  <2>2. Behind' /\ InOrderOnce' /\ Seen' = Seen
    BY <1>1, <1>2, <2>1 DEF Behind, InOrderOnce, Seen
  <2>3. CompleteUnlessMoved'
    <3> SUFFICES ASSUME s = "done", ~loop.moved, NEW k \in loop.kept PROVE k \in Seen
      BY <2>1, <2>2 DEF CompleteUnlessMoved, Finished
    <3>1. Place(entries, k) <= loop.at
      BY <1>2, <1>3, <1>4, NextEntry
    <3> QED BY <1>2, <3>1 DEF Behind
  <2>4. loop'.state # "none"
    BY <1>4, <2>1
  <2> QED BY <1>1, <1>2, <2>1, <2>2, <2>3, <2>4 DEF LoopInv
<1>5. CASE e.found /\ loop' = [loop EXCEPT !.at = e.next, !.seen = Append(@, e.key)]
  <2> DEFINE n == Len(loop.seen)
  <2>1. /\ e.next \in Nat /\ e.next > loop.at /\ Home(entries, e.next, e.key) /\ e.key \in Keys
        /\ \A p, k : Home(entries, p, k) /\ p > loop.at => e.next <= p
    BY <1>2, <1>5, NextEntry
  <2>2. Place(entries, e.key) = e.next
    BY <1>2, <2>1, PlaceIs
  <2> HIDE DEF e
  <2>3. loop.seen \in Seq(Keys) /\ n \in Nat /\ DOMAIN loop.seen = 1 .. n
    BY <1>1 DEF LoopType
  <2>4. /\ Append(loop.seen, e.key) \in Seq(Keys) /\ Len(Append(loop.seen, e.key)) = n + 1
        /\ Append(loop.seen, e.key)[n + 1] = e.key
        /\ \A i \in 1 .. n : Append(loop.seen, e.key)[i] = loop.seen[i]
    BY <2>1, <2>3, AppendProperties
  <2> HIDE DEF n
  <2>5. /\ loop' \in LoopType /\ loop'.state = "going" /\ loop'.seen = Append(loop.seen, e.key)
        /\ loop'.kept = loop.kept /\ loop'.at = e.next /\ loop'.moved = loop.moved
    BY <1>1, <1>5, <2>1, <2>4 DEF LoopType
  <2>6. /\ DOMAIN loop'.seen = 1 .. n + 1 /\ loop'.seen[n + 1] = e.key
        /\ \A i \in 1 .. n : loop'.seen[i] = loop.seen[i]
        /\ \A i \in 1 .. n + 1 : i = n + 1 \/ i \in 1 .. n
    BY <2>3, <2>4, <2>5
  <2>7. \A i \in 1 .. n : loop.seen[i] \in loop.kept =>
          Place(entries, loop.seen[i]) \in Nat /\ Place(entries, loop.seen[i]) <= loop.at
    BY <1>2, <1>3, <2>3 DEF Behind
  <2>8. Behind'
    <3>1. \A i \in 1 .. n + 1 : loop'.seen[i] \in loop.kept => Place(entries, loop'.seen[i]) <= e.next
      BY <1>2, <2>1, <2>2, <2>6, <2>7
    <3>2. ASSUME ~loop.moved, NEW k \in loop.kept, Place(entries, k) <= e.next
          PROVE  \E i \in 1 .. n + 1 : loop'.seen[i] = k
      <4>1. CASE Place(entries, k) <= loop.at
        <5>1. PICK i \in 1 .. n : loop.seen[i] = k
          BY <1>2, <2>3, <3>2, <4>1 DEF Behind, Seen
        <5> QED BY <2>3, <2>6, <5>1
      <4>2. CASE ~(Place(entries, k) <= loop.at)
        <5>1. Place(entries, k) = e.next
          BY <1>2, <1>3, <2>1, <3>2, <4>2
        <5>2. e.key = k
          BY <1>3, <2>1, <5>1 DEF Home
        <5> QED BY <2>3, <2>6, <5>2
      <4> QED BY <4>1, <4>2
    <3> QED BY <1>1, <2>5, <2>6, <3>1, <3>2, ZenonT(30) DEF Behind, Seen
  <2>9. InOrderOnce'
    <3> SUFFICES ASSUME NEW i \in 1 .. n + 1, NEW j \in 1 .. n + 1, i < j,
                        loop'.seen[i] \in loop.kept, loop'.seen[j] \in loop.kept
                 PROVE  Place(entries, loop'.seen[i]) < Place(entries, loop'.seen[j])
      BY <1>1, <2>5, <2>6 DEF InOrderOnce
    <3>1. i \in 1 .. n /\ loop'.seen[i] = loop.seen[i]
      BY <2>3, <2>6
    <3>2. CASE j = n + 1
      BY <1>2, <2>1, <2>2, <2>6, <2>7, <3>1, <3>2
    <3>3. CASE j \in 1 .. n
      BY <1>2, <2>3, <2>6, <3>1, <3>3 DEF InOrderOnce
    <3> QED BY <2>6, <3>2, <3>3
  <2>10. CompleteUnlessMoved' /\ loop'.state # "none"
    BY <2>5 DEF CompleteUnlessMoved, Finished
  <2> QED BY <1>1, <1>2, <2>5, <2>8, <2>9, <2>10 DEF LoopInv
<1> QED BY <1>1, <1>4, <1>5

LEMMA BodyStep == ASSUME Inv, LoopInv, Body PROVE LoopInv'
<1>1. CASE ~ Going
  <2>1. loop' = loop /\ loop = NoLoop
    BY <1>1 DEF Body, Going, LoopInv
  <2> QED BY <2>1, NoLoopIs DEF LoopInv, Behind, InOrderOnce, CompleteUnlessMoved, Finished, NoLoop, Loop, LoopType
<1>2. CASE Going
  <2> DEFINE kept == loop.kept \intersect Present(entries')
             calm == loop.calm /\ Present(entries') = Present(entries)
             moved == loop.moved \/ \E k \in kept : Place(entries', k) # Place(entries, k)
  <2>1. /\ loop \in LoopType /\ loop.state = "going" /\ Next
        /\ loop' = [loop EXCEPT !.steps = loop.steps + 1, !.kept = kept, !.calm = calm, !.moved = moved]
    BY <1>2 DEF Body, Going, LoopInv
  <2>2. kept \in SUBSET Keys /\ calm \in BOOLEAN /\ moved \in BOOLEAN
    BY <2>1 DEF LoopType
  <2>3. kept \subseteq loop.kept /\ kept \subseteq Present(entries')
    OBVIOUS
  <2>4. ~moved => ~loop.moved /\ \A k \in kept : Place(entries', k) = Place(entries, k)
    OBVIOUS
  <2> HIDE DEF kept, calm, moved
  <2>5. /\ loop' \in LoopType /\ loop'.state = "going" /\ loop'.seen = loop.seen
        /\ loop'.kept = kept /\ loop'.at = loop.at /\ loop'.moved = moved
    <3>1. /\ loop.state = "going" /\ loop.steps + 1 \in Nat
          /\ DOMAIN loop = {"state", "at", "size", "seen", "kept", "calm", "moved", "steps"}
      BY <2>1 DEF LoopType
    <3> DEFINE n == loop.steps + 1
    <3>2. loop' = [loop EXCEPT !.steps = n, !.kept = kept, !.calm = calm, !.moved = moved] /\ n \in Nat
      BY <2>1, <3>1
    <3> HIDE DEF n
    <3>3. loop' \in LoopType
      BY <2>1, <2>2, <3>2 DEF LoopType
    <3> QED BY <2>1, <3>1, <3>2, <3>3
  <2>6. loop.kept \subseteq Present(entries) /\ Behind /\ InOrderOnce /\ loop.at \in Nat
    BY <2>1 DEF LoopInv, LoopType
  <2>7. Inv' /\ Moves(entries, entries')
    BY <2>1, StepIs, BodyMoves
  <2>8. \A k \in kept : Home(entries, Place(entries, k), k) /\ Place(entries, k) \in Nat
    BY <2>3, <2>6, PlaceIs DEF Inv, Filing, Shape
  <2>9. \A k \in kept : Home(entries', Place(entries', k), k) /\ Place(entries', k) \in Nat
    <3> DEFINE fs == entries'
    <3>1. fs \in Listing /\ KeysOnce(fs) /\ kept \subseteq Present(fs)
      BY <2>3, <2>7 DEF Inv, Filing, Shape
    <3> HIDE DEF fs
    <3>2. \A k \in kept : Home(fs, Place(fs, k), k) /\ Place(fs, k) \in Nat
      BY <3>1, PlaceIs
    <3> QED BY <3>2 DEF fs
  <2>10. \A k \in kept : Place(entries', k) <= Place(entries, k)
    BY <2>7, <2>8, <2>9 DEF Moves
  <2>11. \A j, k \in kept : Place(entries, j) < Place(entries, k) => Place(entries', j) < Place(entries', k)
    BY <2>7, <2>8, <2>9 DEF Moves
  <2>12. Behind'
    <3>1. \A i \in DOMAIN loop.seen : loop.seen[i] \in kept => Place(entries', loop.seen[i]) <= loop.at
      BY <2>3, <2>6, <2>8, <2>9, <2>10 DEF Behind
    <3>2. ~moved => \A k \in kept : Place(entries', k) <= loop.at => k \in Seen
      BY <2>3, <2>4, <2>6 DEF Behind
    <3>3. Seen' = Seen
      BY <2>5 DEF Seen
    <3> QED BY <2>5, <3>1, <3>2, <3>3 DEF Behind
  <2>13. InOrderOnce'
    BY <2>3, <2>5, <2>6, <2>11 DEF InOrderOnce
  <2>14. CompleteUnlessMoved' /\ loop'.state # "none"
    BY <2>5 DEF CompleteUnlessMoved, Finished
  <2> QED BY <2>3, <2>5, <2>12, <2>13, <2>14 DEF LoopInv
<1> QED BY <1>1, <1>2

LEMMA LoopHolds == WalkSpec => [](Inv /\ LoopInv)
<1>1. WalkInit => Inv /\ LoopInv
  BY InvInit, NoLoopIs DEF WalkInit
<1>2. ASSUME Inv, LoopInv, [WalkNext]_walkVars PROVE Inv' /\ LoopInv'
  <2>1. ASSUME UNCHANGED vars PROVE Inv'
    BY <1>2, <2>1, StepIs
  <2>2. CASE Over
    BY <1>2, <2>1, <2>2, OverStep DEF Over
  <2>3. CASE Step
    BY <1>2, <2>1, <2>3, StepStep DEF Step
  <2>4. CASE Leave
    <3>1. loop' = NoLoop /\ UNCHANGED vars
      BY <2>4 DEF Leave
    <3>2. LoopInv'
      BY <3>1, NoLoopIs DEF LoopInv, Behind, InOrderOnce, CompleteUnlessMoved, Finished, NoLoop, Loop, LoopType
    <3> QED BY <2>1, <3>1, <3>2
  <2>5. CASE Body
    BY <1>2, <2>5, StepIs, BodyStep DEF Body
  <2>6. CASE UNCHANGED walkVars
    <3>1. UNCHANGED vars /\ loop' = loop
      BY <2>6 DEF walkVars, vars
    <3>2. LoopInv'
      BY <1>2, <3>1 DEF vars, LoopInv, Behind, InOrderOnce, CompleteUnlessMoved, Finished, Seen
    <3> QED BY <2>1, <3>1, <3>2
  <2> QED BY <1>2, <2>2, <2>3, <2>4, <2>5, <2>6 DEF WalkNext
<1> QED BY <1>1, <1>2, PTL DEF WalkSpec

(* Whatever the body of a loop does to the dict, a rebuild included, the   *)
(* keys that stay come out in their order and once.                        *)
THEOREM LoopsInOrder == WalkSpec => []InOrderOnce
<1>1. LoopInv => InOrderOnce
  BY DEF LoopInv
<1> QED BY <1>1, LoopHolds, PTL

(* A loop that ends without a rebuild has given every key that stayed.     *)
THEOREM LoopsComplete == WalkSpec => []CompleteUnlessMoved
<1>1. LoopInv => CompleteUnlessMoved
  BY DEF LoopInv
<1> QED BY <1>1, LoopHolds, PTL

=============================================================================
