----------------------------- MODULE Recursion ------------------------------
(***************************************************************************)
(* Induction and recursive definition over the naturals, stated with sets  *)
(* and functions in the place of operators, so that every hypothesis is    *)
(* first-order: the property of an induction is the set of the numbers     *)
(* that have it, and the step of a recursion is a function.                *)
(***************************************************************************)
EXTENDS Integers, WellFoundedInduction, TLAPS

(* A set of naturals that is not empty has a least member.                 *)
LEMMA LeastNatural ==
  ASSUME NEW T \in SUBSET Nat, T # {}
  PROVE  \E m \in T : \A k \in T : m <= k
<1> DEFINE less == OpToRel(<, Nat)
<1>1. \A a, b \in Nat : a < b => <<a, b>> \in less
  BY Zenon DEF OpToRel
<1>2. IsWellFoundedOn(less, Nat)
  BY NatLessThanWellFounded
<1> HIDE DEF less
<1>3. PICK m \in T : \A k \in T : ~ (<<k, m>> \in less)
  BY <1>2, WFMin
<1>4. ASSUME NEW k \in T PROVE m <= k
  <2>1. ~(k < m)
    BY <1>1, <1>3
  <2> QED BY <2>1
<1> QED BY <1>4

(* Induction.                                                              *)
LEMMA Induction ==
  ASSUME NEW S \in SUBSET Nat, 0 \in S, \A n \in S : n + 1 \in S
  PROVE  S = Nat
<1> SUFFICES ASSUME Nat \ S # {} PROVE FALSE
  OBVIOUS
<1>1. PICK m \in Nat \ S : \A k \in Nat \ S : m <= k
  BY LeastNatural
<1>2. m # 0 /\ m - 1 \in Nat
  BY <1>1
<1>3. m - 1 \in S
  BY <1>1, <1>2
<1> QED BY <1>1, <1>2, <1>3

(* A step that is defined everywhere, and a value to start from, define a  *)
(* function on the naturals.                                               *)
Steps(V) == [Nat -> [V -> V]]
Follows(f, V, start, step) ==
  f \in [Nat -> V] /\ f[0] = start /\ \A n \in Nat : f[n + 1] = step[n][f[n]]

LEMMA RecursiveFunction ==
  ASSUME NEW V, NEW start, start \in V, NEW step, step \in Steps(V)
  PROVE  \E f : Follows(f, V, start, step)
<1> USE DEF Steps
<1> DEFINE Upto(n, g) == /\ g \in [0 .. n -> V] /\ g[0] = start
                         /\ \A i \in 0 .. n - 1 : g[i + 1] = step[i][g[i]]
           S == {n \in Nat : \E g : Upto(n, g)}
           G(n) == CHOOSE g : Upto(n, g)
<1>1. 0 \in S
  <2>1. Upto(0, [i \in 0 .. 0 |-> start])
    OBVIOUS
  <2> QED BY <2>1
<1>2. ASSUME NEW n \in S PROVE n + 1 \in S
  <2>1. PICK g : Upto(n, g)
    BY <1>2
  <2> DEFINE h == [i \in 0 .. n + 1 |-> IF i <= n THEN g[i] ELSE step[n][g[n]]]
  <2>2. n \in Nat /\ g[n] \in V
    BY <2>1
  <2>3. h \in [0 .. n + 1 -> V]
    BY <2>1, <2>2
  <2>4. h[0] = start
    BY <2>1, <2>2
  <2>5. ASSUME NEW i \in 0 .. n PROVE h[i + 1] = step[i][h[i]]
    BY <2>1, <2>2, <2>5
  <2> HIDE DEF h
  <2>6. Upto(n + 1, h)
    BY <2>2, <2>3, <2>4, <2>5
  <2>7. \E k : Upto(n + 1, k)
    <3> HIDE DEF Upto
    <3> QED BY <2>6
  <2> HIDE DEF Upto
  <2> QED BY <2>2, <2>7
<1>3. S = Nat
  <2> HIDE DEF S
  <2>1. S \subseteq Nat
    BY DEF S
  <2> QED BY <1>1, <1>2, <2>1, Induction
<1>4. ASSUME NEW n \in Nat PROVE Upto(n, G(n))
  <2>1. \E g : Upto(n, g)
    BY <1>3
  <2> HIDE DEF Upto
  <2> QED BY <2>1
<1>5. ASSUME NEW n \in Nat, NEW g, NEW h, Upto(n, g), Upto(n + 1, h)
      PROVE  g[n] = h[n]
  <2> DEFINE A == {i \in Nat : i <= n => g[i] = h[i]}
  <2>1. 0 \in A
    BY <1>5
  <2>2. ASSUME NEW i \in A PROVE i + 1 \in A
    <3> SUFFICES ASSUME i + 1 <= n PROVE g[i + 1] = h[i + 1]
      OBVIOUS
    <3>1. i \in 0 .. n - 1 /\ i \in 0 .. (n + 1) - 1 /\ g[i] = h[i]
      OBVIOUS
    <3> QED BY <1>5, <3>1
  <2>3. A = Nat
    <3> HIDE DEF A
    <3>1. A \subseteq Nat
      BY DEF A
    <3> QED BY <2>1, <2>2, <3>1, Induction
  <2> QED BY <2>3
<1> DEFINE f == [n \in Nat |-> G(n)[n]]
<1>6. f \in [Nat -> V]
  <2>1. ASSUME NEW n \in Nat PROVE G(n)[n] \in V
    <3> HIDE DEF G
    <3> QED BY <1>4
  <2> HIDE DEF G
  <2> QED BY <2>1
<1>7. f[0] = start
  <2> HIDE DEF G
  <2> QED BY <1>4
<1>8. ASSUME NEW n \in Nat PROVE f[n + 1] = step[n][f[n]]
  <2> HIDE DEF G
  <2>1. Upto(n, G(n)) /\ Upto(n + 1, G(n + 1))
    <3> HIDE DEF Upto
    <3>1. n + 1 \in Nat
      OBVIOUS
    <3> QED BY <1>4, <3>1
  <2>2. G(n)[n] = G(n + 1)[n]
    <3> HIDE DEF Upto
    <3> QED BY <1>5, <2>1
  <2>3. G(n + 1)[n + 1] = step[n][G(n + 1)[n]]
    BY <2>1
  <2> QED BY <2>2, <2>3
<1> HIDE DEF f
<1>9. Follows(f, V, start, step)
  BY <1>6, <1>7, <1>8 DEF Follows
<1> QED BY <1>9

(* The same up to some number.                                             *)
LEMMA RecursiveUpto ==
  ASSUME NEW V, NEW start, start \in V, NEW step, step \in Steps(V), NEW total \in Nat
  PROVE  \E h : /\ h = [n \in 0 .. total |-> h[n]]
                /\ h[0] = start /\ \A n \in 0 .. total : h[n] \in V
                /\ \A n \in 1 .. total : h[n] = step[n - 1][h[n - 1]]
<1>1. PICK f : Follows(f, V, start, step)
  BY RecursiveFunction
<1> DEFINE h == [n \in 0 .. total |-> f[n]]
<1>2. h = [n \in 0 .. total |-> h[n]]
  OBVIOUS
<1>3. \A n \in 0 .. total : h[n] = f[n] /\ n \in Nat
  OBVIOUS
<1> HIDE DEF h
<1>4. h[0] = start
  BY <1>1, <1>3 DEF Follows
<1>5. \A n \in 0 .. total : h[n] \in V
  BY <1>1, <1>3 DEF Follows
<1>6. ASSUME NEW n \in 1 .. total PROVE h[n] = step[n - 1][h[n - 1]]
  <2> DEFINE m == n - 1
  <2>1. m \in Nat /\ m \in 0 .. total /\ n = m + 1 /\ n \in 0 .. total
    BY <1>6
  <2> HIDE DEF m
  <2>2. f[m + 1] = step[m][f[m]]
    BY <1>1, <2>1 DEF Follows
  <2>3. h[n] = step[m][h[m]]
    BY <1>3, <2>1, <2>2
  <2> QED BY <2>3 DEF m
<1> QED BY <1>2, <1>4, <1>5, <1>6

(* A recursive definition that goes n steps, each of them a function.      *)
Unrolled(h, n, V, start, next) ==
  /\ h = [k \in 0 .. n |-> h[k]] /\ h[0] = start /\ \A k \in 0 .. n : h[k] \in V
  /\ \A k \in 1 .. n : h[k] = next[k][h[k - 1]]
LEMMA Unrolls ==
  ASSUME NEW n \in Nat, NEW V, NEW start \in V, NEW next \in [1 .. n -> [V -> V]]
  PROVE  \E h : Unrolled(h, n, V, start, next)
<1> DEFINE step == [k \in Nat |-> IF k + 1 \in 1 .. n THEN next[k + 1] ELSE [v \in V |-> v]]
<1>1. step \in Steps(V)
  BY DEF Steps
<1>2. \A k \in 1 .. n : step[k - 1] = next[k]
  OBVIOUS
<1> HIDE DEF step
<1>3. PICK h : /\ h = [k \in 0 .. n |-> h[k]] /\ h[0] = start /\ \A k \in 0 .. n : h[k] \in V
               /\ \A k \in 1 .. n : h[k] = step[k - 1][h[k - 1]]
  BY <1>1, RecursiveUpto
<1>4. Unrolled(h, n, V, start, next)
  BY <1>2, <1>3 DEF Unrolled
<1> QED BY <1>4

=============================================================================
