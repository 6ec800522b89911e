----------------------------- MODULE ListsProofs -----------------------------
(***************************************************************************)
(* What a list is after a sort, for any elements and ranks: the merge sort *)
(* is the stable order, and sorts inside of sorts lose and double nothing. *)
(*                                                                         *)
(* The order a sort is for is a set of pairs here: one element before      *)
(* another if its rank is less, or if it is the same and the element came  *)
(* first.  That no element is in the list twice makes it a linear order.   *)
(***************************************************************************)
EXTENDS Lists, Recursion, FiniteSetTheorems, SequenceTheorems

\* R puts the elements of S in a line.
Linear(R, S) ==
  /\ \A x \in S : <<x, x>> \notin R
  /\ \A x, y, z \in S : <<x, y>> \in R /\ <<y, z>> \in R => <<x, z>> \in R
  /\ \A x, y \in S : x = y \/ <<x, y>> \in R \/ <<y, x>> \in R

InOrder(t, R) == \A i, j \in 1 .. Len(t) : i < j => <<t[i], t[j]>> \in R

\* What the comparison of ranks says of a right run and a left one is R.
Agree(left, right, R) ==
  \A i \in 1 .. Len(left), j \in 1 .. Len(right) :
    /\ left[i] # right[j]
    /\ Rank[right[j]] < Rank[left[i]] <=> <<right[j], left[i]>> \in R

-----------------------------------------------------------------------------
(* Merging.                                                                *)

Taking(left, right, m) ==
  IF m.j <= Len(right) /\ (m.i > Len(left) \/ Rank[right[m.j]] < Rank[left[m.i]])
    THEN [out |-> Append(m.out, right[m.j]), i |-> m.i, j |-> m.j + 1]
    ELSE [out |-> Append(m.out, left[m.i]), i |-> m.i + 1, j |-> m.j]

Merges(merged, left, right) ==
  merged = [n \in 0 .. Len(left) + Len(right) |->
              IF n = 0 THEN [out |-> << >>, i |-> 1, j |-> 1]
              ELSE Taking(left, right, merged[n - 1])]

LEMMA SomeMerges ==
  ASSUME NEW left \in Seq(Elems), NEW right \in Seq(Elems)
  PROVE  \E merged : Merges(merged, left, right) /\ Merge(left, right) = merged[Len(left) + Len(right)].out
<1> DEFINE total == Len(left) + Len(right)
           T == {left[i] : i \in Nat} \union {right[j] : j \in Nat}
           V == [out : Seq(T), i : Nat, j : Nat]
           start == [out |-> << >>, i |-> 1, j |-> 1]
           step == [n \in Nat |-> [m \in V |-> Taking(left, right, m)]]
           Is(merged) == merged = [n \in 0 .. total |->
                           IF n = 0 THEN start ELSE Taking(left, right, merged[n - 1])]
<1>1. total \in Nat
  OBVIOUS
<1>2. start \in V
  OBVIOUS
<1>3. ASSUME NEW m \in V PROVE Taking(left, right, m) \in V
  <2>1. m.i \in Nat /\ m.j \in Nat /\ m.out \in Seq(T) /\ left[m.i] \in T /\ right[m.j] \in T
    BY <1>3
  <2> HIDE DEF T
  <2>2. Append(m.out, left[m.i]) \in Seq(T) /\ Append(m.out, right[m.j]) \in Seq(T)
    BY <2>1, AppendProperties
  <2> QED BY <2>1, <2>2 DEF Taking
<1>4. step \in Steps(V)
  <2> HIDE DEF V
  <2> QED BY <1>3 DEF Steps
<1>5. PICK f : Follows(f, V, start, step)
  <2> HIDE DEF V, start, step
  <2> QED BY <1>2, <1>4, RecursiveFunction
<1> DEFINE h == [n \in 0 .. total |-> f[n]]
<1>6. Is(h)
  <2>1. \A n \in 0 .. total : h[n] = f[n]
    OBVIOUS
  <2>2. h[0] = start
    BY <1>1, <1>5, <2>1 DEF Follows
  <2>3. ASSUME NEW n \in 0 .. total, n # 0 PROVE h[n] = Taking(left, right, h[n - 1])
    <3>1. n - 1 \in Nat /\ n - 1 \in 0 .. total /\ (n - 1) + 1 = n
      BY <1>1, <2>3
    <3>2. f[n] = step[n - 1][f[n - 1]] /\ f[n - 1] \in V
      BY <1>5, <3>1 DEF Follows
    <3> HIDE DEF V, h
    <3> QED BY <2>1, <3>1, <3>2
  <2> HIDE DEF start
  <2>4. h = [n \in 0 .. total |-> IF n = 0 THEN start ELSE Taking(left, right, h[n - 1])]
    BY <2>1, <2>2, <2>3
  <2> QED BY <2>4
<1> DEFINE merged == CHOOSE merged : Is(merged)
<1>7. Is(merged)
  <2> HIDE DEF Is, h
  <2> QED BY <1>6
<1>8. Merge(left, right) = merged[total].out
  BY DEF Merge, Taking
<1>9. Merges(merged, left, right)
  BY <1>7 DEF Merges
<1> HIDE DEF merged
<1> QED BY <1>8, <1>9

LEMMA InOrderAppend ==
  ASSUME NEW S, NEW out \in Seq(S), NEW e \in S, NEW R, InOrder(out, R),
         \A k \in 1 .. Len(out) : <<out[k], e>> \in R
  PROVE  InOrder(Append(out, e), R)
<1>1. /\ Len(out) \in Nat /\ Len(Append(out, e)) = Len(out) + 1 /\ Append(out, e)[Len(out) + 1] = e
      /\ \A i \in 1 .. Len(out) : Append(out, e)[i] = out[i]
  BY LenProperties, AppendProperties
<1> DEFINE t == Append(out, e)
<1> HIDE DEF t
<1>2. /\ Len(out) \in Nat /\ Len(t) = Len(out) + 1 /\ t[Len(out) + 1] = e
      /\ \A i \in 1 .. Len(out) : t[i] = out[i]
  BY <1>1 DEF t
<1>3. ASSUME NEW i \in 1 .. Len(t), NEW j \in 1 .. Len(t), i < j PROVE <<t[i], t[j]>> \in R
  <2>1. i \in 1 .. Len(out)
    BY <1>2, <1>3
  <2>2. CASE j = Len(out) + 1
    BY <1>2, <2>1, <2>2
  <2>3. CASE j # Len(out) + 1
    <3>1. j \in 1 .. Len(out)
      BY <1>2, <2>3
    <3> QED BY <1>2, <1>3, <2>1, <3>1 DEF InOrder
  <2> QED BY <2>2, <2>3
<1> QED BY <1>3 DEF InOrder, t

\* What has been merged after n steps, and how it lies to what has not.
Counts(left, right, m, n) ==
  m.i \in 1 .. Len(left) + 1 /\ m.j \in 1 .. Len(right) + 1 /\ n = (m.i - 1) + (m.j - 1)
Gathers(left, right, m, n) ==
  /\ \A k \in 1 .. n : \/ \E a \in 1 .. m.i - 1 : m.out[k] = left[a]
                       \/ \E b \in 1 .. m.j - 1 : m.out[k] = right[b]
  /\ \A a \in 1 .. m.i - 1 : \E k \in 1 .. n : m.out[k] = left[a]
  /\ \A b \in 1 .. m.j - 1 : \E k \in 1 .. n : m.out[k] = right[b]
Precedes(R, left, right, m, n) ==
  \A k \in 1 .. n : /\ \A a \in m.i .. Len(left) : <<m.out[k], left[a]>> \in R
                    /\ \A b \in m.j .. Len(right) : <<m.out[k], right[b]>> \in R
Halfway(S, R, left, right, m, n) ==
  /\ m.out \in Seq(S) /\ Len(m.out) = n /\ InOrder(m.out, R)
  /\ Counts(left, right, m, n) /\ Gathers(left, right, m, n) /\ Precedes(R, left, right, m, n)

LEMMA TakingOn ==
  ASSUME NEW S, NEW R, Linear(R, S), NEW left \in Seq(S), NEW right \in Seq(S),
         InOrder(left, R), InOrder(right, R), Agree(left, right, R),
         NEW n \in Nat, n < Len(left) + Len(right), NEW m, Halfway(S, R, left, right, m, n)
  PROVE  Halfway(S, R, left, right, Taking(left, right, m), n + 1)
<1> DEFINE p == Taking(left, right, m)
           fromRight == m.j <= Len(right) /\ (m.i > Len(left) \/ Rank[right[m.j]] < Rank[left[m.i]])
<1>1. /\ Len(left) \in Nat /\ Len(right) \in Nat /\ m.i \in Nat /\ m.j \in Nat
      /\ m.out \in Seq(S) /\ Len(m.out) = n
  BY LenProperties DEF Halfway, Counts
<1> USE DEF Counts
<1>2. /\ \A a \in 1 .. Len(left) : left[a] \in S
      /\ \A b \in 1 .. Len(right) : right[b] \in S
  BY ElementOfSeq
<1>3. ASSUME NEW e \in S, p.out = Append(m.out, e), \A k \in 1 .. n : <<m.out[k], e>> \in R
      PROVE  /\ p.out \in Seq(S) /\ Len(p.out) = n + 1 /\ InOrder(p.out, R)
             /\ p.out[n + 1] = e /\ \A k \in 1 .. n : p.out[k] = m.out[k]
  <2>1. /\ Append(m.out, e) \in Seq(S) /\ Len(Append(m.out, e)) = n + 1
        /\ Append(m.out, e)[n + 1] = e /\ \A k \in 1 .. n : Append(m.out, e)[k] = m.out[k]
    BY <1>1, AppendProperties
  <2>2. InOrder(Append(m.out, e), R)
    BY <1>1, <1>3, InOrderAppend DEF Halfway
  <2> HIDE DEF p
  <2> QED BY <1>3, <2>1, <2>2
<1>4. CASE fromRight
  <2> DEFINE e == right[m.j]
  <2>1. p.out = Append(m.out, e) /\ p.i = m.i /\ p.j = m.j + 1
    BY <1>4 DEF Taking
  <2>2. e \in S /\ m.j \in 1 .. Len(right) /\ \A k \in 1 .. n : <<m.out[k], e>> \in R
    BY <1>1, <1>2, <1>4, SMTT(20) DEF Halfway, Precedes
  <2> HIDE DEF p
  <2>3. ASSUME NEW b \in p.j .. Len(right) PROVE <<e, right[b]>> \in R
    BY <1>1, <2>1, <2>2, <2>3 DEF InOrder
  <2>4. ASSUME NEW a \in p.i .. Len(left) PROVE <<e, left[a]>> \in R
    <3>1. m.i \in 1 .. Len(left) /\ a \in 1 .. Len(left) /\ m.i <= a
      BY <1>1, <2>1, <2>4, SMTT(20) DEF Halfway
    <3>2. <<e, left[m.i]>> \in R
      BY <1>1, <1>4, <2>2, <3>1 DEF Agree
    <3>3. a = m.i \/ <<left[m.i], left[a]>> \in R
      BY <1>1, <3>1 DEF InOrder
    <3> QED BY <1>2, <2>2, <3>1, <3>2, <3>3 DEF Linear
  <2>5. /\ p.out \in Seq(S) /\ Len(p.out) = n + 1 /\ InOrder(p.out, R)
        /\ p.out[n + 1] = e /\ \A k \in 1 .. n : p.out[k] = m.out[k]
    BY <1>3, <2>1, <2>2
  <2>6. \A k \in 1 .. n + 1 : k = n + 1 \/ k \in 1 .. n
    OBVIOUS
  <2>7. Counts(left, right, p, n + 1)
    <3>1. m.i \in 1 .. Len(left) + 1 /\ n = (m.i - 1) + (m.j - 1)
      BY DEF Halfway
    <3>2. p.i \in 1 .. Len(left) + 1
      BY <2>1, <3>1
    <3>3. p.j \in 1 .. Len(right) + 1
      BY <1>1, <2>1, <2>2
    <3>4. n + 1 = (p.i - 1) + (p.j - 1)
      BY <1>1, <2>1, <3>1, SMTT(20)
    <3> QED BY <3>2, <3>3, <3>4
  <2>8. Gathers(left, right, m, n)
    BY DEF Halfway
  <2>9. Gathers(left, right, p, n + 1)
    <3>1. p.i = m.i /\ m.j \in 1 .. p.j - 1 /\ 1 .. m.j - 1 \subseteq 1 .. p.j - 1
      BY <1>1, <2>1, <2>2
    <3>2. \A b \in 1 .. p.j - 1 : b = m.j \/ b \in 1 .. m.j - 1
      BY <1>1, <2>1
    <3>3. n + 1 \in 1 .. n + 1 /\ 1 .. n \subseteq 1 .. n + 1 /\ p.out[n + 1] = right[m.j]
      BY <2>5
    <3> HIDE DEF e
    <3>4. ASSUME NEW k \in 1 .. n + 1
          PROVE  (\E a \in 1 .. p.i - 1 : p.out[k] = left[a]) \/ (\E b \in 1 .. p.j - 1 : p.out[k] = right[b])
      <4>1. CASE k = n + 1
        BY <3>1, <3>3, <4>1
      <4>2. CASE k \in 1 .. n
        <5>1. (\E a \in 1 .. m.i - 1 : m.out[k] = left[a]) \/ (\E b \in 1 .. m.j - 1 : m.out[k] = right[b])
          BY <2>8, <4>2 DEF Gathers
        <5> QED BY <2>5, <3>1, <4>2, <5>1
      <4> QED BY <2>6, <4>1, <4>2
    <3>5. ASSUME NEW a \in 1 .. p.i - 1 PROVE \E k \in 1 .. n + 1 : p.out[k] = left[a]
      BY <2>5, <2>8, <3>1, <3>3 DEF Gathers
    <3>6. ASSUME NEW b \in 1 .. p.j - 1 PROVE \E k \in 1 .. n + 1 : p.out[k] = right[b]
      BY <2>5, <2>8, <3>2, <3>3 DEF Gathers
    <3> QED BY <3>4, <3>5, <3>6 DEF Gathers
  <2>10. \A k \in 1 .. n + 1 : /\ \A a \in p.i .. Len(left) : <<p.out[k], left[a]>> \in R
                               /\ \A b \in p.j .. Len(right) : <<p.out[k], right[b]>> \in R
    <3>1. p.j .. Len(right) \subseteq m.j .. Len(right) /\ p.i = m.i
      BY <1>1, <2>1
    <3> HIDE DEF e
    <3> QED BY <2>3, <2>4, <2>5, <2>6, <3>1 DEF Halfway, Precedes
  <2> QED BY <2>5, <2>7, <2>9, <2>10 DEF Halfway, Precedes, p
<1>5. CASE ~fromRight
  <2> DEFINE e == left[m.i]
  <2>1. p.out = Append(m.out, e) /\ p.i = m.i + 1 /\ p.j = m.j
    BY <1>5 DEF Taking
  <2>2. m.i \in 1 .. Len(left)
    BY <1>1, <1>5 DEF Halfway
  <2>3. e \in S /\ \A k \in 1 .. n : <<m.out[k], e>> \in R
    BY <1>1, <1>2, <2>2 DEF Halfway, Precedes
  <2> HIDE DEF p
  <2>4. ASSUME NEW a \in p.i .. Len(left) PROVE <<e, left[a]>> \in R
    BY <1>1, <2>1, <2>2, <2>4 DEF InOrder
  <2>5. ASSUME NEW b \in p.j .. Len(right) PROVE <<e, right[b]>> \in R
    <3>1. m.j \in 1 .. Len(right) /\ b \in 1 .. Len(right) /\ m.j <= b
      BY <1>1, <2>1, <2>5, SMTT(20) DEF Halfway
    <3>2. ~(m.i > Len(left)) /\ ~(Rank[right[m.j]] < Rank[left[m.i]])
      BY <1>1, <1>5, <2>2, <3>1
    <3>3. <<right[m.j], e>> \notin R /\ right[m.j] # e
      BY <1>1, <2>2, <3>1, <3>2 DEF Agree
    <3>4. <<e, right[m.j]>> \in R
      BY <1>2, <2>3, <3>1, <3>3 DEF Linear
    <3>5. b = m.j \/ <<right[m.j], right[b]>> \in R
      BY <1>1, <3>1 DEF InOrder
    <3> QED BY <1>2, <2>3, <3>1, <3>4, <3>5 DEF Linear
  <2>6. /\ p.out \in Seq(S) /\ Len(p.out) = n + 1 /\ InOrder(p.out, R)
        /\ p.out[n + 1] = e /\ \A k \in 1 .. n : p.out[k] = m.out[k]
    BY <1>3, <2>1, <2>3
  <2>7. \A k \in 1 .. n + 1 : k = n + 1 \/ k \in 1 .. n
    OBVIOUS
  <2>8. Counts(left, right, p, n + 1)
    <3>1. m.j \in 1 .. Len(right) + 1 /\ n = (m.i - 1) + (m.j - 1)
      BY DEF Halfway
    <3>2. p.j \in 1 .. Len(right) + 1
      BY <2>1, <3>1
    <3>3. p.i \in 1 .. Len(left) + 1
      BY <1>1, <2>1, <2>2
    <3>4. n + 1 = (p.i - 1) + (p.j - 1)
      <4>1. m.i \in Nat /\ m.j \in Nat /\ p.i = m.i + 1 /\ p.j = m.j /\ n = (m.i - 1) + (m.j - 1)
        BY <1>1, <2>1, <3>1
      <4> HIDE DEF e
      <4> QED BY <4>1, SMTT(20)
    <3> QED BY <3>2, <3>3, <3>4
  <2>9. Gathers(left, right, m, n)
    BY DEF Halfway
  <2>10. Gathers(left, right, p, n + 1)
    <3>1. p.j = m.j /\ m.i \in 1 .. p.i - 1 /\ 1 .. m.i - 1 \subseteq 1 .. p.i - 1
      BY <1>1, <2>1, <2>2
    <3>2. \A a \in 1 .. p.i - 1 : a = m.i \/ a \in 1 .. m.i - 1
      BY <1>1, <2>1
    <3>3. n + 1 \in 1 .. n + 1 /\ 1 .. n \subseteq 1 .. n + 1 /\ p.out[n + 1] = left[m.i]
      BY <2>6
    <3> HIDE DEF e
    <3>4. ASSUME NEW k \in 1 .. n + 1
          PROVE  (\E a \in 1 .. p.i - 1 : p.out[k] = left[a]) \/ (\E b \in 1 .. p.j - 1 : p.out[k] = right[b])
      <4>1. CASE k = n + 1
        BY <3>1, <3>3, <4>1
      <4>2. CASE k \in 1 .. n
        <5>1. (\E a \in 1 .. m.i - 1 : m.out[k] = left[a]) \/ (\E b \in 1 .. m.j - 1 : m.out[k] = right[b])
          BY <2>9, <4>2 DEF Gathers
        <5> QED BY <2>6, <3>1, <4>2, <5>1
      <4> QED BY <2>7, <4>1, <4>2
    <3>5. ASSUME NEW b \in 1 .. p.j - 1 PROVE \E k \in 1 .. n + 1 : p.out[k] = right[b]
      BY <2>6, <2>9, <3>1, <3>3 DEF Gathers
    <3>6. ASSUME NEW a \in 1 .. p.i - 1 PROVE \E k \in 1 .. n + 1 : p.out[k] = left[a]
      BY <2>6, <2>9, <3>2, <3>3 DEF Gathers
    <3> QED BY <3>4, <3>5, <3>6 DEF Gathers
  <2>11. \A k \in 1 .. n + 1 : /\ \A a \in p.i .. Len(left) : <<p.out[k], left[a]>> \in R
                               /\ \A b \in p.j .. Len(right) : <<p.out[k], right[b]>> \in R
    <3>1. p.i .. Len(left) \subseteq m.i .. Len(left) /\ p.j = m.j
      BY <1>1, <2>1
    <3> HIDE DEF e
    <3> QED BY <2>4, <2>5, <2>6, <2>7, <3>1 DEF Halfway, Precedes
  <2> QED BY <2>6, <2>8, <2>10, <2>11 DEF Halfway, Precedes, p
<1> QED BY <1>4, <1>5

\* One sequence has the elements of two.
Both(t, left, right) ==
  /\ Len(t) = Len(left) + Len(right)
  /\ \A k \in 1 .. Len(left) + Len(right) : \/ \E a \in 1 .. Len(left) : t[k] = left[a]
                                          \/ \E b \in 1 .. Len(right) : t[k] = right[b]
  /\ \A a \in 1 .. Len(left) : \E k \in 1 .. Len(left) + Len(right) : t[k] = left[a]
  /\ \A b \in 1 .. Len(right) : \E k \in 1 .. Len(left) + Len(right) : t[k] = right[b]

\* Two runs that are in order merge into one that has both of them.
LEMMA MergeIs ==
  ASSUME NEW S \in SUBSET Elems, NEW R, Linear(R, S), NEW left \in Seq(S), NEW right \in Seq(S),
         InOrder(left, R), InOrder(right, R), Agree(left, right, R)
  PROVE  /\ Merge(left, right) \in Seq(S) /\ InOrder(Merge(left, right), R)
         /\ Both(Merge(left, right), left, right)
<1> DEFINE total == Len(left) + Len(right)
<1>1. left \in Seq(Elems) /\ right \in Seq(Elems) /\ Len(left) \in Nat /\ Len(right) \in Nat /\ total \in Nat
  BY SeqMonotonic, LenProperties
<1>2. PICK merged : Merges(merged, left, right) /\ Merge(left, right) = merged[total].out
  BY <1>1, SomeMerges
<1>3. /\ merged[0] = [out |-> << >>, i |-> 1, j |-> 1]
      /\ \A n \in 0 .. total : n + 1 <= total => merged[n + 1] = Taking(left, right, merged[n])
  BY <1>1, <1>2 DEF Merges
<1> DEFINE A == {n \in Nat : n <= total => Halfway(S, R, left, right, merged[n], n)}
<1>4. 0 \in A
  <2>1. << >> \in Seq(S) /\ Len(<< >>) = 0
    BY EmptySeq
  <2>2. InOrder(<< >>, R)
    BY <2>1 DEF InOrder
  <2> DEFINE m == merged[0]
  <2>3. m.out = << >> /\ m.i = 1 /\ m.j = 1
    BY <1>3
  <2> HIDE DEF m
  <2>4. Counts(left, right, m, 0)
    BY <1>1, <2>3 DEF Counts
  <2>5. Gathers(left, right, m, 0) /\ Precedes(R, left, right, m, 0)
    BY <2>3 DEF Gathers, Precedes
  <2>6. Halfway(S, R, left, right, m, 0)
    BY <2>1, <2>2, <2>3, <2>4, <2>5 DEF Halfway
  <2> QED BY <2>6 DEF m
<1>5. ASSUME NEW n \in A PROVE n + 1 \in A
  <2> SUFFICES ASSUME n + 1 <= total PROVE Halfway(S, R, left, right, merged[n + 1], n + 1)
    OBVIOUS
  <2>1. n \in Nat /\ n \in 0 .. total /\ n < total /\ Halfway(S, R, left, right, merged[n], n)
    BY <1>1
  <2> HIDE DEF A
  <2> QED BY <1>3, <2>1, TakingOn
<1>6. A = Nat
  <2> HIDE DEF A
  <2>1. A \subseteq Nat
    BY DEF A
  <2> QED BY <1>4, <1>5, <2>1, Induction
<1>7. Halfway(S, R, left, right, merged[total], total)
  BY <1>1, <1>6
<1> DEFINE m == merged[total]
<1>8. m.i - 1 = Len(left) /\ m.j - 1 = Len(right) /\ Merge(left, right) = m.out
  BY <1>1, <1>2, <1>7, SMTT(20) DEF Halfway, Counts
<1> HIDE DEF m
<1>9. /\ m.out \in Seq(S) /\ Len(m.out) = total /\ InOrder(m.out, R)
      /\ Gathers(left, right, m, total)
  BY <1>7 DEF Halfway, m
<1> DEFINE t == Merge(left, right)
<1> HIDE DEF t
<1>10. t = m.out /\ 1 .. m.i - 1 = 1 .. Len(left) /\ 1 .. m.j - 1 = 1 .. Len(right)
  BY <1>8 DEF t
<1>11. \A k \in 1 .. total : \/ \E a \in 1 .. Len(left) : t[k] = left[a]
                            \/ \E b \in 1 .. Len(right) : t[k] = right[b]
  BY <1>9, <1>10, ZenonT(30) DEF Gathers
<1>12. \A a \in 1 .. Len(left) : \E k \in 1 .. total : t[k] = left[a]
  BY <1>9, <1>10 DEF Gathers
<1>13. \A b \in 1 .. Len(right) : \E k \in 1 .. total : t[k] = right[b]
  BY <1>9, <1>10 DEF Gathers
<1>14. t \in Seq(S) /\ Len(t) = total /\ InOrder(t, R)
  BY <1>9, <1>10
<1>15. Both(t, left, right)
  BY <1>11, <1>12, <1>13, <1>14 DEF Both, total
<1> QED BY <1>14, <1>15 DEF t

-----------------------------------------------------------------------------
(* Runs and passes.                                                        *)

\* Where the k-th run of a width ends or the one after it begins.
Bound(k, width, len) == IF k * width <= len THEN k * width ELSE len
Block(k, width, len) == Bound(k, width, len) + 1 .. Bound(k + 1, width, len)

LEMMA BoundIs ==
  ASSUME NEW k \in Nat, NEW width \in Nat, NEW len \in Nat
  PROVE  /\ Bound(k, width, len) \in 0 .. len /\ Bound(0, width, len) = 0
         /\ Bound(k, width, len) <= Bound(k + 1, width, len)
         /\ Bound(2 * k, width, len) = Bound(k, 2 * width, len)
<1>1. k * width \in Nat /\ 0 * width = 0 /\ (k + 1) * width = k * width + width
  OBVIOUS
<1>2. (2 * k) * width = k * (2 * width)
  OBVIOUS
<1>3. Bound(0, width, len) = 0
  BY <1>1 DEF Bound
<1>4. Bound(2 * k, width, len) = Bound(k, 2 * width, len)
  BY <1>2 DEF Bound
<1> DEFINE b == k * width
           c == (k + 1) * width
<1>5. b \in Nat /\ c \in Nat /\ b <= c
  BY <1>1
<1>6. /\ Bound(k, width, len) = IF b <= len THEN b ELSE len
      /\ Bound(k + 1, width, len) = IF c <= len THEN c ELSE len
  BY DEF Bound
<1> HIDE DEF b, c
<1> QED BY <1>3, <1>4, <1>5, <1>6

LEMMA RunIs ==
  ASSUME NEW S, NEW u \in Seq(S), NEW width \in Nat, NEW k \in Nat
  PROVE  /\ Run(u, width, k) \in Seq(S)
         /\ Len(Run(u, width, k)) = Bound(k + 1, width, Len(u)) - Bound(k, width, Len(u))
         /\ \A i \in 1 .. Len(Run(u, width, k)) : Run(u, width, k)[i] = u[Bound(k, width, Len(u)) + i]
<1> DEFINE b == k * width
           c == (k + 1) * width
           len == Len(u)
           n == Min({c, len})
<1>1. b \in Nat /\ c \in Nat /\ b <= c /\ len \in Nat
  <2>1. c = b + width
    OBVIOUS
  <2> QED BY <2>1, LenProperties
<1>2. \A i \in 1 .. len : u[i] \in S
  BY ElementOfSeq
<1>3. Run(u, width, k) = SubSeq(u, b + 1, n)
  BY DEF Run
<1>4. /\ Bound(k, width, len) = IF b <= len THEN b ELSE len
      /\ Bound(k + 1, width, len) = IF c <= len THEN c ELSE len
  BY DEF Bound
<1> HIDE DEF b, c, len
<1>5. n = IF c <= len THEN c ELSE len
  <2>1. PICK m \in {c, len} : \A y \in {c, len} : m <= y
    BY <1>1
  <2>2. n \in {c, len} /\ \A y \in {c, len} : n <= y
    BY <2>1 DEF Min
  <2> HIDE DEF n
  <2> QED BY <1>1, <2>2
<1> HIDE DEF n
<1>6. n \in Int /\ b + 1 \in Int /\ \A i \in b + 1 .. n : u[i] \in S
  BY <1>1, <1>2, <1>5
<1>7. /\ SubSeq(u, b + 1, n) \in Seq(S)
      /\ Len(SubSeq(u, b + 1, n)) = IF b + 1 <= n THEN n - (b + 1) + 1 ELSE 0
      /\ \A i \in 1 .. n - (b + 1) + 1 : SubSeq(u, b + 1, n)[i] = u[(b + 1) + i - 1]
  BY <1>6, SubSeqProperties
<1> DEFINE t == Run(u, width, k)
<1> HIDE DEF t
<1>8. /\ t \in Seq(S)
      /\ Len(t) = IF b + 1 <= n THEN n - (b + 1) + 1 ELSE 0
      /\ \A i \in 1 .. n - (b + 1) + 1 : t[i] = u[(b + 1) + i - 1]
  BY <1>3, <1>7 DEF t
<1>9. Len(t) = Bound(k + 1, width, len) - Bound(k, width, len)
  BY <1>1, <1>4, <1>5, <1>8
<1>10. ASSUME NEW i \in 1 .. Len(t) PROVE t[i] = u[Bound(k, width, len) + i]
  <2>1. b + 1 <= n /\ i \in 1 .. n - (b + 1) + 1 /\ Bound(k, width, len) = b /\ (b + 1) + i - 1 = b + i
    BY <1>1, <1>4, <1>5, <1>8
  <2> QED BY <1>8, <2>1
<1> QED BY <1>8, <1>9, <1>10 DEF t, len

\* In the k-th block u has, in order, the elements that s has there.
InBlock(u, s, k, width, R) ==
  /\ \A i, j \in Block(k, width, Len(s)) : i < j => <<u[i], u[j]>> \in R
  /\ \A i \in Block(k, width, Len(s)) : \E j \in Block(k, width, Len(s)) : u[i] = s[j]
  /\ \A j \in Block(k, width, Len(s)) : \E i \in Block(k, width, Len(s)) : u[i] = s[j]

Runs(u, s, width, R) == \A k \in Nat : InBlock(u, s, k, width, R)

\* Of two elements of s the one that was later comes first if its rank is less.
Meant(s, R) ==
  \A i, j \in 1 .. Len(s) : i < j =>
    s[i] # s[j] /\ (Rank[s[j]] < Rank[s[i]] <=> <<s[j], s[i]>> \in R)

\* What s has in the k-th block, in order.
BlockOf(t, s, k, width, R, S) ==
  /\ t \in Seq(S) /\ Len(t) = Bound(k + 1, width, Len(s)) - Bound(k, width, Len(s))
  /\ InOrder(t, R)
  /\ \A i \in 1 .. Len(t) : \E j \in Block(k, width, Len(s)) : t[i] = s[j]
  /\ \A j \in Block(k, width, Len(s)) : \E i \in 1 .. Len(t) : t[i] = s[j]

\* Two runs side by side become one run of twice the width.
LEMMA PairIs ==
  ASSUME NEW S \in SUBSET Elems, NEW R, Linear(R, S), NEW s \in Seq(S), NEW u \in Seq(S), Len(u) = Len(s),
         Meant(s, R), NEW width \in Nat, Runs(u, s, width, R), NEW k \in Nat, NEW t,
         t = Merge(Run(u, width, 2 * k), Run(u, width, 2 * k + 1))
  PROVE  BlockOf(t, s, k, 2 * width, R, S)
<1> DEFINE len == Len(s)
           b == Bound(2 * k, width, len)
           c == Bound(2 * k + 1, width, len)
           d == Bound(2 * k + 2, width, len)
           left == Run(u, width, 2 * k)
           right == Run(u, width, 2 * k + 1)
<1>1. len \in Nat /\ 2 * k \in Nat /\ 2 * k + 1 \in Nat /\ (2 * k + 1) + 1 = 2 * k + 2 /\ 2 * (k + 1) = 2 * k + 2
  BY LenProperties
<1>2. b \in 0 .. len /\ c \in 0 .. len /\ d \in 0 .. len /\ b <= c /\ c <= d
  <2> HIDE DEF len
  <2>1. b \in 0 .. len /\ b <= c
    BY <1>1, BoundIs
  <2>2. c \in 0 .. len /\ c <= d
    BY <1>1, BoundIs
  <2>3. 2 * k + 2 \in Nat
    BY <1>1
  <2>4. d \in 0 .. len
    BY <1>1, <2>3, BoundIs
  <2> QED BY <2>1, <2>2, <2>4
<1>3. b = Bound(k, 2 * width, len) /\ d = Bound(k + 1, 2 * width, len)
  <2> HIDE DEF len
  <2>1. b = Bound(k, 2 * width, len)
    BY <1>1, BoundIs
  <2>2. k + 1 \in Nat
    OBVIOUS
  <2>3. d = Bound(k + 1, 2 * width, len)
    BY <1>1, <2>2, BoundIs
  <2> QED BY <2>1, <2>3
<1>4. Block(2 * k, width, len) = b + 1 .. c /\ Block(2 * k + 1, width, len) = c + 1 .. d
  BY <1>1 DEF Block
<1>5. Block(k, 2 * width, len) = b + 1 .. d
  BY <1>3 DEF Block
<1>6. left \in Seq(S) /\ Len(left) = c - b /\ \A i \in 1 .. Len(left) : left[i] = u[b + i]
  BY <1>1, RunIs
<1>7. right \in Seq(S) /\ Len(right) = d - c /\ \A i \in 1 .. Len(right) : right[i] = u[c + i]
  BY <1>1, RunIs
<1>8. /\ \A i, j \in b + 1 .. c : i < j => <<u[i], u[j]>> \in R
      /\ \A i \in b + 1 .. c : \E j \in b + 1 .. c : u[i] = s[j]
      /\ \A j \in b + 1 .. c : \E i \in b + 1 .. c : u[i] = s[j]
  <2> DEFINE q == 2 * k
             I == b + 1 .. c
  <2>1. q \in Nat /\ Block(q, width, Len(s)) = I
    BY <1>1, <1>4
  <2> HIDE DEF q, I
  <2>2. /\ \A i, j \in I : i < j => <<u[i], u[j]>> \in R
        /\ \A i \in I : \E j \in I : u[i] = s[j]
        /\ \A j \in I : \E i \in I : u[i] = s[j]
    BY <2>1 DEF Runs, InBlock
  <2> QED BY <2>2 DEF I
<1>9. /\ \A i, j \in c + 1 .. d : i < j => <<u[i], u[j]>> \in R
      /\ \A i \in c + 1 .. d : \E j \in c + 1 .. d : u[i] = s[j]
      /\ \A j \in c + 1 .. d : \E i \in c + 1 .. d : u[i] = s[j]
  <2> DEFINE q == 2 * k + 1
             I == c + 1 .. d
  <2>1. q \in Nat /\ Block(q, width, Len(s)) = I
    BY <1>1, <1>4
  <2> HIDE DEF q, I
  <2>2. /\ \A i, j \in I : i < j => <<u[i], u[j]>> \in R
        /\ \A i \in I : \E j \in I : u[i] = s[j]
        /\ \A j \in I : \E i \in I : u[i] = s[j]
    BY <2>1 DEF Runs, InBlock
  <2> QED BY <2>2 DEF I
<1>10. t = Merge(left, right) /\ \A i, j \in 1 .. len : i < j =>
         s[i] # s[j] /\ (Rank[s[j]] < Rank[s[i]] <=> <<s[j], s[i]>> \in R)
  BY DEF Meant
<1> HIDE DEF len, b, c, d, left, right
<1>11. \A a \in 1 .. Len(left) : b + a \in b + 1 .. c
  BY <1>2, <1>6
<1>12. \A a \in 1 .. Len(right) : c + a \in c + 1 .. d
  BY <1>2, <1>7
<1>13. InOrder(left, R)
  <2>1. ASSUME NEW i \in 1 .. Len(left), NEW j \in 1 .. Len(left), i < j PROVE <<left[i], left[j]>> \in R
    <3>1. b + i < b + j /\ b + i \in b + 1 .. c /\ b + j \in b + 1 .. c
      BY <1>2, <1>11, <2>1
    <3> QED BY <1>6, <1>8, <3>1
  <2> QED BY <2>1 DEF InOrder
<1>14. InOrder(right, R)
  <2>1. ASSUME NEW i \in 1 .. Len(right), NEW j \in 1 .. Len(right), i < j PROVE <<right[i], right[j]>> \in R
    <3>1. c + i < c + j /\ c + i \in c + 1 .. d /\ c + j \in c + 1 .. d
      BY <1>2, <1>12, <2>1
    <3> QED BY <1>7, <1>9, <3>1
  <2> QED BY <2>1 DEF InOrder
<1>15. \A a \in 1 .. Len(left) : \E i \in b + 1 .. c : left[a] = s[i]
  <2> TAKE a \in 1 .. Len(left)
  <2> DEFINE i == b + a
             I == b + 1 .. c
  <2>1. i \in I /\ left[a] = u[i]
    BY <1>6, <1>11
  <2>2. \A n \in I : \E j \in I : u[n] = s[j]
    BY <1>8
  <2> HIDE DEF i, I
  <2>3. \E j \in I : left[a] = s[j]
    BY <2>1, <2>2
  <2> QED BY <2>3 DEF I
<1>16. \A a \in 1 .. Len(right) : \E i \in c + 1 .. d : right[a] = s[i]
  <2> TAKE a \in 1 .. Len(right)
  <2> DEFINE i == c + a
             I == c + 1 .. d
  <2>1. i \in I /\ right[a] = u[i]
    BY <1>7, <1>12
  <2>2. \A n \in I : \E j \in I : u[n] = s[j]
    BY <1>9
  <2> HIDE DEF i, I
  <2>3. \E j \in I : right[a] = s[j]
    BY <2>1, <2>2
  <2> QED BY <2>3 DEF I
<1>17. Agree(left, right, R)
  <2>1. ASSUME NEW a \in 1 .. Len(left), NEW e \in 1 .. Len(right)
        PROVE  /\ left[a] # right[e]
               /\ Rank[right[e]] < Rank[left[a]] <=> <<right[e], left[a]>> \in R
    <3>1. PICK i \in b + 1 .. c : left[a] = s[i]
      BY <1>15
    <3>2. PICK j \in c + 1 .. d : right[e] = s[j]
      BY <1>16
    <3>3. i \in 1 .. len /\ j \in 1 .. len /\ i < j
      <4>1. i \in Int /\ b + 1 <= i /\ i <= c /\ j \in Int /\ c + 1 <= j /\ j <= d
        OBVIOUS
      <4>2. b \in Nat /\ c \in Nat /\ d \in Nat /\ d <= len /\ b <= c /\ c <= d /\ len \in Nat
        BY <1>1, <1>2
      <4> QED BY <4>1, <4>2
    <3> QED BY <1>10, <3>1, <3>2, <3>3
  <2> QED BY <2>1 DEF Agree
<1>18. /\ t \in Seq(S) /\ Len(t) = Len(left) + Len(right) /\ InOrder(t, R)
       /\ \A i \in 1 .. Len(left) + Len(right) :
            \/ \E a \in 1 .. Len(left) : t[i] = left[a]
            \/ \E a \in 1 .. Len(right) : t[i] = right[a]
       /\ \A a \in 1 .. Len(left) : \E i \in 1 .. Len(left) + Len(right) : t[i] = left[a]
       /\ \A a \in 1 .. Len(right) : \E i \in 1 .. Len(left) + Len(right) : t[i] = right[a]
  <2>1. left \in Seq(S) /\ right \in Seq(S) /\ t = Merge(left, right)
    BY <1>6, <1>7, <1>10
  <2>2. t \in Seq(S) /\ InOrder(t, R) /\ Both(t, left, right)
    BY <2>1, <1>13, <1>14, <1>17, MergeIs, SMTT(20)
  <2> QED BY <2>2 DEF Both
<1>19. Len(t) = d - b
  BY <1>2, <1>6, <1>7, <1>18, SMTT(20)
<1>20. ASSUME NEW i \in 1 .. Len(t) PROVE \E j \in b + 1 .. d : t[i] = s[j]
  <2>1. b + 1 .. c \subseteq b + 1 .. d /\ c + 1 .. d \subseteq b + 1 .. d
    BY <1>2
  <2>2. CASE \E a \in 1 .. Len(left) : t[i] = left[a]
    BY <1>15, <2>1, <2>2
  <2>3. CASE \E a \in 1 .. Len(right) : t[i] = right[a]
    BY <1>16, <2>1, <2>3
  <2> QED BY <1>18, <2>2, <2>3
<1>21. ASSUME NEW j \in b + 1 .. d PROVE \E i \in 1 .. Len(t) : t[i] = s[j]
  <2>1. CASE j \in b + 1 .. c
    <3>1. PICK i \in b + 1 .. c : u[i] = s[j]
      BY <1>8, <2>1
    <3>2. i - b \in 1 .. Len(left) /\ b + (i - b) = i
      BY <1>2, <1>6
    <3>3. left[i - b] = s[j]
      BY <1>6, <3>1, <3>2
    <3> QED BY <1>18, <3>2, <3>3
  <2>2. CASE j \in c + 1 .. d
    <3>1. PICK i \in c + 1 .. d : u[i] = s[j]
      BY <1>9, <2>2
    <3>2. i - c \in 1 .. Len(right) /\ c + (i - c) = i
      BY <1>2, <1>7
    <3>3. right[i - c] = s[j]
      BY <1>7, <3>1, <3>2
    <3> QED BY <1>18, <3>2, <3>3
  <2>3. j \in b + 1 .. c \/ j \in c + 1 .. d
    <3>1. j \in Int /\ b + 1 <= j /\ j <= d
      BY <1>2, <1>21
    <3> QED BY <1>2, <3>1
  <2> QED BY <2>1, <2>2, <2>3
<1>22. Len(t) = Bound(k + 1, 2 * width, len) - Bound(k, 2 * width, len)
  BY <1>3, <1>19
<1>23. \A i \in 1 .. Len(t) : \E j \in Block(k, 2 * width, len) : t[i] = s[j]
  BY <1>5, <1>20, Zenon
<1>24. \A j \in Block(k, 2 * width, len) : \E i \in 1 .. Len(t) : t[i] = s[j]
  BY <1>5, <1>21, Zenon
<1> QED BY <1>18, <1>22, <1>23, <1>24, Zenon DEF len, BlockOf

\* The runs of a pass one after the other.
Passes(passed, u, width, pairs) ==
  passed = [p \in 0 .. pairs |->
              IF p = 0 THEN << >>
              ELSE passed[p - 1] \o Merge(Run(u, width, 2 * p - 2), Run(u, width, 2 * p - 1))]

Pairs(len, width) == (len + 2 * width - 1) \div (2 * width)

LEMMA SomePasses ==
  ASSUME NEW S, NEW u, NEW width, NEW pairs \in Nat, pairs = Pairs(Len(u), width),
         \A k \in Nat : Merge(Run(u, width, 2 * k), Run(u, width, 2 * k + 1)) \in Seq(S)
  PROVE  \E passed : /\ Passes(passed, u, width, pairs)
                     /\ MergePass(u, width) = passed[pairs]
<1> DEFINE pair(k) == Merge(Run(u, width, 2 * k), Run(u, width, 2 * k + 1))
           V == Seq(S)
           step == [k \in Nat |-> [v \in V |-> v \o pair(k)]]
           Is(passed) == passed = [p \in 0 .. pairs |->
                           IF p = 0 THEN << >>
                           ELSE passed[p - 1] \o Merge(Run(u, width, 2 * p - 2), Run(u, width, 2 * p - 1))]
<1>1. << >> \in V
  OBVIOUS
<1>2. \A k \in Nat : pair(k) \in V
  OBVIOUS
<1> HIDE DEF pair
<1>3. step \in Steps(V)
  <2>1. \A k \in Nat, v \in V : v \o pair(k) \in V
    BY <1>2, ConcatProperties
  <2> HIDE DEF V
  <2> QED BY <2>1 DEF Steps
<1> DEFINE empty == << >>
<1>4. PICK h : /\ h = [n \in 0 .. pairs |-> h[n]]
               /\ h[0] = empty /\ \A n \in 0 .. pairs : h[n] \in V
               /\ \A n \in 1 .. pairs : h[n] = step[n - 1][h[n - 1]]
  <2> HIDE DEF V, step, empty
  <2>1. empty \in V
    BY <1>1 DEF empty
  <2> QED BY <1>3, <2>1, RecursiveUpto
<1>5. ASSUME NEW p \in 1 .. pairs
      PROVE  h[p] = h[p - 1] \o Merge(Run(u, width, 2 * p - 2), Run(u, width, 2 * p - 1))
  <2> DEFINE k == p - 1
  <2>1. k \in Nat /\ k \in 0 .. pairs /\ 2 * k = 2 * p - 2 /\ 2 * k + 1 = 2 * p - 1
    BY <1>5
  <2>2. pair(k) = Merge(Run(u, width, 2 * p - 2), Run(u, width, 2 * p - 1))
    BY <2>1 DEF pair
  <2>3. h[p] = step[k][h[k]]
    BY <1>4
  <2> HIDE DEF k, V
  <2>4. h[p] = h[k] \o pair(k)
    BY <1>4, <2>1, <2>3
  <2> QED BY <2>2, <2>4 DEF k
<1>6. Is(h)
  <2> DEFINE next(p) == Merge(Run(u, width, 2 * p - 2), Run(u, width, 2 * p - 1))
  <2>1. \A p \in 1 .. pairs : h[p] = h[p - 1] \o next(p)
    BY <1>5
  <2>2. \A p \in 0 .. pairs : p # 0 => p \in 1 .. pairs
    OBVIOUS
  <2>3. h = [p \in 0 .. pairs |-> IF p = 0 THEN << >> ELSE h[p - 1] \o next(p)]
    <3> HIDE DEF next
    <3> QED BY <1>4, <2>1, <2>2
  <2> QED BY <2>3
<1> DEFINE passed == CHOOSE passed : Is(passed)
<1>7. Is(passed)
  <2> HIDE DEF Is
  <2> QED BY <1>6
<1>8. MergePass(u, width) = passed[pairs]
  BY DEF MergePass, Pairs
<1>9. Passes(passed, u, width, pairs)
  BY <1>7 DEF Passes
<1> HIDE DEF passed
<1> QED BY <1>8, <1>9

LEMMA PairsAreAll ==
  ASSUME NEW len \in Nat, NEW width \in Nat \ {0}
  PROVE  Pairs(len, width) \in Nat /\ len <= Pairs(len, width) * (2 * width)
<1> DEFINE d == 2 * width
           n == len + d - 1
           q == n \div d
<1>1. d \in Nat \ {0} /\ n \in Nat
  OBVIOUS
<1> HIDE DEF d
<1>2. q \in Nat /\ n = d * q + (n % d) /\ (n % d) \in 0 .. d - 1
  <2> HIDE DEF n
  <2> QED BY <1>1
<1>3. d * q = q * d
  BY <1>1, <1>2
<1> DEFINE r == n % d
           m == q * d
<1>4. m \in Int /\ r \in 0 .. d - 1 /\ len + d - 1 = m + r
  BY <1>1, <1>2, <1>3
<1> HIDE DEF m, q, r
<1>5. len <= m
  BY <1>1, <1>4
<1> QED BY <1>2, <1>5 DEF m, q, d, Pairs

LEMMA BoundMonotone ==
  ASSUME NEW k \in Nat, NEW m \in Nat, k <= m, NEW width \in Nat, NEW len \in Nat
  PROVE  Bound(k, width, len) <= Bound(m, width, len)
<1> DEFINE b == k * width
           c == m * width
           d == m - k
           e == d * width
<1>1. d \in Nat /\ m = k + d
  OBVIOUS
<1> HIDE DEF d
<1>2. b \in Nat /\ c \in Nat /\ e \in Nat /\ c = b + e
  BY <1>1
<1>3. /\ Bound(k, width, len) = IF b <= len THEN b ELSE len
      /\ Bound(m, width, len) = IF c <= len THEN c ELSE len
  BY DEF Bound
<1> HIDE DEF b, c, e
<1> QED BY <1>2, <1>3

\* What a pass has after p pairs of runs.
Passed(v, s, p, width, R, S) ==
  /\ v \in Seq(S) /\ Len(v) = Bound(p, width, Len(s))
  /\ \A k \in Nat : k < p => InBlock(v, s, k, width, R)

LEMMA PassOn ==
  ASSUME NEW S, NEW R, NEW s \in Seq(S), NEW v, NEW p \in Nat, NEW width \in Nat,
         Passed(v, s, p, width, R, S), NEW t, BlockOf(t, s, p, width, R, S)
  PROVE  Passed(v \o t, s, p + 1, width, R, S)
<1> DEFINE len == Len(s)
           b == Bound(p, width, len)
           c == Bound(p + 1, width, len)
           u == v \o t
<1>1. len \in Nat /\ p + 1 \in Nat
  BY LenProperties
<1>2. b \in 0 .. len /\ c \in 0 .. len /\ b <= c
  <2> HIDE DEF len
  <2> QED BY <1>1, BoundIs
<1>3. v \in Seq(S) /\ Len(v) = b /\ \A k \in Nat : k < p => InBlock(v, s, k, width, R)
  BY DEF Passed
<1>4. t \in Seq(S) /\ Len(t) = c - b /\ InOrder(t, R)
  BY DEF BlockOf
<1>5. /\ u \in Seq(S) /\ Len(u) = b + Len(t)
      /\ \A i \in 1 .. b + Len(t) : u[i] = IF i <= b THEN v[i] ELSE t[i - b]
  <2>1. /\ v \o t \in Seq(S) /\ Len(v \o t) = Len(v) + Len(t)
        /\ \A i \in 1 .. Len(v) + Len(t) : (v \o t)[i] = IF i <= Len(v) THEN v[i] ELSE t[i - Len(v)]
    BY <1>3, <1>4, ConcatProperties
  <2> HIDE DEF b
  <2> QED BY <1>3, <2>1
<1>6. Block(p, width, len) = b + 1 .. c
  BY DEF Block
<1> DEFINE K == b + 1 .. c
<1>7. /\ \A i \in 1 .. Len(t) : \E j \in K : t[i] = s[j]
      /\ \A j \in K : \E i \in 1 .. Len(t) : t[i] = s[j]
  BY <1>6 DEF BlockOf
<1> HIDE DEF len, b, c, u
<1>8. Len(u) = c /\ \A i \in 1 .. b : u[i] = v[i]
  BY <1>2, <1>4, <1>5
<1>9. \A i \in K : i - b \in 1 .. Len(t) /\ u[i] = t[i - b]
  BY <1>2, <1>4, <1>5
<1>10. \A i \in 1 .. Len(t) : b + i \in K /\ u[b + i] = t[i]
  <2> TAKE i \in 1 .. Len(t)
  <2>1. b + i \in K /\ (b + i) - b = i
    BY <1>2, <1>4
  <2> HIDE DEF K
  <2> QED BY <1>9, <2>1
<1>11. InBlock(u, s, p, width, R)
  <2>1. ASSUME NEW i \in K, NEW j \in K, i < j PROVE <<u[i], u[j]>> \in R
    <3>1. i - b \in 1 .. Len(t) /\ j - b \in 1 .. Len(t) /\ i - b < j - b
      BY <1>2, <1>9, <2>1
    <3> HIDE DEF K
    <3> QED BY <1>4, <1>9, <3>1 DEF InOrder
  <2> HIDE DEF K
  <2>2. \A i \in K : \E j \in K : u[i] = s[j]
    <3> TAKE i \in K
    <3> DEFINE n == i - b
    <3>1. n \in 1 .. Len(t) /\ u[i] = t[n]
      BY <1>9
    <3> HIDE DEF n
    <3> QED BY <1>7, <3>1
  <2>3. \A j \in K : \E i \in K : u[i] = s[j]
    <3> TAKE j \in K
    <3>1. PICK i \in 1 .. Len(t) : t[i] = s[j]
      BY <1>7
    <3> DEFINE n == b + i
    <3>2. n \in K /\ u[n] = s[j]
      BY <1>10, <3>1
    <3> HIDE DEF n
    <3> QED BY <3>2
  <2>4. Block(p, width, Len(s)) = K
    BY <1>6 DEF len, K
  <2> QED BY <2>1, <2>2, <2>3, <2>4 DEF InBlock
<1>12. ASSUME NEW k \in Nat, k < p PROVE InBlock(u, s, k, width, R)
  <2> DEFINE J == Block(k, width, len)
  <2>1. \A i \in J : i \in 1 .. b
    <3>1. k + 1 \in Nat /\ k + 1 <= p
      BY <1>12
    <3>2. Bound(k + 1, width, len) <= b
      BY <1>1, <3>1, BoundMonotone DEF b
    <3>3. Bound(k, width, len) \in 0 .. len /\ Bound(k + 1, width, len) \in 0 .. len
      BY <1>1, <3>1, BoundIs
    <3> QED BY <1>2, <3>2, <3>3 DEF Block
  <2>2. InBlock(v, s, k, width, R)
    BY <1>3, <1>12
  <2> HIDE DEF J
  <2>3. J = Block(k, width, Len(s))
    BY DEF J, len
  <2>4. /\ \A i, j \in J : i < j => <<v[i], v[j]>> \in R
        /\ \A i \in J : \E j \in J : v[i] = s[j]
        /\ \A j \in J : \E i \in J : v[i] = s[j]
    BY <2>2, <2>3 DEF InBlock
  <2>5. \A i \in J : u[i] = v[i]
    BY <1>8, <2>1
  <2>6. /\ \A i, j \in J : i < j => <<u[i], u[j]>> \in R
        /\ \A i \in J : \E j \in J : u[i] = s[j]
        /\ \A j \in J : \E i \in J : u[i] = s[j]
    <3>1. \A i, j \in J : i < j => <<u[i], u[j]>> \in R
      BY <2>4, <2>5
    <3>2. \A i \in J : \E j \in J : u[i] = s[j]
      BY <2>4, <2>5
    <3>3. ASSUME NEW j \in J PROVE \E i \in J : u[i] = s[j]
      <4>1. PICK i \in J : v[i] = s[j]
        BY <2>4
      <4> QED BY <2>5, <4>1
    <3> QED BY <3>1, <3>2, <3>3
  <2> QED BY <2>3, <2>6 DEF InBlock
<1>13. \A k \in Nat : k < p + 1 => k = p \/ k < p
  OBVIOUS
<1>14. \A k \in Nat : k < p + 1 => InBlock(u, s, k, width, R)
  BY <1>11, <1>12, <1>13
<1>15. u \in Seq(S) /\ Len(u) = Bound(p + 1, width, Len(s))
  BY <1>5, <1>8 DEF c, len
<1> QED BY <1>14, <1>15 DEF Passed, u

LEMMA PassIs ==
  ASSUME NEW S \in SUBSET Elems, NEW R, Linear(R, S), NEW s \in Seq(S), NEW u \in Seq(S), Len(u) = Len(s),
         Meant(s, R), NEW width \in Nat \ {0}, Runs(u, s, width, R)
  PROVE  /\ MergePass(u, width) \in Seq(S) /\ Len(MergePass(u, width)) = Len(s)
         /\ Runs(MergePass(u, width), s, 2 * width, R)
<1> DEFINE len == Len(s)
           pairs == Pairs(len, width)
           double == 2 * width
           pair(k) == Merge(Run(u, width, 2 * k), Run(u, width, 2 * k + 1))
<1>1. len \in Nat /\ double \in Nat /\ width \in Nat
  BY LenProperties
<1>2. pairs \in Nat /\ len <= pairs * double
  <2> HIDE DEF len
  <2> QED BY <1>1, PairsAreAll
<1>3. ASSUME NEW k \in Nat
      PROVE  BlockOf(pair(k), s, k, double, R, S)
  <2> DEFINE t == pair(k)
  <2>1. t = Merge(Run(u, width, 2 * k), Run(u, width, 2 * k + 1))
    OBVIOUS
  <2> HIDE DEF t
  <2> QED BY <1>1, <2>1, PairIs DEF t
<1>4. PICK passed : Passes(passed, u, width, pairs) /\ MergePass(u, width) = passed[pairs]
  <2>1. \A k \in Nat : Merge(Run(u, width, 2 * k), Run(u, width, 2 * k + 1)) \in Seq(S)
    BY <1>3 DEF BlockOf
  <2>2. pairs = Pairs(Len(u), width)
    OBVIOUS
  <2> HIDE DEF pairs, len, double, pair
  <2> QED BY <1>2, <2>1, <2>2, SomePasses
<1> HIDE DEF len, pairs, pair
<1>5. passed[0] = << >>
  BY <1>2, <1>4 DEF Passes
<1>6. ASSUME NEW p \in Nat, p + 1 <= pairs PROVE passed[p + 1] = passed[p] \o pair(p)
  <2> DEFINE n == p + 1
  <2>1. n \in 0 .. pairs /\ n # 0 /\ n - 1 = p /\ 2 * n - 2 = 2 * p /\ 2 * n - 1 = 2 * p + 1
    BY <1>2, <1>6
  <2> HIDE DEF n
  <2>2. passed[n] = passed[n - 1] \o Merge(Run(u, width, 2 * n - 2), Run(u, width, 2 * n - 1))
    BY <1>4, <2>1 DEF Passes
  <2> QED BY <2>1, <2>2 DEF n, pair
<1> HIDE DEF double
<1> DEFINE A == {p \in Nat : p <= pairs => Passed(passed[p], s, p, double, R, S)}
<1>7. 0 \in A
  <2>1. << >> \in Seq(S) /\ Len(<< >>) = 0
    BY EmptySeq
  <2>2. Bound(0, double, Len(s)) = 0
    BY <1>1, BoundIs DEF len
  <2>3. Passed(<< >>, s, 0, double, R, S)
    BY <2>1, <2>2 DEF Passed
  <2> QED BY <1>5, <2>3
<1>8. ASSUME NEW p \in A PROVE p + 1 \in A
  <2> SUFFICES ASSUME p + 1 <= pairs PROVE Passed(passed[p + 1], s, p + 1, double, R, S)
    OBVIOUS
  <2>1. p \in Nat /\ p <= pairs /\ Passed(passed[p], s, p, double, R, S)
    BY <1>2
  <2> DEFINE t == pair(p)
             v == passed[p]
  <2> HIDE DEF A
  <2>2. BlockOf(t, s, p, double, R, S)
    BY <1>3, <2>1
  <2>3. Passed(v, s, p, double, R, S)
    BY <2>1
  <2> HIDE DEF t, v
  <2>4. Passed(v \o t, s, p + 1, double, R, S)
    BY <1>1, <2>1, <2>2, <2>3, PassOn
  <2> QED BY <1>6, <2>1, <2>4 DEF t, v
<1>9. A = Nat
  <2> HIDE DEF A
  <2>1. A \subseteq Nat
    BY DEF A
  <2> QED BY <1>7, <1>8, <2>1, Induction
<1> DEFINE v == passed[pairs]
<1>10. Passed(v, s, pairs, double, R, S)
  BY <1>2, <1>9
<1> HIDE DEF v
<1>11. Bound(pairs, double, len) = len
  <2> DEFINE m == pairs * double
  <2>1. m \in Nat /\ len <= m
    BY <1>1, <1>2
  <2>2. Bound(pairs, double, len) = IF m <= len THEN m ELSE len
    BY DEF Bound
  <2> HIDE DEF m
  <2> QED BY <1>1, <2>1, <2>2
<1>12. ASSUME NEW k \in Nat, ~(k < pairs) PROVE InBlock(v, s, k, double, R)
  <2>1. pairs <= k /\ pairs <= k + 1 /\ k + 1 \in Nat
    BY <1>2, <1>12
  <2>2. len <= Bound(k, double, len) /\ len <= Bound(k + 1, double, len)
    BY <1>1, <1>2, <1>11, <2>1, BoundMonotone
  <2>3. Bound(k, double, len) \in 0 .. len /\ Bound(k + 1, double, len) \in 0 .. len
    BY <1>1, <2>1, BoundIs
  <2>4. Block(k, double, Len(s)) = {}
    BY <1>1, <2>2, <2>3 DEF Block, len
  <2> QED BY <2>4 DEF InBlock
<1>13. Runs(v, s, double, R)
  BY <1>10, <1>12 DEF Runs, Passed
<1>14. v \in Seq(S) /\ Len(v) = len
  BY <1>10, <1>11 DEF Passed, len
<1> QED BY <1>4, <1>13, <1>14 DEF v, double, len

-----------------------------------------------------------------------------
(* The whole sort.                                                         *)

\* t has the elements of s, in the order R.
Sorts(t, s, R, S) ==
  /\ t \in Seq(S) /\ Len(t) = Len(s) /\ InOrder(t, R)
  /\ \A i \in 1 .. Len(s) : \E j \in 1 .. Len(s) : t[i] = s[j]
  /\ \A j \in 1 .. Len(s) : \E i \in 1 .. Len(s) : t[i] = s[j]

\* Runs of one element are in order.
LEMMA RunsOfOne ==
  ASSUME NEW S, NEW s \in Seq(S), NEW R
  PROVE  Runs(s, s, 1, R)
<1> DEFINE len == Len(s)
<1>1. len \in Nat
  BY LenProperties
<1> HIDE DEF len
<1>2. ASSUME NEW k \in Nat PROVE InBlock(s, s, k, 1, R)
  <2> DEFINE J == Block(k, 1, len)
  <2>1. \A i, j \in J : ~(i < j)
    <3>1. k + 1 \in Nat /\ k * 1 = k /\ (k + 1) * 1 = k + 1
      OBVIOUS
    <3>2. /\ Bound(k, 1, len) = IF k <= len THEN k ELSE len
          /\ Bound(k + 1, 1, len) = IF k + 1 <= len THEN k + 1 ELSE len
      BY <3>1 DEF Bound
    <3> QED BY <1>1, <3>2 DEF Block
  <2>2. J = Block(k, 1, Len(s))
    BY DEF len
  <2> HIDE DEF J
  <2> QED BY <2>1, <2>2 DEF InBlock
<1> QED BY <1>2 DEF Runs

\* One run that is as wide as all of it.
LEMMA RunsOfAll ==
  ASSUME NEW S, NEW s \in Seq(S), NEW t \in Seq(S), Len(t) = Len(s), NEW R,
         NEW width \in Nat, Len(s) <= width, Runs(t, s, width, R)
  PROVE  Sorts(t, s, R, S)
<1> DEFINE len == Len(s)
<1>1. len \in Nat /\ len <= width
  BY LenProperties
<1>2. InBlock(t, s, 0, width, R)
  BY DEF Runs
<1>3. Block(0, width, Len(s)) = 1 .. Len(s)
  <2> HIDE DEF len
  <2>1. 0 * width = 0 /\ (0 + 1) * width = width
    OBVIOUS
  <2>2. Bound(0, width, len) = 0 /\ Bound(0 + 1, width, len) = len
    BY <1>1, <2>1 DEF Bound
  <2>3. Block(0, width, len) = 1 .. len
    BY <2>2 DEF Block
  <2> QED BY <2>3 DEF len
<1> DEFINE J == 1 .. Len(s)
<1>4. Block(0, width, Len(s)) = J
  BY <1>3
<1> HIDE DEF J
<1>5. /\ \A i, j \in J : i < j => <<t[i], t[j]>> \in R
      /\ \A i \in J : \E j \in J : t[i] = s[j]
      /\ \A j \in J : \E i \in J : t[i] = s[j]
  BY <1>2, <1>4 DEF InBlock
<1>6. InOrder(t, R)
  BY <1>5 DEF InOrder, J
<1> QED BY <1>5, <1>6 DEF Sorts, J

\* How far a sort has come, and the next pass of it.
Doubling(m, len) ==
  IF m.width >= len THEN m
  ELSE [width |-> 2 * m.width, items |-> MergePass(m.items, m.width)]

LEMMA MergeSortIs ==
  ASSUME NEW S \in SUBSET Elems, NEW R, Linear(R, S), NEW s \in Seq(S), Meant(s, R)
  PROVE  Sorts(MergeSort(s), s, R, S)
<1> DEFINE len == Len(s)
           V == {m \in [width : Nat \ {0}, items : Seq(S)] :
                   Len(m.items) = Len(s) /\ Runs(m.items, s, m.width, R)}
           start == [width |-> 1, items |-> s]
           step == [n \in Nat |-> [m \in V |-> Doubling(m, len)]]
           Is(sorted) == sorted = [n \in 0 .. len |->
                           IF n = 0 THEN start ELSE Doubling(sorted[n - 1], len)]
<1>1. len \in Nat
  BY LenProperties
<1>2. start \in V
  <2>1. Runs(s, s, 1, R)
    BY RunsOfOne
  <2> QED BY <2>1
<1>3. ASSUME NEW m \in V PROVE Doubling(m, len) \in V
  <2>1. /\ m.width \in Nat \ {0} /\ m.items \in Seq(S) /\ Len(m.items) = Len(s)
        /\ Runs(m.items, s, m.width, R)
    OBVIOUS
  <2> DEFINE u == m.items
             w == m.width
             v == MergePass(u, w)
  <2>2. u \in Seq(S) /\ w \in Nat \ {0} /\ Len(u) = Len(s) /\ Runs(u, s, w, R)
    BY <2>1
  <2>3. v \in Seq(S) /\ Len(v) = Len(s) /\ Runs(v, s, 2 * w, R)
    <3> HIDE DEF u, w, V, len
    <3> QED BY <2>2, PassIs
  <2> DEFINE next == [width |-> 2 * w, items |-> v]
  <2>4. next \in V
    <3> HIDE DEF u, w, v
    <3>1. 2 * w \in Nat \ {0}
      BY <2>2
    <3> QED BY <2>3, <3>1
  <2>5. Doubling(m, len) = IF m.width >= len THEN m ELSE next
    BY DEF Doubling
  <2> HIDE DEF V, next, len
  <2> QED BY <2>4, <2>5
<1>4. step \in Steps(V)
  <2> HIDE DEF V
  <2> QED BY <1>3 DEF Steps
<1>5. PICK h : /\ h = [n \in 0 .. len |-> h[n]]
               /\ h[0] = start /\ \A n \in 0 .. len : h[n] \in V
               /\ \A n \in 1 .. len : h[n] = step[n - 1][h[n - 1]]
  <2> HIDE DEF V, start, step, len
  <2> QED BY <1>1, <1>2, <1>4, RecursiveUpto
<1>6. Is(h)
  <2>1. ASSUME NEW n \in 1 .. len PROVE h[n] = Doubling(h[n - 1], len)
    <3>1. n - 1 \in Nat /\ n - 1 \in 0 .. len
      BY <1>1, <2>1
    <3> HIDE DEF V, len
    <3> QED BY <1>5, <2>1, <3>1
  <2> HIDE DEF len, start, V, step
  <2>2. \A n \in 0 .. len : n # 0 => n \in 1 .. len
    BY <1>1
  <2>3. h = [n \in 0 .. len |-> IF n = 0 THEN start ELSE Doubling(h[n - 1], len)]
    BY <1>5, <2>1, <2>2
  <2> QED BY <2>3
<1> DEFINE sorted == CHOOSE sorted : Is(sorted)
<1>7. Is(sorted)
  <2> HIDE DEF Is
  <2> QED BY <1>6
<1>8. MergeSort(s) = sorted[len].items
  BY DEF MergeSort, Doubling
<1> HIDE DEF sorted, len
<1>9. sorted[0] = start /\ \A n \in Nat : n + 1 <= len => sorted[n + 1] = Doubling(sorted[n], len)
  <2>1. sorted = [n \in 0 .. len |-> IF n = 0 THEN start ELSE Doubling(sorted[n - 1], len)]
    BY <1>7
  <2> HIDE DEF start
  <2>2. \A n \in Nat : n + 1 <= len => n + 1 \in 0 .. len /\ n + 1 # 0 /\ (n + 1) - 1 = n
    BY <1>1
  <2> QED BY <1>1, <2>1, <2>2
<1> DEFINE A == {n \in Nat : n <= len =>
                   sorted[n] \in V /\ (sorted[n].width >= len \/ sorted[n].width >= n + 1)}
<1>10. 0 \in A
  <2>1. sorted[0] \in V
    <3> HIDE DEF V, start
    <3> QED BY <1>2, <1>9
  <2>2. sorted[0].width = 1
    BY <1>9
  <2> HIDE DEF V
  <2> QED BY <2>1, <2>2
<1>11. ASSUME NEW n \in A PROVE n + 1 \in A
  <2> DEFINE m == sorted[n]
             next == sorted[n + 1]
  <2> SUFFICES ASSUME n + 1 <= len
               PROVE  next \in V /\ (next.width >= len \/ next.width >= (n + 1) + 1)
    OBVIOUS
  <2>1. n \in Nat /\ n <= len /\ m \in V /\ (m.width >= len \/ m.width >= n + 1)
    <3> HIDE DEF V
    <3> QED BY <1>1
  <2>2. next = Doubling(m, len)
    BY <1>9, <2>1
  <2>3. m.width \in Nat
    BY <2>1
  <2> HIDE DEF m, next, V, A
  <2>4. next \in V
    BY <1>3, <2>1, <2>2
  <2>5. CASE m.width >= len
    BY <2>1, <2>2, <2>4, <2>5 DEF Doubling
  <2>6. CASE ~(m.width >= len)
    <3>1. next.width = 2 * m.width
      BY <2>2, <2>6 DEF Doubling
    <3>2. next.width >= (n + 1) + 1
      BY <1>1, <2>1, <2>3, <2>6, <3>1
    <3> QED BY <2>4, <3>2
  <2> QED BY <2>5, <2>6
<1>12. A = Nat
  <2> HIDE DEF A
  <2>1. A \subseteq Nat
    BY DEF A
  <2> QED BY <1>10, <1>11, <2>1, Induction
<1> DEFINE m == sorted[len]
<1>13. m \in V /\ m.width >= len
  <2>1. m \in V /\ (m.width >= len \/ m.width >= len + 1)
    <3> HIDE DEF V
    <3> QED BY <1>1, <1>12
  <2>2. m.width \in Nat
    BY <2>1
  <2> HIDE DEF m, V
  <2> QED BY <1>1, <2>1, <2>2
<1> HIDE DEF m
<1> DEFINE t == m.items
           w == m.width
<1>14. t \in Seq(S) /\ Len(t) = Len(s) /\ w \in Nat /\ Len(s) <= w /\ Runs(t, s, w, R)
  BY <1>1, <1>13 DEF len
<1>15. MergeSort(s) = t
  BY <1>8 DEF m
<1> HIDE DEF t, w
<1>16. Sorts(t, s, R, S)
  BY <1>14, RunsOfAll
<1> QED BY <1>15, <1>16

-----------------------------------------------------------------------------
(* The order of list.sort, either way round.                               *)

Before(s, reverse, p, q) ==
  \/ Rank[s[p]] < Rank[s[q]] /\ ~reverse
  \/ Rank[s[p]] > Rank[s[q]] /\ reverse
  \/ Rank[s[p]] = Rank[s[q]] /\ p < q

Order(s, reverse) ==
  {e \in ToSet(s) \X ToSet(s) :
     \E p, q \in 1 .. Len(s) : e = <<s[p], s[q]>> /\ Before(s, reverse, p, q)}

Distinct(s) == \A i, j \in 1 .. Len(s) : s[i] = s[j] => i = j

LEMMA ToSetIs ==
  ASSUME NEW S, NEW s \in Seq(S)
  PROVE  /\ ToSet(s) = {s[i] : i \in 1 .. Len(s)} /\ ToSet(s) \subseteq S
         /\ s \in Seq(ToSet(s))
<1>1. DOMAIN s = 1 .. Len(s) /\ Len(s) \in Nat /\ s = [i \in 1 .. Len(s) |-> s[i]]
  BY LenProperties
<1>2. \A i \in 1 .. Len(s) : s[i] \in S
  BY ElementOfSeq
<1>3. ToSet(s) = {s[i] : i \in 1 .. Len(s)}
  BY <1>1 DEF ToSet
<1>4. s \in Seq(ToSet(s))
  <2>1. s \in [1 .. Len(s) -> ToSet(s)]
    BY <1>1, <1>3
  <2> QED BY <1>1, <2>1
<1> QED BY <1>2, <1>3, <1>4

\* Ranks are compared as numbers are, and so are positions.
LEMMA BeforeIsLinear ==
  ASSUME NEW s \in Seq(Elems), NEW reverse \in BOOLEAN
  PROVE  /\ \A p \in 1 .. Len(s) : ~Before(s, reverse, p, p)
         /\ \A p, q, r \in 1 .. Len(s) :
              Before(s, reverse, p, q) /\ Before(s, reverse, q, r) => Before(s, reverse, p, r)
         /\ \A p, q \in 1 .. Len(s) :
              p = q \/ Before(s, reverse, p, q) \/ Before(s, reverse, q, p)
         /\ \A p, q \in 1 .. Len(s) : p < q =>
              (Before(s, FALSE, q, p) <=> Rank[s[q]] < Rank[s[p]])
<1>1. \A p \in 1 .. Len(s) : Rank[s[p]] \in Nat
  BY RankAssumption, ElementOfSeq
<1> QED BY <1>1, SMTT(20) DEF Before

LEMMA OrderIs ==
  ASSUME NEW s \in Seq(Elems), Distinct(s), NEW reverse \in BOOLEAN
  PROVE  /\ \A p, q \in 1 .. Len(s) : <<s[p], s[q]>> \in Order(s, reverse) <=> Before(s, reverse, p, q)
         /\ Linear(Order(s, reverse), ToSet(s)) /\ Meant(s, Order(s, FALSE))
<1> DEFINE J == 1 .. Len(s)
           S == ToSet(s)
<1>1. S = {s[i] : i \in J}
  BY ToSetIs
<1>2. \A i, j \in J : s[i] = s[j] => i = j
  BY DEF Distinct
<1>3. ASSUME NEW turned \in BOOLEAN
      PROVE  \A p, q \in J : <<s[p], s[q]>> \in Order(s, turned) <=> Before(s, turned, p, q)
  <2> TAKE p, q \in J
  <2>1. <<s[p], s[q]>> \in S \X S
    BY <1>1
  <2>2. ASSUME <<s[p], s[q]>> \in Order(s, turned) PROVE Before(s, turned, p, q)
    <3>1. PICK m, n \in J : <<s[p], s[q]>> = <<s[m], s[n]>> /\ Before(s, turned, m, n)
      BY <2>2 DEF Order
    <3>2. m = p /\ n = q
      BY <1>2, <3>1
    <3> QED BY <3>1, <3>2
  <2>3. ASSUME Before(s, turned, p, q) PROVE <<s[p], s[q]>> \in Order(s, turned)
    BY <2>1, <2>3 DEF Order
  <2> QED BY <2>2, <2>3
<1>4. \A p, q \in J : <<s[p], s[q]>> \in Order(s, reverse) <=> Before(s, reverse, p, q)
  BY <1>3
<1>5. \A p, q \in J : <<s[p], s[q]>> \in Order(s, FALSE) <=> Before(s, FALSE, p, q)
  BY <1>3
<1>6. /\ \A p \in J : ~Before(s, reverse, p, p)
      /\ \A p, q, r \in J : Before(s, reverse, p, q) /\ Before(s, reverse, q, r) => Before(s, reverse, p, r)
      /\ \A p, q \in J : p = q \/ Before(s, reverse, p, q) \/ Before(s, reverse, q, p)
      /\ \A p, q \in J : p < q => (Before(s, FALSE, q, p) <=> Rank[s[q]] < Rank[s[p]])
  BY BeforeIsLinear
<1>7. Meant(s, Order(s, FALSE))
  <2>1. ASSUME NEW i \in J, NEW j \in J, i < j
        PROVE  s[i] # s[j] /\ (Rank[s[j]] < Rank[s[i]] <=> <<s[j], s[i]>> \in Order(s, FALSE))
    <3>1. s[i] # s[j]
      BY <1>2, <2>1
    <3> HIDE DEF J
    <3> QED BY <1>5, <1>6, <2>1, <3>1
  <2> QED BY <2>1 DEF Meant
<1> DEFINE R == Order(s, reverse)
<1>8. \A p, q \in J : <<s[p], s[q]>> \in R <=> Before(s, reverse, p, q)
  BY <1>4
<1> HIDE DEF J, S, R
<1>9. Linear(R, S)
  <2>1. \A x \in S : <<x, x>> \notin R
    BY <1>1, <1>6, <1>8
  <2>2. ASSUME NEW x \in S, NEW y \in S, NEW z \in S, <<x, y>> \in R, <<y, z>> \in R PROVE <<x, z>> \in R
    <3>1. PICK p \in J : x = s[p]
      BY <1>1
    <3>2. PICK q \in J : y = s[q]
      BY <1>1
    <3>3. PICK r \in J : z = s[r]
      BY <1>1
    <3> QED BY <1>6, <1>8, <2>2, <3>1, <3>2, <3>3
  <2>3. ASSUME NEW x \in S, NEW y \in S PROVE x = y \/ <<x, y>> \in R \/ <<y, x>> \in R
    <3>1. PICK p \in J : x = s[p]
      BY <1>1
    <3>2. PICK q \in J : y = s[q]
      BY <1>1
    <3> QED BY <1>6, <1>8, <3>1, <3>2
  <2> QED BY <2>1, <2>2, <2>3 DEF Linear
<1> QED BY <1>4, <1>7, <1>9 DEF J, R, S

\* Turned round, everything is where it is from the other end.
LEMMA ReverseIs ==
  ASSUME NEW S, NEW s \in Seq(S)
  PROVE  /\ Reverse(s) \in Seq(S) /\ Len(Reverse(s)) = Len(s)
         /\ \A i \in 1 .. Len(s) : (Len(s) - i) + 1 \in 1 .. Len(s) /\ Reverse(s)[i] = s[(Len(s) - i) + 1]
<1>1. Len(s) \in Nat /\ \A i \in 1 .. Len(s) : s[i] \in S
  BY LenProperties, ElementOfSeq
<1>2. \A i \in 1 .. Len(s) : (Len(s) - i) + 1 \in 1 .. Len(s)
  BY <1>1
<1> DEFINE r == [i \in 1 .. Len(s) |-> s[(Len(s) - i) + 1]]
<1>3. r \in [1 .. Len(s) -> S]
  BY <1>1, <1>2
<1>4. r \in Seq(S) /\ Len(r) = Len(s)
  BY <1>1, <1>3
<1>5. Reverse(s) = r
  BY DEF Reverse
<1>6. \A i \in 1 .. Len(s) : r[i] = s[(Len(s) - i) + 1]
  OBVIOUS
<1> HIDE DEF r
<1> QED BY <1>2, <1>4, <1>5, <1>6

LEMMA ArrangeIs ==
  ASSUME NEW s \in Seq(Elems), Distinct(s), NEW reverse \in BOOLEAN
  PROVE  Sorts(Arrange(s, reverse), s, Order(s, reverse), ToSet(s))
<1>1. CASE reverse = FALSE
  <2> DEFINE S == ToSet(s)
             R == Order(s, FALSE)
  <2>1. S \in SUBSET Elems /\ s \in Seq(S)
    BY ToSetIs
  <2>2. Linear(R, S) /\ Meant(s, R)
    BY OrderIs
  <2>3. Arrange(s, reverse) = MergeSort(s)
    BY <1>1 DEF Arrange
  <2> HIDE DEF S, R
  <2>4. Sorts(MergeSort(s), s, R, S)
    BY <2>1, <2>2, MergeSortIs
  <2> QED BY <1>1, <2>3, <2>4 DEF S, R
<1>2. CASE reverse = TRUE
  <2> DEFINE len == Len(s)
             S == ToSet(s)
             z == Reverse(s)
             R == Order(z, FALSE)
             m == MergeSort(z)
             t == Reverse(m)
             back(i) == (len - i) + 1
  <2>1. len \in Nat
    BY LenProperties
  <2>2. S = {s[i] : i \in 1 .. Len(s)} /\ S \in SUBSET Elems /\ s \in Seq(S)
    BY ToSetIs
  <2>3. /\ z \in Seq(S) /\ Len(z) = len
        /\ \A i \in 1 .. len : back(i) \in 1 .. len /\ z[i] = s[back(i)]
    <3> HIDE DEF S
    <3> QED BY <2>2, ReverseIs
  <2> HIDE DEF z
  <2>4. \A i \in 1 .. len : back(back(i)) = i
    BY <2>1
  <2> HIDE DEF len
  <2>5. z \in Seq(Elems) /\ Distinct(z)
    <3>1. ASSUME NEW i \in 1 .. len, NEW j \in 1 .. len, z[i] = z[j] PROVE i = j
      <4>1. back(i) = back(j)
        <5>1. back(i) \in 1 .. Len(s) /\ back(j) \in 1 .. Len(s) /\ s[back(i)] = s[back(j)]
          BY <2>3, <3>1 DEF len
        <5> HIDE DEF back
        <5> QED BY <5>1 DEF Distinct
      <4> QED BY <2>1, <4>1
    <3>2. Distinct(z)
      BY <2>3, <3>1 DEF Distinct
    <3> HIDE DEF S
    <3>3. z \in Seq(Elems)
      BY <2>2, <2>3, SeqMonotonic
    <3> QED BY <3>2, <3>3
  <2>6. ToSet(z) = S
    <3>1. ToSet(z) = {z[i] : i \in 1 .. len}
      BY <2>3, <2>5, ToSetIs
    <3>2. \A i \in 1 .. len : z[i] \in S
      BY <2>2, <2>3 DEF len
    <3>3. ASSUME NEW i \in 1 .. len PROVE \E j \in 1 .. len : s[i] = z[j]
      <4>1. back(i) \in 1 .. len /\ z[back(i)] = s[i]
        BY <2>3, <2>4
      <4> HIDE DEF back
      <4> QED BY <4>1
    <3> HIDE DEF back, S
    <3>4. S = {s[i] : i \in 1 .. len}
      BY <2>2 DEF len
    <3> QED BY <3>1, <3>2, <3>3, <3>4
  <2>7. Sorts(m, z, R, S)
    <3>1. Linear(R, S) /\ Meant(z, R)
      BY <2>5, <2>6, OrderIs
    <3> HIDE DEF R, S
    <3> QED BY <2>2, <2>3, <3>1, MergeSortIs
  <2>8. /\ m \in Seq(S) /\ Len(m) = len
        /\ \A i, j \in 1 .. len : i < j => <<m[i], m[j]>> \in R
        /\ \A i \in 1 .. len : \E j \in 1 .. len : m[i] = z[j]
        /\ \A j \in 1 .. len : \E i \in 1 .. len : m[i] = z[j]
    <3> HIDE DEF m, R, S
    <3> QED BY <2>3, <2>7 DEF Sorts, InOrder
  <2> HIDE DEF m
  <2>9. /\ t \in Seq(S) /\ Len(t) = len
        /\ \A i \in 1 .. len : t[i] = m[back(i)]
    <3>1. /\ Reverse(m) \in Seq(S) /\ Len(Reverse(m)) = Len(m)
          /\ \A i \in 1 .. Len(m) : Reverse(m)[i] = m[(Len(m) - i) + 1]
      <4> HIDE DEF S
      <4> QED BY <2>8, ReverseIs, ZenonT(30)
    <3>2. Len(m) = len
      BY <2>8
    <3> HIDE DEF S
    <3> QED BY <3>1, <3>2
  <2> HIDE DEF t
  <2>10. ASSUME NEW i \in 1 .. len PROVE \E j \in 1 .. len : t[i] = s[j]
    <3>1. PICK j \in 1 .. len : m[back(i)] = z[j]
      <4>1. back(i) \in 1 .. len
        BY <2>3
      <4> HIDE DEF back
      <4> QED BY <2>8, <4>1
    <3>2. back(j) \in 1 .. len /\ t[i] = s[back(j)]
      BY <2>3, <2>9, <3>1
    <3> HIDE DEF back
    <3> QED BY <3>2
  <2>11. ASSUME NEW j \in 1 .. len PROVE \E i \in 1 .. len : t[i] = s[j]
    <3>1. back(j) \in 1 .. len /\ z[back(j)] = s[j]
      BY <2>3, <2>4
    <3>2. PICK i \in 1 .. len : m[i] = z[back(j)]
      <4> HIDE DEF back
      <4> QED BY <2>8, <3>1
    <3>3. back(i) \in 1 .. len /\ t[back(i)] = m[i]
      BY <2>3, <2>4, <2>9
    <3> HIDE DEF back
    <3> QED BY <3>1, <3>2, <3>3
  <2>12. ASSUME NEW i \in 1 .. len, NEW j \in 1 .. len, i < j PROVE <<t[i], t[j]>> \in Order(s, TRUE)
    <3>1. back(i) \in 1 .. len /\ back(j) \in 1 .. len /\ back(j) < back(i)
      BY <2>1, <2>3, <2>12
    <3>2. t[i] = m[back(i)] /\ t[j] = m[back(j)]
      BY <2>9
    <3>3. <<t[j], t[i]>> \in R
      <4> HIDE DEF back
      <4> QED BY <2>8, <3>1, <3>2
    <3>4. PICK p \in 1 .. len : t[j] = z[p]
      <4> HIDE DEF back
      <4>1. \E n \in 1 .. len : m[back(j)] = z[n]
        BY <2>8, <3>1
      <4> QED BY <3>2, <4>1
    <3>5. PICK q \in 1 .. len : t[i] = z[q]
      <4> HIDE DEF back
      <4>1. \E n \in 1 .. len : m[back(i)] = z[n]
        BY <2>8, <3>1
      <4> QED BY <3>2, <4>1
    <3>6. Before(z, FALSE, p, q)
      <4>1. <<z[p], z[q]>> \in Order(z, FALSE) /\ p \in 1 .. Len(z) /\ q \in 1 .. Len(z)
        BY <2>3, <3>3, <3>4, <3>5
      <4> QED BY <2>5, <4>1, OrderIs
    <3> DEFINE a == back(q)
               b == back(p)
    <3>7. a \in 1 .. len /\ b \in 1 .. len /\ t[i] = s[a] /\ t[j] = s[b] /\ (p < q => a < b)
      BY <2>1, <2>3, <3>4, <3>5
    <3>8. Rank[s[a]] \in Nat /\ Rank[s[b]] \in Nat
      BY <2>2, <3>7, RankAssumption DEF len
    <3>9. z[p] = s[b] /\ z[q] = s[a]
      BY <3>4, <3>5, <3>7
    <3> HIDE DEF a, b
    <3>10. Before(s, TRUE, a, b)
      BY <3>6, <3>7, <3>8, <3>9 DEF Before
    <3>11. <<s[a], s[b]>> \in Order(s, TRUE)
      BY <3>7, <3>10, OrderIs DEF len
    <3> QED BY <3>7, <3>11
  <2>13. InOrder(t, Order(s, TRUE))
    BY <2>9, <2>12 DEF InOrder
  <2>14. Arrange(s, reverse) = t
    BY <1>2 DEF Arrange, t, m, z
  <2> QED BY <1>2, <2>9, <2>10, <2>11, <2>13, <2>14 DEF Sorts, len
<1> QED BY <1>1, <1>2

\* The one place an element can have in the order is the one it has.
LEMMA SortedIsOrdered ==
  ASSUME NEW s \in Seq(Elems), Distinct(s), NEW reverse \in BOOLEAN,
         NEW t, Sorts(t, s, Order(s, reverse), ToSet(s))
  PROVE  t = Ordered(s, reverse)
<1> DEFINE len == Len(s)
           J == 1 .. Len(s)
           R == Order(s, reverse)
           Earlier(p) == {q \in J : Before(s, reverse, q, p)}
           Place(p) == Cardinality(Earlier(p)) + 1
<1>1. len \in Nat /\ DOMAIN s = J /\ J = 1 .. len
  BY LenProperties
<1>2. /\ t \in Seq(ToSet(s)) /\ Len(t) = len /\ \A i, j \in J : i < j => <<t[i], t[j]>> \in R
      /\ \A i \in J : \E j \in J : t[i] = s[j]
      /\ \A j \in J : \E i \in J : t[i] = s[j]
  <2> HIDE DEF R
  <2> QED BY DEF Sorts, InOrder, R
<1>3. \A p, q \in J : <<s[p], s[q]>> \in R <=> Before(s, reverse, p, q)
  BY OrderIs
<1>4. /\ \A p \in J : ~Before(s, reverse, p, p)
      /\ \A p, q, r \in J : Before(s, reverse, p, q) /\ Before(s, reverse, q, r) => Before(s, reverse, p, r)
      /\ \A p, q \in J : p = q \/ Before(s, reverse, p, q) \/ Before(s, reverse, q, p)
  BY BeforeIsLinear
<1>5. \A i, j \in J : s[i] = s[j] => i = j
  BY DEF Distinct
<1>6. Ordered(s, reverse) = [n \in J |-> s[CHOOSE p \in J : Place(p) = n]]
  BY <1>1 DEF Ordered, Before
<1>7. t = [n \in J |-> t[n]]
  <2>1. t = [n \in 1 .. Len(t) |-> t[n]]
    BY <1>2, LenProperties
  <2> QED BY <1>1, <1>2, <2>1
<1> HIDE DEF len, J, R
<1>8. ASSUME NEW n \in J, NEW p \in J, t[n] = s[p] PROVE Place(p) = n
  <2> DEFINE K == 1 .. n - 1
             at(m) == CHOOSE q \in J : t[m] = s[q]
             f == [m \in K |-> at(m)]
  <2>1. n \in Nat /\ n - 1 \in Nat /\ \A m \in K : m \in J /\ m < n
    BY <1>1, <1>8
  <2>2. \A m \in J : at(m) \in J /\ t[m] = s[at(m)]
    BY <1>2
  <2> HIDE DEF at
  <2>3. ASSUME NEW m \in K PROVE at(m) \in Earlier(p)
    <3>1. <<t[m], t[n]>> \in R
      BY <1>2, <2>1, <2>3
    <3>2. Before(s, reverse, at(m), p)
      BY <1>3, <1>8, <2>1, <2>2, <3>1
    <3> QED BY <2>1, <2>2, <3>2
  <2>4. ASSUME NEW a \in K, NEW b \in K, at(a) = at(b) PROVE a = b
    <3>1. a \in J /\ b \in J /\ t[a] = t[b] /\ at(a) \in J /\ t[a] = s[at(a)]
      BY <2>1, <2>2, <2>4
    <3>2. ~(<<t[a], t[b]>> \in R) /\ ~(<<t[b], t[a]>> \in R)
      BY <1>3, <1>4, <3>1
    <3>3. ~(a < b) /\ ~(b < a)
      BY <1>2, <3>1, <3>2
    <3> QED BY <2>1, <3>3
  <2>5. ASSUME NEW q \in Earlier(p) PROVE \E m \in K : at(m) = q
    <3>1. q \in J /\ Before(s, reverse, q, p)
      OBVIOUS
    <3>2. PICK m \in J : t[m] = s[q]
      BY <1>2, <3>1
    <3>3. at(m) = q
      BY <1>5, <2>2, <3>1, <3>2
    <3>4. m # n
      <4>1. q # p
        BY <1>4, <3>1
      <4> QED BY <1>5, <1>8, <3>1, <3>2, <4>1
    <3>5. ~(n < m)
      <4>1. ~Before(s, reverse, p, q)
        BY <1>4, <3>1
      <4>2. ~(<<t[n], t[m]>> \in R)
        BY <1>3, <1>8, <3>1, <3>2, <4>1
      <4> QED BY <1>2, <1>8, <4>2
    <3>6. m \in K
      BY <1>1, <1>8, <3>4, <3>5
    <3> QED BY <3>3, <3>6
  <2> DEFINE E == Earlier(p)
  <2>6. f \in [K -> E] /\ (\A a, b \in K : f[a] = f[b] => a = b) /\ \A q \in E : \E m \in K : f[m] = q
    <3>1. \A m \in K : at(m) \in E
      BY <2>3
    <3>2. \A q \in E : \E m \in K : at(m) = q
      BY <2>5
    <3> HIDE DEF K, E
    <3> QED BY <2>4, <3>1, <3>2
  <2> HIDE DEF f, K, E
  <2>7. f \in Bijection(K, E)
    BY <2>6 DEF Bijection, Injection, Surjection, IsInjective
  <2>8. ExistsBijection(K, E)
    BY <2>7 DEF ExistsBijection
  <2>9. IsFiniteSet(K) /\ Cardinality(K) = n - 1
    <3>1. IsFiniteSet(1 .. n - 1) /\ Cardinality(1 .. n - 1) = IF 1 > n - 1 THEN 0 ELSE (n - 1) - 1 + 1
      BY <2>1, FS_Interval
    <3> QED BY <2>1, <3>1 DEF K
  <2>10. Cardinality(E) = n - 1
    BY <2>8, <2>9, FS_Bijection
  <2> QED BY <2>1, <2>10 DEF E
<1> HIDE DEF Place
<1>9. ASSUME NEW n \in J PROVE t[n] = s[CHOOSE p \in J : Place(p) = n]
  <2>1. PICK p \in J : t[n] = s[p]
    BY <1>2
  <2>2. Place(p) = n
    BY <1>8, <2>1
  <2> DEFINE q == CHOOSE q \in J : Place(q) = n
  <2>3. q \in J /\ Place(q) = n
    BY <2>2
  <2> HIDE DEF q
  <2>4. PICK m \in J : t[m] = s[q]
    BY <1>2, <2>3
  <2>5. m = n
    BY <1>8, <2>3, <2>4
  <2> QED BY <2>4, <2>5 DEF q
<1> QED BY <1>6, <1>7, <1>9

(* What list.sort leaves in the list is the stable order of what it took,  *)
(* whichever way round.                                                    *)
THEOREM ArrangeIsOrdered ==
  ASSUME NEW s \in Seq(Elems), Distinct(s), NEW reverse \in BOOLEAN
  PROVE  Arrange(s, reverse) = Ordered(s, reverse)
BY ArrangeIs, SortedIsOrdered

-----------------------------------------------------------------------------
(* What is done to a list puts nothing into it twice.                      *)

\* t has no element twice, and none that is neither in s nor in F.
From(t, s, F) == t \in Seq(Elems) /\ Distinct(t) /\ ToSet(t) \subseteq ToSet(s) \union F

LEMMA FromIs ==
  ASSUME NEW s \in Seq(Elems), NEW t \in Seq(Elems), Distinct(t), NEW F,
         \A i \in 1 .. Len(t) : t[i] \in F \/ \E j \in 1 .. Len(s) : t[i] = s[j]
  PROVE  From(t, s, F)
<1>1. ToSet(t) = {t[i] : i \in 1 .. Len(t)} /\ ToSet(s) = {s[i] : i \in 1 .. Len(s)}
  BY ToSetIs
<1>2. ToSet(t) \subseteq ToSet(s) \union F
  BY <1>1
<1> QED BY <1>2 DEF From

LEMMA AppendFrom ==
  ASSUME NEW s \in Seq(Elems), Distinct(s), NEW e \in Elems, e \notin ToSet(s)
  PROVE  From(Append(s, e), s, {e})
<1> DEFINE t == Append(s, e)
           len == Len(s)
<1>1. /\ len \in Nat /\ t \in Seq(Elems) /\ Len(t) = len + 1 /\ t[len + 1] = e
      /\ \A i \in 1 .. len : t[i] = s[i]
  BY LenProperties, AppendProperties
<1>2. \A i \in 1 .. len : s[i] # e
  BY ToSetIs
<1>3. \A i, j \in 1 .. len : s[i] = s[j] => i = j
  BY DEF Distinct
<1> HIDE DEF t, len
<1>4. \A i \in 1 .. Len(t) : i = len + 1 \/ i \in 1 .. len
  BY <1>1
<1>5. \A i, j \in 1 .. Len(t) : t[i] = t[j] => i = j
  BY <1>1, <1>2, <1>3, <1>4
<1>6. Distinct(t)
  BY <1>5 DEF Distinct
<1>7. \A i \in 1 .. Len(t) : t[i] \in {e} \/ \E j \in 1 .. Len(s) : t[i] = s[j]
  BY <1>1, <1>4 DEF len
<1> QED BY <1>1, <1>6, <1>7, FromIs DEF t

LEMMA InsertFrom ==
  ASSUME NEW s \in Seq(Elems), Distinct(s), NEW e \in Elems, e \notin ToSet(s), NEW n \in 0 .. Len(s)
  PROVE  From(InsertAt(s, n + 1, e), s, {e})
<1> DEFINE t == InsertAt(s, n + 1, e)
           len == Len(s)
           a == SubSeq(s, 1, (n + 1) - 1)
           b == SubSeq(s, n + 1, len)
<1>1. len \in Nat /\ n \in Nat /\ n <= len /\ \A i \in 1 .. len : s[i] \in Elems
  BY LenProperties, ElementOfSeq
<1>2. \A i \in 1 .. len : s[i] # e
  BY ToSetIs
<1>3. \A i, j \in 1 .. len : s[i] = s[j] => i = j
  BY DEF Distinct
<1>4. t = (a \o <<e>>) \o b
  BY DEF InsertAt
<1> HIDE DEF t
<1>5. a \in Seq(Elems) /\ Len(a) = n /\ \A i \in 1 .. n : a[i] = s[i]
  <2> HIDE DEF len
  <2>1. (n + 1) - 1 = n /\ \A i \in 1 .. n : s[i] \in Elems
    BY <1>1
  <2>2. /\ SubSeq(s, 1, n) \in Seq(Elems) /\ Len(SubSeq(s, 1, n)) = IF 1 <= n THEN n - 1 + 1 ELSE 0
        /\ \A i \in 1 .. n - 1 + 1 : SubSeq(s, 1, n)[i] = s[1 + i - 1]
    BY <1>1, <2>1, SubSeqProperties
  <2>3. a = SubSeq(s, 1, n)
    BY <2>1
  <2> HIDE DEF a
  <2> QED BY <1>1, <2>2, <2>3
<1>6. b \in Seq(Elems) /\ Len(b) = len - n /\ \A i \in 1 .. len - n : b[i] = s[n + i]
  <2> HIDE DEF len
  <2>1. \A i \in n + 1 .. len : s[i] \in Elems
    BY <1>1
  <2>2. /\ SubSeq(s, n + 1, len) \in Seq(Elems)
        /\ Len(SubSeq(s, n + 1, len)) = IF n + 1 <= len THEN len - (n + 1) + 1 ELSE 0
        /\ \A i \in 1 .. len - (n + 1) + 1 : SubSeq(s, n + 1, len)[i] = s[(n + 1) + i - 1]
    BY <1>1, <2>1, SubSeqProperties
  <2> HIDE DEF b
  <2>3. b = SubSeq(s, n + 1, len)
    BY DEF b
  <2>4. \A i \in 1 .. len - n : i \in 1 .. len - (n + 1) + 1 /\ (n + 1) + i - 1 = n + i
    BY <1>1
  <2>5. \A i \in 1 .. len - n : b[i] = s[n + i]
    BY <2>2, <2>3, <2>4
  <2> QED BY <1>1, <2>2, <2>3, <2>5
<1> HIDE DEF a, b, len
<1> DEFINE c == a \o <<e>>
<1>7. c \in Seq(Elems) /\ Len(c) = n + 1 /\ (\A i \in 1 .. n : c[i] = s[i]) /\ c[n + 1] = e
  <2>1. <<e>> \in Seq(Elems) /\ Len(<<e>>) = 1 /\ <<e>>[1] = e
    OBVIOUS
  <2> DEFINE d == <<e>>
  <2> HIDE DEF d
  <2>2. d \in Seq(Elems) /\ Len(d) = 1 /\ d[1] = e
    BY <2>1 DEF d
  <2>3. /\ a \o d \in Seq(Elems) /\ Len(a \o d) = Len(a) + Len(d)
        /\ \A i \in 1 .. Len(a) + Len(d) : (a \o d)[i] = IF i <= Len(a) THEN a[i] ELSE d[i - Len(a)]
    BY <1>5, <2>2, ConcatProperties
  <2>4. (a \o d)[n + 1] = d[(n + 1) - n]
    BY <1>1, <1>5, <2>2, <2>3
  <2>5. (n + 1) - n = 1 /\ c = a \o d
    BY <1>1 DEF d
  <2> HIDE DEF c
  <2>6. \A i \in 1 .. n : c[i] = s[i]
    BY <1>1, <1>5, <2>2, <2>3, <2>5
  <2> QED BY <1>1, <1>5, <2>2, <2>3, <2>4, <2>5, <2>6
<1>8. t = c \o b
  BY <1>4
<1> HIDE DEF c
<1>9. /\ t \in Seq(Elems) /\ Len(t) = len + 1
      /\ \A i \in 1 .. len + 1 : t[i] = IF i <= n THEN s[i] ELSE IF i = n + 1 THEN e ELSE s[i - 1]
  <2>1. /\ c \o b \in Seq(Elems) /\ Len(c \o b) = Len(c) + Len(b)
        /\ \A i \in 1 .. Len(c) + Len(b) : (c \o b)[i] = IF i <= Len(c) THEN c[i] ELSE b[i - Len(c)]
    BY <1>6, <1>7, ConcatProperties
  <2>2. Len(c) + Len(b) = len + 1
    BY <1>1, <1>6, <1>7
  <2>3. ASSUME NEW i \in 1 .. len + 1
        PROVE  t[i] = IF i <= n THEN s[i] ELSE IF i = n + 1 THEN e ELSE s[i - 1]
    <3>1. t[i] = IF i <= n + 1 THEN c[i] ELSE b[i - (n + 1)]
      BY <1>7, <1>8, <2>1, <2>2
    <3>2. CASE i <= n + 1
      BY <1>1, <1>7, <3>1, <3>2
    <3>3. CASE ~(i <= n + 1)
      <4> DEFINE m == i - (n + 1)
      <4>1. m \in 1 .. len - n /\ n + m = i - 1
        BY <1>1, <3>3
      <4> HIDE DEF m
      <4>2. b[m] = s[i - 1]
        BY <1>6, <4>1
      <4> QED BY <1>1, <3>1, <3>3, <4>2 DEF m
    <3> QED BY <3>2, <3>3
  <2> QED BY <1>8, <2>1, <2>2, <2>3
<1>10. ASSUME NEW i \in 1 .. Len(t), NEW j \in 1 .. Len(t), t[i] = t[j] PROVE i = j
  <2> DEFINE was(k) == IF k <= n THEN k ELSE k - 1
  <2>1. \A k \in 1 .. len + 1 : k # n + 1 => was(k) \in 1 .. len /\ t[k] = s[was(k)]
    BY <1>1, <1>9
  <2>2. t[n + 1] = e
    BY <1>1, <1>9
  <2>3. i \in 1 .. len + 1 /\ j \in 1 .. len + 1
    BY <1>9
  <2>4. CASE i = n + 1
    <3>1. ~(j # n + 1)
      <4> HIDE DEF was
      <4> QED BY <1>2, <1>10, <2>1, <2>2, <2>3, <2>4
    <3> QED BY <2>4, <3>1
  <2>5. CASE i # n + 1
    <3>1. j # n + 1
      <4> HIDE DEF was
      <4> QED BY <1>2, <1>10, <2>1, <2>2, <2>3, <2>5
    <3>2. was(i) = was(j)
      <4> HIDE DEF was
      <4> QED BY <1>3, <1>10, <2>1, <2>3, <2>5, <3>1
    <3> QED BY <1>1, <2>3, <2>5, <3>1, <3>2
  <2> QED BY <2>4, <2>5
<1>11. ASSUME NEW i \in 1 .. Len(t) PROVE t[i] \in {e} \/ \E j \in 1 .. Len(s) : t[i] = s[j]
  <2>1. i \in 1 .. len + 1
    BY <1>9
  <2>2. CASE i <= n
    BY <1>1, <1>9, <2>1, <2>2 DEF len
  <2>3. CASE i = n + 1
    BY <1>1, <1>9, <2>1, <2>3
  <2>4. CASE i > n + 1
    <3>1. i - 1 \in 1 .. len /\ t[i] = s[i - 1]
      BY <1>1, <1>9, <2>1, <2>4
    <3> QED BY <3>1 DEF len
  <2> QED BY <1>1, <2>1, <2>2, <2>3, <2>4
<1>12. Distinct(t)
  BY <1>10 DEF Distinct
<1> QED BY <1>9, <1>11, <1>12, FromIs DEF t

LEMMA RemoveFrom ==
  ASSUME NEW s \in Seq(Elems), Distinct(s), NEW n \in 1 .. Len(s)
  PROVE  From(RemoveAt(s, n), s, {})
<1> DEFINE t == RemoveAt(s, n)
           len == Len(s)
           a == SubSeq(s, 1, n - 1)
           b == SubSeq(s, n + 1, len)
<1>1. len \in Nat /\ n \in 1 .. len /\ \A i \in 1 .. len : s[i] \in Elems
  BY LenProperties, ElementOfSeq
<1>2. \A i, j \in 1 .. len : s[i] = s[j] => i = j
  BY DEF Distinct
<1>3. t = a \o b
  BY DEF RemoveAt
<1> HIDE DEF t
<1>4. a \in Seq(Elems) /\ Len(a) = n - 1 /\ \A i \in 1 .. n - 1 : a[i] = s[i]
  <2> HIDE DEF len
  <2> DEFINE m == n - 1
  <2>1. m \in Int /\ 0 <= m /\ m <= len /\ \A i \in 1 .. m : s[i] \in Elems
    BY <1>1
  <2> HIDE DEF m
  <2>2. /\ SubSeq(s, 1, m) \in Seq(Elems) /\ Len(SubSeq(s, 1, m)) = IF 1 <= m THEN m - 1 + 1 ELSE 0
        /\ \A i \in 1 .. m - 1 + 1 : SubSeq(s, 1, m)[i] = s[1 + i - 1]
    BY <2>1, SubSeqProperties
  <2>3. a = SubSeq(s, 1, m)
    BY DEF m
  <2> HIDE DEF a
  <2>4. a \in Seq(Elems) /\ Len(a) = m /\ \A i \in 1 .. m : a[i] = s[i]
    BY <2>1, <2>2, <2>3
  <2> QED BY <2>4 DEF m
<1>5. b \in Seq(Elems) /\ Len(b) = len - n /\ \A i \in 1 .. len - n : b[i] = s[n + i]
  <2> HIDE DEF len
  <2>1. \A i \in n + 1 .. len : s[i] \in Elems
    BY <1>1
  <2>2. /\ SubSeq(s, n + 1, len) \in Seq(Elems)
        /\ Len(SubSeq(s, n + 1, len)) = IF n + 1 <= len THEN len - (n + 1) + 1 ELSE 0
        /\ \A i \in 1 .. len - (n + 1) + 1 : SubSeq(s, n + 1, len)[i] = s[(n + 1) + i - 1]
    BY <1>1, <2>1, SubSeqProperties
  <2>3. b = SubSeq(s, n + 1, len)
    OBVIOUS
  <2> HIDE DEF b
  <2>4. \A i \in 1 .. len - n : i \in 1 .. len - (n + 1) + 1 /\ (n + 1) + i - 1 = n + i
    BY <1>1
  <2>5. \A i \in 1 .. len - n : b[i] = s[n + i]
    BY <2>2, <2>3, <2>4
  <2> QED BY <1>1, <2>2, <2>3, <2>5
<1> HIDE DEF a, b, len
<1>6. /\ t \in Seq(Elems) /\ Len(t) = len - 1
      /\ \A i \in 1 .. len - 1 : t[i] = IF i < n THEN s[i] ELSE s[i + 1]
  <2>1. /\ a \o b \in Seq(Elems) /\ Len(a \o b) = Len(a) + Len(b)
        /\ \A i \in 1 .. Len(a) + Len(b) : (a \o b)[i] = IF i <= Len(a) THEN a[i] ELSE b[i - Len(a)]
    BY <1>4, <1>5, ConcatProperties
  <2>2. Len(a) + Len(b) = len - 1
    BY <1>1, <1>4, <1>5
  <2>3. ASSUME NEW i \in 1 .. len - 1 PROVE t[i] = IF i < n THEN s[i] ELSE s[i + 1]
    <3>1. t[i] = IF i <= n - 1 THEN a[i] ELSE b[i - (n - 1)]
      BY <1>3, <1>4, <2>1, <2>2
    <3>2. CASE i < n
      BY <1>1, <1>4, <3>1, <3>2
    <3>3. CASE ~(i < n)
      <4> DEFINE m == i - (n - 1)
      <4>1. m \in 1 .. len - n /\ n + m = i + 1
        BY <1>1, <3>3
      <4> HIDE DEF m
      <4>2. b[m] = s[i + 1]
        BY <1>5, <4>1
      <4> QED BY <1>1, <3>1, <3>3, <4>2 DEF m
    <3> QED BY <3>2, <3>3
  <2> QED BY <1>3, <2>1, <2>2, <2>3
<1> DEFINE was(k) == IF k < n THEN k ELSE k + 1
<1>7. \A k \in 1 .. len - 1 : was(k) \in 1 .. len /\ t[k] = s[was(k)]
  BY <1>1, <1>6
<1>8. \A i, j \in 1 .. len - 1 : was(i) = was(j) => i = j
  BY <1>1
<1> HIDE DEF was
<1>9. \A i, j \in 1 .. len - 1 : t[i] = t[j] => i = j
  BY <1>2, <1>7, <1>8
<1>10. Distinct(t)
  BY <1>6, <1>9 DEF Distinct
<1>11. \A i \in 1 .. Len(t) : t[i] \in {} \/ \E j \in 1 .. Len(s) : t[i] = s[j]
  BY <1>6, <1>7 DEF len
<1> QED BY <1>6, <1>10, <1>11, FromIs DEF t

LEMMA ReverseFrom ==
  ASSUME NEW s \in Seq(Elems), Distinct(s)
  PROVE  From(Reverse(s), s, {})
<1> DEFINE t == Reverse(s)
           len == Len(s)
           back(i) == (len - i) + 1
<1>1. len \in Nat /\ \A i, j \in 1 .. len : s[i] = s[j] => i = j
  BY LenProperties DEF Distinct
<1>2. t \in Seq(Elems) /\ Len(t) = len /\ \A i \in 1 .. len : back(i) \in 1 .. len /\ t[i] = s[back(i)]
  BY ReverseIs
<1> HIDE DEF t, len
<1>3. \A i, j \in 1 .. len : back(i) = back(j) => i = j
  BY <1>1
<1> HIDE DEF back
<1>4. ASSUME NEW i \in 1 .. len, NEW j \in 1 .. len, t[i] = t[j] PROVE i = j
  <2>1. back(i) \in 1 .. len /\ back(j) \in 1 .. len /\ s[back(i)] = s[back(j)]
    BY <1>2, <1>4
  <2>2. back(i) = back(j)
    BY <1>1, <2>1
  <2> QED BY <1>3, <2>2
<1>5. Distinct(t)
  BY <1>2, <1>4 DEF Distinct
<1>6. \A i \in 1 .. Len(t) : t[i] \in {} \/ \E j \in 1 .. Len(s) : t[i] = s[j]
  BY <1>2 DEF len
<1> QED BY <1>2, <1>5, <1>6, FromIs DEF t

LEMMA ArrangeFrom ==
  ASSUME NEW s \in Seq(Elems), Distinct(s), NEW reverse \in BOOLEAN
  PROVE  From(Arrange(s, reverse), s, {})
<1> DEFINE t == Arrange(s, reverse)
           R == Order(s, reverse)
           S == ToSet(s)
<1>1. S \in SUBSET Elems /\ \A j \in 1 .. Len(s) : s[j] \in S
  BY ToSetIs
<1>2. Linear(R, S)
  BY OrderIs
<1>3. Sorts(t, s, R, S)
  BY ArrangeIs
<1> HIDE DEF t, R, S
<1>4. /\ t \in Seq(S) /\ Len(t) = Len(s) /\ \A i, j \in 1 .. Len(s) : i < j => <<t[i], t[j]>> \in R
      /\ \A i \in 1 .. Len(s) : \E j \in 1 .. Len(s) : t[i] = s[j]
  BY <1>3 DEF Sorts, InOrder
<1>5. ASSUME NEW i \in 1 .. Len(s), NEW j \in 1 .. Len(s), t[i] = t[j] PROVE i = j
  <2>1. t[i] \in S
    BY <1>1, <1>4
  <2>2. <<t[i], t[j]>> \notin R /\ <<t[j], t[i]>> \notin R
    BY <1>2, <1>5, <2>1 DEF Linear
  <2>3. ~(i < j) /\ ~(j < i)
    BY <1>4, <2>2
  <2> QED BY <2>3
<1>6. Distinct(t)
  BY <1>4, <1>5 DEF Distinct
<1>7. t \in Seq(Elems)
  BY <1>1, <1>4, SeqMonotonic
<1> QED BY <1>4, <1>6, <1>7, FromIs DEF t

LEMMA SelfFrom ==
  ASSUME NEW s \in Seq(Elems), Distinct(s)
  PROVE  From(s, s, {}) /\ From(<< >>, s, {})
<1>1. Distinct(<< >>) /\ << >> \in Seq(Elems) /\ ToSet(<< >>) = {}
  <2>1. << >> \in Seq(Elems) /\ Len(<< >>) = 0
    BY EmptySeq
  <2>2. ToSet(<< >>) = {<< >>[i] : i \in 1 .. Len(<< >>)}
    BY <2>1, ToSetIs
  <2> QED BY <2>1, <2>2 DEF Distinct
<1> QED BY <1>1 DEF From

-----------------------------------------------------------------------------
(* Several lists that have nothing twice and nothing in common, in a row.  *)

\* What is in no list twice is as many elements as the list is long.
LEMMA DistinctCardinality ==
  ASSUME NEW S, NEW t \in Seq(S), Distinct(t)
  PROVE  Cardinality(ToSet(t)) = Len(t)
<1> DEFINE n == Len(t)
           K == 1 .. n
           E == ToSet(t)
           f == [k \in K |-> t[k]]
<1>1. n \in Nat /\ E = {t[k] : k \in K}
  BY ToSetIs, LenProperties
<1>2. \A a, b \in K : t[a] = t[b] => a = b
  BY DEF Distinct
<1>3. IsFiniteSet(K) /\ Cardinality(K) = n
  <2> HIDE DEF n
  <2>1. IsFiniteSet(1 .. n) /\ Cardinality(1 .. n) = IF 1 > n THEN 0 ELSE n - 1 + 1
    BY <1>1, FS_Interval
  <2> QED BY <1>1, <2>1
<1> HIDE DEF n, K, E
<1>4. f \in Bijection(K, E)
  BY <1>1, <1>2 DEF Bijection, Injection, Surjection, IsInjective
<1>5. ExistsBijection(K, E)
  BY <1>4 DEF ExistsBijection
<1> QED BY <1>3, <1>5, FS_Bijection DEF n, E

Apart(h) ==
  /\ \A i \in 1 .. Len(h) : Distinct(h[i])
  /\ \A i, j \in 1 .. Len(h) : i # j => ToSet(h[i]) \intersect ToSet(h[j]) = {}

LEMMA ConcatApart ==
  ASSUME NEW S, NEW s \in Seq(S), NEW t \in Seq(S), Distinct(s), Distinct(t),
         ToSet(s) \intersect ToSet(t) = {}
  PROVE  s \o t \in Seq(S) /\ Distinct(s \o t) /\ ToSet(s \o t) = ToSet(s) \union ToSet(t)
<1> DEFINE c == s \o t
           m == Len(s)
           n == Len(t)
<1>1. m \in Nat /\ n \in Nat
  BY LenProperties
<1>2. /\ c \in Seq(S) /\ Len(c) = m + n
      /\ \A i \in 1 .. m + n : c[i] = IF i <= m THEN s[i] ELSE t[i - m]
  BY ConcatProperties
<1>3. ToSet(s) = {s[i] : i \in 1 .. m} /\ ToSet(t) = {t[i] : i \in 1 .. n}
  BY ToSetIs
<1>4. \A i, j \in 1 .. m : s[i] = s[j] => i = j
  BY DEF Distinct
<1>5. \A i, j \in 1 .. n : t[i] = t[j] => i = j
  BY DEF Distinct
<1>6. \A i \in 1 .. m, j \in 1 .. n : s[i] # t[j]
  BY <1>3
<1> HIDE DEF c, m, n
<1>7. ToSet(c) = {c[i] : i \in 1 .. m + n}
  BY <1>2, ToSetIs
<1>8. \A i \in 1 .. m + n : \/ i \in 1 .. m /\ c[i] = s[i]
                            \/ i - m \in 1 .. n /\ ~(i <= m) /\ c[i] = t[i - m]
  BY <1>1, <1>2
<1>9. ASSUME NEW i \in 1 .. m + n, NEW j \in 1 .. m + n, c[i] = c[j] PROVE i = j
  <2>1. CASE i \in 1 .. m /\ j \in 1 .. m
    BY <1>1, <1>2, <1>4, <1>9, <2>1
  <2>2. CASE ~(i \in 1 .. m) /\ ~(j \in 1 .. m)
    <3>1. i - m \in 1 .. n /\ j - m \in 1 .. n /\ t[i - m] = t[j - m]
      BY <1>8, <1>9, <2>2
    <3>2. i - m = j - m
      BY <1>5, <3>1
    <3> QED BY <1>1, <3>2
  <2>3. CASE i \in 1 .. m /\ ~(j \in 1 .. m)
    <3>1. c[i] = s[i] /\ j - m \in 1 .. n /\ c[j] = t[j - m]
      BY <1>1, <1>8, <2>3
    <3> QED BY <1>6, <1>9, <2>3, <3>1
  <2>4. CASE ~(i \in 1 .. m) /\ j \in 1 .. m
    <3>1. c[j] = s[j] /\ i - m \in 1 .. n /\ c[i] = t[i - m]
      BY <1>1, <1>8, <2>4
    <3> QED BY <1>6, <1>9, <2>4, <3>1
  <2> QED BY <2>1, <2>2, <2>3, <2>4
<1>10. Distinct(c)
  BY <1>2, <1>9 DEF Distinct
<1>11. ASSUME NEW x \in ToSet(c) PROVE x \in ToSet(s) \union ToSet(t)
  <2>1. PICK i \in 1 .. m + n : x = c[i]
    BY <1>7, <1>11
  <2> QED BY <1>3, <1>8, <2>1
<1>12. ASSUME NEW x \in ToSet(s) PROVE x \in ToSet(c)
  <2>1. PICK i \in 1 .. m : x = s[i]
    BY <1>3, <1>12
  <2>2. i \in 1 .. m + n /\ c[i] = s[i]
    BY <1>1, <1>2
  <2> QED BY <1>7, <2>1, <2>2
<1>13. ASSUME NEW x \in ToSet(t) PROVE x \in ToSet(c)
  <2>1. PICK i \in 1 .. n : x = t[i]
    BY <1>3, <1>13
  <2> DEFINE k == m + i
  <2>2. k \in 1 .. m + n /\ k - m = i /\ ~(k <= m)
    BY <1>1
  <2> HIDE DEF k
  <2>3. c[k] = t[i]
    BY <1>2, <2>2
  <2> QED BY <1>7, <2>1, <2>2, <2>3
<1> QED BY <1>2, <1>10, <1>11, <1>12, <1>13 DEF c

Flattens(flat, h) ==
  flat = [i \in 1 .. Len(h) |-> IF i = 1 THEN h[i] ELSE flat[i - 1] \o h[i]]

LEMMA SomeFlattens ==
  ASSUME NEW S, NEW h \in Seq(Seq(S)), Len(h) # 0
  PROVE  \E flat : Flattens(flat, h) /\ FlattenSeq(h) = flat[Len(h)]
<1> DEFINE len == Len(h)
           V == Seq(S)
           step == [k \in Nat |-> [v \in V |-> IF k + 2 \in 1 .. len THEN v \o h[k + 2] ELSE v]]
           Is(flat) == flat = [i \in 1 .. len |-> IF i = 1 THEN h[i] ELSE flat[i - 1] \o h[i]]
<1>1. len \in Nat \ {0} /\ \A i \in 1 .. len : h[i] \in V
  BY LenProperties, ElementOfSeq
<1>2. step \in Steps(V)
  <2>1. \A k \in Nat, v \in V : (IF k + 2 \in 1 .. len THEN v \o h[k + 2] ELSE v) \in V
    BY <1>1, ConcatProperties
  <2> HIDE DEF V, len
  <2> QED BY <2>1 DEF Steps
<1> DEFINE start == h[1]
           total == len - 1
<1>3. start \in V /\ total \in Nat
  BY <1>1
<1>4. PICK g : /\ g = [n \in 0 .. total |-> g[n]]
               /\ g[0] = start /\ \A n \in 0 .. total : g[n] \in V
               /\ \A n \in 1 .. total : g[n] = step[n - 1][g[n - 1]]
  <2> HIDE DEF V, step, start, total
  <2> QED BY <1>2, <1>3, RecursiveUpto, SMTT(20)
<1> DEFINE flat == [i \in 1 .. len |-> g[i - 1]]
<1>5. \A i \in 1 .. len : i - 1 \in 0 .. total /\ flat[i] = g[i - 1]
  BY <1>1
<1>6. ASSUME NEW i \in 1 .. len, i # 1 PROVE flat[i] = flat[i - 1] \o h[i]
  <2> DEFINE k == i - 2
             n == i - 1
  <2>1. k \in Nat /\ k + 2 = i /\ n \in 1 .. total /\ n - 1 = k /\ n \in 1 .. len /\ k \in 0 .. total
    BY <1>1, <1>6
  <2>2. g[n] = step[n - 1][g[n - 1]]
    BY <1>4, <2>1
  <2>3. g[k] \in V
    BY <1>4, <2>1
  <2> HIDE DEF flat, V, len, total
  <2>4. step[k][g[k]] = g[k] \o h[i]
    BY <1>6, <2>1, <2>3
  <2>5. flat[i] = g[n] /\ flat[n] = g[n - 1]
    BY <1>5, <1>6, <2>1
  <2> HIDE DEF step, k
  <2> QED BY <2>1, <2>2, <2>4, <2>5
<1>7. flat[1] = h[1] /\ 1 \in 1 .. len
  <2>1. 1 \in 1 .. len /\ 1 - 1 = 0
    BY <1>1
  <2> HIDE DEF flat
  <2> QED BY <1>4, <1>5, <2>1
<1>8. flat = [i \in 1 .. len |-> flat[i]]
  OBVIOUS
<1> HIDE DEF flat
<1>9. Is(flat)
  <2> HIDE DEF len
  <2> QED BY <1>6, <1>7, <1>8
<1> DEFINE one == CHOOSE one : Is(one)
<1>10. Is(one)
  <2> HIDE DEF Is
  <2> QED BY <1>9
<1>11. FlattenSeq(h) = one[len]
  BY <1>1 DEF FlattenSeq
<1>12. Flattens(one, h)
  BY <1>10 DEF Flattens
<1> HIDE DEF one
<1> QED BY <1>11, <1>12

LEMMA FlattenIs ==
  ASSUME NEW S, NEW h \in Seq(Seq(S)), Len(h) # 0, Apart(h)
  PROVE  FlattenSeq(h) \in Seq(S) /\ Distinct(FlattenSeq(h))
<1> DEFINE len == Len(h)
           Ahead(n) == UNION {ToSet(h[i]) : i \in 1 .. n}
<1>1. PICK flat : Flattens(flat, h) /\ FlattenSeq(h) = flat[Len(h)]
  BY SomeFlattens
<1>2. len \in Nat \ {0} /\ \A i \in 1 .. len : h[i] \in Seq(S)
  BY LenProperties, ElementOfSeq
<1>3. /\ \A i \in 1 .. len : Distinct(h[i])
      /\ \A i, j \in 1 .. len : i # j => ToSet(h[i]) \intersect ToSet(h[j]) = {}
  BY DEF Apart
<1>4. flat[1] = h[1] /\ \A i \in 1 .. len : i # 1 => flat[i] = flat[i - 1] \o h[i]
  <2>1. flat = [i \in 1 .. len |-> IF i = 1 THEN h[i] ELSE flat[i - 1] \o h[i]]
    BY <1>1 DEF Flattens
  <2>2. 1 \in 1 .. len
    BY <1>2
  <2> HIDE DEF len
  <2> QED BY <2>1, <2>2
<1> HIDE DEF len
<1> DEFINE Good(n) == flat[n] \in Seq(S) /\ Distinct(flat[n]) /\ ToSet(flat[n]) = Ahead(n)
           A == {k \in Nat : k + 1 <= len => Good(k + 1)}
<1>5. 0 \in A
  <2>1. 1 \in 1 .. len /\ Ahead(1) = ToSet(h[1])
    BY <1>2
  <2> HIDE DEF Ahead
  <2>2. Good(1)
    BY <1>2, <1>3, <1>4, <2>1
  <2> HIDE DEF Good
  <2> QED BY <2>2
<1>6. ASSUME NEW k \in A PROVE k + 1 \in A
  <2> DEFINE n == k + 1
             m == n + 1
  <2> SUFFICES ASSUME m <= len PROVE Good(m)
    OBVIOUS
  <2>1. k \in Nat /\ n \in Nat /\ n <= len /\ n \in 1 .. len /\ m \in 1 .. len /\ m # 1 /\ m - 1 = n
    BY <1>2
  <2>2. Good(n)
    <3> HIDE DEF Good
    <3> QED BY <2>1
  <2>3. Ahead(m) = Ahead(n) \union ToSet(h[m])
    <3>1. 1 .. m = (1 .. n) \union {m}
      BY <2>1
    <3> QED BY <3>1
  <2>4. Ahead(n) \intersect ToSet(h[m]) = {}
    <3>1. \A i \in 1 .. n : i \in 1 .. len /\ i # m
      BY <1>2, <2>1
    <3> SUFFICES ASSUME NEW x \in Ahead(n), x \in ToSet(h[m]) PROVE FALSE
      OBVIOUS
    <3>2. PICK i \in 1 .. n : x \in ToSet(h[i])
      OBVIOUS
    <3> HIDE DEF n, m, Ahead
    <3> QED BY <1>3, <2>1, <3>1, <3>2
  <2>5. flat[m] = flat[n] \o h[m]
    BY <1>4, <2>1
  <2> HIDE DEF n, m, A, Ahead
  <2> DEFINE s == flat[n]
             t == h[m]
  <2>6. /\ s \in Seq(S) /\ t \in Seq(S) /\ Distinct(s) /\ Distinct(t) /\ ToSet(s) \intersect ToSet(t) = {}
    BY <1>2, <1>3, <2>1, <2>2, <2>4
  <2> HIDE DEF s, t
  <2>7. s \o t \in Seq(S) /\ Distinct(s \o t) /\ ToSet(s \o t) = ToSet(s) \union ToSet(t)
    BY <2>6, ConcatApart
  <2> QED BY <2>2, <2>3, <2>5, <2>7 DEF s, t
<1>7. A = Nat
  <2> HIDE DEF A
  <2>1. A \subseteq Nat
    BY DEF A
  <2> QED BY <1>5, <1>6, <2>1, Induction
<1> HIDE DEF Good
<1>8. \A k \in Nat : k + 1 <= len => Good(k + 1)
  BY <1>7
<1>9. Good(len)
  <2>1. len - 1 \in Nat /\ (len - 1) + 1 <= len /\ (len - 1) + 1 = len
    BY <1>2
  <2>2. Good((len - 1) + 1)
    BY <1>8, <2>1
  <2> QED BY <2>1, <2>2
<1> QED BY <1>1, <1>9 DEF Good, len

-----------------------------------------------------------------------------
(* The invariant: what is in the list, and in the hands of every sort, is  *)
(* there once.                                                             *)

AllApart(its, cs) ==
  /\ Distinct(its)
  /\ \A i \in 1 .. Len(cs) : cs[i].op = "sort" =>
       Distinct(cs[i].taken) /\ ToSet(cs[i].taken) \intersect ToSet(its) = {}
  /\ \A i, j \in 1 .. Len(cs) : cs[i].op = "sort" /\ cs[j].op = "sort" /\ i # j =>
       ToSet(cs[i].taken) \intersect ToSet(cs[j].taken) = {}

ListsInv == TypeOK /\ AllApart(items, calls) /\ GrowingWalk

\* The list changes, by what no sort has.
LEMMA ItemsApart ==
  ASSUME NEW its, NEW cs, AllApart(its, cs), NEW t, NEW F, From(t, its, F),
         \A i \in 1 .. Len(cs) : cs[i].op = "sort" => ToSet(cs[i].taken) \intersect F = {}
  PROVE  AllApart(t, cs)
BY DEF AllApart, From

\* No sort begins.
LEMMA CallsApart ==
  ASSUME NEW its, NEW cs, AllApart(its, cs), NEW ds,
         \A i \in 1 .. Len(ds) : ds[i].op = "sort" =>
           i \in 1 .. Len(cs) /\ cs[i].op = "sort" /\ ds[i].taken = cs[i].taken
  PROVE  AllApart(its, ds)
BY DEF AllApart

LEMMA FrontIs ==
  ASSUME NEW S, NEW s \in Seq(S), s # << >>
  PROVE  /\ Front(s) \in Seq(S) /\ Len(s) \in Nat \ {0} /\ Len(Front(s)) = Len(s) - 1
         /\ \A i \in 1 .. Len(s) - 1 : Front(s)[i] = s[i]
<1> DEFINE n == Len(s)
           m == n - 1
<1>1. n \in Nat /\ n # 0 /\ \A i \in 1 .. n : s[i] \in S
  BY LenProperties, ElementOfSeq, EmptySeq
<1>2. Front(s) = SubSeq(s, 1, m)
  BY DEF Front
<1> HIDE DEF n
<1>3. m \in Nat /\ \A i \in 1 .. m : s[i] \in S
  BY <1>1
<1> HIDE DEF m
<1>4. /\ SubSeq(s, 1, m) \in Seq(S) /\ Len(SubSeq(s, 1, m)) = IF 1 <= m THEN m - 1 + 1 ELSE 0
      /\ \A i \in 1 .. m - 1 + 1 : SubSeq(s, 1, m)[i] = s[1 + i - 1]
  BY <1>3, SubSeqProperties
<1> DEFINE f == Front(s)
<1> HIDE DEF f
<1>5. /\ f \in Seq(S) /\ Len(f) = IF 1 <= m THEN m - 1 + 1 ELSE 0
      /\ \A i \in 1 .. m - 1 + 1 : f[i] = s[1 + i - 1]
  BY <1>2, <1>4 DEF f
<1>6. f \in Seq(S) /\ Len(f) = m /\ \A i \in 1 .. m : f[i] = s[i]
  BY <1>3, <1>5
<1> QED BY <1>1, <1>6 DEF f, m, n

\* What a call is.
LEMMA CallIs ==
  ASSUME NEW cs \in Seq(Sort \union Extend), NEW i \in 1 .. Len(cs)
  PROVE  /\ cs[i] \in Sort \union Extend
         /\ cs[i].op = "sort" => /\ cs[i].taken \in Seq(Elems) /\ cs[i].ranked \in Nat
                                 /\ cs[i].reverse \in BOOLEAN /\ cs[i] \in Sort
<1>1. cs[i] \in Sort \union Extend
  BY ElementOfSeq
<1>2. CASE cs[i] \in Sort
  BY <1>1, <1>2 DEF Sort
<1>3. CASE cs[i] \in Extend
  BY <1>1, <1>3 DEF Extend
<1> QED BY <1>1, <1>2, <1>3

\* The types of the calls, apart.
CallsOK(cs) ==
  /\ cs \in Seq(Sort \union Extend) /\ Len(cs) <= MaxCalls
  /\ \A i \in 1 .. Len(cs) : cs[i].op = "sort" => cs[i].ranked <= Len(cs[i].taken)

LEMMA TypeIs ==
  /\ TypeOK <=> /\ items \in Seq(Elems) /\ CallsOK(calls) /\ walks \in [Walks -> Iter]
                /\ outcome \in {"none", "sorted", "modified", "raised"}
  /\ TypeOK' <=> /\ items' \in Seq(Elems) /\ CallsOK(calls') /\ walks' \in [Walks -> Iter]
                 /\ outcome' \in {"none", "sorted", "modified", "raised"}
<1>1. \A cs \in Seq(Sort \union Extend) : DOMAIN cs = 1 .. Len(cs)
  BY LenProperties
<1>2. TypeOK <=> /\ items \in Seq(Elems) /\ CallsOK(calls) /\ walks \in [Walks -> Iter]
                 /\ outcome \in {"none", "sorted", "modified", "raised"}
  BY <1>1 DEF TypeOK, CallsOK
<1>3. TypeOK' <=> /\ items' \in Seq(Elems) /\ CallsOK(calls') /\ walks' \in [Walks -> Iter]
                  /\ outcome' \in {"none", "sorted", "modified", "raised"}
  BY <1>1 DEF TypeOK, CallsOK
<1> QED BY <1>2, <1>3

\* A call begins, and one ends.
Begun(ds, cs, c) ==
  /\ CallsOK(ds) /\ Len(ds) = Len(cs) + 1 /\ ds[Len(ds)] = c
  /\ \A i \in 1 .. Len(ds) : i = Len(ds) \/ (i \in 1 .. Len(cs) /\ ds[i] = cs[i])

LEMMA CallBegins ==
  ASSUME NEW cs, CallsOK(cs), Len(cs) < MaxCalls, NEW c \in Sort \union Extend, NEW ds, ds = Append(cs, c),
         c.op = "sort" => c.ranked = 0 /\ c.taken \in Seq(Elems)
  PROVE  Begun(ds, cs, c)
<1> DEFINE n == Len(cs)
<1>1. cs \in Seq(Sort \union Extend) /\ n \in Nat /\ MaxCalls \in Nat /\ n < MaxCalls
  BY BoundsAssumption, LenProperties DEF CallsOK
<1>2. /\ Append(cs, c) \in Seq(Sort \union Extend) /\ Len(Append(cs, c)) = n + 1
      /\ Append(cs, c)[n + 1] = c /\ \A i \in 1 .. n : Append(cs, c)[i] = cs[i]
  BY <1>1, AppendProperties
<1> HIDE DEF n
<1>3. /\ ds \in Seq(Sort \union Extend) /\ Len(ds) = n + 1
      /\ ds[n + 1] = c /\ \A i \in 1 .. n : ds[i] = cs[i]
  BY <1>2
<1>4. \A i \in 1 .. n : cs[i].op = "sort" => cs[i].ranked <= Len(cs[i].taken)
  BY DEF CallsOK, n
<1>5. \A i \in 1 .. Len(ds) : i = n + 1 \/ i \in 1 .. n
  BY <1>1, <1>3
<1>6. ASSUME NEW i \in 1 .. Len(ds), ds[i].op = "sort" PROVE ds[i].ranked <= Len(ds[i].taken)
  <2>1. CASE i = n + 1
    <3>1. Len(c.taken) \in Nat /\ c.ranked = 0
      BY <1>3, <1>6, <2>1, LenProperties
    <3> QED BY <1>3, <2>1, <3>1
  <2>2. CASE i \in 1 .. n
    BY <1>3, <1>4, <1>6, <2>2
  <2> QED BY <1>5, <2>1, <2>2
<1>7. CallsOK(ds)
  BY <1>1, <1>3, <1>6 DEF CallsOK
<1>8. ds[Len(ds)] = c
  BY <1>3
<1>9. \A i \in 1 .. Len(ds) : i = Len(ds) \/ (i \in 1 .. n /\ ds[i] = cs[i])
  <2> TAKE i \in 1 .. Len(ds)
  <2>0. Len(ds) = n + 1
    BY <1>3
  <2>1. CASE i = n + 1
    BY <2>0, <2>1
  <2>2. CASE i \in 1 .. n
    BY <1>3, <2>2
  <2> QED BY <1>5, <2>1, <2>2
<1> QED BY <1>3, <1>7, <1>8, <1>9 DEF Begun, n

LEMMA CallEnds ==
  ASSUME NEW cs, CallsOK(cs), cs # << >>
  PROVE  /\ CallsOK(Front(cs)) /\ Len(cs) \in 1 .. Len(cs) /\ Len(Front(cs)) = Len(cs) - 1
         /\ \A i \in 1 .. Len(cs) - 1 : i \in 1 .. Len(cs) /\ i # Len(cs) /\ Front(cs)[i] = cs[i]
<1> DEFINE n == Len(cs)
           ds == Front(cs)
<1>1. cs \in Seq(Sort \union Extend) /\ MaxCalls \in Nat /\ n <= MaxCalls
  BY BoundsAssumption DEF CallsOK
<1>2. /\ ds \in Seq(Sort \union Extend) /\ n \in Nat \ {0} /\ Len(ds) = n - 1
      /\ \A i \in 1 .. n - 1 : ds[i] = cs[i]
  BY <1>1, FrontIs
<1>3. \A i \in 1 .. n : cs[i].op = "sort" => cs[i].ranked <= Len(cs[i].taken)
  BY DEF CallsOK
<1> HIDE DEF n, ds
<1>4. \A i \in 1 .. n - 1 : i \in 1 .. n /\ i # n
  BY <1>2
<1>5. CallsOK(ds)
  BY <1>1, <1>2, <1>3, <1>4 DEF CallsOK
<1> QED BY <1>2, <1>4, <1>5 DEF n, ds

-----------------------------------------------------------------------------
(* Types.                                                                  *)

WalksOK(ws) == ws \in [Walks -> Iter]

LEMMA DisturbedOK ==
  ASSUME WalksOK(walks), Disturbed
  PROVE  WalksOK(walks') /\ \A w \in Walks : walks'[w].plain = FALSE
BY DEF WalksOK, Disturbed, Iter

LEMMA StepOK ==
  ASSUME TypeOK, NEW w \in Walks, Step(w)
  PROVE  /\ WalksOK(walks')
         /\ \A x \in Walks : x # w => walks'[x] = walks[x]
         /\ walks'[w].at = walks[w].at + 1
         /\ walks'[w].plain = (walks[w].plain /\ walks[w].at + 1 \in DOMAIN items)
         /\ walks'[w].given = IF walks[w].at + 1 \in DOMAIN items
                                THEN Append(walks[w].given, items[walks[w].at + 1]) ELSE walks[w].given
<1> DEFINE it == walks[w]
           at == it.at + 1
           there == at \in DOMAIN items
           next == [at |-> at, given |-> IF there THEN Append(it.given, items[at]) ELSE it.given,
                    plain |-> it.plain /\ there]
<1>1. items \in Seq(Elems) /\ walks \in [Walks -> Iter]
  BY DEF TypeOK
<1>2. it \in Iter /\ it = [at |-> it.at, given |-> it.given, plain |-> it.plain]
  BY <1>1 DEF Iter
<1>3. walks' = [walks EXCEPT ![w] = next]
  BY <1>1, <1>2 DEF Step, Iter
<1>4. next \in Iter
  <2>1. it.at \in Nat /\ it.given \in Seq(Elems) /\ it.plain \in BOOLEAN
    BY <1>2 DEF Iter
  <2>2. there => items[at] \in Elems
    BY <1>1, ElementOfSeq, LenProperties
  <2> HIDE DEF it
  <2>3. there => Append(it.given, items[at]) \in Seq(Elems)
    BY <2>1, <2>2, AppendProperties
  <2> HIDE DEF there
  <2> QED BY <2>1, <2>3 DEF Iter
<1>5. next.at = at /\ next.plain = (it.plain /\ there)
      /\ next.given = IF there THEN Append(it.given, items[at]) ELSE it.given
  OBVIOUS
<1> HIDE DEF next, at, there, it
<1>6. walks' \in [Walks -> Iter] /\ walks'[w] = next /\ \A x \in Walks : x # w => walks'[x] = walks[x]
  BY <1>1, <1>3, <1>4
<1> QED BY <1>5, <1>6 DEF WalksOK, at, there, it

LEMMA OverOK ==
  ASSUME TypeOK, NEW w \in Walks, Over(w)
  PROVE  /\ WalksOK(walks')
         /\ \A x \in Walks : x # w => walks'[x] = walks[x]
         /\ walks'[w].at = 0 /\ walks'[w].given = << >>
<1> DEFINE next == [at |-> 0, given |-> << >>, plain |-> TRUE]
<1>1. walks \in [Walks -> Iter] /\ walks' = [walks EXCEPT ![w] = next]
  BY DEF TypeOK, Over
<1>2. next \in Iter /\ next.at = 0 /\ next.given = << >>
  BY EmptySeq DEF Iter
<1> HIDE DEF next
<1> QED BY <1>1, <1>2 DEF WalksOK

\* Keys are taken one at a time.
LEMMA KeyTakenOK ==
  ASSUME TypeOK, KeyTaken
  PROVE  /\ CallsOK(calls') /\ Len(calls') = Len(calls)
         /\ \A i \in 1 .. Len(calls) : calls'[i].op = calls[i].op
         /\ \A i \in 1 .. Len(calls) : calls[i].op = "sort" => calls'[i].taken = calls[i].taken
<1> DEFINE n == Len(calls)
           c == calls[n]
           d == [op |-> "sort", taken |-> c.taken, ranked |-> c.ranked + 1, reverse |-> c.reverse]
<1>1. calls \in Seq(Sort \union Extend) /\ n <= MaxCalls /\ MaxCalls \in Nat
  BY BoundsAssumption, TypeIs DEF CallsOK
<1>2. calls # << >> /\ c.op = "sort" /\ c.ranked < Len(c.taken)
  BY DEF KeyTaken, Inside, Top
<1>3. n \in Nat /\ n \in 1 .. n /\ calls = [i \in 1 .. n |-> calls[i]]
  BY <1>1, <1>2, LenProperties, EmptySeq
<1>4. \A i \in 1 .. n : calls[i].op = "sort" => calls[i].ranked <= Len(calls[i].taken)
  BY TypeIs DEF CallsOK
<1>5. c \in Sort /\ c.taken \in Seq(Elems) /\ c.ranked \in Nat /\ c.reverse \in BOOLEAN
  <2> HIDE DEF n
  <2> QED BY <1>1, <1>2, <1>3, CallIs DEF n
<1>6. c = [op |-> "sort", taken |-> c.taken, ranked |-> c.ranked, reverse |-> c.reverse]
  BY <1>2, <1>5 DEF Sort
<1>7. calls' = [calls EXCEPT ![n] = d]
  <2> DEFINE e == [c EXCEPT !.ranked = c.ranked + 1]
  <2>1. calls' = [calls EXCEPT ![n] = e]
    BY DEF KeyTaken
  <2>2. e = d
    <3> HIDE DEF c
    <3> QED BY <1>6
  <2> QED BY <2>1, <2>2
<1>8. d \in Sort /\ d.op = "sort" /\ d.taken = c.taken /\ d.ranked = c.ranked + 1
  BY <1>5 DEF Sort
<1>9. Len(c.taken) \in Nat
  BY <1>5, LenProperties
<1> HIDE DEF n, c, d
<1>10. /\ calls' \in Seq(Sort \union Extend) /\ Len(calls') = n
       /\ \A i \in 1 .. n : calls'[i] = IF i = n THEN d ELSE calls[i]
  BY <1>1, <1>3, <1>7, <1>8, ExceptSeq DEF n
<1>11. calls[n] = c
  BY DEF c
<1>12. \A i \in 1 .. n : calls'[i].op = "sort" => calls'[i].ranked <= Len(calls'[i].taken)
  BY <1>2, <1>4, <1>5, <1>8, <1>9, <1>10
<1>13. CallsOK(calls')
  BY <1>1, <1>10, <1>12 DEF CallsOK
<1>14. \A i \in 1 .. n : calls'[i].op = calls[i].op /\ (calls[i].op = "sort" => calls'[i].taken = calls[i].taken)
  BY <1>2, <1>8, <1>10, <1>11
<1> QED BY <1>10, <1>13, <1>14 DEF n

-----------------------------------------------------------------------------
(* Every action keeps the invariant.                                       *)

\* What is fresh is in nobody's hands.
LEMMA FreshIs ==
  ASSUME ListsInv, NEW e \in Fresh
  PROVE  /\ e \in Elems /\ e \notin ToSet(items)
         /\ \A i \in 1 .. Len(calls) : calls[i].op = "sort" => ToSet(calls[i].taken) \intersect {e} = {}
<1>1. DOMAIN calls = 1 .. Len(calls)
  BY LenProperties DEF ListsInv, TypeOK
<1> QED BY <1>1 DEF Fresh

\* Prefixes of a list that grew.
LEMMA PrefixGrows ==
  ASSUME NEW s \in Seq(Elems), NEW e \in Elems, NEW n \in 0 .. Len(s)
  PROVE  /\ SubSeq(Append(s, e), 1, n) = SubSeq(s, 1, n)
         /\ n < Len(s) => SubSeq(s, 1, n + 1) = Append(SubSeq(s, 1, n), s[n + 1])
<1> DEFINE len == Len(s)
           t == Append(s, e)
           a == SubSeq(s, 1, n)
           b == SubSeq(t, 1, n)
<1>1. len \in Nat /\ n \in Nat /\ n <= len /\ \A i \in 1 .. len : s[i] \in Elems
  BY LenProperties, ElementOfSeq
<1>2. t \in Seq(Elems) /\ Len(t) = len + 1 /\ \A i \in 1 .. len : t[i] = s[i]
  BY AppendProperties
<1> HIDE DEF t, len
<1>3. (\A i \in 1 .. n : s[i] \in Elems) /\ (\A i \in 1 .. n : t[i] \in Elems)
  BY <1>1, <1>2
<1>4. a \in Seq(Elems) /\ Len(a) = (IF 1 <= n THEN n - 1 + 1 ELSE 0) /\ \A i \in 1 .. n - 1 + 1 : a[i] = s[1 + i - 1]
  BY <1>1, <1>3, SubSeqProperties
<1>5. b \in Seq(Elems) /\ Len(b) = (IF 1 <= n THEN n - 1 + 1 ELSE 0) /\ \A i \in 1 .. n - 1 + 1 : b[i] = t[1 + i - 1]
  BY <1>1, <1>3, SubSeqProperties
<1> HIDE DEF a, b
<1>6. a \in Seq(Elems) /\ Len(a) = n /\ \A i \in 1 .. n : a[i] = s[i]
  BY <1>1, <1>4
<1>7. b \in Seq(Elems) /\ Len(b) = n /\ \A i \in 1 .. n : b[i] = t[i]
  BY <1>1, <1>5
<1>8. b = a
  BY <1>1, <1>2, <1>6, <1>7, SeqEqual
<1>9. ASSUME n < len PROVE SubSeq(s, 1, n + 1) = Append(a, s[n + 1])
  <2> DEFINE m == n + 1
             c == SubSeq(s, 1, m)
             d == Append(a, s[m])
  <2>1. m \in Nat /\ 1 <= m /\ m <= len /\ s[m] \in Elems /\ \A i \in 1 .. m : s[i] \in Elems
    BY <1>1, <1>9
  <2>2. d \in Seq(Elems) /\ Len(d) = n + 1 /\ d[n + 1] = s[m] /\ \A i \in 1 .. n : d[i] = a[i]
    <3> HIDE DEF m
    <3> QED BY <1>6, <2>1, AppendProperties
  <2> HIDE DEF m
  <2>3. /\ c \in Seq(Elems) /\ Len(c) = (IF 1 <= m THEN m - 1 + 1 ELSE 0)
        /\ \A i \in 1 .. m - 1 + 1 : c[i] = s[1 + i - 1]
    BY <2>1, SubSeqProperties
  <2> HIDE DEF c, d
  <2>4. c \in Seq(Elems) /\ Len(c) = m /\ \A i \in 1 .. m : c[i] = s[i]
    BY <2>1, <2>3
  <2>5. Len(d) = m /\ \A i \in 1 .. m : i = m \/ i \in 1 .. n
    BY <1>1, <2>2 DEF m
  <2>6. \A i \in 1 .. m : c[i] = d[i]
    BY <1>6, <2>2, <2>4, <2>5 DEF m
  <2>7. c = d
    BY <2>2, <2>4, <2>5, <2>6, SeqEqual
  <2> QED BY <2>7 DEF c, d, m
<1> QED BY <1>8, <1>9 DEF a, b, t, len

\* An element put after the last one.
LEMMA GrownOn ==
  ASSUME ListsInv, NEW e \in Fresh, items' = Append(items, e), UNCHANGED <<calls, walks>>
  PROVE  items' \in Seq(Elems) /\ AllApart(items', calls') /\ GrowingWalk'
<1>1. items \in Seq(Elems) /\ Distinct(items) /\ walks \in [Walks -> Iter]
  BY DEF ListsInv, TypeOK, AllApart
<1>2. e \in Elems /\ From(items', items, {e})
  BY <1>1, FreshIs, AppendFrom
<1>3. AllApart(items', calls)
  BY <1>2, FreshIs, ItemsApart DEF ListsInv
<1>4. ASSUME NEW w \in Walks, walks[w].plain
      PROVE  walks[w].at <= Len(items') /\ walks[w].given = SubSeq(items', 1, walks[w].at)
  <2> DEFINE n == walks[w].at
  <2>1. n \in Nat /\ n <= Len(items) /\ walks[w].given = SubSeq(items, 1, n)
    BY <1>1, <1>4 DEF ListsInv, GrowingWalk, Iter
  <2>2. Len(items) \in Nat /\ Len(items') = Len(items) + 1
    BY <1>1, <1>2, LenProperties, AppendProperties
  <2> HIDE DEF n
  <2>3. n \in 0 .. Len(items)
    BY <2>1, <2>2
  <2>4. SubSeq(items', 1, n) = SubSeq(items, 1, n)
    BY <1>1, <1>2, <2>3, PrefixGrows
  <2>5. n <= Len(items')
    BY <2>1, <2>2
  <2> QED BY <2>1, <2>4, <2>5 DEF n
<1> QED BY <1>2, <1>3, <1>4 DEF From, GrowingWalk

\* An iterator goes on.
LEMMA WalkOn ==
  ASSUME ListsInv, NEW w \in Walks, Step(w) \/ Over(w), outcome' = "none"
  PROVE  ListsInv'
<1>1. items \in Seq(Elems) /\ TypeOK /\ items' = items /\ calls' = calls /\ walks \in [Walks -> Iter]
  BY DEF ListsInv, TypeOK, Step, Over
<1>2. WalksOK(walks') /\ \A x \in Walks : x # w => walks'[x] = walks[x]
  BY <1>1, StepOK, OverOK
<1>3. Len(items) \in Nat /\ DOMAIN items = 1 .. Len(items)
  BY <1>1, LenProperties
<1> DEFINE Right(it) == it.plain => it.at <= Len(items) /\ it.given = SubSeq(items, 1, it.at)
<1>4. \A x \in Walks : Right(walks[x])
  BY DEF ListsInv, GrowingWalk
<1>5. Right(walks'[w])
  <2>1. CASE Step(w)
    <3> DEFINE it == walks[w]
               next == walks'[w]
               n == it.at
    <3>1. n \in Nat
      BY <1>1 DEF Iter
    <3>2. next.at = n + 1 /\ next.plain = (it.plain /\ n + 1 \in DOMAIN items)
          /\ next.given = IF n + 1 \in DOMAIN items THEN Append(it.given, items[n + 1]) ELSE it.given
      BY <1>1, <2>1, StepOK
    <3>3. Right(it)
      BY <1>4
    <3> HIDE DEF it, next, n
    <3>4. SUFFICES ASSUME next.plain
                   PROVE  next.at <= Len(items) /\ next.given = SubSeq(items, 1, next.at)
      BY DEF next
    <3>5. it.plain /\ n + 1 \in 1 .. Len(items)
      BY <1>3, <3>2, <3>4
    <3>6. it.given = SubSeq(items, 1, n)
      BY <3>3, <3>5 DEF n
    <3>7. n \in 0 .. Len(items) /\ n < Len(items) /\ n + 1 <= Len(items)
      BY <1>3, <3>1, <3>5
    <3>8. PICK e \in Elems : TRUE
      BY <1>1, <3>5, ElementOfSeq
    <3>9. SubSeq(items, 1, n + 1) = Append(SubSeq(items, 1, n), items[n + 1])
      BY <1>1, <3>7, <3>8, PrefixGrows
    <3> QED BY <1>3, <3>2, <3>5, <3>6, <3>7, <3>9
  <2>2. CASE Over(w)
    <3>1. walks'[w].at = 0 /\ walks'[w].given = << >>
      BY <1>1, <2>2, OverOK
    <3>2. SubSeq(items, 1, 0) = << >>
      BY SubSeqEmpty
    <3> QED BY <1>3, <3>1, <3>2
  <2> QED BY <2>1, <2>2
<1>6. GrowingWalk'
  <2>1. \A x \in Walks : Right(walks'[x])
    <3> HIDE DEF Right
    <3> QED BY <1>2, <1>4, <1>5
  <2> QED BY <1>1, <2>1 DEF GrowingWalk
<1>7. AllApart(items', calls')
  BY <1>1 DEF ListsInv
<1>8. CallsOK(calls')
  BY <1>1, TypeIs
<1> QED BY <1>1, <1>2, <1>6, <1>7, <1>8, TypeIs DEF ListsInv, WalksOK

\* What is not plain any more is right whatever it has given.
LEMMA DisturbedOn ==
  ASSUME ListsInv, Disturbed
  PROVE  walks' \in [Walks -> Iter] /\ GrowingWalk'
<1>1. WalksOK(walks)
  BY DEF ListsInv, TypeOK, WalksOK
<1> QED BY <1>1, DisturbedOK DEF GrowingWalk, WalksOK

\* What a program does to the list, apart from appending to it.
LEMMA ChangedOn ==
  ASSUME ListsInv, outcome' = "none",
         (\E e \in Fresh : Insert(e)) \/ Pop \/ Clear \/ TurnRound
  PROVE  ListsInv'
<1>1. items \in Seq(Elems) /\ Distinct(items) /\ CallsOK(calls) /\ AllApart(items, calls)
  BY TypeIs DEF ListsInv, AllApart
<1>2. Disturbed /\ calls' = calls
  BY DEF Insert, Pop, Clear, TurnRound
<1>3. DOMAIN items = 1 .. Len(items)
  BY <1>1, LenProperties
<1>4. PICK F : /\ From(items', items, F)
               /\ \A i \in 1 .. Len(calls) : calls[i].op = "sort" => ToSet(calls[i].taken) \intersect F = {}
  <2>1. CASE \E e \in Fresh : Insert(e)
    <3>1. PICK e \in Fresh : Insert(e)
      BY <2>1
    <3>2. PICK n \in 0 .. Len(items) : items' = InsertAt(items, n + 1, e)
      BY <3>1 DEF Insert
    <3>3. From(items', items, {e})
      BY <1>1, <3>2, FreshIs, InsertFrom
    <3> QED BY <3>3, FreshIs
  <2>2. CASE Pop
    <3>1. PICK n \in 1 .. Len(items) : items' = RemoveAt(items, n)
      BY <1>3, <2>2 DEF Pop
    <3>2. From(items', items, {})
      BY <1>1, <3>1, RemoveFrom
    <3> QED BY <3>2
  <2>3. CASE Clear
    <3>1. From(items', items, {})
      BY <1>1, <2>3, SelfFrom DEF Clear
    <3> QED BY <3>1
  <2>4. CASE TurnRound
    <3>1. From(items', items, {})
      BY <1>1, <2>4, ReverseFrom DEF TurnRound
    <3> QED BY <3>1
  <2> QED BY <2>1, <2>2, <2>3, <2>4
<1>5. AllApart(items', calls')
  BY <1>1, <1>2, <1>4, ItemsApart
<1>6. items' \in Seq(Elems)
  BY <1>4 DEF From
<1> QED BY <1>1, <1>2, <1>5, <1>6, DisturbedOn, TypeIs DEF ListsInv

\* A sort takes what is in the list, and leaves nothing there.
LEMMA StartSortOn ==
  ASSUME ListsInv, outcome' = "none", StartSort
  PROVE  ListsInv'
<1>1. items \in Seq(Elems) /\ Distinct(items) /\ CallsOK(calls) /\ AllApart(items, calls)
  BY TypeIs DEF ListsInv, AllApart
<1>2. PICK reverse \in BOOLEAN :
        calls' = Append(calls, [op |-> "sort", taken |-> items, ranked |-> 0, reverse |-> reverse])
  BY DEF StartSort
<1> DEFINE c == [op |-> "sort", taken |-> items, ranked |-> 0, reverse |-> reverse]
<1>3. c \in Sort \union Extend /\ c.op = "sort" /\ c.taken = items /\ c.ranked = 0
  BY <1>1 DEF Sort
<1>4. calls' = Append(calls, c) /\ Len(calls) < MaxCalls /\ items' = << >> /\ Disturbed
  BY <1>2 DEF StartSort
<1> HIDE DEF c
<1>5. /\ CallsOK(calls') /\ Len(calls') = Len(calls) + 1 /\ calls'[Len(calls')] = c
      /\ \A i \in 1 .. Len(calls') : i = Len(calls') \/ (i \in 1 .. Len(calls) /\ calls'[i] = calls[i])
  <2> DEFINE ds == calls'
  <2>1. ds = Append(calls, c) /\ Len(calls) < MaxCalls /\ (c.op = "sort" => c.ranked = 0 /\ c.taken \in Seq(Elems))
    BY <1>1, <1>3, <1>4
  <2> HIDE DEF ds
  <2>2. Begun(ds, calls, c)
    BY <1>1, <1>3, <2>1, CallBegins
  <2> QED BY <2>2 DEF ds, Begun
<1>6. items' \in Seq(Elems) /\ Distinct(items') /\ ToSet(items') = {}
  <2>1. From(<< >>, items, {})
    BY <1>1, SelfFrom
  <2>2. Len(<< >>) = 0 /\ << >> \in Seq(Elems)
    BY EmptySeq
  <2>3. ToSet(<< >>) = {<< >>[i] : i \in 1 .. Len(<< >>)}
    BY <2>2, ToSetIs
  <2> QED BY <1>4, <2>1, <2>2, <2>3 DEF From
<1> DEFINE n == Len(calls')
<1>7. ASSUME NEW i \in 1 .. n, calls'[i].op = "sort"
      PROVE  Distinct(calls'[i].taken) /\ ToSet(calls'[i].taken) \intersect ToSet(items') = {}
  <2> HIDE DEF n
  <2>1. CASE i = n
    BY <1>1, <1>3, <1>5, <1>6, <2>1 DEF n
  <2>2. CASE i \in 1 .. Len(calls) /\ calls'[i] = calls[i]
    BY <1>1, <1>6, <1>7, <2>2 DEF AllApart
  <2> QED BY <1>5, <1>7, <2>1, <2>2 DEF n
<1>8. ASSUME NEW i \in 1 .. n, NEW j \in 1 .. n, calls'[i].op = "sort", calls'[j].op = "sort", i # j
      PROVE  ToSet(calls'[i].taken) \intersect ToSet(calls'[j].taken) = {}
  <2>1. calls'[n].taken = items
    BY <1>3, <1>5
  <2>2. \A k \in 1 .. n : k = n \/ (k \in 1 .. Len(calls) /\ calls'[k] = calls[k])
    BY <1>5
  <2> HIDE DEF n
  <2>3. CASE i = n
    BY <1>1, <1>8, <2>1, <2>2, <2>3 DEF AllApart
  <2>4. CASE j = n
    BY <1>1, <1>8, <2>1, <2>2, <2>4 DEF AllApart
  <2>5. CASE i # n /\ j # n
    BY <1>1, <1>8, <2>2, <2>5 DEF AllApart
  <2> QED BY <2>3, <2>4, <2>5
<1>9. AllApart(items', calls')
  BY <1>6, <1>7, <1>8 DEF AllApart
<1> QED BY <1>4, <1>5, <1>6, <1>9, DisturbedOn, TypeIs DEF ListsInv

\* A sort gives back what it took, and nothing of it is left in its hands.
LEMMA SortEndsOn ==
  ASSUME ListsInv, Inside("sort"), calls' = Front(calls), Disturbed,
         outcome' \in {"none", "sorted", "modified", "raised"}, From(items', Top.taken, {})
  PROVE  ListsInv'
<1> DEFINE n == Len(calls)
           c == calls[n]
<1>1. items \in Seq(Elems) /\ CallsOK(calls) /\ AllApart(items, calls) /\ calls # << >> /\ c.op = "sort"
  BY TypeIs DEF ListsInv, Inside, Top
<1>2. /\ CallsOK(calls') /\ n \in 1 .. n /\ Len(calls') = n - 1
      /\ \A i \in 1 .. n - 1 : i \in 1 .. n /\ i # n /\ calls'[i] = calls[i]
  BY <1>1, CallEnds
<1>3. items' \in Seq(Elems) /\ Distinct(items') /\ ToSet(items') \subseteq ToSet(c.taken)
  BY DEF From, Top
<1>4. /\ \A i \in 1 .. n : calls[i].op = "sort" => Distinct(calls[i].taken)
      /\ \A i, j \in 1 .. n : calls[i].op = "sort" /\ calls[j].op = "sort" /\ i # j =>
           ToSet(calls[i].taken) \intersect ToSet(calls[j].taken) = {}
  BY <1>1 DEF AllApart
<1>5. AllApart(items', calls')
  <2>1. ASSUME NEW i \in 1 .. Len(calls'), calls'[i].op = "sort"
        PROVE  Distinct(calls'[i].taken) /\ ToSet(calls'[i].taken) \intersect ToSet(items') = {}
    <3>1. i \in 1 .. n /\ i # n /\ calls'[i] = calls[i]
      BY <1>2, <2>1
    <3> HIDE DEF n
    <3>2. ToSet(calls[i].taken) \intersect ToSet(c.taken) = {}
      BY <1>1, <1>2, <1>4, <2>1, <3>1
    <3> HIDE DEF c
    <3> QED BY <1>3, <1>4, <2>1, <3>1, <3>2
  <2>2. ASSUME NEW i \in 1 .. Len(calls'), NEW j \in 1 .. Len(calls'),
               calls'[i].op = "sort", calls'[j].op = "sort", i # j
        PROVE  ToSet(calls'[i].taken) \intersect ToSet(calls'[j].taken) = {}
    <3>1. i \in 1 .. n /\ calls'[i] = calls[i] /\ j \in 1 .. n /\ calls'[j] = calls[j]
      BY <1>2, <2>2
    <3> HIDE DEF n
    <3> QED BY <1>4, <2>2, <3>1
  <2> QED BY <1>3, <2>1, <2>2 DEF AllApart
<1> QED BY <1>2, <1>3, <1>5, DisturbedOn, TypeIs DEF ListsInv

\* The other calls begin and end with nothing in their hands.
LEMMA OtherCallsOn ==
  ASSUME ListsInv, outcome' = "none", KeyTaken \/ StartExtend \/ EndExtend
  PROVE  ListsInv'
<1>1. TypeOK /\ CallsOK(calls) /\ AllApart(items, calls) /\ items' = items /\ walks' = walks
  BY TypeIs DEF ListsInv, KeyTaken, StartExtend, EndExtend
<1>2. CallsOK(calls') /\ \A i \in 1 .. Len(calls') : calls'[i].op = "sort" =>
        i \in 1 .. Len(calls) /\ calls[i].op = "sort" /\ calls'[i].taken = calls[i].taken
  <2>1. CASE KeyTaken
    BY <1>1, <2>1, KeyTakenOK
  <2>2. CASE StartExtend
    <3> DEFINE c == [op |-> "extend"]
    <3>1. c \in Sort \union Extend /\ c.op = "extend"
      BY DEF Extend
    <3>2. calls' = Append(calls, c) /\ Len(calls) < MaxCalls
      BY <2>2 DEF StartExtend
    <3> HIDE DEF c
    <3>3. /\ CallsOK(calls') /\ calls'[Len(calls')] = c
          /\ \A i \in 1 .. Len(calls') : i = Len(calls') \/ (i \in 1 .. Len(calls) /\ calls'[i] = calls[i])
      <4> DEFINE ds == calls'
      <4>1. ds = Append(calls, c) /\ Len(calls) < MaxCalls /\ (c.op = "sort" => c.ranked = 0 /\ c.taken \in Seq(Elems))
        BY <3>1, <3>2
      <4> HIDE DEF ds
      <4>2. Begun(ds, calls, c)
        BY <1>1, <3>1, <4>1, CallBegins
      <4> QED BY <4>2 DEF ds, Begun
    <3> QED BY <3>1, <3>3
  <2>3. CASE EndExtend
    <3>1. calls # << >> /\ calls' = Front(calls)
      BY <2>3 DEF EndExtend, Inside
    <3>2. /\ CallsOK(calls') /\ Len(calls') = Len(calls) - 1
          /\ \A i \in 1 .. Len(calls) - 1 : i \in 1 .. Len(calls) /\ calls'[i] = calls[i]
      BY <1>1, <3>1, CallEnds
    <3> QED BY <3>2
  <2> QED BY <2>1, <2>2, <2>3
<1>3. AllApart(items', calls')
  BY <1>1, <1>2, CallsApart
<1>4. GrowingWalk'
  BY <1>1 DEF ListsInv, GrowingWalk
<1> QED BY <1>1, <1>2, <1>3, <1>4, TypeIs DEF ListsInv

LEMMA TopIs ==
  ASSUME ListsInv, Inside("sort")
  PROVE  Top.taken \in Seq(Elems) /\ Distinct(Top.taken) /\ Top.reverse \in BOOLEAN
<1> DEFINE n == Len(calls)
<1>1. CallsOK(calls) /\ AllApart(items, calls) /\ calls # << >> /\ calls[n].op = "sort"
  BY TypeIs DEF ListsInv, Inside, Top
<1>2. n \in 1 .. n /\ calls \in Seq(Sort \union Extend)
  BY <1>1, CallEnds DEF CallsOK
<1>3. calls[n].taken \in Seq(Elems) /\ calls[n].reverse \in BOOLEAN
  BY <1>1, <1>2, CallIs
<1> QED BY <1>1, <1>2, <1>3 DEF AllApart, Top

-----------------------------------------------------------------------------
(* The theorems.                                                           *)

LEMMA InitLists == Init => ListsInv
<1> SUFFICES ASSUME Init PROVE ListsInv
  OBVIOUS
<1>1. items = << >> /\ calls = << >> /\ outcome = "none"
      /\ walks = [w \in Walks |-> [at |-> 0, given |-> << >>, plain |-> TRUE]]
  BY DEF Init
<1>2. << >> \in Seq(Elems) /\ << >> \in Seq(Sort \union Extend) /\ Len(<< >>) = 0
  BY EmptySeq
<1>3. CallsOK(<< >>)
  BY <1>2, BoundsAssumption DEF CallsOK
<1>4. AllApart(<< >>, << >>)
  BY <1>2 DEF AllApart, Distinct
<1>5. walks \in [Walks -> Iter]
  BY <1>1, <1>2 DEF Iter
<1>6. GrowingWalk
  <2>1. SubSeq(items, 1, 0) = << >>
    BY SubSeqEmpty
  <2>2. \A w \in Walks : walks[w].at = 0 /\ walks[w].given = << >>
    BY <1>1
  <2>3. 0 <= Len(items)
    BY <1>1, <1>2
  <2> QED BY <2>1, <2>2, <2>3 DEF GrowingWalk
<1> QED BY <1>1, <1>2, <1>3, <1>4, <1>5, <1>6, TypeIs DEF ListsInv

LEMMA NextLists == ListsInv /\ [Next]_vars => ListsInv'
<1> SUFFICES ASSUME ListsInv, [Next]_vars PROVE ListsInv'
  OBVIOUS
<1>1. CASE Other /\ outcome' = "none"
  <2>1. CASE \E e \in Fresh : Push(e) \/ ExtendBy(e)
    <3>1. PICK e \in Fresh : items' = Append(items, e) /\ UNCHANGED <<calls, walks>>
      BY <2>1 DEF Push, ExtendBy, Grown
    <3>2. items' \in Seq(Elems) /\ AllApart(items', calls') /\ GrowingWalk'
      BY <3>1, GrownOn
    <3> QED BY <1>1, <3>1, <3>2, TypeIs DEF ListsInv
  <2>2. CASE (\E e \in Fresh : Insert(e)) \/ Pop \/ Clear \/ TurnRound
    BY <1>1, <2>2, ChangedOn
  <2>3. CASE StartSort
    BY <1>1, <2>3, StartSortOn
  <2>4. CASE KeyTaken \/ StartExtend \/ EndExtend
    BY <1>1, <2>4, OtherCallsOn
  <2>5. CASE \E w \in Walks : Step(w) \/ Over(w)
    BY <1>1, <2>5, WalkOn
  <2> QED BY <1>1, <2>1, <2>2, <2>3, <2>4, <2>5 DEF Other
<1>2. CASE SortRaises
  <2>1. Inside("sort") /\ calls' = Front(calls) /\ Disturbed /\ outcome' = "raised" /\ items' = Top.taken
    BY <1>2 DEF SortRaises
  <2>2. From(items', Top.taken, {})
    BY <2>1, TopIs, SelfFrom
  <2> QED BY <2>1, <2>2, SortEndsOn
<1>3. CASE EndSort
  <2>1. /\ Inside("sort") /\ calls' = Front(calls) /\ Disturbed
        /\ outcome' \in {"none", "sorted", "modified", "raised"} /\ items' = Arrange(Top.taken, Top.reverse)
    BY <1>3 DEF EndSort
  <2>2. From(items', Top.taken, {})
    BY <2>1, TopIs, ArrangeFrom
  <2> QED BY <2>1, <2>2, SortEndsOn
<1>4. CASE UNCHANGED vars
  BY <1>4, TypeIs DEF ListsInv, vars, GrowingWalk
<1> QED BY <1>1, <1>2, <1>3, <1>4 DEF Next

(* What is in the list, and what every sort that is in progress has taken  *)
(* from it, is there once, and every iterator over a list that only grew   *)
(* is right.                                                               *)
THEOREM ListsInvariant == Spec => []ListsInv
BY InitLists, NextLists, PTL DEF Spec

(* No element is in two places, the list and the hands of a sort, or of    *)
(* two sorts, whatever the key functions and the generators do to the list *)
(* (list.sort, list.extend and the mutators of method/list.rs).            *)
THEOREM SortsLoseNothing == Spec => []NoElementTwice
<1>1. ListsInv => NoElementTwice
  <2> SUFFICES ASSUME ListsInv PROVE NoElementTwice
    OBVIOUS
  <2> DEFINE n == Len(calls)
             hands == [i \in DOMAIN calls |-> IF calls[i].op = "sort" THEN calls[i].taken ELSE << >>]
             h == Append(hands, items)
             all == FlattenSeq(h)
  <2>1. /\ TypeOK /\ items \in Seq(Elems) /\ calls \in Seq(Sort \union Extend)
        /\ n \in Nat /\ DOMAIN calls = 1 .. n
    BY LenProperties DEF ListsInv, TypeOK
  <2>2. /\ Distinct(items)
        /\ \A i \in 1 .. n : calls[i].op = "sort" =>
             Distinct(calls[i].taken) /\ ToSet(calls[i].taken) \intersect ToSet(items) = {}
        /\ \A i, j \in 1 .. n : calls[i].op = "sort" /\ calls[j].op = "sort" /\ i # j =>
             ToSet(calls[i].taken) \intersect ToSet(calls[j].taken) = {}
    BY DEF ListsInv, AllApart
  <2>3. << >> \in Seq(Elems) /\ Len(<< >>) = 0 /\ ToSet(<< >>) = {} /\ Distinct(<< >>)
    <3>1. << >> \in Seq(Elems) /\ Len(<< >>) = 0
      BY EmptySeq
    <3>2. ToSet(<< >>) = {<< >>[i] : i \in 1 .. Len(<< >>)}
      BY <3>1, ToSetIs
    <3> QED BY <3>1, <3>2 DEF Distinct
  <2> DEFINE empty == << >>
  <2>4. empty \in Seq(Elems) /\ ToSet(empty) = {} /\ Distinct(empty)
    BY <2>3
  <2>5. \A i \in 1 .. n : calls[i].op = "sort" => calls[i].taken \in Seq(Elems)
    <3> HIDE DEF n
    <3> QED BY <2>1, CallIs DEF n
  <2>6. /\ hands \in Seq(Seq(Elems)) /\ Len(hands) = n
        /\ \A i \in 1 .. n : hands[i] = IF calls[i].op = "sort" THEN calls[i].taken ELSE empty
    <3>1. hands = [i \in 1 .. n |-> IF calls[i].op = "sort" THEN calls[i].taken ELSE empty]
      BY <2>1
    <3> HIDE DEF hands, empty, n
    <3>2. hands \in [1 .. n -> Seq(Elems)]
      BY <2>4, <2>5, <3>1
    <3> QED BY <2>1, <3>1, <3>2
  <2> HIDE DEF hands, n, empty
  <2>7. /\ h \in Seq(Seq(Elems)) /\ Len(h) = n + 1 /\ h[n + 1] = items
        /\ \A i \in 1 .. n : h[i] = hands[i]
    BY <2>1, <2>6, AppendProperties
  <2> HIDE DEF h
  <2>8. \A i \in 1 .. Len(h) : i = n + 1 \/ (i \in 1 .. n /\ i # n + 1)
    BY <2>1, <2>7
  <2>9. ASSUME NEW i \in 1 .. Len(h) PROVE Distinct(h[i])
    <3>1. CASE i = n + 1
      BY <2>2, <2>7, <3>1
    <3>2. CASE i \in 1 .. n
      BY <2>2, <2>4, <2>6, <2>7, <3>2
    <3> QED BY <2>8, <3>1, <3>2
  <2>10. \A i \in 1 .. n : ToSet(hands[i]) \intersect ToSet(items) = {}
    BY <2>2, <2>4, <2>6
  <2>11. ASSUME NEW i \in 1 .. Len(h), NEW j \in 1 .. Len(h), i # j
         PROVE  ToSet(h[i]) \intersect ToSet(h[j]) = {}
    <3>1. CASE i = n + 1
      BY <2>7, <2>8, <2>10, <2>11, <3>1
    <3>2. CASE j = n + 1
      BY <2>7, <2>8, <2>10, <2>11, <3>2
    <3>3. CASE i \in 1 .. n /\ j \in 1 .. n
      BY <2>2, <2>4, <2>6, <2>7, <2>11, <3>3
    <3> QED BY <2>8, <3>1, <3>2, <3>3
  <2>12. Apart(h)
    BY <2>9, <2>11 DEF Apart
  <2>13. all \in Seq(Elems) /\ Distinct(all)
    <3>1. Len(h) # 0
      BY <2>1, <2>7
    <3> QED BY <2>7, <2>12, <3>1, FlattenIs
  <2> HIDE DEF all
  <2>14. Cardinality(ToSet(all)) = Len(all)
    BY <2>13, DistinctCardinality
  <2> QED BY <2>1, <2>14 DEF NoElementTwice, all, h, hands
<1> QED BY <1>1, ListsInvariant, PTL

(* An iterator over a list that only grew has given all of it up to where  *)
(* it is (Iter::step over a list, with append and extend).                 *)
THEOREM IteratorsOverGrowth == Spec => []GrowingWalk
<1>1. ListsInv => GrowingWalk
  BY DEF ListsInv
<1> QED BY <1>1, ListsInvariant, PTL

(* Whatever a key function does to the list, list.sort leaves in it the    *)
(* elements that it took, in the stable order either way round, or as they *)
(* were if something raised.                                               *)
THEOREM SortIsStable == Spec => SortAnswers
<1> DEFINE Answers == Inside("sort") /\ Len(calls') < Len(calls) =>
                        /\ items' = IF outcome' = "raised" THEN Top.taken ELSE Ordered(Top.taken, Top.reverse)
                        /\ outcome' = "sorted" => items = << >>
<1>1. ASSUME ListsInv, [Next]_vars PROVE [Answers]_vars
  <2> SUFFICES ASSUME Next, Inside("sort"), Len(calls') < Len(calls)
               PROVE  /\ items' = IF outcome' = "raised" THEN Top.taken ELSE Ordered(Top.taken, Top.reverse)
                      /\ outcome' = "sorted" => items = << >>
    BY <1>1
  <2>1. Top.taken \in Seq(Elems) /\ Distinct(Top.taken) /\ Top.reverse \in BOOLEAN
    BY <1>1, TopIs
  <2>2. CallsOK(calls) /\ Len(calls) \in Nat
    BY <1>1, TypeIs, LenProperties DEF ListsInv, CallsOK
  <2>3. ~Other
    <3>1. SUFFICES ASSUME Other PROVE Len(calls') >= Len(calls)
      BY <2>2, <3>1
    <3>2. CASE calls' = calls
      BY <2>2, <3>2
    <3>3. CASE StartSort \/ StartExtend
      <4>1. PICK c : calls' = Append(calls, c)
        BY <3>3 DEF StartSort, StartExtend
      <4>2. calls \in Seq(Sort \union Extend)
        BY <2>2 DEF CallsOK
      <4> QED BY <2>2, <4>1, <4>2
    <3>4. CASE KeyTaken
      <4>1. Len(calls') = Len(calls)
        BY <1>1, <3>4, KeyTakenOK DEF ListsInv
      <4> QED BY <2>2, <4>1
    <3>5. CASE EndExtend
      BY <3>5 DEF EndExtend, Inside
    <3> QED BY <3>1, <3>2, <3>3, <3>4, <3>5
            DEF Other, Push, Insert, ExtendBy, Pop, Clear, TurnRound, Step, Over, Grown
  <2>4. CASE SortRaises
    BY <2>4 DEF SortRaises
  <2>5. CASE EndSort
    <3>1. /\ items' = Arrange(Top.taken, Top.reverse)
          /\ outcome' = IF items # << >> THEN "modified" ELSE "sorted"
      BY <2>5 DEF EndSort
    <3>2. items' = Ordered(Top.taken, Top.reverse)
      BY <2>1, <3>1, ArrangeIsOrdered
    <3> QED BY <3>1, <3>2
  <2> QED BY <2>3, <2>4, <2>5 DEF Next
<1> HIDE DEF Answers
<1>2. Spec => [][Answers]_vars
  BY <1>1, ListsInvariant, PTL DEF Spec
<1> QED BY <1>2 DEF SortAnswers, Answers

=============================================================================
