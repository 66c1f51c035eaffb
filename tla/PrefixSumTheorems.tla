------------------------- MODULE PrefixSumTheorems -------------------------
(***************************************************************************)
(* Facts about the sums of PrefixSum, for arrays of every length.          *)
(*                                                                         *)
(* The library's induction theorems take an operator parameter, which the  *)
(* back ends cannot instantiate.  RangeInduction below states induction    *)
(* over 0..n for a SET of indices instead; it follows from WFMin, the      *)
(* existence of minimal elements.                                          *)
(***************************************************************************)
EXTENDS PrefixSum, TLAPS, WellFoundedInduction, NaturalsInduction

LessNat == {p \in Nat \X Nat : p[1] < p[2]}

\* The order of the naturals is well founded: what every sum of the metering
\* code is defined by, one grant or one reservation after the other.
LEMMA LessNatWF == IsWellFoundedOn(LessNat, Nat)
<1>1. LessNat = OpToRel(<, Nat)
  BY DEF LessNat, OpToRel
<1> QED
  BY <1>1, NatLessThanWellFounded

\* A non-empty set of positions in a list of rows has a first one.
LEMMA LeastNat ==
  ASSUME NEW T, T \subseteq Nat, T # {}
  PROVE  \E x \in T : \A y \in T : x <= y
<1>1. \E x \in T : \A y \in T : ~ (<<y, x>> \in LessNat)
  BY LessNatWF, WFMin
<1>2. PICK x \in T : \A y \in T : ~ (<<y, x>> \in LessNat)
  BY <1>1
<1>3. ASSUME NEW y \in T
      PROVE  x <= y
  <2>1. <<y, x>> \in Nat \X Nat /\ <<y, x>>[1] = y /\ <<y, x>>[2] = x
    OBVIOUS
  <2>2. ~(y < x)
    BY <1>2, <2>1 DEF LessNat
  <2>3. x \in Nat /\ y \in Nat
    OBVIOUS
  <2> QED
    BY <2>2, <2>3
<1> QED
  BY <1>3

\* Induction along a list of n rows: a set of positions that holds 0 and is
\* closed under the next row holds them all.
THEOREM RangeInduction ==
  ASSUME NEW n \in Nat, NEW T,
         0 \in T, \A i \in 1..n : i - 1 \in T => i \in T
  PROVE  \A i \in 0..n : i \in T
<1> DEFINE Missing == {i \in 0..n : i \notin T}
<1> SUFFICES ASSUME Missing # {}
             PROVE  FALSE
  OBVIOUS
<1>1. PICK m \in Missing : \A i \in Missing : m <= i
  <2>1. Missing \subseteq Nat
    OBVIOUS
  <2> QED
    BY <2>1, LeastNat
<1>2. m \in 1..n
  BY <1>1
<1>3. m - 1 \in T
  BY <1>1, <1>2
<1> QED
  BY <1>1, <1>2, <1>3

\* The prefix sums of a list of rows exist: the recursion is well defined.
LEMMA PrefixExists ==
  ASSUME NEW n \in Nat, NEW a
  PROVE  \E p : p = [i \in 0..n |-> IF i = 0 THEN 0 ELSE p[i - 1] + a[i]]
<1> DEFINE Has(m) == \E p : p = [i \in 0..m |-> IF i = 0 THEN 0 ELSE p[i - 1] + a[i]]
           T == {m \in 0..n : Has(m)}
<1>1. Has(0)
  <2> DEFINE z == [i \in 0..0 |-> 0]
  <2>1. z = [i \in 0..0 |-> IF i = 0 THEN 0 ELSE z[i - 1] + a[i]]
    OBVIOUS
  <2> QED
    BY <2>1
<1>2. ASSUME NEW m \in 1..n, Has(m - 1)
      PROVE  Has(m)
  <2>1. PICK p : p = [i \in 0..(m - 1) |-> IF i = 0 THEN 0 ELSE p[i - 1] + a[i]]
    BY <1>2
  <2> DEFINE q == [i \in 0..m |-> IF i = m THEN p[m - 1] + a[m] ELSE p[i]]
  <2>2. ASSUME NEW i \in 0..m
        PROVE  q[i] = IF i = 0 THEN 0 ELSE q[i - 1] + a[i]
    <3>1. CASE i = m
      <4>1. q[i] = p[m - 1] + a[m]
        BY <3>1
      <4>2. q[m - 1] = p[m - 1]
        OBVIOUS
      <4> QED
        BY <4>1, <4>2, <3>1
    <3>2. CASE i # m
      <4>1. q[i] = p[i]
        BY <3>2
      <4>2. i \in 0..(m - 1)
        BY <3>2
      <4>3. p[i] = IF i = 0 THEN 0 ELSE p[i - 1] + a[i]
        BY <2>1, <4>2
      <4>4. i # 0 => q[i - 1] = p[i - 1]
        BY <4>2
      <4> QED
        BY <4>1, <4>3, <4>4
    <3> QED
      BY <3>1, <3>2
  <2>3. q = [i \in 0..m |-> IF i = 0 THEN 0 ELSE q[i - 1] + a[i]]
    <3>1. DOMAIN q = 0..m /\ q = [i \in 0..m |-> q[i]]
      OBVIOUS
    <3> HIDE DEF q
    <3> QED
      BY <3>1, <2>2
  <2> QED
    BY <2>3
<1>3. \A m \in 0..n : m \in T
  <2>1. 0 \in T
    BY <1>1
  <2>2. \A i \in 1..n : i - 1 \in T => i \in T
    <3> HIDE DEF Has
    <3> QED
      BY <1>2
  <2> HIDE DEF T
  <2> QED
    BY <2>1, <2>2, RangeInduction
<1>4. Has(n)
  <2> HIDE DEF Has
  <2> QED
    BY <1>3
<1> QED
  BY <1>4

\* The defining equation of the prefix sums.
LEMMA PrefixDef ==
  ASSUME NEW n \in Nat, NEW a
  PROVE  /\ DOMAIN Prefix(a, n) = 0..n
         /\ Prefix(a, n)[0] = 0
         /\ \A i \in 1..n : Prefix(a, n)[i] = Prefix(a, n)[i - 1] + a[i]
<1> DEFINE p == Prefix(a, n)
<1>1. p = [i \in 0..n |-> IF i = 0 THEN 0 ELSE p[i - 1] + a[i]]
  BY PrefixExists DEF Prefix
<1> HIDE DEF p
<1>2. DOMAIN p = 0..n /\ \A i \in 0..n : p[i] = IF i = 0 THEN 0 ELSE p[i - 1] + a[i]
  BY <1>1
<1>3. p[0] = 0 /\ \A i \in 1..n : p[i] = p[i - 1] + a[i]
  BY <1>2
<1> QED
  BY <1>2, <1>3 DEF p

\* Partial sums of natural numbers are natural numbers.
LEMMA PrefixType ==
  ASSUME NEW n \in Nat, NEW a \in [1..n -> Nat]
  PROVE  /\ \A i \in 0..n : Prefix(a, n)[i] \in Nat
         /\ Total(a, n) \in Nat
<1> DEFINE T == {i \in 0..n : Prefix(a, n)[i] \in Nat}
<1>1. 0 \in T
  BY PrefixDef
<1>2. \A i \in 1..n : i - 1 \in T => i \in T
  <2> SUFFICES ASSUME NEW i \in 1..n, i - 1 \in T
               PROVE  Prefix(a, n)[i] \in Nat
    OBVIOUS
  <2>1. Prefix(a, n)[i] = Prefix(a, n)[i - 1] + a[i] /\ a[i] \in Nat
    BY PrefixDef
  <2> QED
    BY <2>1
<1>3. \A i \in 0..n : i \in T
  <2> HIDE DEF T
  <2> QED
    BY <1>1, <1>2, RangeInduction
<1> QED
  BY <1>3 DEF Total

\* The same for integers, which differences of rows are.
LEMMA PrefixInt ==
  ASSUME NEW n \in Nat, NEW a, \A i \in 1..n : a[i] \in Int
  PROVE  /\ \A i \in 0..n : Prefix(a, n)[i] \in Int
         /\ Total(a, n) \in Int
<1> DEFINE T == {i \in 0..n : Prefix(a, n)[i] \in Int}
<1>1. 0 \in T
  BY PrefixDef
<1>2. \A i \in 1..n : i - 1 \in T => i \in T
  BY PrefixDef
<1>3. \A i \in 0..n : i \in T
  <2> HIDE DEF T
  <2> QED
    BY <1>1, <1>2, RangeInduction
<1> QED
  BY <1>3 DEF Total

\* Rows added cell by cell add up.
LEMMA TotalPlus ==
  ASSUME NEW n \in Nat, NEW a, NEW b, NEW c,
         \A i \in 1..n : a[i] \in Int /\ b[i] \in Int /\ c[i] = a[i] + b[i]
  PROVE  Total(c, n) = Total(a, n) + Total(b, n)
<1> DEFINE T == {i \in 0..n : Prefix(c, n)[i] = Prefix(a, n)[i] + Prefix(b, n)[i]}
<1>1. 0 \in T
  BY PrefixDef
<1>2. \A i \in 1..n : i - 1 \in T => i \in T
  <2> SUFFICES ASSUME NEW i \in 1..n, i - 1 \in T
               PROVE  Prefix(c, n)[i] = Prefix(a, n)[i] + Prefix(b, n)[i]
    OBVIOUS
  <2>1. /\ Prefix(a, n)[i] = Prefix(a, n)[i - 1] + a[i]
        /\ Prefix(b, n)[i] = Prefix(b, n)[i - 1] + b[i]
        /\ Prefix(c, n)[i] = Prefix(c, n)[i - 1] + c[i]
    BY PrefixDef
  <2>2. Prefix(a, n)[i - 1] \in Int /\ Prefix(b, n)[i - 1] \in Int
    <3>1. i - 1 \in 0..n
      OBVIOUS
    <3> QED
      BY <3>1, PrefixInt
  <2> QED
    BY <2>1, <2>2
<1>3. \A i \in 0..n : i \in T
  <2> HIDE DEF T
  <2> QED
    BY <1>1, <1>2, RangeInduction
<1> QED
  BY <1>3 DEF Total

\* Writing one row changes the sum by what the row changed by.
LEMMA TotalChange ==
  ASSUME NEW n \in Nat, NEW a, NEW b, NEW r \in 1..n,
         \A i \in 1..n : a[i] \in Int /\ b[i] \in Int,
         \A i \in 1..n : i # r => b[i] = a[i]
  PROVE  Total(b, n) = Total(a, n) + b[r] - a[r]
<1> DEFINE T == {i \in 0..n : Prefix(b, n)[i] =
                  Prefix(a, n)[i] + (IF i < r THEN 0 ELSE b[r] - a[r])}
<1>1. 0 \in T
  BY PrefixDef
<1>2. \A i \in 1..n : i - 1 \in T => i \in T
  <2> SUFFICES ASSUME NEW i \in 1..n, i - 1 \in T
               PROVE  Prefix(b, n)[i] =
                        Prefix(a, n)[i] + (IF i < r THEN 0 ELSE b[r] - a[r])
    OBVIOUS
  <2>1. /\ Prefix(a, n)[i] = Prefix(a, n)[i - 1] + a[i]
        /\ Prefix(b, n)[i] = Prefix(b, n)[i - 1] + b[i]
    BY PrefixDef
  <2>2. Prefix(a, n)[i - 1] \in Int
    <3>1. i - 1 \in 0..n
      OBVIOUS
    <3> QED
      BY <3>1, PrefixInt
  <2>3. CASE i = r
    BY <2>1, <2>2, <2>3
  <2>4. CASE i # r
    BY <2>1, <2>2, <2>4
  <2> QED
    BY <2>3, <2>4
<1>3. \A i \in 0..n : i \in T
  <2> HIDE DEF T
  <2> QED
    BY <1>1, <1>2, RangeInduction
<1>4. n \in T
  BY <1>3
<1>5. a[r] \in Int /\ b[r] \in Int /\ Total(a, n) \in Int
  BY PrefixInt
<1> QED
  BY <1>4, <1>5 DEF Total

\* A sum depends on the rows only.
LEMMA TotalCong ==
  ASSUME NEW n \in Nat, NEW a, NEW b,
         \A i \in 1..n : a[i] \in Int, \A i \in 1..n : b[i] = a[i]
  PROVE  Total(b, n) = Total(a, n)
<1> DEFINE T == {i \in 0..n : Prefix(b, n)[i] = Prefix(a, n)[i]}
<1>1. 0 \in T
  BY PrefixDef
<1>2. \A i \in 1..n : i - 1 \in T => i \in T
  BY PrefixDef
<1>3. \A i \in 0..n : i \in T
  <2> HIDE DEF T
  <2> QED
    BY <1>1, <1>2, RangeInduction
<1> QED
  BY <1>3 DEF Total

\* No rows written: nothing in the sum.
LEMMA TotalZero ==
  ASSUME NEW n \in Nat, NEW a, \A i \in 1..n : a[i] = 0
  PROVE  Total(a, n) = 0
<1> DEFINE T == {i \in 0..n : Prefix(a, n)[i] = 0}
<1>1. 0 \in T
  BY PrefixDef
<1>2. \A i \in 1..n : i - 1 \in T => i \in T
  BY PrefixDef
<1>3. \A i \in 0..n : i \in T
  <2> HIDE DEF T
  <2> QED
    BY <1>1, <1>2, RangeInduction
<1> QED
  BY <1>3 DEF Total

\* Partial sums of naturals grow along the list.
LEMMA PrefixMonotone ==
  ASSUME NEW n \in Nat, NEW a \in [1..n -> Nat], NEW j \in 0..n
  PROVE  \A i \in j..n : Prefix(a, n)[j] <= Prefix(a, n)[i]
<1> DEFINE T == {i \in 0..n : j <= i => Prefix(a, n)[j] <= Prefix(a, n)[i]}
<1>1. 0 \in T
  BY PrefixType
<1>2. \A i \in 1..n : i - 1 \in T => i \in T
  <2> SUFFICES ASSUME NEW i \in 1..n, i - 1 \in T, j <= i
               PROVE  Prefix(a, n)[j] <= Prefix(a, n)[i]
    OBVIOUS
  <2>1. Prefix(a, n)[i] = Prefix(a, n)[i - 1] + a[i] /\ a[i] \in Nat
    BY PrefixDef
  <2>2. i - 1 \in 0..n
    OBVIOUS
  <2>3. /\ Prefix(a, n)[i - 1] \in Nat
        /\ Prefix(a, n)[i] \in Nat
        /\ Prefix(a, n)[j] \in Nat
    BY <2>2, PrefixType
  <2>4. CASE j = i
    BY <2>4, <2>3
  <2>5. CASE j <= i - 1
    BY <2>1, <2>3, <2>5
  <2> QED
    BY <2>4, <2>5
<1>3. \A i \in 0..n : i \in T
  <2> HIDE DEF T
  <2> QED
    BY <1>1, <1>2, RangeInduction
<1> QED
  BY <1>3

\* What the FIFO walk over the grants takes: no more than each grant has, and
\* in all the amount asked for or everything there is.
THEOREM TakeFromFrontTotal ==
  ASSUME NEW n \in Nat, NEW a \in [1..n -> Nat], NEW need \in Nat
  PROVE  /\ TakeFromFront(a, n, need) \in [1..n -> Nat]
         /\ \A i \in 1..n : TakeFromFront(a, n, need)[i] <= a[i]
         /\ Total(TakeFromFront(a, n, need), n) = Least(need, Total(a, n))
<1> DEFINE p == Prefix(a, n)
           t == TakeFromFront(a, n, need)
<1>1. \A i \in 0..n : p[i] \in Nat
  BY PrefixType
<1>2. t = [i \in 1..n |-> Least(a[i], Monus(need, p[i - 1]))]
  BY DEF TakeFromFront
<1> HIDE DEF p, t
<1>3. \A i \in 1..n : t[i] \in Nat /\ t[i] <= a[i]
  BY <1>1, <1>2 DEF Least, Monus
<1>4. t \in [1..n -> Nat]
  BY <1>2, <1>3
<1> DEFINE T == {i \in 0..n : Prefix(t, n)[i] = Least(need, p[i])}
<1>5. 0 \in T
  BY PrefixDef DEF p, Least
<1>6. \A i \in 1..n : i - 1 \in T => i \in T
  <2> SUFFICES ASSUME NEW i \in 1..n, i - 1 \in T
               PROVE  Prefix(t, n)[i] = Least(need, p[i])
    OBVIOUS
  <2>1. /\ Prefix(t, n)[i] = Least(need, p[i - 1]) + t[i]
        /\ p[i] = p[i - 1] + a[i]
    BY PrefixDef DEF p
  <2>2. p[i - 1] \in Nat /\ a[i] \in Nat
    BY <1>1
  <2>3. t[i] = Least(a[i], Monus(need, p[i - 1]))
    BY <1>2
  <2> QED
    BY <2>1, <2>2, <2>3 DEF Least, Monus
<1>7. \A i \in 0..n : i \in T
  <2> HIDE DEF T
  <2> QED
    BY <1>5, <1>6, RangeInduction
<1>8. Total(t, n) = Least(need, Total(a, n))
  BY <1>7 DEF Total, p
<1> QED
  BY <1>3, <1>4, <1>8 DEF t

\* The walk is in order: when it takes from a grant, it has emptied the older
\* ones.
LEMMA TakeFromFrontOrder ==
  ASSUME NEW n \in Nat, NEW a \in [1..n -> Nat], NEW need \in Nat,
         NEW g \in 1..n, TakeFromFront(a, n, need)[g] > 0, NEW h \in 1..(g - 1)
  PROVE  TakeFromFront(a, n, need)[h] = a[h]
<1> DEFINE p == Prefix(a, n)
           t == TakeFromFront(a, n, need)
<1>1. /\ t[g] = Least(a[g], Monus(need, p[g - 1]))
      /\ t[h] = Least(a[h], Monus(need, p[h - 1]))
  BY DEF TakeFromFront
<1>2. h \in 1..n /\ h \in 0..n /\ h - 1 \in 0..n /\ g - 1 \in h..n /\ g - 1 \in 0..n
  OBVIOUS
<1>3. p[h] = p[h - 1] + a[h]
  BY <1>2, PrefixDef
<1>4. p[h] <= p[g - 1]
  BY <1>2, PrefixMonotone
<1>5. /\ p[h] \in Nat /\ p[h - 1] \in Nat /\ p[g - 1] \in Nat
      /\ a[h] \in Nat /\ a[g] \in Nat
  BY <1>2, PrefixType
<1>6. t[g] > 0
  OBVIOUS
<1> HIDE DEF p, t
<1>7. need > p[g - 1]
  BY <1>1, <1>5, <1>6 DEF Least, Monus
<1>8. t[h] = a[h]
  BY <1>1, <1>3, <1>4, <1>5, <1>7 DEF Least, Monus
<1> QED
  BY <1>8 DEF t

\* What the refund walk gives back: no more than each allocation holds, and in
\* all the amount to return or everything held.
THEOREM GiveFromTailTotal ==
  ASSUME NEW n \in Nat, NEW a \in [1..n -> Nat], NEW amt \in Nat
  PROVE  /\ GiveFromTail(a, n, amt) \in [1..n -> Nat]
         /\ \A i \in 1..n : GiveFromTail(a, n, amt)[i] <= a[i]
         /\ Total(GiveFromTail(a, n, amt), n) = Least(amt, Total(a, n))
<1> DEFINE p == Prefix(a, n)
           g == GiveFromTail(a, n, amt)
<1>1. \A i \in 0..n : p[i] \in Nat /\ p[n] \in Nat
  BY PrefixType
<1>2. g = [i \in 1..n |-> Least(a[i], Monus(amt, p[n] - p[i]))]
  BY DEF GiveFromTail
<1>3. \A i \in 0..n : p[i] <= p[n]
  BY PrefixMonotone
<1> HIDE DEF p, g
<1>4. \A i \in 1..n : g[i] \in Nat /\ g[i] <= a[i]
  <2> SUFFICES ASSUME NEW i \in 1..n
               PROVE  g[i] \in Nat /\ g[i] <= a[i]
    OBVIOUS
  <2>1. p[i] \in Nat /\ p[n] \in Nat /\ p[i] <= p[n] /\ a[i] \in Nat
    BY <1>1, <1>3
  <2> QED
    BY <1>2, <2>1 DEF Least, Monus
<1>5. g \in [1..n -> Nat]
  BY <1>2, <1>4
<1> DEFINE T == {i \in 0..n : Prefix(g, n)[i] =
                                Least(amt, p[n]) - Least(amt, p[n] - p[i])}
<1>6. 0 \in T
  BY <1>1, PrefixDef DEF p, Least
<1>7. \A i \in 1..n : i - 1 \in T => i \in T
  <2> SUFFICES ASSUME NEW i \in 1..n, i - 1 \in T
               PROVE  Prefix(g, n)[i] = Least(amt, p[n]) - Least(amt, p[n] - p[i])
    OBVIOUS
  <2>1. /\ Prefix(g, n)[i] = Prefix(g, n)[i - 1] + g[i]
        /\ p[i] = p[i - 1] + a[i]
    BY PrefixDef DEF p
  <2>2. p[i - 1] \in Nat /\ p[i] \in Nat /\ a[i] \in Nat /\ p[n] \in Nat
    BY <1>1
  <2>3. g[i] = Least(a[i], Monus(amt, p[n] - p[i]))
    BY <1>2
  <2>4. p[i] <= p[n]
    BY <1>3
  <2>5. Prefix(g, n)[i - 1] = Least(amt, p[n]) - Least(amt, p[n] - p[i - 1])
    OBVIOUS
  <2> HIDE DEF T
  <2> DEFINE q == p[n] - p[i]
  <2>6. q \in Nat /\ p[n] - p[i - 1] = q + a[i]
    BY <2>1, <2>2, <2>4
  <2> HIDE DEF q
  <2>7. Least(amt, q + a[i]) = Least(amt, q) + Least(a[i], Monus(amt, q))
    BY <2>2, <2>6 DEF Least, Monus
  <2>8. Least(amt, q) \in Nat /\ g[i] \in Nat /\ Least(amt, p[n]) \in Nat
    BY <1>4, <2>2, <2>6 DEF Least
  <2>9. g[i] = Least(a[i], Monus(amt, q))
    BY <2>3 DEF q
  <2>10. Prefix(g, n)[i] = Least(amt, p[n]) - Least(amt, q)
    BY <2>1, <2>5, <2>6, <2>7, <2>8, <2>9
  <2> QED
    BY <2>10 DEF q
<1>8. \A i \in 0..n : i \in T
  <2> HIDE DEF T
  <2> QED
    BY <1>6, <1>7, RangeInduction
<1>9. Total(g, n) = Least(amt, Total(a, n))
  <2>1. Prefix(g, n)[n] = Least(amt, p[n]) - Least(amt, p[n] - p[n])
    BY <1>8
  <2>2. Least(amt, p[n] - p[n]) = 0 /\ Least(amt, p[n]) \in Nat
    BY <1>1 DEF Least
  <2> QED
    BY <2>1, <2>2 DEF Total, p
<1> QED
  BY <1>4, <1>5, <1>9 DEF g
=============================================================================
