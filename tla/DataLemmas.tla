----------------------------- MODULE DataLemmas -----------------------------
(***************************************************************************)
(* Lemmas on data that the proofs of several components cite: induction    *)
(* over the naturals stated with sets, the existence of functions defined  *)
(* by recursion, products and quotients of naturals, and sums of           *)
(* sequences.                                                              *)
(***************************************************************************)
EXTENDS Integers, Sequences, SequencesExt, TLAPS, WellFoundedInduction, FiniteSetTheorems,
        SequenceTheorems

\* A set of naturals has a least element.
LEMMA LeastNumber ==
  ASSUME NEW T, T \subseteq Nat, T # {}
  PROVE  \E x \in T : \A y \in T : x <= y
<1>1. PICK R : R = OpToRel(<, Nat)
      OBVIOUS
<1>2. IsWellFoundedOn(R, Nat)
      BY <1>1, NatLessThanWellFounded
<1>3. PICK x \in T : \A y \in T : ~ (<<y, x>> \in R)
      BY <1>2, WFMin
<1>4. \A a, b \in Nat : a < b => <<a, b>> \in R
      BY <1>1 DEF OpToRel
<1>5. \A y \in T : ~ (y < x)
  <2> SUFFICES ASSUME NEW y \in T, y < x PROVE FALSE
      OBVIOUS
  <2>1. <<y, x>> \in R
        BY <1>4
  <2>2. QED
        BY <1>3, <2>1
<1>6. QED
      BY ONLY <1>5, T \subseteq Nat, x \in T

\* A set that holds 0 and the successors of its members holds every number.
LEMMA Induction ==
  ASSUME NEW S, 0 \in S, \A n \in Nat : n \in S => n + 1 \in S
  PROVE  \A n \in Nat : n \in S
<1> DEFINE T == Nat \ S
<1> SUFFICES ASSUME T # {} PROVE FALSE
    OBVIOUS
<1>1. T \subseteq Nat /\ \A y \in Nat : y \in T <=> y \notin S
      OBVIOUS
<1> HIDE DEF T
<1>2. PICK x \in T : \A y \in T : x <= y
      BY <1>1, LeastNumber
<1>3. x \in Nat /\ x # 0
      BY <1>1
<1>4. x - 1 \in Nat /\ x - 1 \notin T
      BY <1>2, <1>3
<1>5. x - 1 \in S /\ x - 1 + 1 = x
      BY <1>1, <1>3, <1>4
<1>6. QED
      BY <1>1, <1>3, <1>4, <1>5

\* The value step gives at x depends on values at elements of lower rank only.
FromLower(X, V, rank, step) ==
  \A x \in X : \A g, h \in [X -> V] :
    (\A y \in X : rank[y] < rank[x] => g[y] = h[y]) => step[x][g] = step[x][h]

\* f is defined by recursion with step.
Solves(f, X, step) == \A x \in X : f[x] = step[x][f]

\* A function on X is defined by giving its value at x in terms of its values at the
\* elements of lower rank.
LEMMA Recursion ==
  ASSUME NEW X, NEW N \in Nat, NEW rank \in [X -> 0 .. N],
         NEW V, NEW v \in V, NEW step \in [X -> [[X -> V] -> V]],
         FromLower(X, V, rank, step)
  PROVE  \E f \in [X -> V] : Solves(f, X, step)
<1> DEFINE Solved(k, g) == \A x \in X : rank[x] < k => g[x] = step[x][g]
           S == {k \in Nat : \E g \in [X -> V] : Solved(k, g)}
<1>1. 0 \in S
  <2>1. [x \in X |-> v] \in [X -> V]
        OBVIOUS
  <2>2. Solved(0, [x \in X |-> v])
        OBVIOUS
  <2>3. QED
        BY <2>1, <2>2
<1>2. ASSUME NEW k \in Nat, k \in S
      PROVE  k + 1 \in S
  <2>1. PICK g \in [X -> V] : Solved(k, g)
        BY <1>2
  <2> DEFINE h == [x \in X |-> IF rank[x] = k THEN step[x][g] ELSE g[x]]
  <2>2. h \in [X -> V]
        OBVIOUS
  <2>3. \A x \in X : rank[x] < k => h[x] = g[x]
        OBVIOUS
  <2>4. \A x \in X : rank[x] = k => h[x] = step[x][g]
        OBVIOUS
  <2> HIDE DEF h
  <2>5. ASSUME NEW x \in X, rank[x] < k + 1
        PROVE  h[x] = step[x][h]
    <3>1. \A y \in X : rank[y] < rank[x] => g[y] = h[y]
          BY <2>3, <2>5
    <3>2. step[x][g] = step[x][h]
          BY <2>2, <3>1 DEF FromLower
    <3>3. CASE rank[x] = k
          BY <2>4, <3>2, <3>3
    <3>4. CASE rank[x] < k
          BY <2>1, <2>3, <3>2, <3>4
    <3>5. rank[x] = k \/ rank[x] < k
      <4>1. rank[x] \in Nat
            OBVIOUS
      <4>2. \A m \in Nat : m < k + 1 => m = k \/ m < k
            OBVIOUS
      <4>3. QED
            BY <2>5, <4>1, <4>2
    <3>6. QED
          BY <3>3, <3>4, <3>5
  <2>6. Solved(k + 1, h)
        BY <2>5
  <2>7. QED
        BY <2>2, <2>6
<1> HIDE DEF S
<1>3. N + 1 \in S
      BY <1>1, <1>2, Induction
<1>4. PICK g \in [X -> V] : Solved(N + 1, g)
      BY <1>3 DEF S
<1>5. QED
      BY <1>4 DEF Solves
-----------------------------------------------------------------------------
(* Products and quotients.                                                  *)

\* Division with a remainder.
LEMMA Quotients ==
  ASSUME NEW x \in Nat, NEW d \in Nat \ {0}
  PROVE  /\ x \div d \in Nat /\ x % d \in 0 .. d - 1
         /\ x = d * (x \div d) + (x % d)
  OBVIOUS

\* Multiplication keeps the order.
LEMMA Products ==
  ASSUME NEW a \in Nat, NEW b \in Nat, NEW c \in Nat, a <= b
  PROVE  c * a <= c * b
  OBVIOUS

\* A product is no larger than another one with a smaller second factor only if
\* its own second factor is.
LEMMA ProductSmaller ==
  ASSUME NEW a \in Nat, NEW b \in Nat, NEW d \in Nat, NEW r \in Nat, d * a <= r * b, b < d
  PROVE  a <= r
<1> SUFFICES ASSUME a >= r + 1 PROVE FALSE
    OBVIOUS
<1>1. d * (r + 1) <= d * a
      BY Products
<1>2. r * b <= r * d 
      BY Products
<1>3. d * (r + 1) = r * d + d
      OBVIOUS
<1>4. QED
      BY <1>1, <1>2, <1>3

\* Numbers less than a modulus apart have quotients that are equal or one apart.
LEMMA NearQuotients ==
  ASSUME NEW a \in Nat, NEW b \in Nat, NEW m \in Nat \ {0}, b <= a, a - b < m
  PROVE  a \div m = b \div m \/ a \div m = b \div m + 1
<1> DEFINE x == a \div m
           y == b \div m
<1>1. x \in Nat /\ y \in Nat
      BY Quotients
<1>2. a % m \in 0 .. m - 1 /\ a = m * x + (a % m)
      BY Quotients
<1>3. b % m \in 0 .. m - 1 /\ b = m * y + (b % m)
      BY Quotients
<1> DEFINE r == a % m
           t == b % m
<1>4. r \in 0 .. m - 1 /\ a = m * x + r /\ t \in 0 .. m - 1 /\ b = m * y + t
      BY <1>2, <1>3
<1> HIDE DEF x, y, r, t
<1>5. ~ (x < y)
  <2> SUFFICES ASSUME x < y PROVE FALSE
      OBVIOUS
  <2>1. m * (x + 1) <= m * y
        BY <1>1, Products
  <2>2. m * (x + 1) = m * x + m
        BY <1>1
  <2>3. QED
        BY <1>1, <1>4, <2>1, <2>2
<1>6. ~ (x > y + 1)
  <2> SUFFICES ASSUME x > y + 1 PROVE FALSE
      OBVIOUS
  <2>1. m * (y + 2) <= m * x
        BY <1>1, Products
  <2>2. m * (y + 2) = m * y + m + m
        BY <1>1
  <2>3. QED
        BY <1>1, <1>4, <2>1, <2>2
<1>7. x = y \/ x = y + 1
      BY <1>1, <1>5, <1>6
<1>8. QED
      BY <1>7 DEF x, y

\* The remainder of a number up to the modulus and of one as much below 0.
LEMMA SmallRemainders ==
  ASSUME NEW d \in Nat, NEW m \in Nat \ {0}, d < m
  PROVE  d % m = d /\ (d - m) % m = d
  OBVIOUS

\* How far a is ahead of b shows in their remainders.
LEMMA RemainderAhead ==
  ASSUME NEW a \in Nat, NEW b \in Nat, NEW m \in Nat \ {0}, b <= a, a - b < m
  PROVE  ((a % m) - (b % m)) % m = a - b
<1> DEFINE r == a % m
           t == b % m
<1>1. a \div m \in Nat /\ b \div m \in Nat
      BY Quotients
<1>2. r \in 0 .. m - 1 /\ a = m * (a \div m) + r
      BY Quotients
<1>3. t \in 0 .. m - 1 /\ b = m * (b \div m) + t
      BY Quotients
<1> HIDE DEF r, t
<1>4. CASE a \div m = b \div m
  <2>1. r - t = a - b
        BY <1>1, <1>2, <1>3, <1>4
  <2>2. QED
        BY <2>1, SmallRemainders DEF r, t
<1>5. CASE a \div m = b \div m + 1
  <2>1. m * (b \div m + 1) = m * (b \div m) + m
        BY <1>1
  <2>2. r - t = (a - b) - m
        BY <1>1, <1>2, <1>3, <1>5, <2>1
  <2>3. QED
        BY <2>2, SmallRemainders DEF r, t
<1>6. QED
      BY <1>4, <1>5, NearQuotients

\* So does how far it is behind.
LEMMA RemainderBehind ==
  ASSUME NEW a \in Nat, NEW b \in Nat, NEW m \in Nat \ {0}, a < b, b - a < m
  PROVE  ((a % m) - (b % m)) % m = m - (b - a)
<1> DEFINE r == a % m
           t == b % m
<1>1. a \div m \in Nat /\ b \div m \in Nat
      BY Quotients
<1>2. r \in 0 .. m - 1 /\ a = m * (a \div m) + r
      BY Quotients
<1>3. t \in 0 .. m - 1 /\ b = m * (b \div m) + t
      BY Quotients
<1> HIDE DEF r, t
<1>4. CASE b \div m = a \div m
  <2> DEFINE d == m - (b - a)
  <2>1. r - t = d - m
        BY <1>1, <1>2, <1>3, <1>4
  <2>2. d \in Nat /\ d < m
        OBVIOUS
  <2> HIDE DEF d
  <2>3. (r - t) % m = d
        BY <2>1, <2>2, SmallRemainders
  <2>4. QED
        BY <2>3 DEF r, t, d
<1>5. CASE b \div m = a \div m + 1
  <2>1. m * (a \div m + 1) = m * (a \div m) + m
        BY <1>1
  <2>2. r - t = m - (b - a)
        BY <1>1, <1>2, <1>3, <1>5, <2>1
  <2>3. QED
        BY <2>2, SmallRemainders DEF r, t
<1>6. b \div m = a \div m \/ b \div m = a \div m + 1
  <2>1. a <= b
        OBVIOUS
  <2>2. QED
        BY ONLY <2>1, a \in Nat, b \in Nat, m \in Nat \ {0}, b - a < m, NearQuotients
<1>7. QED
      BY <1>4, <1>5, <1>6

\* A number and the one a modulus below have the same remainder.
LEMMA RemainderBelow ==
  ASSUME NEW x \in Nat, NEW m \in Nat \ {0}, m <= x
  PROVE  (x - m) % m = x % m
<1> DEFINE r == x % m
           t == (x - m) % m
           y == (x - m) \div m
           z == x \div m
<1>1. z \in Nat /\ r \in 0 .. m - 1 /\ x = m * z + r
      BY Quotients
<1>2. x - m \in Nat
      OBVIOUS
<1>3. y \in Nat /\ t \in 0 .. m - 1 /\ x - m = m * y + t
      BY <1>2, Quotients
<1> HIDE DEF r, t, y, z
<1>4. m * (y + 1) = m * y + m
      BY <1>3
<1>5. CASE y + 1 < z
  <2>1. m * (y + 2) <= m * z /\ m * (y + 2) = m * y + m + m
        BY <1>1, <1>3, <1>5, Products
  <2>2. QED
        BY <1>1, <1>3, <2>1
<1>6. CASE y + 1 > z
  <2>1. m * z <= m * y
        BY <1>1, <1>3, <1>6, Products
  <2>2. QED
        BY <1>1, <1>3, <2>1
<1>7. y + 1 = z
      BY <1>1, <1>3, <1>5, <1>6
<1>8. r = t
      BY <1>1, <1>3, <1>4, <1>7
<1>9. QED
      BY <1>8 DEF r, t

-----------------------------------------------------------------------------
(* Sequences.                                                               *)

\* Sequences are equal when their lengths and elements are.
LEMMA SameSequence ==
  ASSUME NEW S, NEW s \in Seq(S), NEW t \in Seq(S), Len(s) = Len(t),
         \A i \in 1 .. Len(s) : s[i] = t[i]
  PROVE  s = t
  OBVIOUS

\* w is x and then y.
Joined(w, x, y) ==
  /\ w \in Seq(Nat) /\ Len(w) = Len(x) + Len(y)
  /\ \A i \in 1 .. Len(x) : w[i] = x[i]
  /\ \A i \in 1 .. Len(y) : w[Len(x) + i] = y[i]

\* The elements of one sequence after another.
LEMMA TwoParts ==
  ASSUME NEW s1 \in Seq(Nat), NEW s2 \in Seq(Nat)
  PROVE  Joined(s1 \o s2, s1, s2)
<1> DEFINE m == Len(s1)
           n == Len(s2)
<1>1. m \in Nat /\ n \in Nat
      OBVIOUS
<1>2. s1 \o s2 \in Seq(Nat) /\ Len(s1 \o s2) = Len(s1) + Len(s2)
      BY ConcatProperties
<1>3. \A i \in 1 .. m + n : (s1 \o s2)[i] = IF i <= m THEN s1[i] ELSE s2[i - m]
      BY ConcatProperties
<1> HIDE DEF m, n
<1>4. ASSUME NEW i \in 1 .. m PROVE (s1 \o s2)[i] = s1[i]
  <2>1. i \in 1 .. m + n /\ i <= m
        BY <1>1
  <2>2. QED
        BY <1>3, <2>1
<1>5. ASSUME NEW i \in 1 .. n PROVE (s1 \o s2)[m + i] = s2[i]
  <2> DEFINE j == m + i
  <2>1. j \in 1 .. m + n /\ ~ (j <= m) /\ j - m = i
        BY <1>1
  <2> HIDE DEF j
  <2>2. (s1 \o s2)[j] = s2[j - m]
        BY <1>3, <2>1
  <2>3. (s1 \o s2)[j] = s2[i]
        BY <2>1, <2>2
  <2>4. QED
        BY <2>3 DEF j
<1>6. QED
      BY <1>2, <1>4, <1>5, Zenon DEF m, n, Joined

\* Three sequences one after the other.
LEMMA FlattenThree ==
  ASSUME NEW S, NEW s \in Seq(Seq(S)), Len(s) = 3
  PROVE  FlattenSeq(s) = (s[1] \o s[2]) \o s[3]
<1> DEFINE X == 1 .. Len(s)
           value(i, g) == IF i = 1 THEN s[i] ELSE g[i - 1] \o s[i]
           iter == CHOOSE f : f = [i \in X |-> value(i, f)]
           rank == [i \in X |-> i]
           step == [i \in X |-> [g \in [X -> Seq(S)] |-> value(i, g)]]
<1>1. /\ rank \in [X -> 0 .. 3] /\ <<>> \in Seq(S) /\ 3 \in Nat
      /\ \A i \in X : s[i] \in Seq(S)
      OBVIOUS
<1>2. \A i \in X : i # 1 => i - 1 \in X /\ rank[i - 1] < rank[i]
      OBVIOUS
<1>3. step \in [X -> [[X -> Seq(S)] -> Seq(S)]]
      BY <1>1, <1>2
<1>4. FromLower(X, Seq(S), rank, step)
  <2> SUFFICES ASSUME NEW i \in X, NEW g \in [X -> Seq(S)], NEW h \in [X -> Seq(S)],
                      \A j \in X : rank[j] < rank[i] => g[j] = h[j]
               PROVE  value(i, g) = value(i, h)
      BY DEF FromLower
  <2>1. i # 1 => g[i - 1] = h[i - 1]
        BY <1>2
  <2>2. QED
        BY <2>1
<1>5. PICK f \in [X -> Seq(S)] : Solves(f, X, step)
  <2> HIDE DEF rank, step, X
  <2>1. QED
        BY <1>1, <1>3, <1>4, Recursion
<1>6. f = [i \in X |-> value(i, f)]
  <2>1. \A i \in X : f[i] = value(i, f)
        BY <1>5 DEF Solves
  <2> HIDE DEF value
  <2>2. QED
        BY <2>1
<1>7. iter = [i \in X |-> value(i, iter)]
      BY <1>6
<1>8. FlattenSeq(s) = iter[3]
  <2>1. Len(s) # 0
        OBVIOUS
  <2>2. FlattenSeq(s) = iter[Len(s)]
        BY <2>1, Zenon DEF FlattenSeq
  <2>3. QED
        BY <2>2
<1> HIDE DEF iter
<1>9. iter[1] = s[1] /\ iter[2] = iter[1] \o s[2] /\ iter[3] = iter[2] \o s[3]
  <2>1. 1 \in X /\ 2 \in X /\ 3 \in X /\ 2 - 1 = 1 /\ 3 - 1 = 2
        OBVIOUS
  <2> HIDE DEF X
  <2>2. \A i \in X : iter[i] = value(i, iter)
        BY <1>7
  <2>3. iter[1] = s[1]
        BY <2>1, <2>2
  <2>4. \A i \in X : i # 1 => iter[i] = iter[i - 1] \o s[i]
        BY <2>2
  <2>5. iter[2] = iter[1] \o s[2]
    <3>1. iter[2] = iter[2 - 1] \o s[2]
          BY ONLY <2>1, <2>4, 2 # 1
    <3>2. QED
          BY <2>1, <3>1
  <2>6. iter[3] = iter[2] \o s[3]
    <3>1. iter[3] = iter[3 - 1] \o s[3]
          BY ONLY <2>1, <2>4, 3 # 1
    <3>2. QED
          BY <2>1, <3>1
  <2>7. QED
        BY <2>3, <2>5, <2>6
<1>10. QED
       BY <1>8, <1>9

\* An element taken out of a sequence shortens it by one.
LEMMA RemoveAtLen ==
  ASSUME NEW S, NEW s \in Seq(S), NEW i \in 1 .. Len(s)
  PROVE  RemoveAt(s, i) \in Seq(S) /\ Len(RemoveAt(s, i)) = Len(s) - 1
<1> DEFINE a == SubSeq(s, 1, i - 1)
           b == SubSeq(s, i + 1, Len(s))
<1>1. a \in Seq(S) /\ Len(a) = i - 1
      OBVIOUS
<1>2. b \in Seq(S) /\ Len(b) = Len(s) - i
      OBVIOUS
<1> HIDE DEF a, b
<1>3. a \o b \in Seq(S) /\ Len(a \o b) = Len(a) + Len(b)
      BY <1>1, <1>2, ConcatProperties
<1>4. RemoveAt(s, i) = a \o b
      BY DEF RemoveAt, a, b
<1>5. Len(s) \in Nat /\ (i - 1) + (Len(s) - i) = Len(s) - 1
      OBVIOUS
<1>6. QED
      BY <1>1, <1>2, <1>3, <1>4, <1>5

-----------------------------------------------------------------------------
(* Folds.                                                                   *)

\* A non-empty set of numbers up to n has a largest element, which is its Max.
LEMMA MaxOfSubset ==
  ASSUME NEW n \in Nat, NEW s \in SUBSET (1 .. n), s # {}
  PROVE  Max(s) \in s /\ \A x \in s : x <= Max(s)
<1> DEFINE T == {k \in Nat : n - k \in s}
<1>1. \A x \in s : x \in Nat /\ n - x \in Nat /\ n - (n - x) = x
      OBVIOUS
<1>2. \A x \in s : n - x \in T
      BY <1>1
<1>3. T \subseteq Nat /\ T # {}
      BY <1>2
<1>4. \A k \in T : k \in Nat /\ n - k \in s
      OBVIOUS
<1> HIDE DEF T
<1>5. PICK t \in T : \A u \in T : t <= u
      BY <1>3, LeastNumber
<1>6. \A y \in s : n - t >= y
  <2> SUFFICES ASSUME NEW y \in s PROVE n - t >= y
      OBVIOUS
  <2>1. t <= n - y /\ y \in Nat
        BY <1>1, <1>2, <1>5
  <2>2. t \in Nat
        BY <1>4
  <2>3. QED
        BY ONLY <2>1, <2>2, n \in Nat
<1>7. Max(s) \in s /\ \A y \in s : Max(s) >= y
      BY <1>4, <1>6 DEF Max
<1>8. QED
  <2> SUFFICES ASSUME NEW x \in s PROVE x <= Max(s)
      BY <1>7
  <2>1. x \in Nat /\ Max(s) \in Nat
        BY <1>1, <1>7
  <2>2. QED
        BY <1>7, <2>1

\* f folds step over the sets of positions up to n, taking off the largest one each time.
Folds(f, n, base, step) ==
  \A s \in SUBSET (1 .. n) :
    f[s] = IF s = {} THEN base ELSE step[Max(s)][f[s \ {Max(s)}]]

\* The function FoldLeft is defined by exists.
LEMMA FoldExists ==
  ASSUME NEW n \in Nat, NEW V, NEW base \in V, NEW step \in [1 .. n -> [V -> V]]
  PROVE  \E f \in [SUBSET (1 .. n) -> V] : Folds(f, n, base, step)
<1> DEFINE X == SUBSET (1 .. n)
           rank == [s \in X |-> Cardinality(s)]
           next == [s \in X |->
                     [g \in [X -> V] |->
                       IF s = {} THEN base ELSE step[Max(s)][g[s \ {Max(s)}]]]]
<1>1. IsFiniteSet(1 .. n) /\ Cardinality(1 .. n) = n
      BY FS_Interval
<1>2. rank \in [X -> 0 .. n]
  <2> SUFFICES ASSUME NEW s \in X PROVE Cardinality(s) \in 0 .. n
      OBVIOUS
  <2>1. Cardinality(s) <= Cardinality(1 .. n) /\ IsFiniteSet(s)
    <3>1. s \in SUBSET (1 .. n)
          OBVIOUS
    <3> HIDE DEF X
    <3>2. QED
          BY <1>1, <3>1, FS_Subset
  <2>2. Cardinality(s) \in Nat
        BY <2>1, FS_CardinalityType
  <2>3. QED
        BY <1>1, <2>1, <2>2
<1>3. ASSUME NEW s \in X, s # {}
      PROVE  /\ Max(s) \in 1 .. n /\ s \ {Max(s)} \in X
             /\ rank[s \ {Max(s)}] < rank[s]
  <2>1. Max(s) \in s
        BY <1>3, MaxOfSubset
  <2>2. IsFiniteSet(s)
        BY <1>1, FS_Subset
  <2>3. Cardinality(s \ {Max(s)}) = Cardinality(s) - 1 /\ Cardinality(s) \in Nat
        BY <2>1, <2>2, FS_RemoveElement, FS_CardinalityType
  <2>4. Max(s) \in 1 .. n /\ s \ {Max(s)} \in X
        BY <2>1
  <2>5. rank[s] = Cardinality(s) /\ rank[s \ {Max(s)}] = Cardinality(s \ {Max(s)})
        BY <2>4
  <2> HIDE DEF rank
  <2>6. QED
        BY <2>3, <2>4, <2>5
<1>4. next \in [X -> [[X -> V] -> V]]
  <2> SUFFICES ASSUME NEW s \in X, NEW g \in [X -> V], s # {}
               PROVE  step[Max(s)][g[s \ {Max(s)}]] \in V
      OBVIOUS
  <2>1. Max(s) \in 1 .. n /\ g[s \ {Max(s)}] \in V
        BY <1>3
  <2>2. QED
        BY <2>1
<1>5. \A s \in X : \A g, h \in [X -> V] :
        (\A t \in X : rank[t] < rank[s] => g[t] = h[t]) => next[s][g] = next[s][h]
  <2> SUFFICES ASSUME NEW s \in X, NEW g \in [X -> V], NEW h \in [X -> V], s # {},
                      \A t \in X : rank[t] < rank[s] => g[t] = h[t]
               PROVE  g[s \ {Max(s)}] = h[s \ {Max(s)}]
      OBVIOUS
  <2>1. s \ {Max(s)} \in X /\ rank[s \ {Max(s)}] < rank[s]
        BY <1>3
  <2> HIDE DEF rank
  <2>2. QED
        BY <2>1
<1>6. \A s \in X : \A g \in [X -> V] :
        next[s][g] = IF s = {} THEN base ELSE step[Max(s)][g[s \ {Max(s)}]]
      OBVIOUS
<1> HIDE DEF X, rank, next
<1>7. FromLower(X, V, rank, next)
      BY <1>5 DEF FromLower
<1>8. PICK f \in [X -> V] : Solves(f, X, next)
      BY ONLY <1>2, <1>4, <1>7, n \in Nat, base \in V, Recursion
<1>9. \A s \in X : f[s] = IF s = {} THEN base ELSE step[Max(s)][f[s \ {Max(s)}]]
      BY <1>6, <1>8 DEF Solves
<1>10. QED
      BY <1>9 DEF X, Folds

-----------------------------------------------------------------------------
(* Sums of sequences of integers.                                           *)

SumOf(s) == FoldLeft(+, 0, s)

\* f sums up s element by element.
SumsUp(f, s) ==
  /\ f \in [0 .. Len(s) -> Int] /\ f[0] = 0
  /\ \A k \in 1 .. Len(s) : f[k] = f[k - 1] + s[k]

\* The sum is reached element by element.
LEMMA SumSteps ==
  ASSUME NEW s \in Seq(Int)
  PROVE  \E f : SumsUp(f, s) /\ SumOf(s) = f[Len(s)]
<1> DEFINE n == Len(s)
           X == SUBSET (1 .. n)
           iter == CHOOSE f : f = [t \in X |-> IF t = {} THEN 0
                                               ELSE f[t \ {Max(t)}] + s[Max(t)]]
           step == [i \in 1 .. n |-> [v \in Int |-> v + s[i]]]
<1>1. n \in Nat /\ DOMAIN s = 1 .. n /\ \A k \in 1 .. n : s[k] \in Int
      OBVIOUS
<1>2. SumOf(s) = iter[1 .. n]
      BY <1>1, Zenon DEF SumOf, FoldLeft, MapThenFoldSet
<1>3. step \in [1 .. n -> [Int -> Int]]
      BY <1>1
<1>4. \A i \in 1 .. n : \A v \in Int : step[i][v] = v + s[i]
      OBVIOUS
<1> HIDE DEF n, step
<1>5. PICK f \in [X -> Int] : Folds(f, n, 0, step)
  <2>1. n \in Nat /\ 0 \in Int
        BY <1>1
  <2>2. QED
        BY ONLY <1>3, <2>1, FoldExists
<1>6. \A t \in X : t # {} => Max(t) \in 1 .. n /\ t \ {Max(t)} \in X
      BY <1>1, MaxOfSubset
<1>7. f = [t \in X |-> IF t = {} THEN 0 ELSE f[t \ {Max(t)}] + s[Max(t)]]
      BY <1>4, <1>5, <1>6 DEF Folds
<1>8. iter = [t \in X |-> IF t = {} THEN 0 ELSE iter[t \ {Max(t)}] + s[Max(t)]]
      BY <1>7
<1> HIDE DEF iter
<1>9. iter[{}] = 0 /\ 1 .. 0 = {}
      BY <1>8
<1>10. ASSUME NEW k \in 1 .. n
       PROVE  iter[1 .. k] = iter[1 .. k - 1] + s[k]
  <2>1. n \in Nat /\ k \in Nat /\ 1 <= k /\ k <= n
        BY <1>1
  <2>2. 1 .. k \in X /\ 1 .. k # {} /\ k \in Nat
    <3>1. k \in 1 .. k /\ \A i \in 1 .. k : i \in 1 .. n
          BY ONLY <2>1
    <3>2. QED
          BY <2>1, <3>1
  <2>3. Max(1 .. k) \in 1 .. k /\ \A x \in 1 .. k : x <= Max(1 .. k)
        BY <2>2, MaxOfSubset
  <2>4. Max(1 .. k) = k
        BY <2>2, <2>3
  <2>5. (1 .. k) \ {k} = 1 .. k - 1
        BY <2>2
  <2>6. QED
        BY <1>8, <2>2, <2>4, <2>5
<1> DEFINE sum == [k \in 0 .. n |-> iter[1 .. k]]
           S == {k \in Nat : k <= n => iter[1 .. k] \in Int}
<1>11. 0 \in S
       BY <1>9
<1>12. ASSUME NEW k \in Nat, k \in S
       PROVE  k + 1 \in S
  <2> SUFFICES ASSUME k + 1 <= n PROVE iter[1 .. k + 1] \in Int
      BY <1>1
  <2>1. k + 1 \in 1 .. n /\ k + 1 - 1 = k /\ k <= n
        BY <1>1
  <2>2. iter[1 .. k] \in Int
        BY <1>12, <2>1
  <2>3. iter[1 .. k + 1] = iter[1 .. k] + s[k + 1]
        BY <1>10, <2>1
  <2>4. QED
        BY <1>1, <2>1, <2>2, <2>3
<1> HIDE DEF S
<1>13. \A k \in Nat : k \in S
       BY <1>11, <1>12, Induction
<1>14. sum \in [0 .. n -> Int]
       BY <1>1, <1>13 DEF S
<1>15. sum[0] = 0 /\ \A k \in 1 .. n : sum[k] = sum[k - 1] + s[k]
       BY <1>1, <1>9, <1>10
<1>16. SumOf(s) = sum[n]
       BY <1>1, <1>2
<1>17. QED
       BY <1>14, <1>15, <1>16 DEF n, SumsUp

\* A function that sums up the sequence gives its sum.
LEMMA SumIs ==
  ASSUME NEW s \in Seq(Int), NEW g, SumsUp(g, s)
  PROVE  SumOf(s) = g[Len(s)]
<1> DEFINE n == Len(s)
<1>1. n \in Nat
      OBVIOUS
<1> HIDE DEF n
<1>2. PICK f : SumsUp(f, s) /\ SumOf(s) = f[n]
      BY SumSteps DEF n
<1> DEFINE S == {k \in Nat : k <= n => f[k] = g[k]}
<1>3. 0 \in S
      BY <1>2 DEF SumsUp
<1>4. ASSUME NEW k \in Nat, k \in S
      PROVE  k + 1 \in S
  <2> SUFFICES ASSUME k + 1 <= n PROVE f[k + 1] = g[k + 1]
      BY <1>1
  <2>1. k + 1 \in 1 .. n /\ k + 1 - 1 = k /\ k <= n
        BY <1>1
  <2>2. f[k] = g[k]
        BY <1>4, <2>1
  <2>3. f[k + 1] = f[k] + s[k + 1] /\ g[k + 1] = g[k] + s[k + 1]
        BY <1>2, <2>1 DEF SumsUp, n
  <2>4. QED
        BY <2>2, <2>3
<1> HIDE DEF S
<1>5. n \in S
      BY <1>1, <1>3, <1>4, Induction
<1>6. QED
      BY <1>1, <1>2, <1>5 DEF S, n

\* A sum is a number.
LEMMA SumType ==
  ASSUME NEW s \in Seq(Int)
  PROVE  SumOf(s) \in Int
<1>1. PICK f : SumsUp(f, s) /\ SumOf(s) = f[Len(s)]
      BY SumSteps
<1>2. Len(s) \in 0 .. Len(s)
      OBVIOUS
<1>3. QED
      BY <1>1, <1>2 DEF SumsUp

\* An empty sequence has sum 0.
LEMMA SumEmpty == SumOf(<<>>) = 0
<1>1. <<>> \in Seq(Int) /\ Len(<<>>) = 0
      OBVIOUS
<1>2. PICK f : SumsUp(f, <<>>) /\ SumOf(<<>>) = f[Len(<<>>)]
      BY <1>1, SumSteps
<1>3. QED
      BY <1>1, <1>2 DEF SumsUp

\* An element more adds itself.
LEMMA SumAppend ==
  ASSUME NEW s \in Seq(Int), NEW x \in Int
  PROVE  SumOf(Append(s, x)) = SumOf(s) + x
<1> DEFINE n == Len(s)
           t == Append(s, x)
<1>1. /\ n \in Nat /\ t \in Seq(Int) /\ Len(t) = n + 1 /\ t[n + 1] = x
      /\ \A k \in 1 .. n : t[k] = s[k]
      OBVIOUS
<1> HIDE DEF n, t
<1>2. PICK f : SumsUp(f, s) /\ SumOf(s) = f[n]
      BY SumSteps DEF n
<1>3. f \in [0 .. n -> Int] /\ f[0] = 0 /\ \A k \in 1 .. n : f[k] = f[k - 1] + s[k]
      BY <1>2 DEF SumsUp, n
<1> DEFINE g == [k \in 0 .. n + 1 |-> IF k = n + 1 THEN f[n] + x ELSE f[k]]
<1>4. /\ g \in [0 .. n + 1 -> Int] /\ g[n + 1] = f[n] + x
      /\ \A k \in 0 .. n : g[k] = f[k]
      BY <1>1, <1>3
<1> HIDE DEF g
<1>5. SumsUp(g, t)
  <2>1. ASSUME NEW k \in 1 .. n + 1
        PROVE  g[k] = g[k - 1] + t[k]
    <3>1. CASE k = n + 1
      <4>1. k - 1 = n /\ n \in 0 .. n
            BY <1>1, <3>1
      <4>2. QED
            BY <1>1, <1>4, <3>1, <4>1
    <3>2. CASE k \in 1 .. n
      <4>1. k \in 0 .. n /\ k - 1 \in 0 .. n
            BY <1>1, <3>2
      <4>2. QED
            BY <1>1, <1>3, <1>4, <3>2, <4>1
    <3>3. QED
          BY <1>1, <3>1, <3>2
  <2>2. g[0] = 0
        BY <1>1, <1>3, <1>4
  <2>3. QED
        BY <1>1, <1>4, <2>1, <2>2 DEF SumsUp
<1>6. SumOf(t) = g[n + 1]
      BY <1>1, <1>5, SumIs
<1>7. QED
      BY <1>2, <1>4, <1>6 DEF t

\* What is left without the first element.
LEMMA SumTail ==
  ASSUME NEW s \in Seq(Int), s # <<>>
  PROVE  Tail(s) \in Seq(Int) /\ SumOf(Tail(s)) = SumOf(s) - s[1]
<1> DEFINE n == Len(s)
           t == Tail(s)
<1>1. /\ n \in Nat \ {0} /\ t \in Seq(Int) /\ Len(t) = n - 1
      /\ \A k \in 1 .. n - 1 : t[k] = s[k + 1]
      OBVIOUS
<1> HIDE DEF n, t
<1>2. PICK f : SumsUp(f, s) /\ SumOf(s) = f[n]
      BY SumSteps DEF n
<1>3. f \in [0 .. n -> Int] /\ f[0] = 0 /\ \A k \in 1 .. n : f[k] = f[k - 1] + s[k]
      BY <1>2 DEF SumsUp, n
<1>4. f[1] = s[1] /\ s[1] \in Int
  <2>1. 1 \in 1 .. n /\ 1 - 1 = 0
        BY <1>1
  <2>2. f[1] = 0 + s[1] /\ s[1] \in Int
        BY <1>3, <2>1 DEF n
  <2>3. QED
        BY <2>2
<1> DEFINE g == [k \in 0 .. n - 1 |-> f[k + 1] - f[1]]
<1>5. ASSUME NEW k \in 0 .. n - 1
      PROVE  g[k] = f[k + 1] - f[1] /\ k + 1 \in 0 .. n
      BY <1>1
<1>6. g \in [0 .. n - 1 -> Int]
  <2>1. \A k \in 0 .. n - 1 : f[k + 1] \in Int
        BY <1>3, <1>5
  <2>2. QED
        BY <1>4, <2>1
<1> HIDE DEF g
<1>7. SumsUp(g, t)
  <2>1. ASSUME NEW k \in 1 .. n - 1
        PROVE  g[k] = g[k - 1] + t[k]
    <3>1. k \in 0 .. n - 1 /\ k - 1 \in 0 .. n - 1 /\ k + 1 \in 1 .. n /\ k - 1 + 1 = k
          /\ k + 1 - 1 = k /\ k \in 0 .. n
          BY <1>1
    <3>2. g[k] = f[k + 1] - f[1] /\ g[k - 1] = f[k - 1 + 1] - f[1]
          BY <1>5, <3>1
    <3>3. f[k + 1] = f[k + 1 - 1] + s[k + 1]
          BY <1>3, <3>1
    <3>4. t[k] = s[k + 1]
          BY <1>1
    <3>5. f[k] \in Int
          BY ONLY <1>3, <3>1
    <3>6. s[k + 1] \in Int
          BY <3>1 DEF n
    <3>7. f[k + 1] = f[k] + s[k + 1] /\ g[k - 1] = f[k] - f[1]
      <4>1. k + 1 - 1 = k /\ k - 1 + 1 = k
            BY ONLY <3>1
      <4>2. f[k + 1] = f[k] + s[k + 1]
            BY ONLY <3>3, <4>1, Zenon
      <4>3. g[k - 1] = f[k] - f[1]
            BY ONLY <3>2, <4>1, Zenon
      <4>4. QED
            BY ONLY <4>2, <4>3
    <3>8. g[k] = f[k + 1] - f[1]
          BY ONLY <3>2
    <3>9. g[k] = g[k - 1] + s[k + 1]
      <4> DEFINE a == f[k]
                 b == s[k + 1]
                 c == f[1]
                 d == f[k + 1]
      <4>1. a \in Int /\ b \in Int /\ c \in Int /\ d = a + b /\ g[k] = d - c /\ g[k - 1] = a - c
            BY ONLY <1>4, <3>5, <3>6, <3>7, <3>8
      <4> HIDE DEF a, b, c, d
      <4>2. g[k] = g[k - 1] + b
            BY ONLY <4>1
      <4>3. QED
            BY ONLY <4>2 DEF b
    <3>10. QED
           BY ONLY <3>4, <3>9
  <2>2. g[0] = 0
    <3>1. 0 \in 0 .. n - 1 /\ 0 + 1 = 1
          BY <1>1
    <3>2. QED
          BY <1>4, <1>5, <3>1
  <2>3. QED
        BY <1>1, <1>6, <2>1, <2>2 DEF SumsUp
<1>8. SumOf(t) = g[n - 1]
      BY <1>1, <1>7, SumIs
<1>9. n - 1 \in 0 .. n - 1 /\ n - 1 + 1 = n
      BY <1>1
<1>10. QED
       BY <1>1, <1>2, <1>4, <1>5, <1>8, <1>9 DEF t
=============================================================================
