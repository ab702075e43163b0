------------------------ MODULE ResultBuffer_proofs -------------------------
(***************************************************************************)
(* The statistics of a measure, for any samples and window sizes: those of *)
(* all samples, kept by recurrence, and those of the window, whatever      *)
(* resizes, re-initialisations and publications come in between.           *)
(***************************************************************************)
EXTENDS ResultBuffer, DataLemmas

Numbers == Int \cup {NAN}
Fractions == Int \X (Nat \ {0})

-----------------------------------------------------------------------------
(* Sums and squares.                                                        *)

\* A sequence of samples is one of integers.
LEMMA SamplesAreNumbers ==
  ASSUME ResultBufferAssumption, NEW s \in Seq(Samples)
  PROVE  s \in Seq(Int)
<1>1. \A i \in 1 .. Len(s) : s[i] \in Samples
      OBVIOUS
<1>2. Samples \subseteq Int
      BY DEF ResultBufferAssumption
<1>3. \A i \in 1 .. Len(s) : s[i] \in Int
      BY <1>1, <1>2
<1>4. Len(s) \in Nat /\ s = [i \in 1 .. Len(s) |-> s[i]]
      OBVIOUS
<1>5. QED
      BY <1>3, <1>4

\* Squares add up like the elements.
LEMMA SquaresAppend ==
  ASSUME NEW s \in Seq(Int), NEW r \in Int
  PROVE  /\ Squares(s) \in Int /\ Squares(<<>>) = 0
         /\ Squares(Append(s, r)) = Squares(s) + r * r
<1> DEFINE sq(t) == [i \in DOMAIN t |-> t[i] * t[i]]
<1>1. \A t \in Seq(Int) : Squares(t) = SumOf(sq(t))
      BY DEF Squares, SumOf
<1>2. ASSUME NEW t \in Seq(Int)
      PROVE  sq(t) \in Seq(Int) /\ Len(sq(t)) = Len(t)
             /\ \A i \in 1 .. Len(t) : sq(t)[i] = t[i] * t[i]
  <2>1. DOMAIN t = 1 .. Len(t) /\ Len(t) \in Nat /\ \A i \in 1 .. Len(t) : t[i] \in Int
        OBVIOUS
  <2>2. \A i \in 1 .. Len(t) : t[i] * t[i] \in Int
        BY <2>1
  <2>3. QED
        BY <2>1, <2>2
<1> DEFINE t == Append(s, r)
           n == Len(s)
<1>3. t \in Seq(Int) /\ Len(t) = n + 1 /\ t[n + 1] = r /\ n \in Nat
      /\ \A i \in 1 .. n : t[i] = s[i]
      OBVIOUS
<1>4. sq(<<>>) = <<>> /\ <<>> \in Seq(Int)
      OBVIOUS
<1>5. r * r \in Int
      OBVIOUS
<1>6. sq(t) = Append(sq(s), r * r)
  <2> DEFINE u == Append(sq(s), r * r)
  <2>1. u \in Seq(Int) /\ Len(u) = n + 1 /\ u[n + 1] = r * r
        /\ \A i \in 1 .. n : u[i] = sq(s)[i]
        BY <1>2, <1>5
  <2>2. sq(t) \in Seq(Int) /\ Len(sq(t)) = n + 1
        BY <1>2, <1>3
  <2>3. ASSUME NEW i \in 1 .. n + 1
        PROVE  sq(t)[i] = u[i]
    <3>1. sq(t)[i] = t[i] * t[i]
          BY <1>2, <1>3
    <3>2. CASE i = n + 1
          BY <1>3, <2>1, <3>1, <3>2
    <3>3. CASE i \in 1 .. n
          BY <1>2, <1>3, <2>1, <3>1, <3>3
    <3>4. QED
          BY <1>3, <3>2, <3>3
  <2> HIDE DEF u, sq, t
  <2>4. QED
        BY <2>1, <2>2, <2>3, SameSequence DEF u
<1> HIDE DEF sq, t
<1>7. Squares(s) \in Int
      BY <1>1, <1>2, SumType
<1>8. Squares(<<>>) = 0
      BY <1>1, <1>4, SumEmpty
<1>9. Squares(t) = Squares(s) + r * r
  <2>1. Squares(t) = SumOf(sq(t)) /\ Squares(s) = SumOf(sq(s)) /\ sq(s) \in Seq(Int)
        BY <1>1, <1>2, <1>3
  <2>2. SumOf(Append(sq(s), r * r)) = SumOf(sq(s)) + r * r
        BY <1>5, <2>1, SumAppend
  <2>3. QED
        BY <1>6, <2>1, <2>2
<1>10. QED
       BY <1>7, <1>8, <1>9 DEF t

\* x is the sum of s, if s has elements.
Summed(x, s) == IF s = <<>> THEN x \in {0, NAN} ELSE x = SumOf(s)

\* A sample is added to the sum, also to one that is no number yet.
LEMMA SampleAdds ==
  ASSUME ResultBufferAssumption, NEW s \in Seq(Samples), NEW r \in Samples,
         NEW x, Summed(x, s)
  PROVE  /\ Added(x, r) = SumOf(Append(s, r)) /\ Added(x, r) \in Int
         /\ Append(s, r) # <<>> /\ Append(s, r) \in Seq(Samples)
<1>1. s \in Seq(Int) /\ r \in Int /\ NAN \notin Int
      BY SamplesAreNumbers DEF ResultBufferAssumption
<1>2. SumOf(Append(s, r)) = SumOf(s) + r /\ SumOf(s) \in Int
      BY <1>1, SumAppend, SumType
<1>3. Append(s, r) # <<>> /\ Append(s, r) \in Seq(Samples)
  <2>1. Append(s, r) \in Seq(Samples) /\ Len(Append(s, r)) = Len(s) + 1 /\ Len(s) \in Nat
        OBVIOUS
  <2>2. QED
        BY <2>1
<1>4. CASE s = <<>>
  <2>1. SumOf(s) = 0 /\ x \in {0, NAN}
        BY <1>4, SumEmpty DEF Summed
  <2>2. Added(x, r) = r
    <3>1. x = 0 \/ x = NAN
          BY <2>1
    <3>2. CASE x = NAN
          BY <3>2 DEF Added, isnan
    <3>3. CASE x = 0 /\ x # NAN
          BY <1>1, <3>3 DEF Added, isnan
    <3>4. QED
          BY <3>1, <3>2, <3>3
  <2>3. QED
        BY <1>1, <1>2, <1>3, <2>1, <2>2
<1>5. CASE s # <<>>
      BY <1>1, <1>2, <1>5, <1>3 DEF Added, isnan, Summed
<1>6. QED
      BY <1>4, <1>5, <1>3, <1>1, <1>2

-----------------------------------------------------------------------------
(* The recurrences of mean and variance.                                    *)

\* Positive numbers have a positive product.
LEMMA PositiveProduct ==
  ASSUME NEW a \in Nat \ {0}, NEW b \in Nat \ {0}
  PROVE  a * b \in Nat \ {0}
  OBVIOUS

\* Sums and products of fractions are fractions.
LEMMA FractionsClosed ==
  ASSUME NEW x \in Fractions, NEW y \in Fractions
  PROVE  Plus(x, y) \in Fractions /\ Times(x, y) \in Fractions
<1>1. x[1] \in Int /\ y[1] \in Int /\ x[2] \in Nat \ {0} /\ y[2] \in Nat \ {0}
      BY DEF Fractions
<1>2. x[2] * y[2] \in Nat \ {0}
      BY <1>1, PositiveProduct
<1>3. x[1] * y[2] + y[1] * x[2] \in Int /\ x[1] * y[1] \in Int
      BY <1>1
<1>4. QED
      BY <1>2, <1>3 DEF Plus, Times, Fractions

\* The mean of m + 1 samples, from that of m.
LEMMA NextMean ==
  ASSUME NEW m \in Nat, NEW t \in Int, NEW r \in Int, NEW a \in Int, NEW b \in Nat \ {0},
         m * a = t * b
  PROVE  LET avg == Times(Plus(Times(<<m, 1>>, <<a, b>>), <<r, 1>>), <<1, m + 1>>)
         IN  avg \in Fractions /\ Same(avg, <<t + r, m + 1>>)
<1>1. <<m, 1>> \in Fractions /\ <<a, b>> \in Fractions /\ <<r, 1>> \in Fractions
      /\ <<1, m + 1>> \in Fractions
      BY DEF Fractions
<1> DEFINE avg == Times(Plus(Times(<<m, 1>>, <<a, b>>), <<r, 1>>), <<1, m + 1>>)
<1>2. avg \in Fractions
      BY <1>1, FractionsClosed
<1>3. /\ avg[1] = (m * a * 1 + r * (1 * b)) * 1
      /\ avg[2] = 1 * b * 1 * (m + 1)
      BY DEF Times, Plus
<1>4. (m * a * 1 + r * (1 * b)) * 1 = (t + r) * b
  <2>1. (m * a * 1 + r * (1 * b)) * 1 = m * a + r * b
        OBVIOUS
  <2>2. m * a + r * b = t * b + r * b
        OBVIOUS
  <2>3. t * b + r * b = (t + r) * b
        OBVIOUS
  <2>4. QED
        BY <2>1, <2>2, <2>3
<1>5. (t + r) * b * (m + 1) = (t + r) * (1 * b * 1 * (m + 1))
      OBVIOUS
<1>6. avg[1] * (m + 1) = (t + r) * avg[2]
      BY <1>3, <1>4, <1>5
<1>7. QED
      BY <1>2, <1>6 DEF Same

\* How far sample m + 1 is from the mean then.
LEMMA OffMean ==
  ASSUME NEW m \in Nat, NEW t \in Int, NEW r \in Int, NEW avg \in Fractions,
         Same(avg, <<t + r, m + 1>>)
  PROVE  LET off == Plus(<<r, 1>>, Times(<<-1, 1>>, avg))
         IN  off \in Fractions /\ (m + 1) * off[1] = (m * r - t) * off[2]
<1> DEFINE off == Plus(<<r, 1>>, Times(<<-1, 1>>, avg))
<1>1. <<r, 1>> \in Fractions /\ <<-1, 1>> \in Fractions
      BY DEF Fractions
<1>2. off \in Fractions
      BY <1>1, FractionsClosed
<1>3. PICK a \in Int, b \in Nat \ {0} : avg = <<a, b>>
      BY DEF Fractions
<1>4. a * (m + 1) = (t + r) * b
      BY <1>3 DEF Same
<1>5. off[1] = r * (1 * b) + -1 * a * 1 /\ off[2] = 1 * (1 * b)
      BY <1>3 DEF Plus, Times
<1>6. (m + 1) * (r * (1 * b) + -1 * a * 1) = (m + 1) * (r * b) - a * (m + 1)
      OBVIOUS
<1>7. (m + 1) * (r * b) - (t + r) * b = (m * r - t) * (1 * (1 * b))
      OBVIOUS
<1>8. QED
      BY <1>2, <1>4, <1>5, <1>6, <1>7

\* The variance of m + 1 samples, from that of m: the sums of the samples and of
\* their squares go from t and q to t + r and q + r * r.
LEMMA NextVariance ==
  ASSUME NEW m \in Nat \ {0}, NEW t \in Int, NEW q \in Int, NEW r \in Int,
         NEW v \in Int, NEW w \in Int, NEW o \in Int, NEW d \in Int,
         v * (m * (m - 1)) = (m * q - t * t) * w,
         (m + 1) * o = (m * r - t) * d
  PROVE  (v * (m - 1) * (m * m * (d * d)) + (m + 1) * (o * o) * (w * m)) * ((m + 1) * m)
           = ((m + 1) * (q + r * r) - (t + r) * (t + r)) * (w * m * (m * m * (d * d)))
<1> DEFINE A == v * (m * (m - 1))
           C == (m * q - t * t) * w
           E == (m + 1) * o
           F == (m * r - t) * d
           K == m * m * (d * d) * (m + 1)
<1>1. (v * (m - 1) * (m * m * (d * d)) + (m + 1) * (o * o) * (w * m)) * ((m + 1) * m)
        = A * K + E * E * (w * m * m)
      OBVIOUS
<1>2. A = C /\ E = F
      OBVIOUS
<1>3. A * K + E * E * (w * m * m) = C * K + F * F * (w * m * m)
      BY ONLY <1>2
<1>4. C * K + F * F * (w * m * m)
        = ((m + 1) * (q + r * r) - (t + r) * (t + r)) * (w * m * (m * m * (d * d)))
      OBVIOUS
<1> HIDE DEF A, C, E, F, K
<1>5. QED
      BY <1>1, <1>3, <1>4

-----------------------------------------------------------------------------
(* The statistics of all samples.                                           *)

\* x is the least element of S, if S has elements; y is the greatest one.
Least(x, S) == IF S = {} THEN x = NAN ELSE x \in S /\ \A e \in S : x <= e
Greatest(x, S) == IF S = {} THEN x = NAN ELSE x \in S /\ \A e \in S : x >= e

\* avg is the mean of s, and var its variance, if s has elements.
MeanOf(avg, s) ==
  IF s = <<>> THEN avg \in {NAN, <<0, 1>>}
  ELSE avg \in Fractions /\ Same(avg, <<SumOf(s), Len(s)>>)
VarianceOf(var, s) ==
  s # <<>> => var \in Fractions /\ Same(var, <<Len(s) * Squares(s) - SumOf(s) * SumOf(s),
                                              Len(s) * (Len(s) - 1)>>)

StatsType ==
  [LAST : Numbers, SUM : Numbers, PERIOD_SUM : Numbers, MIN : Numbers, MAX : Numbers,
   WIN_SUM : Numbers, AVG : Fractions \cup {NAN}, VAR : Fractions \cup {NAN}]

\* The inductive invariant of the statistics of all samples.
KeptStats ==
  /\ history \in Seq(Samples) /\ period \in Seq(Samples) /\ zero \in BOOLEAN
  /\ samples = Len(history)
  /\ stats \in StatsType
  /\ Summed(stats.SUM, history)
  /\ Summed(stats.PERIOD_SUM, period)
  /\ history = <<>> => period = <<>>
  /\ history # <<>> /\ period = <<>> => stats.PERIOD_SUM = NAN
  /\ MeanOf(stats.AVG, history)
  /\ VarianceOf(stats.VAR, history)
  /\ Least(stats.MIN, Bounds(history))
  /\ Greatest(stats.MAX, Bounds(history))

\* The mean and the variance of a sample more.
LEMMA NextMoments ==
  ASSUME ResultBufferAssumption, NEW s \in Seq(Samples), NEW r \in Samples,
         NEW st \in StatsType, MeanOf(st.AVG, s), VarianceOf(st.VAR, s)
  PROVE  /\ MeanOf(WithSample(st, r, Len(s) + 1).AVG, Append(s, r))
         /\ VarianceOf(WithSample(st, r, Len(s) + 1).VAR, Append(s, r))
         /\ WithSample(st, r, Len(s) + 1).AVG \in Fractions
         /\ WithSample(st, r, Len(s) + 1).VAR \in Fractions
<1> DEFINE m == Len(s)
           t == SumOf(s)
           q == Squares(s)
           u == Append(s, r)
           mean == IF isnan(st.AVG) THEN <<0, 1>> ELSE st.AVG
           avg == Times(Plus(Times(<<m, 1>>, mean), <<r, 1>>), <<1, m + 1>>)
           off == Plus(<<r, 1>>, Times(<<-1, 1>>, avg))
           next == WithSample(st, r, m + 1)
<1>1. s \in Seq(Int) /\ r \in Int
      BY SamplesAreNumbers DEF ResultBufferAssumption
<1>2. m \in Nat /\ t \in Int /\ q \in Int /\ m + 1 - 1 = m /\ m + 1 - 2 = m - 1
      BY <1>1, SumType, SquaresAppend
<1>3. u # <<>> /\ Len(u) = m + 1 /\ SumOf(u) = t + r /\ Squares(u) = q + r * r
  <2>1. Len(u) = m + 1
        OBVIOUS
  <2>2. u # <<>>
        BY <1>2, <2>1
  <2>3. QED
        BY <1>1, <2>1, <2>2, SumAppend, SquaresAppend
<1>4. s = <<>> => m = 0 /\ t = 0 /\ q = 0
      BY SumEmpty, SquaresAppend, <1>1
<1>5. next.AVG = avg
      BY <1>2 DEF WithSample, StatsType
<1>6. next.VAR = IF m + 1 < 2 THEN <<0, 1>>
                 ELSE Plus(Times(st.VAR, <<m - 1, m>>),
                           Times(<<m + 1, m * m>>, Times(off, off)))
      BY <1>2 DEF WithSample, StatsType
<1>7. PICK a \in Int, b \in Nat \ {0} : mean = <<a, b>> /\ m * a = t * b
  <2>1. CASE s = <<>>
    <3>1. mean = <<0, 1>>
          BY <2>1 DEF MeanOf, isnan
    <3>2. m * 0 = t * 1
          BY <1>4, <2>1
    <3>3. QED
          BY <3>1, <3>2
  <2>2. CASE s # <<>>
    <3>1. st.AVG \in Fractions /\ Same(st.AVG, <<t, m>>)
          BY <2>2 DEF MeanOf
    <3>2. PICK a \in Int, b \in Nat \ {0} : st.AVG = <<a, b>>
          BY <3>1 DEF Fractions
    <3>3. <<a, b>> # NAN
          BY DEF ResultBufferAssumption
    <3>4. a * m = t * b
          BY <3>1, <3>2 DEF Same
    <3>5. m * a = t * b
          BY <1>2, <3>4
    <3>6. QED
          BY <3>2, <3>3, <3>5 DEF isnan
  <2>3. QED
        BY <2>1, <2>2
<1> HIDE DEF m, t, q, u, next, mean
<1>8. avg \in Fractions /\ Same(avg, <<t + r, m + 1>>)
      BY <1>1, <1>2, <1>7, NextMean
<1> HIDE DEF avg
<1>9. MeanOf(next.AVG, u)
      BY <1>3, <1>5, <1>8 DEF MeanOf
<1>10. off \in Fractions /\ (m + 1) * off[1] = (m * r - t) * off[2]
  <2>1. m \in Nat /\ t \in Int /\ r \in Int
        BY <1>1, <1>2
  <2>2. Plus(<<r, 1>>, Times(<<-1, 1>>, avg)) \in Fractions
        /\ (m + 1) * Plus(<<r, 1>>, Times(<<-1, 1>>, avg))[1]
             = (m * r - t) * Plus(<<r, 1>>, Times(<<-1, 1>>, avg))[2]
        BY ONLY <1>8, <2>1, OffMean
  <2>3. QED
        BY <2>2
<1> HIDE DEF off
<1>11. next.VAR \in Fractions
       /\ Same(next.VAR, <<(m + 1) * (q + r * r) - (t + r) * (t + r), (m + 1) * m>>)
  <2>1. CASE s = <<>>
    <3>1. m = 0 /\ t = 0 /\ q = 0
          BY <1>4, <2>1
    <3>2. next.VAR = <<0, 1>>
          BY <1>6, <3>1
    <3>3. 0 * ((0 + 1) * 0) = ((0 + 1) * (0 + r * r) - (0 + r) * (0 + r)) * 1
          BY <1>1
    <3>4. QED
          BY <3>1, <3>2, <3>3 DEF Same, Fractions
  <2>2. CASE s # <<>>
    <3>1. m \in Nat \ {0}
          BY <2>2 DEF m
    <3>2. st.VAR \in Fractions /\ Same(st.VAR, <<m * q - t * t, m * (m - 1)>>)
          BY <2>2 DEF VarianceOf, m, t, q
    <3>3. PICK v \in Int, w \in Nat \ {0} : st.VAR = <<v, w>>
          BY <3>2 DEF Fractions
    <3>4. v * (m * (m - 1)) = (m * q - t * t) * w
          BY <3>2, <3>3 DEF Same
    <3>5. PICK o \in Int, d \in Nat \ {0} : off = <<o, d>>
          BY <1>10 DEF Fractions
    <3>6. (m + 1) * o = (m * r - t) * d
          BY <1>10, <3>5
    <3>7. (v * (m - 1) * (m * m * (d * d)) + (m + 1) * (o * o) * (w * m)) * ((m + 1) * m)
            = ((m + 1) * (q + r * r) - (t + r) * (t + r)) * (w * m * (m * m * (d * d)))
          BY <1>1, <1>2, <3>1, <3>4, <3>6, NextVariance
    <3>8. next.VAR = <<v * (m - 1) * (m * m * (d * d)) + (m + 1) * (o * o) * (w * m),
                       w * m * (m * m * (d * d))>>
      <4>1. next.VAR = Plus(Times(<<v, w>>, <<m - 1, m>>),
                            Times(<<m + 1, m * m>>, Times(<<o, d>>, <<o, d>>)))
            BY <1>6, <3>1, <3>3, <3>5
      <4>2. QED
            BY <4>1 DEF Plus, Times
    <3>9. w * m * (m * m * (d * d)) \in Nat \ {0}
      <4>1. w * m \in Nat \ {0} /\ m * m \in Nat \ {0} /\ d * d \in Nat \ {0}
            BY <3>1, PositiveProduct
      <4>2. m * m * (d * d) \in Nat \ {0}
            BY <4>1, PositiveProduct
      <4>3. QED
            BY <4>1, <4>2, PositiveProduct
    <3>10. v * (m - 1) * (m * m * (d * d)) + (m + 1) * (o * o) * (w * m) \in Int
           BY <3>1
    <3>11. QED
           BY <3>7, <3>8, <3>9, <3>10 DEF Same, Fractions
  <2>3. QED
        BY <2>1, <2>2
<1>12. VarianceOf(next.VAR, u)
       BY <1>2, <1>3, <1>11 DEF VarianceOf
<1>13. QED
       BY <1>5, <1>8, <1>9, <1>11, <1>12 DEF next, m, u

\* An element more is below the least one, or leaves it.
LEMMA NextBounds ==
  ASSUME ResultBufferAssumption, NEW s \in Seq(Samples), NEW r \in Samples, NEW x
  PROVE  /\ Bounds(Append(s, r)) = Bounds(s) \cup {r}
         /\ Least(x, Bounds(s)) =>
              LET y == IF isnan(x) \/ r < x THEN r ELSE x
              IN  y \in Int /\ Least(y, Bounds(Append(s, r)))
         /\ Greatest(x, Bounds(s)) =>
              LET y == IF isnan(x) \/ r > x THEN r ELSE x
              IN  y \in Int /\ Greatest(y, Bounds(Append(s, r)))
<1> DEFINE S == Bounds(s)
<1>1. ToSet(Append(s, r)) = ToSet(s) \cup {r}
  <2>1. /\ DOMAIN s = 1 .. Len(s) /\ DOMAIN Append(s, r) = 1 .. Len(s) + 1 /\ Len(s) \in Nat
        /\ Append(s, r)[Len(s) + 1] = r
        /\ \A i \in 1 .. Len(s) : Append(s, r)[i] = s[i]
        OBVIOUS
  <2>2. 1 .. Len(s) + 1 = (1 .. Len(s)) \cup {Len(s) + 1}
        BY <2>1
  <2>3. QED
        BY <2>1, <2>2 DEF ToSet
<1>2. Bounds(Append(s, r)) = S \cup {r}
      BY <1>1 DEF Bounds
<1>3. Samples \subseteq Int /\ NAN \notin Int
      BY DEF ResultBufferAssumption
<1>4. S \subseteq Int
  <2>1. ToSet(s) \subseteq Samples
        BY DEF ToSet
  <2>2. S \subseteq ToSet(s) \cup {0}
        BY DEF Bounds
  <2>3. \A e \in S : e \in Samples \/ e = 0
        BY <2>1, <2>2
  <2> HIDE DEF S
  <2>4. \A e \in Samples : e \in Int
        BY <1>3
  <2>5. \A e \in S : e \in Int
        BY <2>3, <2>4
  <2>6. QED
        BY <2>5
<1> HIDE DEF S
<1>5. ASSUME Least(x, S)
      PROVE  LET y == IF isnan(x) \/ r < x THEN r ELSE x
             IN  y \in Int /\ Least(y, S \cup {r})
  <2>1. CASE S = {}
        BY <1>3, <1>5, <2>1 DEF Least, isnan
  <2>2. CASE S # {}
    <3>1. x \in Int /\ x # NAN /\ r \in Int /\ \A e \in S : x <= e /\ e \in Int
          BY <1>3, <1>4, <1>5, <2>2 DEF Least
    <3>2. CASE r < x
          BY <3>1, <3>2 DEF Least, isnan
    <3>3. CASE ~(r < x)
          BY <1>5, <2>2, <3>1, <3>3 DEF Least, isnan
    <3>4. QED
          BY <3>2, <3>3
  <2>3. QED
        BY <2>1, <2>2
<1>6. ASSUME Greatest(x, S)
      PROVE  LET y == IF isnan(x) \/ r > x THEN r ELSE x
             IN  y \in Int /\ Greatest(y, S \cup {r})
  <2>1. CASE S = {}
        BY <1>3, <1>6, <2>1 DEF Greatest, isnan
  <2>2. CASE S # {}
    <3>1. x \in Int /\ x # NAN /\ r \in Int /\ \A e \in S : x >= e /\ e \in Int
          BY <1>3, <1>4, <1>6, <2>2 DEF Greatest
    <3>2. CASE r > x
          BY <3>1, <3>2 DEF Greatest, isnan
    <3>3. CASE ~(r > x)
          BY <1>6, <2>2, <3>1, <3>3 DEF Greatest, isnan
    <3>4. QED
          BY <3>2, <3>3
  <2>3. QED
        BY <2>1, <2>2
<1>7. QED
      BY <1>2, <1>5, <1>6 DEF S

\* Nothing is known before the first sample, but the zeros init may set.
LEMMA FreshStats ==
  ASSUME ResultBufferAssumption, NEW z \in BOOLEAN
  PROVE  LET f == Fresh(z)
             S == IF z THEN {0} ELSE {}
         IN  /\ f \in StatsType
             /\ Summed(f.SUM, <<>>) /\ Summed(f.PERIOD_SUM, <<>>) /\ Summed(f.WIN_SUM, <<>>)
             /\ MeanOf(f.AVG, <<>>) /\ VarianceOf(f.VAR, <<>>)
             /\ Least(f.MIN, S) /\ Greatest(f.MAX, S)
<1>1. <<0, 1>> \in Fractions
      BY DEF Fractions
<1>2. CASE z
      BY <1>1, <1>2 DEF Fresh, StatsType, Numbers, Summed, MeanOf, VarianceOf, Least, Greatest
<1>3. CASE ~z
      BY <1>3 DEF Fresh, StatsType, Numbers, Summed, MeanOf, VarianceOf, Least, Greatest
<1>4. QED
      BY <1>2, <1>3

\* init starts them.
LEMMA KeptStatsInit == ResultBufferAssumption /\ Init => KeptStats
<1> SUFFICES ASSUME ResultBufferAssumption, Init PROVE KeptStats
    OBVIOUS
<1>1. Bounds(<<>>) = {}
      BY DEF Bounds, ToSet, Init
<1>2. <<>> \in Seq(Samples) /\ Len(<<>>) = 0
      OBVIOUS
<1>3. QED
      BY <1>1, <1>2, FreshStats DEF KeptStats, Init

\* A sample keeps them.
LEMMA KeptStatsSample ==
  ASSUME ResultBufferAssumption, KeptStats, NEW r \in Samples, NEW ready \in BOOLEAN,
         newSample(r, ready), stats'.WIN_SUM \in Numbers
  PROVE  KeptStats'
<1> DEFINE next == WithSample(stats, r, samples + 1)
           due == (samples + 1) % PublishingRate = 0
           h == Append(history, r)
<1>1. /\ history \in Seq(Samples) /\ period \in Seq(Samples) /\ zero \in BOOLEAN
      /\ samples = Len(history) /\ stats \in StatsType
      /\ history' = h /\ zero' = zero /\ samples' = samples + 1
      /\ period' = IF due /\ ready THEN <<>> ELSE Append(period, r)
      BY DEF KeptStats, newSample
<1>2. /\ Summed(stats.SUM, history) /\ Summed(stats.PERIOD_SUM, period)
      /\ MeanOf(stats.AVG, history) /\ VarianceOf(stats.VAR, history)
      /\ Least(stats.MIN, Bounds(history)) /\ Greatest(stats.MAX, Bounds(history))
      BY DEF KeptStats
<1>3. h \in Seq(Samples) /\ h # <<>> /\ Len(h) = samples + 1
  <2>1. h \in Seq(Samples) /\ Len(h) = Len(history) + 1 /\ Len(history) \in Nat
        BY <1>1
  <2>2. QED
        BY <1>1, <2>1
<1>4. PICK x : stats' = LET s == [next EXCEPT !.WIN_SUM = x]
                        IN  IF due THEN Published(s, TRUE, ready) ELSE s
      BY DEF newSample
<1>5. /\ Added(stats.SUM, r) = SumOf(h) /\ Added(stats.SUM, r) \in Int
      /\ Added(stats.PERIOD_SUM, r) = SumOf(Append(period, r))
      /\ Added(stats.PERIOD_SUM, r) \in Int /\ Append(period, r) # <<>>
      /\ Append(period, r) \in Seq(Samples)
      BY <1>1, <1>2, SampleAdds
<1>6. /\ MeanOf(next.AVG, h) /\ VarianceOf(next.VAR, h)
      /\ next.AVG \in Fractions /\ next.VAR \in Fractions
      BY <1>1, <1>2, NextMoments
<1> DEFINE min == IF isnan(stats.MIN) \/ r < stats.MIN THEN r ELSE stats.MIN
           max == IF isnan(stats.MAX) \/ r > stats.MAX THEN r ELSE stats.MAX
<1>7. /\ min \in Int /\ Least(min, Bounds(h))
      /\ max \in Int /\ Greatest(max, Bounds(h))
      BY <1>1, <1>2, NextBounds
<1>8. /\ next.LAST = r /\ next.SUM = Added(stats.SUM, r)
      /\ next.PERIOD_SUM = Added(stats.PERIOD_SUM, r)
      /\ next.MIN = min /\ next.MAX = max
      BY <1>1 DEF WithSample, StatsType
<1>9. PICK last, sum, period_sum, avg, var, least, most :
        next = [stats EXCEPT !.LAST = last, !.SUM = sum, !.PERIOD_SUM = period_sum,
                             !.AVG = avg, !.VAR = var, !.MIN = least, !.MAX = most]
  <2> DEFINE n == samples + 1
             mean == IF isnan(stats.AVG) THEN <<0, 1>> ELSE stats.AVG
             avg == Times(Plus(Times(<<n - 1, 1>>, mean), <<r, 1>>), <<1, n>>)
             off == Plus(<<r, 1>>, Times(<<-1, 1>>, avg))
             var == IF n < 2 THEN <<0, 1>>
                    ELSE Plus(Times(stats.VAR, <<n - 2, n - 1>>),
                              Times(<<n, (n - 1) * (n - 1)>>, Times(off, off)))
             sum == Added(stats.SUM, r)
             period_sum == Added(stats.PERIOD_SUM, r)
  <2>1. next = [stats EXCEPT !.LAST = r, !.SUM = sum, !.PERIOD_SUM = period_sum,
                             !.AVG = avg, !.VAR = var, !.MIN = min, !.MAX = max]
        BY DEF WithSample
  <2> HIDE DEF next, avg, var, sum, period_sum, min, max
  <2>2. QED
        BY <2>1
<1> HIDE DEF next, min, max, h, due
<1>10. next \in StatsType
  <2>1. /\ next.LAST = last /\ next.SUM = sum /\ next.PERIOD_SUM = period_sum
        /\ next.AVG = avg /\ next.VAR = var /\ next.MIN = least /\ next.MAX = most
        BY <1>1, <1>9 DEF StatsType
  <2>2. r \in Int
        BY DEF ResultBufferAssumption
  <2>3. /\ last \in Numbers /\ sum \in Numbers /\ period_sum \in Numbers
        /\ least \in Numbers /\ most \in Numbers
        /\ avg \in Fractions \cup {NAN} /\ var \in Fractions \cup {NAN}
        BY <1>5, <1>6, <1>7, <1>8, <2>1, <2>2 DEF Numbers
  <2>4. QED
        BY <1>1, <1>9, <2>3 DEF StatsType
<1> DEFINE s == [next EXCEPT !.WIN_SUM = x]
<1>11. /\ stats' \in StatsType
       /\ stats'.SUM = next.SUM /\ stats'.AVG = next.AVG /\ stats'.VAR = next.VAR
       /\ stats'.MIN = next.MIN /\ stats'.MAX = next.MAX
       /\ stats'.PERIOD_SUM = IF due /\ ready THEN NAN ELSE next.PERIOD_SUM
  <2>1. stats' = IF due /\ ready THEN [s EXCEPT !.PERIOD_SUM = NAN] ELSE s
        BY <1>4 DEF Published
  <2>2. s.WIN_SUM = x /\ stats'.WIN_SUM = x
        BY <1>10, <2>1 DEF StatsType
  <2>3. s \in StatsType
        BY <1>10, <2>2 DEF StatsType
  <2>4. NAN \in Numbers
        BY DEF Numbers
  <2>5. /\ s.SUM = next.SUM /\ s.AVG = next.AVG /\ s.VAR = next.VAR
        /\ s.MIN = next.MIN /\ s.MAX = next.MAX /\ s.PERIOD_SUM = next.PERIOD_SUM
        BY <1>10 DEF StatsType
  <2> HIDE DEF s
  <2>6. QED
        BY <2>1, <2>3, <2>4, <2>5 DEF StatsType
<1>12. Bounds(history)' = Bounds(h)
       BY <1>1 DEF Bounds
<1>13. /\ stats'.SUM = SumOf(h) /\ stats'.AVG = next.AVG /\ stats'.VAR = next.VAR
       /\ stats'.MIN = min /\ stats'.MAX = max
       /\ stats'.PERIOD_SUM = IF due /\ ready THEN NAN ELSE SumOf(Append(period, r))
       BY <1>5, <1>8, <1>11
<1>14. /\ (Summed(stats.SUM, history) /\ MeanOf(stats.AVG, history))'
       /\ VarianceOf(stats.VAR, history)'
       BY <1>1, <1>3, <1>6, <1>13 DEF Summed, MeanOf, VarianceOf
<1>15. /\ (Least(stats.MIN, Bounds(history)) /\ Greatest(stats.MAX, Bounds(history)))'
       BY <1>7, <1>12, <1>13 DEF Least, Greatest
<1>16. Summed(stats.PERIOD_SUM, period)' /\ period' \in Seq(Samples)
       /\ (period' = <<>> => stats'.PERIOD_SUM = NAN)
       BY <1>1, <1>5, <1>13 DEF Summed
<1>17. QED
       BY <1>1, <1>3, <1>11, <1>14, <1>15, <1>16 DEF KeptStats

\* A publication ends the period.
LEMMA KeptStatsPublished ==
  ASSUME ResultBufferAssumption, KeptStats, NEW ready \in BOOLEAN, publishResults(ready)
  PROVE  KeptStats'
<1>1. /\ stats' = IF ready THEN [stats EXCEPT !.PERIOD_SUM = NAN] ELSE stats
      /\ period' = IF ready THEN <<>> ELSE period
      /\ UNCHANGED <<history, zero, samples>>
      BY DEF publishResults, Published
<1>2. stats \in StatsType
      BY DEF KeptStats
<1>3. stats' \in StatsType
      BY <1>1, <1>2 DEF StatsType, Numbers
<1>4. /\ stats'.SUM = stats.SUM /\ stats'.AVG = stats.AVG /\ stats'.VAR = stats.VAR
      /\ stats'.MIN = stats.MIN /\ stats'.MAX = stats.MAX
      /\ stats'.PERIOD_SUM = IF ready THEN NAN ELSE stats.PERIOD_SUM
      BY <1>1, <1>2 DEF StatsType
<1>5. Bounds(history)' = Bounds(history)
      BY <1>1 DEF Bounds
<1>6. Summed(stats.PERIOD_SUM, period)' /\ period' \in Seq(Samples)
      /\ (history' = <<>> => period' = <<>>)
      /\ (history' # <<>> /\ period' = <<>> => stats'.PERIOD_SUM = NAN)
      BY <1>1, <1>4 DEF Summed, KeptStats
<1>7. /\ (Summed(stats.SUM, history) /\ MeanOf(stats.AVG, history))'
      /\ VarianceOf(stats.VAR, history)'
      /\ (Least(stats.MIN, Bounds(history)) /\ Greatest(stats.MAX, Bounds(history)))'
      BY <1>1, <1>4, <1>5 DEF KeptStats
<1>8. QED
      BY <1>1, <1>3, <1>6, <1>7 DEF KeptStats

\* A new size of the window changes only the sum of the window.
LEMMA KeptStatsResized ==
  ASSUME KeptStats, NEW s \in WindowSizes, resizeBuffer(s), stats'.WIN_SUM \in Numbers
  PROVE  KeptStats'
<1>1. PICK x : stats' = [stats EXCEPT !.WIN_SUM = x]
      BY DEF resizeBuffer
<1>2. stats \in StatsType /\ UNCHANGED <<history, period, zero, samples>>
      BY DEF KeptStats, resizeBuffer
<1>3. x \in Numbers
      BY <1>1, <1>2 DEF StatsType
<1>4. stats' \in StatsType
      BY <1>1, <1>2, <1>3 DEF StatsType
<1>5. /\ stats'.SUM = stats.SUM /\ stats'.AVG = stats.AVG /\ stats'.VAR = stats.VAR
      /\ stats'.MIN = stats.MIN /\ stats'.MAX = stats.MAX
      /\ stats'.PERIOD_SUM = stats.PERIOD_SUM
      BY <1>1, <1>2 DEF StatsType
<1>6. Bounds(history)' = Bounds(history)
      BY <1>2 DEF Bounds
<1>7. QED
      BY <1>2, <1>4, <1>5, <1>6 DEF KeptStats

\* init starts them again.
LEMMA KeptStatsAgain ==
  ASSUME ResultBufferAssumption, KeptStats, NEW z \in BOOLEAN, init(z)
  PROVE  KeptStats'
<1>1. /\ stats' = Fresh(z) /\ history' = <<>> /\ period' = <<>> /\ samples' = 0
      /\ zero' = z
      BY DEF init
<1>2. Bounds(history)' = IF z THEN {0} ELSE {}
      BY <1>1 DEF Bounds, ToSet
<1>3. <<>> \in Seq(Samples) /\ Len(<<>>) = 0
      OBVIOUS
<1>4. QED
      BY <1>1, <1>2, <1>3, FreshStats DEF KeptStats

-----------------------------------------------------------------------------
(* The window.                                                              *)

\* The cell i before position p of a buffer with z cells.
Back(p, i, z) == IF i <= p THEN p - i ELSE p - i + z

\* Buffers with z cells.
Buffers(z) ==
  [cells : [0 .. z - 1 -> Samples \cup {NAN}], size : {z}, pos : 0 .. z - 1,
   n_samples : 0 .. z, sum : Numbers]

\* Buffer b holds the samples w, the last one just before pos.
Holds(b, w) ==
  /\ w \in Seq(Samples) /\ Len(w) = b.n_samples
  /\ \A i \in 1 .. Len(w) : b.cells[Back(b.pos, i, b.size)] = w[Len(w) - i + 1]
  /\ Summed(b.sum, w)

\* The position before p, counted as the code does it.
LEMMA BackIs ==
  ASSUME NEW z \in Nat \ {0}, NEW p \in 0 .. z - 1, NEW i \in 1 .. z
  PROVE  (p - i + z) % z = Back(p, i, z) /\ Back(p, i, z) \in 0 .. z - 1
<1>1. CASE i <= p
  <2>1. p - i + z \in Nat /\ z <= p - i + z /\ p - i + z - z = p - i /\ p - i \in Nat
        /\ p - i < z
        BY <1>1
  <2>2. ASSUME NEW x \in Nat, z <= x PROVE (x - z) % z = x % z
        BY <2>2, RemainderBelow
  <2>3. (p - i) % z = p - i
        BY <2>1, SmallRemainders
  <2>4. QED
    <3>1. (p - i + z) % z = p - i
          BY <2>1, <2>2, <2>3
    <3>2. QED
          BY <1>1, <3>1 DEF Back
<1>2. CASE i > p
  <2>1. p - i + z \in Nat /\ p - i + z < z
        BY <1>2
  <2>2. (p - i + z) % z = p - i + z
        BY <2>1, SmallRemainders
  <2>3. QED
        BY <1>2, <2>1, <2>2 DEF Back
<1>3. QED
      BY <1>1, <1>2

\* The cells before the position after p are p and those before it.
LEMMA BackFromNext ==
  ASSUME NEW z \in Nat \ {0}, NEW p \in 0 .. z - 1
  PROVE  /\ (p + 1) % z \in 0 .. z - 1
         /\ Back((p + 1) % z, 1, z) = p
         /\ \A i \in 2 .. z : /\ Back((p + 1) % z, i, z) = Back(p, i - 1, z)
                              /\ Back(p, i - 1, z) # p
<1>1. CASE p + 1 = z
  <2>1. z <= z /\ z - z = 0 /\ 0 < z /\ z \in Nat /\ 0 \in Nat
        OBVIOUS
  <2>2. 0 % z = z % z
        BY <2>1, RemainderBelow
  <2>3. 0 % z = 0
        BY <2>1, SmallRemainders
  <2>4. (p + 1) % z = 0
        BY <1>1, <2>2, <2>3
  <2>5. QED
        BY <1>1, <2>4 DEF Back
<1>2. CASE p + 1 < z
  <2>1. p + 1 \in Nat
        OBVIOUS
  <2>2. (p + 1) % z = p + 1
        BY <1>2, <2>1, SmallRemainders
  <2>3. QED
        BY <1>2, <2>2 DEF Back
<1>3. QED
      BY <1>1, <1>2

\* The newest elements of a sequence.
LEMMA NewestIs ==
  ASSUME NEW S, NEW s \in Seq(S), NEW n \in Nat
  PROVE  LET k == IF n <= Len(s) THEN n ELSE Len(s)
         IN  /\ Newest(s, n) \in Seq(S) /\ Len(Newest(s, n)) = k
             /\ \A i \in 1 .. k : Newest(s, n)[i] = s[Len(s) - k + i]
<1> DEFINE k == IF n <= Len(s) THEN n ELSE Len(s)
           l == Len(s)
<1>1. l \in Nat /\ k \in 0 .. l
      OBVIOUS
<1>2. Min({n, l}) = k
      BY <1>1 DEF Min
<1>3. Newest(s, n) = SubSeq(s, l - k + 1, l)
      BY <1>2 DEF Newest
<1>4. /\ SubSeq(s, l - k + 1, l) \in Seq(S)
      /\ Len(SubSeq(s, l - k + 1, l)) = k
      /\ \A i \in 1 .. k : SubSeq(s, l - k + 1, l)[i] = s[l - k + i]
  <2>1. \A i \in l - k + 1 .. l : s[i] \in S
        BY <1>1
  <2> HIDE DEF k, l
  <2>2. l - k + 1 \in Int /\ l - k + 1 <= l + 1 /\ l - (l - k + 1) + 1 = k
        BY <1>1
  <2>3. ASSUME NEW i \in 1 .. k
        PROVE  l - k + 1 + i - 1 = l - k + i /\ l - k + i \in l - k + 1 .. l
        BY <1>1
  <2>4. SubSeq(s, l - k + 1, l) = [i \in 1 .. k |-> s[l - k + i]]
        BY <1>1, <2>2, <2>3
  <2>5. QED
        BY <1>1, <2>1, <2>3, <2>4
<1>5. QED
      BY <1>3, <1>4

\* A sample more, which takes the place of the oldest one when the buffer is full.
LEMMA SampleHeld ==
  ASSUME ResultBufferAssumption, NEW z \in Nat \ {0}, NEW b \in Buffers(z), NEW w,
         Holds(b, w), NEW r \in Samples
  PROVE  /\ newSampleWin(b, r) \in Buffers(z)
         /\ Holds(newSampleWin(b, r), Newest(Append(w, r), z))
<1> DEFINE n == Len(w)
           a == Append(w, r)
           u == Newest(a, z)
           c == newSampleWin(b, r)
           p == b.pos
           q == (p + 1) % z
<1>1. /\ b.size = z /\ p \in 0 .. z - 1 /\ b.n_samples = n /\ n \in 0 .. z
      /\ b.cells \in [0 .. z - 1 -> Samples \cup {NAN}]
      /\ w \in Seq(Samples) /\ b.sum \in Numbers
      /\ \A i \in 1 .. n : b.cells[Back(p, i, z)] = w[n - i + 1]
      /\ Summed(b.sum, w)
      BY DEF Buffers, Holds
<1>2. /\ a \in Seq(Samples) /\ Len(a) = n + 1 /\ a[n + 1] = r
      /\ \A i \in 1 .. n : a[i] = w[i]
      BY <1>1
<1>3. /\ q \in 0 .. z - 1 /\ Back(q, 1, z) = p
      /\ \A i \in 2 .. z : Back(q, i, z) = Back(p, i - 1, z) /\ Back(p, i - 1, z) # p
      BY <1>1, BackFromNext
<1>4. r \in Int /\ Samples \subseteq Int /\ NAN \notin Int
      BY DEF ResultBufferAssumption
<1> DEFINE k == IF z <= n + 1 THEN z ELSE n + 1
<1>5. /\ u \in Seq(Samples) /\ Len(u) = k
      /\ \A i \in 1 .. k : u[i] = a[n + 1 - k + i]
  <2> HIDE DEF a, n, c, q, p
  <2>1. z \in Nat /\ Len(a) = n + 1 /\ n \in Nat
        BY <1>1, <1>2
  <2>2. LET m == IF z <= Len(a) THEN z ELSE Len(a)
        IN  /\ Newest(a, z) \in Seq(Samples) /\ Len(Newest(a, z)) = m
            /\ \A i \in 1 .. m : Newest(a, z)[i] = a[Len(a) - m + i]
        BY ONLY <1>2, <2>1, NewestIs
  <2>3. k = IF z <= Len(a) THEN z ELSE Len(a)
        BY <2>1
  <2>4. k \in Nat
        BY <2>1
  <2> HIDE DEF k, u
  <2>5. /\ Newest(a, z) \in Seq(Samples) /\ Len(Newest(a, z)) = k
        /\ \A i \in 1 .. k : Newest(a, z)[i] = a[Len(a) - k + i]
        BY ONLY <2>2, <2>3
  <2>6. QED
        BY <2>1, <2>4, <2>5 DEF u
<1>6. /\ c.n_samples = k /\ c.size = z /\ c.pos = q
      /\ c.cells = [b.cells EXCEPT ![p] = r]
      /\ c.sum = Added(IF n >= z THEN b.sum - b.cells[p] ELSE b.sum, r)
  <2>1. b.n_samples >= b.size <=> n >= z
        BY <1>1
  <2>2. k = IF n >= z THEN n ELSE n + 1
        BY <1>1
  <2>3. QED
        BY <1>1, <2>1, <2>2 DEF newSampleWin, Buffers
<1>7. c = [b EXCEPT !.n_samples = c.n_samples, !.sum = c.sum, !.cells = c.cells, !.pos = c.pos]
  <2> DEFINE full == b.n_samples >= b.size
             m == IF full THEN b.n_samples ELSE b.n_samples + 1
             sum == Added(IF full THEN b.sum - b.cells[b.pos] ELSE b.sum, r)
             cells == [b.cells EXCEPT ![b.pos] = r]
             pp == (b.pos + 1) % b.size
  <2>1. c = [b EXCEPT !.n_samples = m, !.sum = sum, !.cells = cells, !.pos = pp]
        BY DEF newSampleWin, Buffers
  <2> HIDE DEF c, m, sum, cells, pp
  <2>2. c.n_samples = m /\ c.sum = sum /\ c.cells = cells /\ c.pos = pp
        BY <2>1 DEF Buffers
  <2>3. QED
        BY <2>1, <2>2
<1>8. k \in 1 .. z /\ k <= n + 1 /\ (n >= z => k = z /\ n = z) /\ (~(n >= z) => k = n + 1)
      BY <1>1
<1> HIDE DEF u, c, q, k, n, a, p
<1>9. Summed(c.sum, u) /\ c.sum \in Int
  <2>1. CASE n >= z
    <3>1. n = z /\ z \in 1 .. n /\ k = z
          BY <1>8, <2>1
    <3>2. b.cells[p] = w[1]
      <4>1. Back(p, z, z) = p /\ n - z + 1 = 1
            BY <1>1, <3>1 DEF Back
      <4>2. QED
            BY <1>1, <3>1, <4>1
    <3>3. w # <<>> /\ w[1] \in Int /\ w[1] = a[1]
      <4>1. 1 \in 1 .. n /\ n # 0
            BY <3>1
      <4>2. w[1] \in Samples /\ Len(w) # 0
            BY <1>1, <4>1 DEF n
      <4>3. w # <<>>
            BY <4>2
      <4>4. w[1] = a[1] /\ w[1] \in Int
            BY <1>2, <1>4, <4>1, <4>2
      <4>5. QED
            BY <4>3, <4>4
    <3>4. b.sum = SumOf(w) /\ SumOf(w) \in Int /\ a \in Seq(Int) /\ w \in Seq(Int)
          BY <1>1, <1>2, <3>3, SamplesAreNumbers, SumType DEF Summed
    <3>5. c.sum = SumOf(w) - w[1] + r
      <4>1. b.sum - b.cells[p] \in Int
            BY <3>2, <3>3, <3>4
      <4>2. b.sum - b.cells[p] # NAN
            BY <1>4, <4>1
      <4>3. QED
            BY <1>6, <2>1, <3>2, <3>4, <4>2 DEF Added, isnan
    <3>6. u = Tail(a)
      <4>1. Tail(a) \in Seq(Samples) /\ Len(Tail(a)) = n
            /\ \A i \in 1 .. n : Tail(a)[i] = a[i + 1]
            BY <1>2, <3>1
      <4>2. Len(u) = n /\ \A i \in 1 .. n : u[i] = a[i + 1]
        <5>1. n \in Nat /\ n = k
              BY <3>1
        <5>2. ASSUME NEW i \in 1 .. n PROVE n + 1 - k + i = i + 1
              BY ONLY <5>1, i \in 1 .. n
        <5>3. QED
              BY <1>5, <5>1, <5>2
      <4>3. QED
            BY <1>5, <4>1, <4>2, SameSequence
    <3>7. a # <<>>
      <4>1. Len(a) # 0
            BY <1>1, <1>2
      <4>2. QED
            BY <4>1
    <3>8. SumOf(u) = SumOf(a) - a[1]
          BY <3>4, <3>6, <3>7, SumTail
    <3>9. SumOf(a) = SumOf(w) + r
          BY <1>4, <3>4, SumAppend DEF a
    <3>10. u # <<>>
           BY <1>5, <3>1
    <3>11. QED
           BY <1>4, <3>3, <3>4, <3>5, <3>8, <3>9, <3>10 DEF Summed
  <2>2. CASE ~(n >= z)
    <3>1. k = n + 1
          BY <1>8, <2>2
    <3>2. u = a
      <4>1. \A i \in 1 .. n + 1 : u[i] = a[i]
        <5>1. n \in Nat
              BY <1>1
        <5>2. ASSUME NEW i \in 1 .. n + 1 PROVE n + 1 - k + i = i
              BY ONLY <3>1, <5>1, i \in 1 .. n + 1
        <5>3. QED
              BY <1>5, <3>1, <5>2
      <4>2. QED
            BY <1>2, <1>5, <3>1, <4>1, SameSequence
    <3>3. c.sum = Added(b.sum, r)
          BY <1>6, <2>2
    <3>4. QED
          BY <1>1, <3>2, <3>3, SampleAdds DEF Summed, a
  <2>3. QED
        BY <2>1, <2>2
<1>10. ASSUME NEW i \in 1 .. k
      PROVE  c.cells[Back(q, i, z)] = u[k - i + 1]
  <2>1. CASE i = 1
    <3>1. c.cells[p] = r
          BY <1>1, <1>6
    <3>2. u[k - 1 + 1] = r
      <4>1. k \in 1 .. k /\ k - 1 + 1 = k /\ n + 1 - k + k = n + 1
            BY <1>1, <1>8
      <4>2. QED
            BY <1>2, <1>5, <4>1
    <3>3. QED
          BY <1>3, <2>1, <3>1, <3>2
  <2>2. CASE i # 1
    <3>1. i \in 2 .. z /\ i - 1 \in 1 .. n /\ i - 1 \in 1 .. z
          BY <1>1, <1>8, <2>2
    <3>2. Back(q, i, z) = Back(p, i - 1, z) /\ Back(p, i - 1, z) # p
          BY <1>3, <3>1
    <3>3. Back(p, i - 1, z) \in 0 .. z - 1
          BY <1>1, <3>1, BackIs
    <3>4. c.cells[Back(q, i, z)] = b.cells[Back(p, i - 1, z)]
          BY <1>1, <1>6, <3>2, <3>3
    <3>5. b.cells[Back(p, i - 1, z)] = w[n - (i - 1) + 1]
          BY <1>1, <3>1
    <3>6. k - i + 1 \in 1 .. k /\ n + 1 - k + (k - i + 1) = n - (i - 1) + 1
          /\ n - (i - 1) + 1 \in 1 .. n
      <4>1. n \in Nat /\ k \in Nat /\ i \in 2 .. k /\ k <= n + 1
            BY <1>1, <1>8, <2>2
      <4>2. QED
            BY ONLY <4>1
    <3>7. QED
          BY <1>2, <1>5, <3>4, <3>5, <3>6
  <2>3. QED
        BY <2>1, <2>2
<1>11. c \in Buffers(z)
  <2>1. c.cells \in [0 .. z - 1 -> Samples \cup {NAN}]
        BY <1>1, <1>6
  <2>2. k \in 0 .. z
        BY <1>8
  <2>3. c.sum \in Numbers
        BY <1>9 DEF Numbers
  <2>4. QED
        BY <1>3, <1>6, <1>7, <2>1, <2>2, <2>3 DEF Buffers
<1>12. Holds(c, u)
      BY <1>5, <1>6, <1>9, <1>10 DEF Holds
<1>13. QED
       BY <1>11, <1>12 DEF u, c, a

\* Nothing is dropped when all elements may be kept.
LEMMA NewestAll ==
  ASSUME NEW S, NEW s \in Seq(S), NEW n \in Nat, Len(s) <= n
  PROVE  Newest(s, n) = s
<1> DEFINE k == IF n <= Len(s) THEN n ELSE Len(s)
           u == Newest(s, n)
<1>1. u \in Seq(S) /\ Len(u) = k /\ \A i \in 1 .. k : u[i] = s[Len(s) - k + i]
      BY NewestIs
<1>2. k = Len(s) /\ Len(s) \in Nat
      OBVIOUS
<1> HIDE DEF k, u
<1>3. \A i \in 1 .. k : Len(s) - k + i = i
      BY <1>2
<1>4. QED
      BY <1>1, <1>2, <1>3, SameSequence DEF u

\* Samples put into an empty buffer one by one, no more than it has cells.
LEMMA SamplesHeld ==
  ASSUME ResultBufferAssumption, NEW z \in Nat \ {0}, NEW base \in Buffers(z),
         Holds(base, <<>>), NEW v \in Seq(Samples), Len(v) <= z
  PROVE  /\ FoldLeft(newSampleWin, base, v) \in Buffers(z)
         /\ Holds(FoldLeft(newSampleWin, base, v), v)
<1> DEFINE n == Len(v)
           V == {b \in Buffers(z) : \E w : Holds(b, w)}
           X == SUBSET (1 .. n)
           iter == CHOOSE f : f = [t \in X |-> IF t = {} THEN base
                                               ELSE newSampleWin(f[t \ {Max(t)}], v[Max(t)])]
           step == [i \in 1 .. n |-> [b \in V |-> newSampleWin(b, v[i])]]
<1>1. n \in Nat /\ DOMAIN v = 1 .. n /\ (\A k \in 1 .. n : v[k] \in Samples) /\ n <= z
      OBVIOUS
<1>2. FoldLeft(newSampleWin, base, v) = iter[1 .. n]
      BY <1>1, Zenon DEF FoldLeft, MapThenFoldSet
<1>3. base \in V
      OBVIOUS
<1>4. \A i \in 1 .. n : \A b \in V : newSampleWin(b, v[i]) \in V
  <2>1. SUFFICES ASSUME NEW i \in 1 .. n, NEW b \in V PROVE newSampleWin(b, v[i]) \in V
        OBVIOUS
  <2>2. PICK w : Holds(b, w)
        OBVIOUS
  <2>3. /\ newSampleWin(b, v[i]) \in Buffers(z)
        /\ Holds(newSampleWin(b, v[i]), Newest(Append(w, v[i]), z))
        BY <1>1, <2>2, SampleHeld
  <2>4. QED
        BY <2>3
<1> HIDE DEF V
<1>5. step \in [1 .. n -> [V -> V]]
      BY <1>4
<1>6. \A i \in 1 .. n : \A b \in V : step[i][b] = newSampleWin(b, v[i])
      OBVIOUS
<1> HIDE DEF n, step
<1>7. PICK f \in [X -> V] : Folds(f, n, base, step)
  <2>1. n \in Nat
        BY <1>1
  <2>2. QED
        BY ONLY <1>3, <1>5, <2>1, FoldExists
<1>8. \A t \in X : t # {} => Max(t) \in 1 .. n /\ t \ {Max(t)} \in X
      BY <1>1, MaxOfSubset
<1>9. f = [t \in X |-> IF t = {} THEN base ELSE newSampleWin(f[t \ {Max(t)}], v[Max(t)])]
      BY <1>6, <1>7, <1>8 DEF Folds
<1>10. iter = [t \in X |-> IF t = {} THEN base
                           ELSE newSampleWin(iter[t \ {Max(t)}], v[Max(t)])]
       BY <1>9
<1> HIDE DEF iter
<1>11. iter[{}] = base /\ 1 .. 0 = {}
       BY <1>10
<1>12. ASSUME NEW k \in 1 .. n
       PROVE  iter[1 .. k] = newSampleWin(iter[1 .. k - 1], v[k])
  <2>1. n \in Nat /\ k \in Nat /\ 1 <= k /\ k <= n
        BY <1>1
  <2>2. 1 .. k \in X /\ 1 .. k # {} /\ k \in Nat
    <3>1. k \in 1 .. k /\ \A i \in 1 .. k : i \in 1 .. n
          BY ONLY <2>1
    <3>2. QED
          BY <2>1, <3>1
  <2>3. Max(1 .. k) \in 1 .. k /\ \A x \in 1 .. k : x <= Max(1 .. k)
        BY <2>2, MaxOfSubset
  <2>4. Max(1 .. k) = k
        BY <2>2, <2>3
  <2>5. (1 .. k) \ {k} = 1 .. k - 1
        BY <2>2
  <2>6. QED
        BY <1>10, <2>2, <2>4, <2>5
<1> DEFINE first(k) == SubSeq(v, 1, k)
           S == {k \in Nat : k <= n => iter[1 .. k] \in Buffers(z) /\ Holds(iter[1 .. k], first(k))}
<1>13. ASSUME NEW k \in 0 .. n
       PROVE  /\ first(k) \in Seq(Samples) /\ Len(first(k)) = k
              /\ \A i \in 1 .. k : first(k)[i] = v[i]
       BY <1>1 DEF n
<1>14. first(0) = <<>> /\ first(n) = v
  <2>1. 0 \in 0 .. n /\ n \in 0 .. n
        BY <1>1
  <2>2. first(0) = <<>>
        BY <1>13, <2>1
  <2>3. first(n) = v
    <3> HIDE DEF first
    <3>1. QED
          BY <1>13, <2>1, SameSequence DEF n
  <2>4. QED
        BY <2>2, <2>3
<1> HIDE DEF first
<1>15. 0 \in S
       BY <1>11, <1>14
<1>16. ASSUME NEW k \in Nat, k \in S
       PROVE  k + 1 \in S
  <2> SUFFICES ASSUME k + 1 <= n
               PROVE  iter[1 .. k + 1] \in Buffers(z) /\ Holds(iter[1 .. k + 1], first(k + 1))
      BY <1>1
  <2>1. k + 1 \in 1 .. n /\ k + 1 - 1 = k /\ k <= n /\ k \in 0 .. n /\ k + 1 \in 0 .. n
        BY <1>1
  <2>2. iter[1 .. k] \in Buffers(z) /\ Holds(iter[1 .. k], first(k))
        BY <1>16, <2>1
  <2>3. iter[1 .. k + 1] = newSampleWin(iter[1 .. k], v[k + 1])
        BY <1>12, <2>1
  <2> DEFINE a == Append(first(k), v[k + 1])
  <2>4. /\ a \in Seq(Samples) /\ Len(a) = k + 1 /\ a[k + 1] = v[k + 1]
        /\ \A i \in 1 .. k : a[i] = v[i]
        BY <1>1, <1>13, <2>1
  <2>5. a = first(k + 1)
    <3> HIDE DEF a
    <3>1. \A i \in 1 .. k + 1 : a[i] = first(k + 1)[i]
      <4>1. \A i \in 1 .. k + 1 : i \in 1 .. k \/ i = k + 1
            OBVIOUS
      <4>2. QED
            BY <1>13, <2>1, <2>4, <4>1
    <3>2. QED
          BY <1>13, <2>1, <2>4, <3>1, SameSequence
  <2> HIDE DEF a
  <2>6. Newest(a, z) = a
    <3>1. k + 1 <= z /\ z \in Nat
          BY <1>1, <2>1
    <3>2. QED
          BY <2>4, <3>1, NewestAll
  <2>7. QED
    <3>1. v[k + 1] \in Samples
          BY <1>1, <2>1
    <3>2. /\ newSampleWin(iter[1 .. k], v[k + 1]) \in Buffers(z)
          /\ Holds(newSampleWin(iter[1 .. k], v[k + 1]), Newest(a, z))
          BY <2>2, <3>1, SampleHeld DEF a
    <3>3. QED
          BY <2>3, <2>5, <2>6, <3>2
<1> HIDE DEF S
<1>17. n \in S
       BY <1>1, <1>15, <1>16, Induction
<1>18. QED
       BY <1>1, <1>2, <1>14, <1>17 DEF S

\* An empty buffer.
LEMMA EmptyHolds ==
  ASSUME NEW z \in Nat \ {0}, NEW x \in {0, NAN}
  PROVE  LET b == [cells |-> Empty(z), size |-> z, pos |-> 0, n_samples |-> 0, sum |-> x]
         IN  b \in Buffers(z) /\ Holds(b, <<>>)
<1>1. Empty(z) \in [0 .. z - 1 -> Samples \cup {NAN}] /\ 0 \in 0 .. z - 1 /\ 0 \in 0 .. z
      /\ x \in Numbers
      BY DEF Empty, Numbers
<1>2. QED
      BY <1>1 DEF Buffers, Holds, Summed

\* The buffer of another size holds the newest samples.
LEMMA ResizedHolds ==
  ASSUME ResultBufferAssumption, NEW z \in Nat \ {0}, Current \in Buffers(z),
         Holds(Current, window), NEW s \in Nat \ {0}
  PROVE  Resized(s) \in Buffers(s) /\ Holds(Resized(s), Newest(window, s))
<1> DEFINE l == Len(window)
           v == Newest(window, s)
           kept == Min({s, size, n_samples})
           base == [cells |-> Empty(s), size |-> s, pos |-> 0, n_samples |-> 0, sum |-> 0]
           old == [i \in 1 .. kept |-> circular_buffer[(pos - kept + i - 1 + size) % size]]
<1>1. /\ size = z /\ pos \in 0 .. z - 1 /\ n_samples = l /\ l \in 0 .. z
      /\ window \in Seq(Samples)
      /\ \A i \in 1 .. l : circular_buffer[Back(pos, i, z)] = window[l - i + 1]
      BY DEF Buffers, Holds, Current
<1> DEFINE k == IF s <= l THEN s ELSE l
<1>2. k \in 0 .. l /\ k <= s /\ k <= z
      BY <1>1
<1>3. kept = k
      BY <1>1 DEF Min
<1>4. /\ v \in Seq(Samples) /\ Len(v) = k
      /\ \A i \in 1 .. k : v[i] = window[l - k + i]
      BY <1>1, NewestIs
<1>5. old = [i \in 1 .. k |-> circular_buffer[(pos - k + i - 1 + z) % z]]
      BY <1>1, <1>3
<1> HIDE DEF k, kept, v, old, l
<1>6. ASSUME NEW i \in 1 .. k
      PROVE  circular_buffer[(pos - k + i - 1 + z) % z] = v[i]
  <2> DEFINE j == k - i + 1
  <2>1. j \in 1 .. z /\ j \in 1 .. l /\ pos - k + i - 1 + z = pos - j + z
        /\ l - j + 1 = l - k + i
        BY <1>1, <1>2
  <2> HIDE DEF j
  <2>2. (pos - j + z) % z = Back(pos, j, z)
        BY <1>1, <2>1, BackIs
  <2>3. QED
    <3>1. (pos - k + i - 1 + z) % z = Back(pos, j, z)
          BY <2>1, <2>2, Zenon
    <3>2. circular_buffer[Back(pos, j, z)] = window[l - k + i]
          BY <1>1, <2>1
    <3>3. QED
          BY <1>4, <3>1, <3>2
<1>7. old = v
  <2>1. k \in Nat /\ v = [i \in 1 .. k |-> v[i]]
        BY <1>1, <1>2, <1>4
  <2>2. QED
        BY <1>5, <1>6, <2>1
<1>8. Resized(s) = FoldLeft(newSampleWin, base, old)
      BY Zenon DEF Resized, old, kept
<1>9. base \in Buffers(s) /\ Holds(base, <<>>)
      BY EmptyHolds
<1> HIDE DEF base
<1>10. QED
       BY <1>2, <1>4, <1>7, <1>8, <1>9, SamplesHeld DEF v

\* The sum of the squares of how far the samples, from the last one back, are from
\* the mean, each times their number.
LEMMA SquaresOff ==
  ASSUME NEW w \in Seq(Int)
  PROVE  LET n == Len(w)
             t == SumOf(w)
             off(i) == t - n * w[n - i + 1]
         IN  SumOf([i \in 1 .. n |-> off(i) * off(i)]) = n * (n * Squares(w) - t * t)
<1> DEFINE n == Len(w)
           t == SumOf(w)
           sq == [i \in DOMAIN w |-> w[i] * w[i]]
           off(i) == t - n * w[n - i + 1]
           s == [i \in 1 .. n |-> off(i) * off(i)]
<1>1. n \in Nat /\ t \in Int /\ DOMAIN w = 1 .. n /\ \A i \in 1 .. n : w[i] \in Int
      BY SumType
<1>2. sq \in Seq(Int) /\ Len(sq) = n /\ \A i \in 1 .. n : sq[i] = w[i] * w[i]
  <2>1. \A i \in 1 .. n : w[i] * w[i] \in Int
        BY <1>1
  <2>2. QED
        BY <1>1, <2>1
<1>3. SumOf(sq) = Squares(w)
      BY DEF SumOf, Squares
<1> HIDE DEF n, sq
<1>4. PICK f : SumsUp(f, w) /\ t = f[n]
      BY SumSteps DEF n
<1>5. PICK q : SumsUp(q, sq) /\ Squares(w) = q[n]
      BY <1>2, <1>3, SumSteps
<1> HIDE DEF t
<1>6. /\ f \in [0 .. n -> Int] /\ f[0] = 0 /\ \A k \in 1 .. n : f[k] = f[k - 1] + w[k]
      /\ q \in [0 .. n -> Int] /\ q[0] = 0
      /\ \A k \in 1 .. n : q[k] = q[k - 1] + w[k] * w[k]
      BY <1>2, <1>4, <1>5 DEF SumsUp, n
<1> DEFINE h == [k \in 0 .. n |-> k * (t * t) - 2 * n * t * (t - f[n - k])
                                    + n * n * (q[n] - q[n - k])]
<1>7. ASSUME NEW k \in 0 .. n
      PROVE  f[n - k] \in Int /\ q[n - k] \in Int /\ q[n] \in Int /\ h[k] \in Int
             /\ h[k] = k * (t * t) - 2 * n * t * (t - f[n - k]) + n * n * (q[n] - q[n - k])
  <2>1. n - k \in 0 .. n /\ n \in 0 .. n
        BY <1>1
  <2>2. f[n - k] \in Int /\ q[n - k] \in Int /\ q[n] \in Int
        BY <1>6, <2>1
  <2>3. k * (t * t) - 2 * n * t * (t - f[n - k]) + n * n * (q[n] - q[n - k]) \in Int
    <3> DEFINE x == f[n - k]
               y == q[n - k]
               z == q[n]
    <3>1. x \in Int /\ y \in Int /\ z \in Int /\ n \in Int /\ k \in Int /\ t \in Int
          BY <1>1, <2>2
    <3> HIDE DEF x, y, z
    <3>2. k * (t * t) - 2 * n * t * (t - x) + n * n * (z - y) \in Int
          BY ONLY <3>1
    <3>3. QED
          BY <3>2 DEF x, y, z
  <2>4. QED
        BY <2>2, <2>3
<1>8. \A k \in 1 .. n : off(k) \in Int /\ s[k] = off(k) * off(k)
  <2> SUFFICES ASSUME NEW k \in 1 .. n PROVE off(k) \in Int
      OBVIOUS
  <2>1. n - k + 1 \in 1 .. n
        BY <1>1
  <2>2. QED
        BY <1>1, <2>1
<1>9. s \in Seq(Int) /\ Len(s) = n
  <2>1. \A k \in 1 .. n : off(k) * off(k) \in Int
        BY <1>8
  <2> HIDE DEF off
  <2>2. QED
        BY <1>1, <2>1
<1>10. h[0] = 0
  <2>1. 0 \in 0 .. n /\ n - 0 = n
        BY <1>1
  <2>2. h[0] = 0 * (t * t) - 2 * n * t * (t - f[n]) + n * n * (q[n] - q[n])
        BY <1>7, <2>1
  <2>3. q[n] \in Int
        BY <1>7, <2>1
  <2>4. QED
        BY <1>1, <1>4, <2>2, <2>3
<1>11. ASSUME NEW k \in 1 .. n
       PROVE  h[k] = h[k - 1] + s[k]
  <2> DEFINE j == n - k + 1
             x == w[j]
             fj == f[n - k]
             qj == q[n - k]
             qn == q[n]
  <2>1. j \in 1 .. n /\ j - 1 = n - k /\ n - (k - 1) = j
        /\ k \in 0 .. n /\ k - 1 \in 0 .. n /\ k \in Int
        BY <1>1
  <2>2. f[j] = fj + x /\ q[j] = qj + x * x /\ x \in Int
        BY <1>1, <1>6, <2>1
  <2>3. fj \in Int /\ qj \in Int /\ qn \in Int
        BY <1>7, <2>1
  <2>4. h[k] = k * (t * t) - 2 * n * t * (t - fj) + n * n * (qn - qj)
        BY <1>7, <2>1
  <2>5. h[k - 1] = (k - 1) * (t * t) - 2 * n * t * (t - (fj + x)) + n * n * (qn - (qj + x * x))
        BY <1>7, <2>1, <2>2
  <2>6. s[k] = (t - n * x) * (t - n * x)
        BY <1>8
  <2> HIDE DEF h, s, off, j, x, fj, qj, qn
  <2>7. k * (t * t) - 2 * n * t * (t - fj) + n * n * (qn - qj)
          = (k - 1) * (t * t) - 2 * n * t * (t - (fj + x)) + n * n * (qn - (qj + x * x))
            + (t - n * x) * (t - n * x)
        BY <1>1, <2>1, <2>2, <2>3
  <2>8. QED
        BY <2>4, <2>5, <2>6, <2>7
<1>12. h \in [0 .. n -> Int]
       BY <1>7
<1> HIDE DEF h, s
<1>13. SumOf(s) = h[n]
  <2>1. SumsUp(h, s)
        BY <1>9, <1>10, <1>11, <1>12 DEF SumsUp
  <2>2. QED
        BY <1>9, <2>1, SumIs
<1>14. h[n] = n * (n * Squares(w) - t * t)
  <2>1. n \in 0 .. n /\ n - n = 0 /\ 0 \in 0 .. n
        BY <1>1
  <2>2. h[n] = n * (t * t) - 2 * n * t * (t - 0) + n * n * (q[n] - 0) /\ q[n] \in Int
        BY <1>6, <1>7, <2>1
  <2>3. QED
        BY <1>1, <1>5, <2>2
<1>15. QED
       BY <1>13, <1>14 DEF s, t, n, off

\* The inductive invariant of the window.
KeptWindow ==
  /\ size \in WindowSizes
  /\ Current \in Buffers(size) /\ Holds(Current, window)
  /\ window # <<>> => stats.LAST = window[Len(window)]

\* The statistics of the window are those of the samples it holds.
LEMMA WindowStats ==
  ASSUME ResultBufferAssumption, KeptWindow
  PROVE  StatsOfWindow
<1> SUFFICES ASSUME window # <<>> PROVE StatsOfWindow
    BY DEF StatsOfWindow
<1> DEFINE n == n_samples
           w == window
           cell(i) == circular_buffer[(pos - i + size) % size]
           t == stats.WIN_SUM
           off(i) == t - n * cell(i)
           squares == SumOf([i \in 1 .. n |-> off(i) * off(i)])
<1>1. /\ size \in Nat \ {0} /\ pos \in 0 .. size - 1 /\ n = Len(w) /\ n \in 1 .. size
      /\ w \in Seq(Samples) /\ t = SumOf(w) /\ stats.LAST = w[n]
      /\ \A i \in 1 .. n : circular_buffer[Back(pos, i, size)] = w[n - i + 1]
  <2>1. size \in Nat \ {0}
        BY DEF KeptWindow, ResultBufferAssumption
  <2>2. n = Len(w) /\ w \in Seq(Samples) /\ n \in 0 .. size /\ pos \in 0 .. size - 1
        BY <2>1 DEF KeptWindow, Holds, Buffers, Current
  <2>3. n # 0
        BY <2>2
  <2>4. QED
        BY <2>1, <2>2, <2>3 DEF KeptWindow, Holds, Buffers, Current, Summed
<1>2. ASSUME NEW i \in 1 .. n
      PROVE  cell(i) = w[n - i + 1] /\ n - i + 1 \in 1 .. n
  <2>1. i \in 1 .. size
        BY <1>1
  <2>2. (pos - i + size) % size = Back(pos, i, size)
        BY <1>1, <2>1, BackIs
  <2>3. QED
        BY <1>1, <2>2
<1>3. w \in Seq(Int) /\ t \in Int
      BY <1>1, SamplesAreNumbers, SumType
<1> HIDE DEF n, w, t
<1>4. {cell(i) : i \in 1 .. n} = ToSet(w)
  <2>1. ToSet(w) = {w[i] : i \in 1 .. n}
        BY <1>1 DEF ToSet
  <2>2. \A i \in 1 .. n : n - (n - i + 1) + 1 = i /\ n - i + 1 \in 1 .. n
        BY <1>1
  <2> HIDE DEF cell
  <2>3. \A i \in 1 .. n : w[i] = cell(n - i + 1)
        BY <1>2, <2>2
  <2>4. QED
        BY <1>2, <2>1, <2>2, <2>3
<1>5. ToSet(w) \cup {stats.LAST} = ToSet(w)
  <2>1. n \in DOMAIN w /\ w[n] \in ToSet(w)
        BY <1>1 DEF ToSet
  <2>2. QED
        BY <1>1, <2>1
<1>6. squares = n * (n * Squares(w) - t * t)
  <2>1. [i \in 1 .. n |-> off(i) * off(i)]
          = [i \in 1 .. n |-> (t - n * w[n - i + 1]) * (t - n * w[n - i + 1])]
    <3> HIDE DEF cell
    <3>1. QED
          BY <1>2
  <2>2. QED
        BY <1>1, <1>3, <2>1, SquaresOff
<1>7. Total(w) = t /\ Squares(w) \in Int
      BY <1>1, <1>3, SquaresAppend DEF Total, SumOf
<1>8. /\ updateStats.WIN_MIN = Min({cell(i) : i \in 1 .. n} \cup {stats.LAST})
      /\ updateStats.WIN_MAX = Max({cell(i) : i \in 1 .. n} \cup {stats.LAST})
      BY Zenon DEF updateStats, n
<1>9. n > 1 => updateStats.WIN_VAR = <<squares, n * n * (n - 1)>>
      BY Zenon DEF updateStats, n, SumOf, t
<1> HIDE DEF cell, squares
<1>10. n > 1 => Same(updateStats.WIN_VAR, Variance(w))
  <2> SUFFICES ASSUME n > 1 PROVE Same(updateStats.WIN_VAR, Variance(w))
      OBVIOUS
  <2>1. Variance(w) = <<n * Squares(w) - t * t, n * (n - 1)>>
        BY <1>1, <1>7 DEF Variance
  <2>2. n * (n * Squares(w) - t * t) * (n * (n - 1))
          = (n * Squares(w) - t * t) * (n * n * (n - 1))
    <3>1. \A e, m \in Int : m * e * (m * (m - 1)) = e * (m * m * (m - 1))
          OBVIOUS
    <3>2. n \in Int /\ n * Squares(w) - t * t \in Int
          BY <1>1, <1>3, <1>7
    <3>3. QED
          BY <3>1, <3>2
  <2>3. QED
        BY <1>6, <1>9, <2>1, <2>2 DEF Same
<1>11. QED
       BY <1>1, <1>4, <1>5, <1>7, <1>8, <1>10 DEF StatsOfWindow, n, w, t

-----------------------------------------------------------------------------
(* Every step keeps the statistics.                                         *)

\* The inductive invariant of the results.
KeptResults ==
  /\ KeptStats /\ KeptWindow
  /\ samples <= MaxSamples /\ new_data \in BOOLEAN

\* init fills nothing in.
LEMMA KeptInit == ResultBufferAssumption /\ Init => KeptResults
<1> SUFFICES ASSUME ResultBufferAssumption, Init PROVE KeptResults
    OBVIOUS
<1>1. KeptStats
      BY KeptStatsInit
<1>2. KeptWindow
  <2>1. size \in WindowSizes /\ size \in Nat \ {0}
        BY DEF Init, ResultBufferAssumption
  <2>2. Current = [cells |-> Empty(size), size |-> size, pos |-> 0, n_samples |-> 0,
                   sum |-> NAN]
        BY DEF Init, Current, Fresh
  <2>3. window = <<>>
        BY DEF Init
  <2>4. QED
        BY <2>1, <2>2, <2>3, EmptyHolds DEF KeptWindow
<1>3. samples <= MaxSamples /\ new_data \in BOOLEAN
  <2>1. samples = 0 /\ new_data = FALSE
        BY DEF Init
  <2>2. MaxSamples \in Nat
        BY DEF ResultBufferAssumption
  <2>3. samples <= MaxSamples
        BY <2>1, <2>2
  <2>4. new_data \in BOOLEAN
        BY <2>1
  <2>5. QED
        BY <2>3, <2>4
<1>4. QED
      BY <1>1, <1>2, <1>3 DEF KeptResults

\* Setting the buffer to b, and the sum of the window to that of b, makes b current.
LEMMA SetCurrent ==
  ASSUME NEW z, NEW b \in Buffers(z), SetTo(b), stats'.WIN_SUM = b.sum
  PROVE  Current' = b /\ size' = z
  BY DEF SetTo, Current, Buffers

\* A sample keeps all of it.
LEMMA KeptSample ==
  ASSUME ResultBufferAssumption, KeptResults, NEW r \in Samples, NEW ready \in BOOLEAN,
         newSample(r, ready)
  PROVE  KeptResults'
<1> DEFINE b == newSampleWin(Current, r)
           next == WithSample(stats, r, samples + 1)
           s == [next EXCEPT !.WIN_SUM = b.sum]
           due == (samples + 1) % PublishingRate = 0
<1>1. size \in WindowSizes /\ size \in Nat \ {0} /\ stats \in StatsType
      /\ samples \in Nat /\ samples < MaxSamples /\ MaxSamples \in Nat
      BY DEF KeptResults, KeptWindow, KeptStats, ResultBufferAssumption, newSample
<1>2. b \in Buffers(size) /\ Holds(b, Newest(Append(window, r), size))
      BY <1>1, SampleHeld DEF KeptResults, KeptWindow
<1>3. /\ SetTo(b) /\ window' = Newest(Append(window, r), size)
      /\ stats' = IF due THEN Published(s, TRUE, ready) ELSE s
      /\ samples' = samples + 1 /\ new_data' = ~due
      BY DEF newSample
<1>4. stats'.WIN_SUM = b.sum /\ stats'.LAST = r
  <2> HIDE DEF b
  <2>1. next.LAST = r /\ DOMAIN next = DOMAIN stats
        BY <1>1 DEF WithSample, StatsType
  <2> HIDE DEF next
  <2>2. s.LAST = r /\ s.WIN_SUM = b.sum /\ DOMAIN s = DOMAIN stats
        BY <1>1, <2>1 DEF StatsType
  <2> HIDE DEF s, due
  <2>3. QED
        BY <1>1, <1>3, <2>2 DEF Published, StatsType
<1>5. Current' = b /\ size' = size
      BY <1>2, <1>3, <1>4, SetCurrent
<1>6. stats'.WIN_SUM \in Numbers
      BY <1>2, <1>4 DEF Buffers
<1>7. KeptStats'
      BY <1>6, KeptStatsSample DEF KeptResults
<1> HIDE DEF b
<1>8. window' # <<>> => stats'.LAST = window'[Len(window')]
  <2> DEFINE a == Append(window, r)
             l == Len(window)
             k == IF size <= l + 1 THEN size ELSE l + 1
  <2>1. a \in Seq(Samples) /\ Len(a) = l + 1 /\ a[l + 1] = r /\ l \in Nat
        BY DEF KeptResults, KeptWindow, Holds
  <2>2. k \in 1 .. l + 1 /\ l + 1 - k + k = l + 1 /\ k \in 1 .. k
        BY <1>1, <2>1
  <2>3. k = IF size <= Len(a) THEN size ELSE Len(a)
        BY <2>1
  <2> HIDE DEF a, l, k
  <2>4. LET m == IF size <= Len(a) THEN size ELSE Len(a)
        IN  /\ Len(Newest(a, size)) = m
            /\ \A i \in 1 .. m : Newest(a, size)[i] = a[Len(a) - m + i]
        BY <1>1, <2>1, NewestIs
  <2>5. Len(Newest(a, size)) = k /\ Newest(a, size)[k] = a[Len(a) - k + k]
        BY <2>2, <2>3, <2>4
  <2>6. Newest(a, size)[k] = r
        BY <2>1, <2>2, <2>5
  <2>7. QED
        BY <1>3, <1>4, <2>5, <2>6 DEF a
<1>9. KeptWindow'
      BY <1>1, <1>2, <1>3, <1>5, <1>8 DEF KeptWindow
<1>10. samples' <= MaxSamples /\ new_data' \in BOOLEAN
       BY <1>1, <1>3
<1>11. QED
       BY <1>7, <1>9, <1>10 DEF KeptResults

\* A publication keeps all of it.
LEMMA KeptPublished ==
  ASSUME ResultBufferAssumption, KeptResults, NEW ready \in BOOLEAN, publishResults(ready)
  PROVE  KeptResults'
<1>1. KeptStats'
      BY KeptStatsPublished DEF KeptResults
<1>2. stats'.WIN_SUM = stats.WIN_SUM /\ stats'.LAST = stats.LAST
      BY DEF publishResults, Published, KeptResults, KeptStats, StatsType
<1>3. UNCHANGED <<buffer, window, samples>> /\ new_data' = FALSE
      BY DEF publishResults
<1>4. UNCHANGED <<Current, size, window>>
      BY <1>2, <1>3 DEF Current, buffer
<1>5. KeptWindow'
      BY <1>2, <1>4 DEF KeptResults, KeptWindow
<1>6. QED
      BY <1>1, <1>3, <1>5 DEF KeptResults

\* A new size of the window keeps all of it.
LEMMA KeptResized ==
  ASSUME ResultBufferAssumption, KeptResults, NEW s \in WindowSizes, resizeBuffer(s)
  PROVE  KeptResults'
<1> DEFINE b == Resized(s)
           l == Len(window)
           k == IF s <= l THEN s ELSE l
<1>1. size \in Nat \ {0} /\ s \in Nat \ {0} /\ stats \in StatsType
      /\ window \in Seq(Samples)
      BY DEF KeptResults, KeptWindow, KeptStats, Holds, ResultBufferAssumption
<1>2. b \in Buffers(s) /\ Holds(b, Newest(window, s))
      BY <1>1, ResizedHolds DEF KeptResults, KeptWindow
<1> HIDE DEF b
<1>3. /\ SetTo(b) /\ stats' = [stats EXCEPT !.WIN_SUM = b.sum]
      /\ window' = Newest(window, s) /\ UNCHANGED <<samples, new_data>>
      BY DEF resizeBuffer, b
<1>4. stats'.WIN_SUM = b.sum /\ stats'.LAST = stats.LAST
      BY <1>1, <1>3 DEF StatsType
<1>5. Current' = b /\ size' = s
      BY <1>2, <1>3, <1>4, SetCurrent
<1>6. stats'.WIN_SUM \in Numbers
      BY <1>2, <1>4 DEF Buffers
<1>7. KeptStats'
      BY <1>6, KeptStatsResized DEF KeptResults
<1>8. window' # <<>> => stats'.LAST = window'[Len(window')]
  <2>1. Len(window') = k /\ \A i \in 1 .. k : window'[i] = window[l - k + i]
        BY <1>1, <1>3, NewestIs
  <2>2. l \in Nat /\ k \in 0 .. l /\ l - k + k = l
        BY <1>1
  <2>3. ASSUME window' # <<>>
        PROVE  k \in 1 .. k /\ window # <<>>
    <3>1. Len(window') # 0
          BY <1>1, <1>3, <2>3, NewestIs
    <3>2. l # 0
          BY <2>1, <2>2, <3>1
    <3>3. QED
          BY <1>1, <2>1, <2>2, <3>1, <3>2
  <2>4. window # <<>> => stats.LAST = window[l]
        BY DEF KeptResults, KeptWindow
  <2> HIDE DEF l, k
  <2>5. QED
        BY <1>4, <2>1, <2>2, <2>3, <2>4
<1>9. KeptWindow'
      BY <1>1, <1>2, <1>3, <1>5, <1>8 DEF KeptWindow
<1>10. QED
       BY <1>3, <1>7, <1>9 DEF KeptResults

\* Another init keeps all of it.
LEMMA KeptAgain ==
  ASSUME ResultBufferAssumption, KeptResults, NEW z \in BOOLEAN, init(z)
  PROVE  KeptResults'
<1>1. KeptStats'
      BY KeptStatsAgain DEF KeptResults
<1>2. size \in WindowSizes /\ size \in Nat \ {0} /\ MaxSamples \in Nat
      BY DEF KeptResults, KeptWindow, ResultBufferAssumption
<1>3. PICK x \in {0, NAN} : stats'.WIN_SUM = x
      BY DEF init, Fresh
<1>4. Current' = [cells |-> Empty(size), size |-> size, pos |-> 0, n_samples |-> 0, sum |-> x]
      BY <1>3 DEF init, Current
<1>5. window' = <<>> /\ size' = size /\ samples' = 0 /\ new_data' = new_data
      BY DEF init
<1>6. KeptWindow'
      BY <1>2, <1>4, <1>5, EmptyHolds DEF KeptWindow
<1>7. QED
      BY <1>1, <1>2, <1>5, <1>6 DEF KeptResults

\* A step that leaves the variables as they are.
LEMMA KeptStutter == KeptResults /\ UNCHANGED vars => KeptResults'
<1> SUFFICES ASSUME KeptResults, UNCHANGED vars PROVE KeptResults'
    OBVIOUS
<1>1. UNCHANGED <<Current, window, size, stats, history, period, zero, samples, new_data>>
      BY DEF vars, buffer, Current
<1>2. UNCHANGED Bounds(history)
      BY <1>1 DEF Bounds
<1>3. KeptStats'
      BY <1>1, <1>2 DEF KeptResults, KeptStats
<1>4. KeptWindow'
      BY <1>1 DEF KeptResults, KeptWindow
<1>5. QED
      BY <1>1, <1>3, <1>4 DEF KeptResults

\* Every step keeps all of it.
LEMMA KeptNext == ResultBufferAssumption /\ KeptResults /\ [Next]_vars => KeptResults'
<1> SUFFICES ASSUME ResultBufferAssumption, KeptResults, [Next]_vars PROVE KeptResults'
    OBVIOUS
<1>1. ASSUME NEW r \in Samples, NEW ready \in BOOLEAN, newSample(r, ready)
      PROVE  KeptResults'
      BY <1>1, KeptSample
<1>2. ASSUME NEW ready \in BOOLEAN, publishResults(ready)
      PROVE  KeptResults'
      BY <1>2, KeptPublished
<1>3. ASSUME NEW s \in WindowSizes, resizeBuffer(s)
      PROVE  KeptResults'
      BY <1>3, KeptResized
<1>4. ASSUME NEW z \in BOOLEAN, init(z)
      PROVE  KeptResults'
      BY <1>4, KeptAgain
<1>5. CASE UNCHANGED vars
      BY <1>5, KeptStutter
<1>6. QED
      BY <1>1, <1>2, <1>3, <1>4, <1>5 DEF Next

\* The least and the greatest element of a set are its minimum and its maximum.
LEMMA BoundsAre ==
  ASSUME NEW S, S \subseteq Int, NEW x \in S
  PROVE  /\ (\A e \in S : x <= e) => x = Min(S)
         /\ (\A e \in S : x >= e) => x = Max(S)
<1>1. ASSUME \A e \in S : x <= e PROVE x = Min(S)
  <2>1. Min(S) \in S /\ \A e \in S : Min(S) <= e
        BY <1>1 DEF Min
  <2>2. x <= Min(S) /\ Min(S) <= x /\ x \in Int /\ Min(S) \in Int
        BY <1>1, <2>1
  <2>3. QED
        BY <2>2
<1>2. ASSUME \A e \in S : x >= e PROVE x = Max(S)
  <2>1. Max(S) \in S /\ \A e \in S : Max(S) >= e
        BY <1>2 DEF Max
  <2>2. x >= Max(S) /\ Max(S) >= x /\ x \in Int /\ Max(S) \in Int
        BY <1>2, <2>1
  <2>3. QED
        BY <2>2
<1>3. QED
      BY <1>1, <1>2

\* Where the recurrences hold, the statistics are those of the samples.
LEMMA KeptImplies ==
  ASSUME ResultBufferAssumption, KeptResults
  PROVE  TypeOK /\ StatsOfSamples /\ StatsOfWindow
<1>1. StatsOfWindow
      BY WindowStats DEF KeptResults
<1>2. TypeOK
  <2>1. size \in Nat \ {0} /\ MaxSamples \in Nat
        BY DEF KeptResults, KeptWindow, ResultBufferAssumption
  <2>2. /\ pos \in 0 .. size - 1 /\ n_samples \in 0 .. size
        /\ circular_buffer \in [0 .. size - 1 -> Samples \cup {NAN}]
        /\ window \in Seq(Samples)
        BY DEF KeptResults, KeptWindow, Current, Buffers, Holds
  <2>3. samples \in Nat /\ history \in Seq(Samples) /\ period \in Seq(Samples)
        /\ zero \in BOOLEAN
        BY DEF KeptResults, KeptStats
  <2>4. QED
        BY <2>1, <2>2, <2>3 DEF TypeOK, KeptResults, KeptWindow
<1>3. StatsOfSamples
  <2> SUFFICES ASSUME history # <<>> PROVE StatsOfSamples
      BY DEF StatsOfSamples
  <2>1. KeptStats /\ Samples \subseteq Int
        BY DEF KeptResults, ResultBufferAssumption
  <2>2. stats.SUM = Total(history)
        BY <2>1 DEF KeptStats, Summed, Total, SumOf
  <2>3. Same(stats.AVG, <<Total(history), Len(history)>>)
        BY <2>1 DEF KeptStats, MeanOf, Total, SumOf
  <2>4. Same(stats.VAR, Variance(history))
        BY <2>1 DEF KeptStats, VarianceOf, Variance, Total, SumOf
  <2>5. stats.PERIOD_SUM = IF period = <<>> THEN NAN ELSE Total(period)
        BY <2>1 DEF KeptStats, Summed, Total, SumOf
  <2> DEFINE S == Bounds(history)
  <2>6. S # {} /\ S \subseteq Int
    <3>1. history \in Seq(Samples) /\ Len(history) # 0
          BY <2>1 DEF KeptStats
    <3>2. history[1] \in ToSet(history) /\ ToSet(history) \subseteq Samples
          BY <3>1 DEF ToSet
    <3>3. ToSet(history) \subseteq S /\ S \subseteq ToSet(history) \cup {0}
          BY DEF Bounds
    <3>4. \A e \in S : e \in Samples \/ e = 0
          BY <3>2, <3>3
    <3> HIDE DEF S
    <3>5. \A e \in Samples : e \in Int
          BY <2>1
    <3>6. \A e \in S : e \in Int
          BY <3>4, <3>5
    <3>7. QED
          BY <3>2, <3>3, <3>6
  <2>7. Least(stats.MIN, S) /\ Greatest(stats.MAX, S)
        BY <2>1 DEF KeptStats
  <2> HIDE DEF S
  <2>8. stats.MIN = Min(S)
        BY <2>6, <2>7, BoundsAre DEF Least
  <2>9. stats.MAX = Max(S)
        BY <2>6, <2>7, BoundsAre DEF Greatest
  <2>10. QED
         BY <2>2, <2>3, <2>4, <2>5, <2>8, <2>9 DEF StatsOfSamples, S
<1>4. QED
      BY <1>1, <1>2, <1>3

\* monl/result_buffer.cpp: the statistics published are those of the samples they are
\* about, of all since init and of those in the window.
THEOREM StatsHold ==
  ResultBufferAssumption => (Spec => [](TypeOK /\ StatsOfSamples /\ StatsOfWindow))
<1> SUFFICES ASSUME ResultBufferAssumption
             PROVE  Spec => [](TypeOK /\ StatsOfSamples /\ StatsOfWindow)
    OBVIOUS
<1>1. Init => KeptResults
      BY KeptInit
<1>2. KeptResults /\ [Next]_vars => KeptResults'
      BY KeptNext
<1>3. KeptResults => TypeOK /\ StatsOfSamples /\ StatsOfWindow
      BY KeptImplies
<1>4. QED
      BY <1>1, <1>2, <1>3, PTL DEF Spec
=============================================================================
