---------------------------- MODULE TxPath_proofs ----------------------------
(***************************************************************************)
(* The invariants of TxPath for any rates, sizes, bounds and number of     *)
(* packets.                                                                *)
(*                                                                         *)
(* For DrainPlanned and InOrder the inductive invariant says what the      *)
(* queue and the fates tell of each other: the queue holds the queued      *)
(* packets in the order of their numbers and every packet sent is older    *)
(* than all of them.  For RateRespected it relates the level of the bucket *)
(* to the bytes sent and the time passed since the last leak.              *)
(***************************************************************************)
EXTENDS TxPath, DataLemmas, SequenceTheorems

Types ==
  /\ drain_rate \in Int
  /\ txq \in Seq(Packet)
  /\ events \in Seq(Int)
  /\ submitted \in 0 .. MaxPackets
  /\ fate \in [1 .. MaxPackets -> Fates]

QueueSorted == \A i, j \in 1 .. Len(txq) : i < j => txq[i].nr < txq[j].nr

QueuedIsInQueue ==
  \A n \in 1 .. MaxPackets :
    fate[n] = "queued" <=> \E j \in 1 .. Len(txq) : txq[j].nr = n

NewIsNotSubmitted == \A n \in 1 .. MaxPackets : fate[n] = "new" <=> n > submitted

SentIsOlder ==
  \A n, m \in 1 .. MaxPackets : fate[n] = "sent" /\ fate[m] = "queued" => n < m

Fated == QueueSorted /\ QueuedIsInQueue /\ NewIsNotSubmitted /\ SentIsOlder

IInv == Types /\ Fated /\ DrainPlanned

-----------------------------------------------------------------------------
(* Marks.                                                                   *)

\* ml/util/rateLimiter.c: a mark of one packet changes its fate only.
LEMMA MarkOne ==
  ASSUME NEW p \in Packet, NEW what \in Fates, Types, Mark(<<p>>, what)
  PROVE  fate' = [fate EXCEPT ![p.nr] = what] /\ fate' \in [1 .. MaxPackets -> Fates]
<1>1. Len(<<p>>) = 1 /\ <<p>>[1] = p
      OBVIOUS
<1>2. \A n : (\E j \in 1 .. Len(<<p>>) : <<p>>[j].nr = n) <=> p.nr = n
      BY <1>1
<1>3. QED
      BY <1>2 DEF Mark, Types, Packet

\* ml/util/queueManagement.c: the packets of the queue are those marked so.
LEMMA InQueue ==
  ASSUME Types, QueuedIsInQueue, NEW j \in 1 .. Len(txq)
  PROVE  txq[j] \in Packet /\ txq[j].nr \in 1 .. MaxPackets /\ fate[txq[j].nr] = "queued"
<1>1. txq[j] \in Packet
      BY DEF Types
<1>2. txq[j].nr \in 1 .. MaxPackets
      BY <1>1 DEF Packet
<1>3. QED
      BY <1>1, <1>2 DEF QueuedIsInQueue

\* The length of a packet is a number.
LEMMA LenType ==
  ASSUME NEW p \in Packet
  PROVE  p.len \in Int
<1>1. p.len \in Sizes
      BY DEF Packet
<1>2. \A len \in Sizes : len \in Int
      BY BoundsAssumption
<1>3. QED
      BY <1>1, <1>2

\* It is positive.
LEMMA LenPositive ==
  ASSUME NEW p \in Packet
  PROVE  p.len \in Nat \ {0}
<1>1. p.len \in Sizes
      BY DEF Packet
<1>2. QED
      BY <1>1, BoundsAssumption

\* ml/util/rateLimiter.c: a packet that does not fit has a rate to wait for.
LEMMA DelayType ==
  ASSUME Types, NEW len \in Int, NEW l, ~Fits(l)
  PROVE  Delay(len) \in Int
<1>1. drain_rate > 0
      BY DEF Types, Fits
<1>2. QED
      BY <1>1, ParamsAssumption DEF Delay, Types

-----------------------------------------------------------------------------
(* The rate: the arithmetic of outputRateControl.                           *)

\* ml/util/rateLimiter.c: the usec part of the leak is off by less than a byte, and
\* in favour of the sender only.
LEMMA Truncated ==
  ASSUME NEW r \in Nat, NEW d \in Nat \ {0}, NEW x \in Int, -d < x, x < d
  PROVE  /\ Quotient(r * x, d) \in Int /\ Quotient(r * x, d) >= -r
         /\ x >= 0 => Quotient(r * x, d) >= 0 /\ d * Quotient(r * x, d) <= r * x
         /\ x < 0 => d * Quotient(r * x, d) <= r * x + d - 1
<1>1. CASE x >= 0
  <2>1. r * x \in Nat
        BY <1>1
  <2>2. Quotient(r * x, d) = (r * x) \div d
        BY <2>1 DEF Quotient
  <2>3. /\ (r * x) \div d \in Nat
        /\ (r * x) % d \in 0 .. d - 1
        /\ r * x = d * ((r * x) \div d) + ((r * x) % d)
        BY <2>1, Quotients
  <2> DEFINE y == r * x
             q == y \div d
  <2> HIDE DEF q, y
  <2>4. q \in Nat /\ y \in Nat /\ d * q \in Int /\ d * q <= y /\ Quotient(y, d) = q
        BY <2>1, <2>2, <2>3 DEF q, y
  <2>5. QED
        BY <1>1, <2>4 DEF y
<1>2. CASE x < 0
  <2>1. - (r * x) \in Nat /\ - (r * x) = r * (- x) /\ - x \in Nat
        BY <1>2
  <2> DEFINE y == - (r * x)
             q == y \div d
  <2> HIDE DEF q, y
  <2>a. q \in Nat /\ y \in Nat /\ y % d \in 0 .. d - 1 /\ y = d * q + (y % d)
        BY <2>1, Quotients DEF q, y
  <2>b. d * q \in Nat
        BY <2>a
  <2>2. q \in Nat /\ d * q <= - (r * x) /\ - (r * x) <= d * q + d - 1
        BY <2>a, <2>b DEF y
  <2> USE DEF q, y
  <2>3. Quotient(r * x, d) = - q
        BY <1>2, <2>1, <2>2 DEF Quotient
  <2> HIDE DEF q
  <2>4. q <= r
        BY <2>1, <2>2, ProductSmaller
  <2>5. d * (- q) = - (d * q)
        BY <2>2
  <2>6. QED
        BY <1>2, <2>2, <2>3, <2>4, <2>5
<1>3. QED
      BY <1>1, <1>2

\* ml/util/rateLimiter.c: the leak is never negative, and more than the rate allows,
\* by less than a byte, only across the start of a second.
LEMMA LeakBounds ==
  ASSUME NEW r \in Nat \ {0}, NEW u \in 0 .. TicksPerSec - 1, NEW g \in Nat
  PROVE  /\ Seconds(u, g) \in Nat /\ Usec(u, g) \in 0 .. TicksPerSec - 1
         /\ u + g = TicksPerSec * Seconds(u, g) + Usec(u, g)
         /\ Leaked(r, u, g) \in Nat
         /\ Usec(u, g) < u => Seconds(u, g) >= 1
         /\ TicksPerSec * Leaked(r, u, g)
              <= r * g + (IF Usec(u, g) < u THEN TicksPerSec - 1 ELSE 0)
<1> DEFINE T == TicksPerSec
           s == Seconds(u, g)
           v == Usec(u, g)
           x == v - u
           q == Quotient(r * x, T)
<1>1. T \in Nat \ {0}
      BY ParamsAssumption
<1>2. s \in Nat /\ v \in 0 .. T - 1 /\ u + g = T * s + v
  <2>1. u + g \in Nat
        BY <1>1
  <2> DEFINE y == u + g
  <2> HIDE DEF y
  <2>2. y \div T \in Nat /\ y % T \in 0 .. T - 1 /\ y = T * (y \div T) + (y % T)
        BY <1>1, <2>1, Quotients DEF y
  <2>3. QED
        BY <2>2 DEF y, Seconds, Usec
<1>3. Leaked(r, u, g) = r * s + q
      BY DEF Leaked
<1> HIDE DEF s, v, T
<1>4. x \in Int /\ -T < x /\ x < T /\ g = T * s + x
      BY <1>1, <1>2 DEF T
<1>5. /\ q \in Int /\ q >= -r
      /\ x >= 0 => q >= 0 /\ T * q <= r * x
      /\ x < 0 => T * q <= r * x + T - 1
      BY <1>1, <1>4, Truncated
<1>6. x < 0 => s >= 1
      BY <1>1, <1>2, <1>4
<1> HIDE DEF q
<1>7. r * s + q \in Nat
  <2>1. r * s \in Nat
        BY <1>2
  <2>2. s >= 1 => r * s >= r
        BY <1>2
  <2>3. QED
        BY <1>4, <1>5, <1>6, <2>1, <2>2
<1>8. r * g = T * (r * s) + r * x
      BY <1>1, <1>2, <1>4
<1>9. T * (r * s + q) = T * (r * s) + T * q
      BY <1>1, <1>2, <1>5
<1>10. /\ x >= 0 => T * (r * s + q) <= r * g
       /\ x < 0 => T * (r * s + q) <= r * g + T - 1
  <2>1. T * q \in Int /\ T * (r * s) \in Int /\ r * x \in Int
        BY <1>1, <1>2, <1>4, <1>5
  <2>2. QED
        BY ONLY <1>1, <1>5, <1>8, <1>9, <2>1
<1>11. x < 0 <=> v < u
       BY <1>1, <1>2 DEF T
<1>12. QED
       BY <1>2, <1>3, <1>6, <1>7, <1>10, <1>11, <1>1, <1>4 DEF s, v, T

\* ml/util/rateLimiter.c: seconds enough for the content leave the bucket empty.
LEMMA LongGap ==
  ASSUME NEW r \in Nat \ {0}, NEW b \in Nat, NEW T \in Nat \ {0}, NEW n \in Nat, NEW g \in Nat,
         n >= b \div r + 2, g >= T * n
  PROVE  g * (r + 1) >= T * b + T
<1>1. b \div r \in Nat /\ b <= r * (b \div r) + r
  <2>1. b \div r \in Nat /\ b % r \in 0 .. r - 1 /\ b = r * (b \div r) + (b % r)
        BY Quotients
  <2>2. r * (b \div r) \in Nat
        BY <2>1
  <2>3. QED
        BY ONLY <2>1, <2>2, r \in Nat
<1>2. r * n >= b + 1
  <2>1. r * (b \div r + 2) = r * (b \div r) + 2 * r
        BY <1>1
  <2>2. r * (b \div r + 2) <= r * n
        BY <1>1, Products
  <2>3. r * (b \div r) \in Nat /\ r * n \in Nat
        BY <1>1
  <2>4. QED
        BY ONLY <1>1, <2>1, <2>2, <2>3, r \in Nat \ {0}, b \in Nat
<1>3. g * (r + 1) >= r * g
      OBVIOUS
<1>4. r * g >= r * (T * n)
      BY Products
<1>5. r * (T * n) = T * (r * n)
      OBVIOUS
<1>6. T * (r * n) >= T * (b + 1)
      BY <1>2, Products
<1>7. T * (b + 1) = T * b + T
      OBVIOUS
<1>8. QED
      BY <1>3, <1>4, <1>5, <1>6, <1>7

\* ml/util/rateLimiter.c: the content that is left covers what the exact bucket holds.
LEMMA Settled ==
  ASSUME NEW r \in Nat \ {0}, NEW b \in Nat, NEW u \in 0 .. TicksPerSec - 1, NEW g \in Nat,
         NEW i \in Nat, i = 0 \/ i + g * (r + 1) <= TicksPerSec * b + TicksPerSec - 1 - u
  PROVE  /\ AfterLeak(r, b, u, g) \in 0 .. b
         /\ i <= TicksPerSec * AfterLeak(r, b, u, g) + TicksPerSec - 1 - Usec(u, g)
<1> DEFINE T == TicksPerSec
           s == Seconds(u, g)
           v == Usec(u, g)
           l == Leaked(r, u, g)
           left == AfterLeak(r, b, u, g)
<1>1. T \in Nat \ {0}
      BY ParamsAssumption
<1>2. /\ s \in Nat /\ v \in 0 .. T - 1 /\ u + g = T * s + v /\ l \in Nat
      /\ v < u => s >= 1
      /\ T * l <= r * g + (IF v < u THEN T - 1 ELSE 0)
      BY LeakBounds
<1>3. left = IF s - 1 > b \div r + 1 \/ l > b THEN 0 ELSE b - l
      BY DEF AfterLeak
<1> HIDE DEF T, s, v, l, left
<1>4. left \in 0 .. b
      BY <1>2, <1>3
<1>5. T * s \in Nat /\ g * (r + 1) = r * g + g /\ r * g \in Nat /\ T * b \in Nat /\ T * l \in Nat
      BY <1>1, <1>2
<1>6. s >= 1 => T * s >= T
      BY <1>1, <1>2
<1>7. i <= T * left + T - 1 - v
  <2>1. CASE i = 0
    <3>1. T * left \in Nat
          BY <1>1, <1>4
    <3>2. QED
          BY <1>1, <1>2, <2>1, <3>1
  <2>2. CASE i + g * (r + 1) <= T * b + T - 1 - u /\ s - 1 > b \div r + 1
    <3>1. s - 1 \in Nat /\ s - 1 >= b \div r + 2
      <4>1. b \div r \in Nat
            BY Quotients
      <4>2. QED
            BY <1>2, <2>2, <4>1
    <3>2. g >= T * (s - 1)
      <4>1. T * (s - 1) = T * s - T
            BY <1>1, <1>2
      <4>2. QED
            BY <1>1, <1>2, <1>5, <4>1 DEF T
    <3>3. g * (r + 1) >= T * b + T
          BY <1>1, <3>1, <3>2, LongGap
    <3>4. FALSE
          BY <1>1, <1>5, <2>2, <3>3 DEF T
    <3>5. QED
          BY <3>4
  <2>3. CASE i + g * (r + 1) <= T * b + T - 1 - u /\ ~(s - 1 > b \div r + 1)
    <3>1. i <= T * b - T * l + T - 1 - v
          BY <1>1, <1>2, <1>5, <1>6, <2>3 DEF T
    <3>2. T * b - T * l = T * (b - l)
          BY <1>1, <1>2
    <3>3. CASE l > b
      <4>1. T * (b - l) <= T * 0 /\ left = 0
            BY <1>1, <1>2, <1>3, <3>3
      <4>2. QED
            BY <3>1, <3>2, <4>1, <1>1, <1>2, <1>5
    <3>4. CASE l <= b
      <4>1. left = b - l
            BY <1>2, <1>3, <2>3, <3>4
      <4>2. QED
            BY <3>1, <3>2, <4>1
    <3>5. QED
          BY <1>2, <3>3, <3>4
  <2>4. QED
        BY <2>1, <2>2, <2>3 DEF T
<1>8. QED
      BY <1>4, <1>7 DEF T, v, left

-----------------------------------------------------------------------------
(* The sizes of the queues.                                                 *)

\* ml/util/queueManagement.c: the bytes of a queue are the sum of its lengths.
LEMMA BytesSum ==
  ASSUME NEW q \in Seq(Packet)
  PROVE  \E sum \in [0 .. Len(q) -> Nat] :
           /\ sum[0] = 0
           /\ \A k \in 1 .. Len(q) : sum[k] = sum[k - 1] + q[k].len
           /\ Bytes(q) = sum[Len(q)]
<1> DEFINE n == Len(q)
           X == SUBSET (1 .. n)
           iter == CHOOSE f : f = [s \in X |-> IF s = {} THEN 0
                                               ELSE f[s \ {Max(s)}] + q[Max(s)].len]
           step == [i \in 1 .. n |-> [v \in Nat |-> v + q[i].len]]
<1>1. n \in Nat /\ DOMAIN q = 1 .. n /\ \A k \in 1 .. n : q[k].len \in Nat
  <2>1. \A k \in 1 .. n : q[k] \in Packet
        OBVIOUS
  <2>2. \A p \in Packet : p.len \in Nat
        BY BoundsAssumption DEF Packet
  <2>3. n \in Nat /\ DOMAIN q = 1 .. n
        OBVIOUS
  <2>4. QED
        BY <2>1, <2>2, <2>3
<1>2. Bytes(q) = iter[1 .. n]
      BY <1>1, Zenon DEF Bytes, FoldLeft, MapThenFoldSet
<1>3. step \in [1 .. n -> [Nat -> Nat]]
      BY <1>1
<1>4. \A i \in 1 .. n : \A v \in Nat : step[i][v] = v + q[i].len
      OBVIOUS
<1> HIDE DEF n, step
<1>5. PICK f \in [X -> Nat] : Folds(f, n, 0, step)
      BY <1>1, <1>3, FoldExists
<1>6. \A s \in X : s # {} => Max(s) \in 1 .. n /\ s \ {Max(s)} \in X
      BY <1>1, MaxOfSubset
<1>7. f = [s \in X |-> IF s = {} THEN 0 ELSE f[s \ {Max(s)}] + q[Max(s)].len]
      BY <1>4, <1>5, <1>6 DEF Folds
<1>8. iter = [s \in X |-> IF s = {} THEN 0 ELSE iter[s \ {Max(s)}] + q[Max(s)].len]
      BY <1>7
<1> HIDE DEF iter
<1>9. iter[{}] = 0 /\ 1 .. 0 = {}
      BY <1>8
<1>10. ASSUME NEW k \in 1 .. n
       PROVE  iter[1 .. k] = iter[1 .. k - 1] + q[k].len
  <2>1. 1 .. k \in X /\ 1 .. k # {} /\ k \in Nat
        BY <1>1
  <2>2. Max(1 .. k) \in 1 .. k /\ \A x \in 1 .. k : x <= Max(1 .. k)
        BY <2>1, MaxOfSubset
  <2>3. Max(1 .. k) = k
        BY <2>1, <2>2
  <2>4. (1 .. k) \ {k} = 1 .. k - 1
        BY <2>1
  <2>5. QED
        BY <1>8, <2>1, <2>3, <2>4
<1> DEFINE sum == [k \in 0 .. n |-> iter[1 .. k]]
           S == {k \in Nat : k <= n => iter[1 .. k] \in Nat}
<1>11. 0 \in S
       BY <1>9
<1>12. ASSUME NEW k \in Nat, k \in S
       PROVE  k + 1 \in S
  <2> SUFFICES ASSUME k + 1 <= n PROVE iter[1 .. k + 1] \in Nat
      BY <1>1
  <2>1. k + 1 \in 1 .. n /\ k + 1 - 1 = k /\ k <= n
        BY <1>1
  <2>2. iter[1 .. k] \in Nat
        BY <1>12, <2>1
  <2>3. iter[1 .. k + 1] = iter[1 .. k] + q[k + 1].len
        BY <1>10, <2>1
  <2>4. QED
        BY <1>1, <2>1, <2>2, <2>3
<1> HIDE DEF S
<1>13. \A k \in Nat : k \in S
       BY <1>11, <1>12, Induction
<1>14. sum \in [0 .. n -> Nat]
       BY <1>1, <1>13 DEF S
<1>15. sum[0] = 0 /\ \A k \in 1 .. n : sum[k] = sum[k - 1] + q[k].len
       BY <1>1, <1>9, <1>10
<1>16. Bytes(q) = sum[n]
       BY <1>1, <1>2
<1>17. QED
       BY <1>14, <1>15, <1>16 DEF n

\* Any function that sums up the lengths gives the bytes.
LEMMA BytesIs ==
  ASSUME NEW q \in Seq(Packet), NEW sum \in [0 .. Len(q) -> Int], sum[0] = 0,
         \A k \in 1 .. Len(q) : sum[k] = sum[k - 1] + q[k].len
  PROVE  Bytes(q) = sum[Len(q)]
<1> DEFINE n == Len(q)
<1>1. n \in Nat
      OBVIOUS
<1> HIDE DEF n
<1>2. PICK f \in [0 .. n -> Nat] :
        f[0] = 0 /\ (\A k \in 1 .. n : f[k] = f[k - 1] + q[k].len) /\ Bytes(q) = f[n]
      BY BytesSum DEF n
<1> DEFINE S == {k \in Nat : k <= n => f[k] = sum[k]}
<1>3. 0 \in S
      BY <1>2
<1>4. ASSUME NEW k \in Nat, k \in S
      PROVE  k + 1 \in S
  <2> SUFFICES ASSUME k + 1 <= n PROVE f[k + 1] = sum[k + 1]
      BY <1>1
  <2>1. k + 1 \in 1 .. n /\ k + 1 - 1 = k /\ k <= n
        BY <1>1
  <2>2. f[k] = sum[k]
        BY <1>4, <2>1
  <2>3. f[k + 1] = f[k] + q[k + 1].len
        BY <1>2, <2>1
  <2>4. sum[k + 1] = sum[k] + q[k + 1].len
        BY <2>1 DEF n
  <2>5. QED
        BY <2>2, <2>3, <2>4
<1> HIDE DEF S
<1>5. n \in S
      BY <1>1, <1>3, <1>4, Induction
<1>6. QED
      BY <1>1, <1>2, <1>5 DEF S, n

\* The bytes are a number.
LEMMA BytesType ==
  ASSUME NEW q \in Seq(Packet)
  PROVE  Bytes(q) \in Nat
<1>1. PICK sum \in [0 .. Len(q) -> Nat] : Bytes(q) = sum[Len(q)]
      BY BytesSum
<1>2. Len(q) \in 0 .. Len(q)
      OBVIOUS
<1>3. QED
      BY <1>1, <1>2

\* An empty queue has none.
LEMMA BytesEmpty == Bytes(<<>>) = 0
<1>1. <<>> \in Seq(Packet) /\ Len(<<>>) = 0
      OBVIOUS
<1>2. PICK sum \in [0 .. Len(<<>>) -> Nat] : sum[0] = 0 /\ Bytes(<<>>) = sum[Len(<<>>)]
      BY <1>1, BytesSum
<1>3. QED
      BY <1>1, <1>2

\* A packet more adds its length.
LEMMA BytesAppend ==
  ASSUME NEW q \in Seq(Packet), NEW p \in Packet
  PROVE  Bytes(Append(q, p)) = Bytes(q) + p.len
<1> DEFINE n == Len(q)
           s == Append(q, p)
<1>1. /\ n \in Nat /\ s \in Seq(Packet) /\ Len(s) = n + 1 /\ s[n + 1] = p
      /\ \A k \in 1 .. n : s[k] = q[k]
      OBVIOUS
<1> HIDE DEF n, s
<1>2. PICK f \in [0 .. n -> Nat] :
        f[0] = 0 /\ (\A k \in 1 .. n : f[k] = f[k - 1] + q[k].len) /\ Bytes(q) = f[n]
      BY BytesSum DEF n
<1> DEFINE g == [k \in 0 .. n + 1 |-> IF k = n + 1 THEN f[n] + p.len ELSE f[k]]
<1>3. /\ g \in [0 .. n + 1 -> Int] /\ g[n + 1] = f[n] + p.len
      /\ \A k \in 0 .. n : g[k] = f[k]
      BY <1>1, LenType
<1> HIDE DEF g
<1>4. g[0] = 0
      BY <1>1, <1>2, <1>3
<1>5. ASSUME NEW k \in 1 .. n + 1
      PROVE  g[k] = g[k - 1] + s[k].len
  <2>1. CASE k = n + 1
    <3>1. k - 1 = n /\ n \in 0 .. n
          BY <1>1, <2>1
    <3>2. QED
          BY <1>1, <1>3, <2>1, <3>1
  <2>2. CASE k \in 1 .. n
    <3>1. k \in 0 .. n /\ k - 1 \in 0 .. n
          BY <1>1, <2>2
    <3>2. QED
          BY <1>1, <1>2, <1>3, <2>2, <3>1
  <2>3. k = n + 1 \/ k \in 1 .. n
        BY <1>1
  <2>4. QED
        BY <2>1, <2>2, <2>3
<1>6. Bytes(s) = g[n + 1]
      BY <1>1, <1>3, <1>4, <1>5, BytesIs
<1>7. QED
      BY <1>2, <1>3, <1>6 DEF s

\* Taking the first k packets off takes their bytes off.
LEMMA BytesSplit ==
  ASSUME NEW q \in Seq(Packet), NEW k \in 0 .. Len(q)
  PROVE  /\ SubSeq(q, 1, k) \in Seq(Packet) /\ SubSeq(q, k + 1, Len(q)) \in Seq(Packet)
         /\ Bytes(q) = Bytes(SubSeq(q, 1, k)) + Bytes(SubSeq(q, k + 1, Len(q)))
<1> DEFINE n == Len(q)
           a == SubSeq(q, 1, k)
           b == SubSeq(q, k + 1, n)
           m == n - k
<1>1. /\ n \in Nat /\ k \in 0 .. n /\ m \in Nat /\ m = n - k
      /\ a \in Seq(Packet) /\ Len(a) = k /\ \A i \in 1 .. k : a[i] = q[i]
      /\ b \in Seq(Packet) /\ Len(b) = m /\ \A i \in 1 .. m : b[i] = q[k + i]
      OBVIOUS
<1> HIDE DEF n, a, b, m
<1>2. PICK f \in [0 .. n -> Nat] :
        f[0] = 0 /\ (\A i \in 1 .. n : f[i] = f[i - 1] + q[i].len) /\ Bytes(q) = f[n]
      BY BytesSum DEF n
<1> DEFINE g == [i \in 0 .. k |-> f[i]]
           h == [i \in 0 .. m |-> f[k + i] - f[k]]
<1>3. g \in [0 .. k -> Int] /\ \A i \in 0 .. k : g[i] = f[i]
      BY <1>1
<1>4. h \in [0 .. m -> Int] /\ \A i \in 0 .. m : h[i] = f[k + i] - f[k]
  <2>1. \A i \in 0 .. m : k + i \in 0 .. n /\ k \in 0 .. n
        BY <1>1
  <2>2. \A i \in 0 .. m : f[k + i] \in Nat /\ f[k] \in Nat
        BY <2>1
  <2>3. \A i \in 0 .. m : f[k + i] - f[k] \in Int
        BY <2>2
  <2>4. QED
        BY <2>3
<1> HIDE DEF g, h
<1>5. Bytes(a) = g[k]
  <2>1. g[0] = 0
        BY <1>1, <1>2, <1>3
  <2>2. ASSUME NEW i \in 1 .. k
        PROVE  g[i] = g[i - 1] + a[i].len
    <3>1. i \in 0 .. k /\ i - 1 \in 0 .. k /\ i \in 1 .. n
          BY <1>1
    <3>2. QED
          BY <1>1, <1>2, <1>3, <3>1
  <2>3. QED
        BY <1>1, <1>3, <2>1, <2>2, BytesIs
<1>6. Bytes(b) = h[m]
  <2>1. h[0] = 0
    <3>1. 0 \in 0 .. m /\ k + 0 = k /\ f[k] \in Nat
          BY <1>1
    <3>2. QED
          BY <1>4, <3>1
  <2>2. ASSUME NEW i \in 1 .. m
        PROVE  h[i] = h[i - 1] + b[i].len
    <3>1. /\ i \in 0 .. m /\ i - 1 \in 0 .. m /\ k + i \in 1 .. n
          /\ k + (i - 1) = (k + i) - 1 /\ (k + i) - 1 \in 0 .. n
          BY <1>1
    <3>2. h[i] = f[k + i] - f[k] /\ h[i - 1] = f[(k + i) - 1] - f[k]
          BY <1>4, <3>1
    <3>3. f[k + i] = f[(k + i) - 1] + b[i].len
          BY <1>1, <1>2, <3>1
    <3>4. b[i].len \in Int
          BY <1>1, LenType
    <3>5. f[k] \in Int /\ f[(k + i) - 1] \in Int
          BY <1>1, <3>1
    <3>6. QED
          BY <3>2, <3>3, <3>4, <3>5
  <2>3. /\ b \in Seq(Packet) /\ h \in [0 .. Len(b) -> Int] /\ h[0] = 0
        /\ \A i \in 1 .. Len(b) : h[i] = h[i - 1] + b[i].len
        BY <1>1, <1>4, <2>1, <2>2
  <2>4. Bytes(b) = h[Len(b)]
        BY ONLY <2>3, BytesIs
  <2>5. QED
        BY <1>1, <2>4
<1>7. Bytes(q) = Bytes(a) + Bytes(b)
  <2>1. k \in 0 .. k /\ m \in 0 .. m /\ k + (m) = n /\ f[k] \in Nat /\ f[n] \in Nat
        BY <1>1
  <2>2. QED
        BY <1>2, <1>3, <1>4, <1>5, <1>6, <2>1
<1>8. QED
      BY <1>1, <1>7 DEF n, a, b

\* The queues that fit the RTX queue.
Fitting == {q \in Seq(Packet) : Bytes(q) <= RTXmaxSize}

\* ml/util/queueManagement.c: oldest packets make room for one that fits the empty queue.
LEMMA TrimFits ==
  ASSUME NEW q \in Seq(Packet), NEW len \in Nat, RtxRoom(len)
  PROVE  Trim(q, len) \in Seq(Packet) /\ Bytes(Trim(q, len)) + len <= RTXmaxSize
<1> DEFINE n == Len(q)
           fitting == {k \in 0 .. n : Bytes(SubSeq(q, k + 1, n)) + len <= RTXmaxSize}
           k == CHOOSE i \in fitting : \A j \in fitting : i <= j
<1>1. n \in Nat /\ SubSeq(q, n + 1, n) = <<>>
      OBVIOUS
<1>2. n \in fitting
  <2>1. Bytes(SubSeq(q, n + 1, n)) = 0
        BY <1>1, BytesEmpty
  <2>2. Bytes(SubSeq(q, n + 1, n)) + len <= RTXmaxSize
        BY <2>1 DEF RtxRoom
  <2> HIDE DEF n
  <2>3. n \in 0 .. n
        BY <1>1
  <2>4. QED
        BY <2>2, <2>3
<1>3. fitting \subseteq Nat
      OBVIOUS
<1>4. \E i \in fitting : \A j \in fitting : i <= j
  <2> HIDE DEF fitting
  <2>1. QED
        BY <1>2, <1>3, LeastNumber
<1>5. k \in fitting
  <2> HIDE DEF fitting
  <2>1. QED
        BY <1>4
<1>6. Trim(q, len) = SubSeq(q, k + 1, n)
      BY DEF Trim
<1> HIDE DEF k
<1>7. k \in 0 .. n /\ Bytes(SubSeq(q, k + 1, n)) + len <= RTXmaxSize
      BY <1>5
<1>8. SubSeq(q, k + 1, n) \in Seq(Packet)
      BY <1>7, BytesSplit
<1>9. QED
      BY <1>6, <1>7, <1>8

\* ml/util/queueManagement.c: packets that fit one by one leave the RTX queue fitting.
LEMMA KeptFits ==
  ASSUME NEW q \in Fitting, NEW ps \in Seq(Packet), \A i \in 1 .. Len(ps) : RtxRoom(ps[i].len)
  PROVE  Kept(q, ps) \in Fitting
<1> DEFINE n == Len(ps)
           X == SUBSET (1 .. n)
           iter == CHOOSE f : f = [s \in X |->
                     IF s = {} THEN q
                     ELSE Append(Trim(f[s \ {Max(s)}], ps[Max(s)].len), ps[Max(s)])]
           step == [i \in 1 .. n |-> [v \in Fitting |-> Append(Trim(v, ps[i].len), ps[i])]]
<1>1. /\ n \in Nat /\ DOMAIN ps = 1 .. n
      /\ \A i \in 1 .. n : ps[i] \in Packet /\ RtxRoom(ps[i].len)
      OBVIOUS
<1>2. Kept(q, ps) = iter[1 .. n]
      BY <1>1, Zenon DEF Kept, FoldLeft, MapThenFoldSet
<1>3. ASSUME NEW i \in 1 .. n, NEW v \in Fitting
      PROVE  Append(Trim(v, ps[i].len), ps[i]) \in Fitting
  <2>1. ps[i] \in Packet /\ RtxRoom(ps[i].len) /\ ps[i].len \in Nat /\ v \in Seq(Packet)
        BY <1>1, LenType, LenPositive DEF Fitting
  <2> DEFINE t == Trim(v, ps[i].len)
  <2>2. t \in Seq(Packet) /\ Bytes(t) + ps[i].len <= RTXmaxSize
        BY <2>1, TrimFits
  <2> HIDE DEF t
  <2>3. Bytes(Append(t, ps[i])) = Bytes(t) + ps[i].len /\ Append(t, ps[i]) \in Seq(Packet)
        BY <2>1, <2>2, BytesAppend
  <2>4. Append(t, ps[i]) \in Fitting
        BY <2>2, <2>3 DEF Fitting
  <2>5. QED
        BY <2>4 DEF t
<1>4. step \in [1 .. n -> [Fitting -> Fitting]]
      BY <1>3
<1>5. \A i \in 1 .. n : \A v \in Fitting : step[i][v] = Append(Trim(v, ps[i].len), ps[i])
      OBVIOUS
<1> HIDE DEF n, step
<1>6. PICK f \in [X -> Fitting] : Folds(f, n, q, step)
      BY <1>1, <1>4, FoldExists
<1>7. \A s \in X : s # {} => Max(s) \in 1 .. n /\ s \ {Max(s)} \in X
      BY <1>1, MaxOfSubset
<1>8. f = [s \in X |-> IF s = {} THEN q
                       ELSE Append(Trim(f[s \ {Max(s)}], ps[Max(s)].len), ps[Max(s)])]
      BY <1>5, <1>6, <1>7 DEF Folds
<1>9. iter = [s \in X |-> IF s = {} THEN q
                          ELSE Append(Trim(iter[s \ {Max(s)}], ps[Max(s)].len), ps[Max(s)])]
      BY <1>8
<1> HIDE DEF iter
<1>10. iter[{}] = q /\ 1 .. 0 = {}
       BY <1>9
<1>11. ASSUME NEW k \in 1 .. n
       PROVE  iter[1 .. k] = Append(Trim(iter[1 .. k - 1], ps[k].len), ps[k])
  <2>1. 1 .. k \in X /\ 1 .. k # {} /\ k \in Nat
        BY <1>1
  <2>2. Max(1 .. k) \in 1 .. k /\ \A x \in 1 .. k : x <= Max(1 .. k)
        BY <2>1, MaxOfSubset
  <2>3. Max(1 .. k) = k
        BY <2>1, <2>2
  <2>4. (1 .. k) \ {k} = 1 .. k - 1
        BY <2>1
  <2>5. QED
        BY <1>9, <2>1, <2>3, <2>4
<1> DEFINE S == {k \in Nat : k <= n => iter[1 .. k] \in Fitting}
<1>12. 0 \in S
       BY <1>10
<1>13. ASSUME NEW k \in Nat, k \in S
       PROVE  k + 1 \in S
  <2> SUFFICES ASSUME k + 1 <= n PROVE iter[1 .. k + 1] \in Fitting
      BY <1>1
  <2>1. k + 1 \in 1 .. n /\ k + 1 - 1 = k /\ k <= n
        BY <1>1
  <2>2. iter[1 .. k] \in Fitting
        BY <1>13, <2>1
  <2>3. iter[1 .. k + 1] = Append(Trim(iter[1 .. k], ps[k + 1].len), ps[k + 1])
        BY <1>11, <2>1
  <2>4. QED
        BY <1>3, <2>1, <2>2, <2>3
<1> HIDE DEF S
<1>14. n \in S
       BY <1>1, <1>12, <1>13, Induction
<1>15. QED
       BY <1>1, <1>2, <1>14 DEF S

-----------------------------------------------------------------------------
(* Submit.                                                                  *)

\* What addPacketTXqueue does to the queue and the fates.
LEMMA EnqueueFated ==
  ASSUME IInv, NEW p \in Packet, p.nr = submitted + 1, submitted' = submitted + 1,
         Enqueue(p)
  PROVE  /\ txq' \in Seq(Packet) /\ fate' \in [1 .. MaxPackets -> Fates]
         /\ Fated'
         /\ (\A n \in 1 .. MaxPackets : fate'[n] # "dropped")
              => txq' # <<>> /\ \A n \in 1 .. MaxPackets : fate[n] # "dropped"
         /\ txq' = <<>> => txq = <<>>
<1> USE DEF IInv, Types, Fated
<1>1. CASE Mark(<<p>>, "dropped") /\ UNCHANGED txq
  <2>1. fate' = [fate EXCEPT ![p.nr] = "dropped"] /\ fate' \in [1 .. MaxPackets -> Fates]
        BY <1>1, MarkOne DEF Fates
  <2>2. p.nr \in 1 .. MaxPackets /\ fate[p.nr] = "new"
        BY DEF Packet, NewIsNotSubmitted
  <2>3. QueueSorted' /\ QueuedIsInQueue'
        BY <1>1, <2>1, <2>2 DEF QueueSorted, QueuedIsInQueue
  <2>4. NewIsNotSubmitted' /\ SentIsOlder'
        BY <2>1, <2>2 DEF NewIsNotSubmitted, SentIsOlder
  <2>5. fate'[p.nr] = "dropped"
        BY <2>1, <2>2
  <2>6. QED
        BY <1>1, <2>1, <2>2, <2>3, <2>4, <2>5
<1>2. CASE Mark(<<p>>, "queued") /\ txq' = Append(txq, p)
  <2>1. fate' = [fate EXCEPT ![p.nr] = "queued"] /\ fate' \in [1 .. MaxPackets -> Fates]
        BY <1>2, MarkOne DEF Fates
  <2>2. p.nr \in 1 .. MaxPackets /\ fate[p.nr] = "new"
        BY DEF Packet, NewIsNotSubmitted
  <2>3. /\ Len(txq) \in Nat
        /\ txq' \in Seq(Packet) /\ Len(txq') = Len(txq) + 1 /\ txq'[Len(txq) + 1] = p
        /\ \A j \in 1 .. Len(txq) : txq'[j] = txq[j]
        BY <1>2
  <2>4. \A j \in 1 .. Len(txq) : txq[j].nr \in 1 .. MaxPackets /\ fate[txq[j].nr] = "queued"
        BY InQueue
  <2>5. \A j \in 1 .. Len(txq) : txq[j].nr < p.nr
        BY <2>4 DEF NewIsNotSubmitted
  <2>6. QueueSorted'
    <3> SUFFICES ASSUME NEW i \in 1 .. Len(txq'), NEW j \in 1 .. Len(txq'), i < j
                 PROVE  txq'[i].nr < txq'[j].nr
        BY DEF QueueSorted
    <3>1. i \in 1 .. Len(txq) /\ txq'[i] = txq[i]
          BY <2>3
    <3>2. CASE j = Len(txq) + 1
      <4>1. txq'[j] = p
            BY <2>3, <3>2
      <4>2. QED
            BY <2>5, <3>1, <4>1
    <3>3. CASE j \in 1 .. Len(txq)
      <4>1. txq'[j] = txq[j]
            BY <2>3, <3>3
      <4>2. txq[i].nr < txq[j].nr
            BY <3>1, <3>3 DEF QueueSorted
      <4>3. QED
            BY <3>1, <4>1, <4>2
    <3>4. j = Len(txq) + 1 \/ j \in 1 .. Len(txq)
      <4>1. Len(txq) \in Nat /\ Len(txq') = Len(txq) + 1
            BY <2>3
      <4>2. j \in 1 .. Len(txq')
            OBVIOUS
      <4>3. QED
            BY ONLY <4>1, <4>2
    <3>5. QED
          BY <3>2, <3>3, <3>4
  <2>7. QueuedIsInQueue'
    <3> SUFFICES ASSUME NEW n \in 1 .. MaxPackets
                 PROVE  fate'[n] = "queued" <=> \E j \in 1 .. Len(txq') : txq'[j].nr = n
        BY DEF QueuedIsInQueue
    <3>1. CASE n = p.nr
          BY <2>1, <2>2, <2>3, <3>1
    <3>2. CASE n # p.nr
      <4>1. fate'[n] = fate[n]
            BY <2>1, <3>2
      <4>2. ASSUME NEW j \in 1 .. Len(txq'), txq'[j].nr = n
            PROVE  j \in 1 .. Len(txq) /\ txq[j].nr = n
        <5>1. j # Len(txq) + 1
              BY <2>3, <3>2, <4>2
        <5>2. j \in 1 .. Len(txq)
              BY <2>3, <5>1
        <5>3. QED
              BY <2>3, <4>2, <5>2
      <4>4. ASSUME NEW j \in 1 .. Len(txq), txq[j].nr = n
            PROVE  j \in 1 .. Len(txq') /\ txq'[j].nr = n
            BY <2>3, <4>4
      <4>3. QED
            BY <4>1, <4>2, <4>4 DEF QueuedIsInQueue
    <3>3. QED
          BY <3>1, <3>2
  <2>8. NewIsNotSubmitted' /\ SentIsOlder'
        BY <2>1, <2>2 DEF NewIsNotSubmitted, SentIsOlder
  <2>9. QED
        BY <2>1, <2>2, <2>3, <2>6, <2>7, <2>8
<1>3. QED
      BY <1>1, <1>2 DEF Enqueue

\* ml/util/rateLimiter.c: the queue's first packet plans a drain, the others find it.
LEMMA SubmitIInv == IInv /\ Submit => IInv'
<1> SUFFICES ASSUME IInv, Submit PROVE IInv'
    OBVIOUS
<1> USE DEF IInv, Types
<1>1. PICK len \in Sizes : queueOrSendPacket([nr |-> submitted', len |-> len])
      BY DEF Submit
<1> DEFINE p == [nr |-> submitted', len |-> len]
<1>2. /\ submitted' = submitted + 1 /\ submitted' \in 1 .. MaxPackets
      /\ p \in Packet /\ p.nr = submitted + 1 /\ p.len \in Int
      BY <1>1, BoundsAssumption DEF Submit, Packet
<1> HIDE DEF p
<1>3. CASE txq # <<>> /\ Enqueue(p) /\ UNCHANGED <<bucketVars, events>>
  <2>1. drain_rate' = drain_rate /\ events' = events
        BY <1>3 DEF bucketVars
  <2>2. /\ txq' \in Seq(Packet) /\ fate' \in [1 .. MaxPackets -> Fates]
        /\ Fated'
        /\ (\A n \in 1 .. MaxPackets : fate'[n] # "dropped")
             => txq' # <<>> /\ \A n \in 1 .. MaxPackets : fate[n] # "dropped"
        BY <1>2, <1>3, EnqueueFated
  <2>3. DrainPlanned'
        BY <1>3, <2>1, <2>2 DEF DrainPlanned
  <2>4. QED
        BY <1>2, <2>1, <2>2, <2>3
<1>4. CASE /\ txq = <<>> /\ ~Fits(p.len) /\ Fill(0) /\ Enqueue(p)
           /\ events' = Append(events, Delay(p.len))
  <2>1. drain_rate' = drain_rate /\ Delay(p.len) \in Int
        BY <1>2, <1>4, DelayType DEF Fill
  <2>2. events' \in Seq(Int) /\ Len(events') = Len(events) + 1 /\ events' # <<>>
        BY <1>4, <2>1
  <2>3. /\ txq' \in Seq(Packet) /\ fate' \in [1 .. MaxPackets -> Fates]
        /\ Fated'
        /\ (\A n \in 1 .. MaxPackets : fate'[n] # "dropped")
             => txq' # <<>> /\ \A n \in 1 .. MaxPackets : fate[n] # "dropped"
        BY <1>2, <1>4, EnqueueFated
  <2>4. DrainPlanned'
        BY <1>4, <2>2, <2>3 DEF DrainPlanned
  <2>5. QED
        BY <1>2, <2>1, <2>2, <2>3, <2>4
<1>5. CASE /\ txq = <<>> /\ Fill(p.len) /\ Mark(<<p>>, "sent") /\ UNCHANGED <<events, txq>>
  <2>1. drain_rate' = drain_rate /\ events' = events /\ txq' = txq
        BY <1>5 DEF Fill
  <2>2. fate' = [fate EXCEPT ![p.nr] = "sent"] /\ fate' \in [1 .. MaxPackets -> Fates]
        BY <1>2, <1>5, MarkOne DEF Fates
  <2>3. p.nr \in 1 .. MaxPackets /\ fate[p.nr] = "new"
        BY <1>2 DEF Fated, NewIsNotSubmitted
  <2>4. \A n \in 1 .. MaxPackets : fate[n] # "queued" /\ fate'[n] # "queued"
        BY <1>5, <2>2, <2>3 DEF Fated, QueuedIsInQueue
  <2>5. Fated'
    <3>1. QueueSorted'
          BY <1>5, <2>1 DEF QueueSorted
    <3>2. QueuedIsInQueue'
          BY <1>5, <2>1, <2>4 DEF QueuedIsInQueue
    <3>3. NewIsNotSubmitted'
          BY <1>2, <2>2, <2>3 DEF Fated, NewIsNotSubmitted
    <3>4. SentIsOlder'
          BY <2>4 DEF SentIsOlder
    <3>5. QED
          BY <3>1, <3>2, <3>3, <3>4 DEF Fated
  <2>6. DrainPlanned'
        BY <1>5, <2>1, <2>2, <2>3 DEF DrainPlanned
  <2>7. QED
        BY <1>2, <2>1, <2>2, <2>5, <2>6
<1>6. QED
      BY <1>1, <1>3, <1>4, <1>5 DEF queueOrSendPacket, p

-----------------------------------------------------------------------------
(* The callback.                                                            *)

\* ml/util/rateLimiter.c: taking the first k packets leaves the others queued.
LEMMA DequeueFated ==
  ASSUME IInv, NEW k \in 0 .. Len(txq), Dequeue(k), submitted' = submitted
  PROVE  /\ txq' \in Seq(Packet) /\ Len(txq') = Len(txq) - k
         /\ fate' \in [1 .. MaxPackets -> Fates]
         /\ Fated'
         /\ \A n \in 1 .. MaxPackets : fate[n] = "dropped" => fate'[n] = "dropped"
<1> USE DEF IInv, Types, Fated
<1> DEFINE ps == SubSeq(txq, 1, k)
<1>1. /\ txq' \in Seq(Packet) /\ Len(txq') = Len(txq) - k
      /\ \A j \in 1 .. Len(txq') : txq'[j] = txq[k + j]
      BY DEF Dequeue
<1>2. Len(ps) = k /\ \A j \in 1 .. k : ps[j] = txq[j]
      OBVIOUS
<1>3. Mark(ps, "sent")
      BY DEF Dequeue
<1> HIDE DEF ps
<1>4. \A n \in 1 .. MaxPackets :
        fate'[n] = IF \E j \in 1 .. k : txq[j].nr = n THEN "sent" ELSE fate[n]
      BY <1>2, <1>3 DEF Mark
<1>5. fate' \in [1 .. MaxPackets -> Fates]
      BY <1>3 DEF Mark, Fates
<1>6. \A j \in 1 .. Len(txq) : txq[j].nr \in 1 .. MaxPackets /\ fate[txq[j].nr] = "queued"
      BY InQueue
<1>7. QueueSorted'
  <2> SUFFICES ASSUME NEW i \in 1 .. Len(txq'), NEW j \in 1 .. Len(txq'), i < j
               PROVE  txq'[i].nr < txq'[j].nr
      BY DEF QueueSorted
  <2>1. k + i \in 1 .. Len(txq) /\ k + j \in 1 .. Len(txq) /\ k + i < k + j
        BY <1>1
  <2>2. QED
        BY <1>1, <2>1 DEF QueueSorted
<1>8. ASSUME NEW n \in 1 .. MaxPackets
      PROVE  fate'[n] = "queued" <=> \E j \in 1 .. Len(txq') : txq'[j].nr = n
  <2>1. ASSUME fate'[n] = "queued"
        PROVE  \E j \in 1 .. Len(txq') : txq'[j].nr = n
    <3>1. fate[n] = "queued" /\ ~ \E j \in 1 .. k : txq[j].nr = n
          BY <1>4, <2>1
    <3>2. PICK j \in 1 .. Len(txq) : txq[j].nr = n
          BY <3>1 DEF QueuedIsInQueue
    <3>3. j - k \in 1 .. Len(txq') /\ k + (j - k) = j
          BY <1>1, <3>1, <3>2
    <3>4. QED
          BY <1>1, <3>2, <3>3
  <2>2. ASSUME NEW j \in 1 .. Len(txq'), txq'[j].nr = n
        PROVE  fate'[n] = "queued"
    <3>1. k + j \in 1 .. Len(txq) /\ txq[k + j].nr = n
          BY <1>1, <2>2
    <3>2. \A i \in 1 .. k : txq[i].nr < n
          BY <3>1 DEF QueueSorted
    <3>3. \A i \in 1 .. k : txq[i].nr \in Int
          BY <1>6
    <3>4. QED
          BY <1>4, <1>6, <3>1, <3>2, <3>3
  <2>3. QED
        BY <2>1, <2>2
<1>9. NewIsNotSubmitted'
  <2>1. \A n \in 1 .. MaxPackets : fate'[n] = "new" <=> fate[n] = "new"
        BY <1>4, <1>6
  <2>2. QED
        BY <2>1 DEF NewIsNotSubmitted
<1>10. ASSUME NEW n \in 1 .. MaxPackets, NEW m \in 1 .. MaxPackets,
              fate'[n] = "sent", fate'[m] = "queued"
       PROVE  n < m
  <2>1. PICK j \in 1 .. Len(txq') : txq'[j].nr = m
        BY <1>8, <1>10
  <2>2. k + j \in 1 .. Len(txq) /\ txq[k + j].nr = m /\ fate[m] = "queued"
        BY <1>1, <1>6, <2>1
  <2>3. CASE fate[n] = "sent"
        BY <2>2, <2>3 DEF SentIsOlder
  <2>4. CASE fate[n] # "sent"
    <3>1. PICK i \in 1 .. k : txq[i].nr = n
          BY <1>4, <1>10, <2>4
    <3>2. QED
          BY <2>2, <3>1 DEF QueueSorted
  <2>5. QED
        BY <2>3, <2>4
<1>11. QueuedIsInQueue' /\ SentIsOlder'
       BY <1>8, <1>10 DEF QueuedIsInQueue, SentIsOlder
<1>12. \A n \in 1 .. MaxPackets : fate[n] = "dropped" => fate'[n] = "dropped"
       BY <1>4, <1>6
<1>13. QED
       BY <1>1, <1>5, <1>7, <1>9, <1>11, <1>12

\* ml/util/rateLimiter.c: the callback plans its successor unless the queue is empty.
LEMMA FreeSpaceIInv ==
  ASSUME IInv, NEW i \in 1 .. Len(events), freeSpaceInBucket_cb(i)
  PROVE  IInv'
<1> USE DEF IInv, Types
<1>1. RemoveAt(events, i) \in Seq(Int) /\ Len(RemoveAt(events, i)) = Len(events) - 1
      BY RemoveAtLen
<1>2. submitted' = submitted
      BY DEF freeSpaceInBucket_cb
<1>3. CASE txq = <<>> /\ events' = RemoveAt(events, i) /\ UNCHANGED <<bucketVars, queueVars>>
  <2>1. drain_rate' = drain_rate /\ txq' = txq /\ fate' = fate
        BY <1>3 DEF bucketVars, queueVars
  <2>2. QED
        BY <1>1, <1>2, <1>3, <2>1
           DEF DrainPlanned, Fated, QueueSorted, QueuedIsInQueue, NewIsNotSubmitted, SentIsOlder
<1>4. CASE /\ txq # <<>>
           /\ \E k \in 0 .. Len(txq) : Takes(k) /\ Dequeue(k)
           /\ events' = IF txq' = <<>> THEN RemoveAt(events, i)
                        ELSE Append(RemoveAt(events, i), Delay(Head(txq').len))
  <2>1. PICK k \in 0 .. Len(txq) : Takes(k) /\ Dequeue(k)
        BY <1>4
  <2>2. /\ txq' \in Seq(Packet) /\ Len(txq') = Len(txq) - k
        /\ fate' \in [1 .. MaxPackets -> Fates]
        /\ Fated'
        /\ \A n \in 1 .. MaxPackets : fate[n] = "dropped" => fate'[n] = "dropped"
        BY <1>2, <2>1, DequeueFated
  <2>3. drain_rate' = drain_rate
        BY <2>1 DEF Dequeue, Fill
  <2>4. CASE txq' = <<>>
    <3>1. events' = RemoveAt(events, i)
          BY <1>4, <2>4
    <3>2. (\A n \in 1 .. MaxPackets : fate'[n] # "dropped") => Len(events) = 1
          BY <1>4, <2>2 DEF DrainPlanned
    <3>3. DrainPlanned'
      <4>1. Len(events') = Len(events) - 1
            BY <1>1, <3>1
      <4>2. (\A n \in 1 .. MaxPackets : fate'[n] # "dropped") => Len(events') = 0
            BY <3>2, <4>1
      <4>3. QED
            BY <2>4, <4>2 DEF DrainPlanned
    <3>4. QED
          BY <1>1, <1>2, <2>2, <2>3, <3>1, <3>3
  <2>5. CASE txq' # <<>>
    <3>1. Head(txq') \in Packet
          BY <2>2, <2>5
    <3>6. Head(txq').len \in Int
          BY <3>1, LenType
    <3>2. ~Fits(Bytes(SubSeq(txq, 1, k + 1)))
          BY <2>1, <2>2, <2>5 DEF Takes
    <3>3. Delay(Head(txq').len) \in Int
          BY <3>6, <3>2, DelayType
    <3>4. events' \in Seq(Int) /\ Len(events') = Len(events) /\ events' # <<>>
          BY <1>1, <1>4, <2>5, <3>3
    <3>5. QED
          BY <1>2, <1>4, <2>2, <2>3, <2>5, <3>4 DEF DrainPlanned
  <2>6. QED
        BY <2>4, <2>5
<1>5. QED
      BY <1>3, <1>4 DEF freeSpaceInBucket_cb

-----------------------------------------------------------------------------
(* The fates are right.                                                     *)

\* ml/util/rateLimiter.c: nothing is queued or planned at first.
LEMMA InitIInv == Init => IInv
<1> SUFFICES ASSUME Init PROVE IInv
    OBVIOUS
<1>1. Types
      BY ParamsAssumption, BoundsAssumption DEF Init, Types, Fates
<1>2. Fated
      BY <1>1 DEF Init, Types, Fated, QueueSorted, QueuedIsInQueue, NewIsNotSubmitted, SentIsOlder
<1>3. DrainPlanned
      BY DEF Init, DrainPlanned
<1>4. QED
      BY <1>1, <1>2, <1>3 DEF IInv

\* ml/util/rateLimiter.c: IInv is inductive.
LEMMA NextIInv == IInv /\ [Next]_vars => IInv'
<1> SUFFICES ASSUME IInv, [Next]_vars PROVE IInv'
    OBVIOUS
<1>1. CASE Submit
      BY <1>1, SubmitIInv
<1>2. CASE FreeSpace
      BY <1>2, FreeSpaceIInv DEF FreeSpace
<1>3. ASSUME NEW p \in Params, setOutputRateParams(p)
      PROVE  IInv'
  <2>1. drain_rate' \in Int
        BY <1>3, ParamsAssumption DEF setOutputRateParams
  <2>2. UNCHANGED <<txq, events, fate, submitted>>
        BY <1>3 DEF setOutputRateParams, queueVars
  <2>3. QED
        BY <2>1, <2>2 DEF IInv, Types, DrainPlanned, Fated, QueueSorted, QueuedIsInQueue,
                          NewIsNotSubmitted, SentIsOlder
<1>4. CASE Tick
  <2>1. UNCHANGED <<txq, fate, submitted, drain_rate>>
        BY <1>4 DEF Tick, queueVars
  <2>2. events' \in Seq(Int) /\ Len(events') = Len(events)
        BY <1>4 DEF Tick, IInv, Types
  <2>3. (events = <<>>) <=> (events' = <<>>)
        BY <2>2 DEF IInv, Types
  <2>4. QED
        BY <2>1, <2>2, <2>3 DEF IInv, Types, DrainPlanned, Fated, QueueSorted, QueuedIsInQueue,
                                NewIsNotSubmitted, SentIsOlder
<1>5. CASE UNCHANGED vars
  <2>1. UNCHANGED <<txq, events, fate, submitted, drain_rate>>
        BY <1>5 DEF vars, queueVars, bucketVars
  <2>2. QED
        BY <2>1 DEF IInv, Types, DrainPlanned, Fated, QueueSorted, QueuedIsInQueue,
                    NewIsNotSubmitted, SentIsOlder
<1>6. QED
      BY <1>1, <1>2, <1>3, <1>4, <1>5 DEF Next

-----------------------------------------------------------------------------
(* The types, the sizes and the rate.                                       *)

\* What the bucket holds: no more than some size allows, and as much as the exact
\* bucket of RateRespected, which gains at most the rest of the running second.
Bucket ==
  /\ <<bucket_size, drain_rate>> \in Params
  /\ bytes_in_bucket \in Nat /\ \E p \in Params : bytes_in_bucket <= p[1]
  /\ then_usec \in 0 .. TicksPerSec - 1
  /\ gap \in Nat
  /\ ideal \in Nat
  /\ drain_rate > 0 =>
       \/ ideal = 0
       \/ /\ bytes_in_bucket <= bucket_size
          /\ ideal + gap * (drain_rate + 1)
               <= TicksPerSec * bytes_in_bucket + TicksPerSec - 1 - then_usec

\* The queues are what their size fields say.
Queues ==
  /\ txq \in Seq(Packet) /\ txsize = Bytes(txq) /\ txsize <= TXmaxSize
  /\ rtxq \in Fitting /\ rtxsize = Bytes(rtxq)

\* No event is overdue.
Due == events \in Seq(Nat) /\ changes \in 0 .. MaxChanges

SInv == IInv /\ Bucket /\ Queues /\ Due

\* The parameters in use.
LEMMA ParamsTypes ==
  ASSUME Bucket
  PROVE  /\ bucket_size \in Nat /\ drain_rate \in Int
         /\ TicksPerSec \in Nat \ {0}
  <1>1. <<bucket_size, drain_rate>> \in Nat \X Int
        BY ParamsAssumption DEF Bucket
  <1>2. QED
        BY <1>1, ParamsAssumption

\* The usec part is less than a second.
LEMMA UsecType ==
  ASSUME NEW u \in Nat, NEW g \in Nat
  PROVE  Usec(u, g) \in 0 .. TicksPerSec - 1
<1>1. u + g \in Nat /\ TicksPerSec \in Nat \ {0}
      BY ParamsAssumption
<1>2. (u + g) % TicksPerSec \in 0 .. TicksPerSec - 1
      BY <1>1, Quotients
<1>3. QED
      BY <1>2 DEF Usec

\* ml/util/rateLimiter.c: what is left is no more than there was.
LEMMA LeftType ==
  ASSUME Bucket
  PROVE  Left \in 0 .. bytes_in_bucket
<1>1. CASE drain_rate <= 0
      BY <1>1 DEF Left, AfterLeak, Bucket
<1>2. CASE drain_rate > 0
  <2>1. drain_rate \in Nat \ {0}
        BY <1>2, ParamsTypes
  <2>2. 0 = 0 \/ 0 + gap * (drain_rate + 1)
                   <= TicksPerSec * bytes_in_bucket + TicksPerSec - 1 - then_usec
        OBVIOUS
  <2>3. QED
        BY <2>1, <2>2, Settled DEF Left, Bucket
<1>3. QED
      BY <1>1, <1>2, ParamsTypes

\* ml/util/rateLimiter.c: outputRateControl lets a packet in only where it fits, and
\* its integer arithmetic gives no more away than the exact bucket allows.
LEMMA FillBucket ==
  ASSUME Bucket, NEW in \in Nat, in = 0 \/ Fits(in), Fill(in)
  PROVE  Bucket'
<1>1. Left \in 0 .. bytes_in_bucket
      BY LeftType
<1>2. /\ bucket_size' = bucket_size /\ drain_rate' = drain_rate /\ gap' = 0
      /\ then_usec' = Usec(then_usec, gap) /\ then_usec' \in 0 .. TicksPerSec - 1
      BY UsecType DEF Fill, Bucket
<1>3. bucket_size \in Nat /\ drain_rate \in Int /\ TicksPerSec \in Nat \ {0}
      BY ParamsTypes
<1>4. /\ bytes_in_bucket \in Nat /\ ideal \in Nat /\ gap \in Nat
      /\ then_usec \in 0 .. TicksPerSec - 1
      BY DEF Bucket
<1>5. PICK p \in Params : bytes_in_bucket <= p[1]
      BY DEF Bucket
<1>6. \A q \in Params : q[1] \in Nat
      BY ParamsAssumption
<1>7. CASE drain_rate <= 0
  <2>1. bytes_in_bucket' = 0 /\ ideal' = 0
        BY <1>7 DEF Fill
  <2>2. QED
        BY <1>2, <1>3, <1>5, <1>6, <1>7, <2>1 DEF Bucket
<1>8. CASE drain_rate > 0
  <2>1. bytes_in_bucket' = Left + in /\ ideal' = ideal + in * TicksPerSec
        BY <1>3, <1>8 DEF Fill
  <2>2. ideal <= TicksPerSec * Left + TicksPerSec - 1 - then_usec'
    <3>1. drain_rate \in Nat \ {0}
          BY <1>3, <1>8
    <3>2. ideal = 0 \/ ideal + gap * (drain_rate + 1)
                         <= TicksPerSec * bytes_in_bucket + TicksPerSec - 1 - then_usec
          BY <1>8 DEF Bucket
    <3>3. QED
          BY <1>2, <1>4, <3>1, <3>2, Settled DEF Left
  <2>3. TicksPerSec * (Left + in) = TicksPerSec * Left + in * TicksPerSec
        BY <1>1, <1>3
  <2>4. ideal' + 0 * (drain_rate + 1)
          <= TicksPerSec * bytes_in_bucket' + TicksPerSec - 1 - then_usec'
    <3>1. TicksPerSec * Left \in Nat /\ in * TicksPerSec \in Nat /\ 0 * (drain_rate + 1) = 0
          BY <1>1, <1>3
    <3>2. QED
          BY <1>2, <1>3, <1>4, <2>1, <2>2, <2>3, <3>1
  <2>5. bytes_in_bucket' \in Nat /\ ideal' \in Nat
        BY <1>1, <1>3, <1>4, <2>1
  <2>6. CASE in = 0
    <3>1. bytes_in_bucket' <= bytes_in_bucket /\ ideal' = ideal
          BY <1>1, <1>3, <1>4, <2>1, <2>6
    <3>2. \E q \in Params : bytes_in_bucket' <= q[1]
          BY <1>4, <1>5, <1>6, <2>5, <3>1
    <3>3. ideal = 0 \/ bytes_in_bucket' <= bucket_size
          BY <1>3, <1>4, <1>8, <2>5, <3>1 DEF Bucket
    <3>4. QED
          BY <1>2, <2>4, <2>5, <3>1, <3>2, <3>3 DEF Bucket
  <2>7. CASE Fits(in)
    <3>1. bytes_in_bucket' <= bucket_size
          BY <1>3, <1>8, <2>1, <2>7 DEF Fits
    <3>2. <<bucket_size, drain_rate>> \in Params /\ <<bucket_size, drain_rate>>[1] = bucket_size
          BY DEF Bucket
    <3>3. QED
          BY <1>2, <2>4, <2>5, <3>1, <3>2 DEF Bucket
  <2>8. QED
        BY <2>6, <2>7
<1>9. QED
      BY <1>3, <1>7, <1>8

\* ml/util/rateLimiter.c: time empties both buckets.
LEMMA TickBucket ==
  ASSUME Bucket, Tick
  PROVE  Bucket'
<1>1. UNCHANGED <<bucket_size, drain_rate, bytes_in_bucket, then_usec>>
      BY DEF Tick
<1>2. bucket_size \in Nat /\ drain_rate \in Int /\ TicksPerSec \in Nat \ {0}
      BY ParamsTypes
<1>3. /\ bytes_in_bucket \in Nat /\ ideal \in Nat /\ gap \in Nat
      /\ then_usec \in 0 .. TicksPerSec - 1
      BY DEF Bucket
<1>4. gap' \in Nat /\ (gap < MaxGap => gap' = gap + 1)
      BY <1>2, <1>3, GapAssumption DEF Tick
<1>5. ideal' \in Nat /\ (ideal = 0 => ideal' = 0)
      BY <1>2, <1>3 DEF Tick, Drained
<1>6. ASSUME drain_rate > 0, ideal' # 0
      PROVE  /\ bytes_in_bucket <= bucket_size
             /\ ideal' + gap' * (drain_rate + 1)
                  <= TicksPerSec * bytes_in_bucket + TicksPerSec - 1 - then_usec
  <2>1. /\ ideal # 0 /\ bytes_in_bucket <= bucket_size
        /\ ideal + gap * (drain_rate + 1)
              <= TicksPerSec * bytes_in_bucket + TicksPerSec - 1 - then_usec
        BY <1>5, <1>6 DEF Bucket
  <2>2. ideal' = ideal - drain_rate - 1
        BY <1>2, <1>6 DEF Tick, Drained
  <2>3. CASE gap < MaxGap
    <3>1. (gap + 1) * (drain_rate + 1) = gap * (drain_rate + 1) + drain_rate + 1
          BY <1>2, <1>3
    <3>2. gap * (drain_rate + 1) \in Int /\ TicksPerSec * bytes_in_bucket \in Int
          BY <1>2, <1>3
    <3>3. QED
          BY <1>2, <1>3, <1>4, <2>1, <2>2, <2>3, <3>1, <3>2
  <2>4. CASE gap >= MaxGap
    <3>1. PICK p \in Params : bytes_in_bucket <= p[1]
          BY DEF Bucket
    <3>2. p[1] \in Nat
          BY ParamsAssumption
    <3> DEFINE r == drain_rate
               n == p[1] \div r + 5
    <3>3. r \in Nat \ {0} /\ <<bucket_size, drain_rate>> \in Params
          BY <1>2, <1>6 DEF Bucket
    <3>4. p[1] \div r \in Nat
          BY <3>2, <3>3, Quotients
    <3>5. MaxGap >= TicksPerSec * n /\ MaxGap \in Nat
      <4>1. <<bucket_size, drain_rate>>[2] > 0
            BY <1>6
      <4>2. QED
            BY <3>1, <3>3, <4>1, GapAssumption
    <3>6. n \in Nat /\ n >= p[1] \div r + 2
          BY <3>4
    <3> HIDE DEF n
    <3>7. gap >= TicksPerSec * n
      <4>1. TicksPerSec * n \in Nat
            BY <1>2, <3>6
      <4>2. QED
            BY <1>3, <2>4, <3>5, <4>1
    <3>8. gap * (r + 1) >= TicksPerSec * p[1] + TicksPerSec
          BY <1>2, <1>3, <3>2, <3>3, <3>6, <3>7, LongGap
    <3>9. TicksPerSec * bytes_in_bucket <= TicksPerSec * p[1]
          BY <1>2, <1>3, <3>1, <3>2, Products
    <3>10. /\ TicksPerSec * bytes_in_bucket \in Nat /\ TicksPerSec * p[1] \in Nat
           /\ gap * (drain_rate + 1) \in Int
          BY <1>2, <1>3, <3>2
    <3>11. FALSE
          BY <1>2, <1>3, <2>1, <3>8, <3>9, <3>10
    <3>12. QED
          BY <3>11
  <2>5. QED
        BY <1>3, <2>3, <2>4, GapAssumption
<1>7. QED
      BY <1>1, <1>4, <1>5, <1>6 DEF Bucket

\* ml/util/queueManagement.c: addPacketTXqueue counts what it takes, up to its limit.
LEMMA EnqueueQueues ==
  ASSUME Queues, NEW p \in Packet, Enqueue(p), UNCHANGED <<rtxq, rtxsize>>
  PROVE  Queues'
<1>1. CASE UNCHANGED <<txq, txsize>>
      BY <1>1 DEF Queues
<1>2. CASE /\ txsize + p.len <= TXmaxSize
           /\ txq' = Append(txq, p)
           /\ txsize' = txsize + p.len
  <2>1. txq' \in Seq(Packet) /\ Bytes(txq') = Bytes(txq) + p.len
        BY <1>2, BytesAppend DEF Queues
  <2>2. QED
        BY <1>2, <2>1 DEF Queues
<1>3. QED
      BY <1>1, <1>2 DEF Enqueue

\* ml/util/queueManagement.c: addPacketRTXqueue does so by dropping the oldest packets.
LEMMA StoreQueues ==
  ASSUME Queues, NEW ps \in Seq(Packet), \A i \in 1 .. Len(ps) : RtxRoom(ps[i].len), Store(ps)
  PROVE  rtxq' \in Fitting /\ rtxsize' = Bytes(rtxq')
<1>1. PICK k \in 0 .. Len(rtxq) : /\ rtxq' = Kept(Expire(rtxq, k), ps)
                                  /\ rtxsize' = rtxsize - Bytes(rtxq) + Bytes(rtxq')
      BY DEF Store
<1>2. rtxq \in Seq(Packet) /\ Bytes(rtxq) <= RTXmaxSize /\ RTXmaxSize \in Nat
      BY BoundsAssumption DEF Queues, Fitting
<1>3. Expire(rtxq, k) \in Fitting
  <2>1. /\ Expire(rtxq, k) \in Seq(Packet) /\ SubSeq(rtxq, 1, k) \in Seq(Packet)
        /\ Bytes(rtxq) = Bytes(SubSeq(rtxq, 1, k)) + Bytes(Expire(rtxq, k))
        BY <1>2, BytesSplit DEF Expire
  <2>2. Bytes(Expire(rtxq, k)) \in Nat /\ Bytes(SubSeq(rtxq, 1, k)) \in Nat
        BY <2>1, BytesType
  <2>3. Bytes(Expire(rtxq, k)) <= RTXmaxSize
        BY <1>2, <2>1, <2>2
  <2>4. QED
        BY <2>1, <2>3 DEF Fitting
<1>4. rtxq' \in Fitting
      BY <1>1, <1>3, KeptFits
<1>5. Bytes(rtxq) \in Nat /\ Bytes(rtxq') \in Nat /\ rtxsize = Bytes(rtxq)
      BY <1>2, <1>4, BytesType DEF Fitting, Queues
<1>6. QED
      BY <1>1, <1>4, <1>5

\* ml/util/rateLimiter.c: a drain is planned for now or later.
LEMMA DelayDue ==
  ASSUME Bucket, NEW p \in Packet, NEW l, ~Fits(l)
  PROVE  Delay(p.len) \in Nat
<1>1. drain_rate \in Nat \ {0} /\ TicksPerSec \in Nat
      BY ParamsTypes DEF Fits
<1>2. p.len * TicksPerSec \in Nat
      BY <1>1, LenPositive
<1>3. (p.len * TicksPerSec) \div drain_rate \in Nat
      BY <1>1, <1>2, Quotients
<1>4. QED
      BY <1>3 DEF Delay

\* ml/util/rateLimiter.c: a packet handed over.
LEMMA SubmitSInv == SInv /\ Submit => Bucket' /\ Queues' /\ Due'
<1> SUFFICES ASSUME SInv, Submit PROVE Bucket' /\ Queues' /\ Due'
    OBVIOUS
<1>1. PICK len \in Sizes : queueOrSendPacket([nr |-> submitted', len |-> len])
      BY DEF Submit
<1> DEFINE p == [nr |-> submitted', len |-> len]
<1>2. p \in Packet
  <2>1. submitted' \in 1 .. MaxPackets
        BY BoundsAssumption DEF Submit, SInv, IInv, Types
  <2>2. QED
        BY <2>1 DEF Packet
<1>3. changes' = changes /\ changes \in 0 .. MaxChanges /\ Bucket /\ Queues /\ events \in Seq(Nat)
      BY DEF Submit, SInv, Due
<1> HIDE DEF p
<1>4. CASE Enqueue(p) /\ UNCHANGED <<bucketVars, events, rtxq, rtxsize>>
  <2>1. Queues'
        BY <1>2, <1>3, <1>4, EnqueueQueues
  <2>2. Bucket'
        BY <1>3, <1>4 DEF Bucket, bucketVars
  <2>3. QED
        BY <1>3, <1>4, <2>1, <2>2 DEF Due
<1>5. CASE /\ ~Fits(p.len) /\ Fill(0) /\ Enqueue(p) /\ UNCHANGED <<rtxq, rtxsize>>
           /\ events' = Append(events, Delay(p.len))
  <2>1. Queues'
        BY <1>2, <1>3, <1>5, EnqueueQueues
  <2>2. Bucket'
        BY <1>3, <1>5, FillBucket
  <2>3. Delay(p.len) \in Nat
        BY <1>2, <1>3, <1>5, DelayDue
  <2>4. events' \in Seq(Nat)
        BY <1>3, <1>5, <2>3
  <2>5. QED
        BY <1>3, <2>1, <2>2, <2>4 DEF Due
<1>6. CASE /\ Fits(p.len) /\ RtxRoom(p.len) /\ Fill(p.len) /\ Store(<<p>>)
           /\ UNCHANGED <<events, txq, txsize>>
  <2>1. Bucket'
        BY <1>2, <1>3, <1>6, FillBucket, LenPositive
  <2>2. rtxq' \in Fitting /\ rtxsize' = Bytes(rtxq')
    <3>1. <<p>> \in Seq(Packet) /\ \A i \in 1 .. Len(<<p>>) : RtxRoom(<<p>>[i].len)
          BY <1>2, <1>6
    <3>2. QED
          BY <1>3, <1>6, <3>1, StoreQueues
  <2>3. Queues'
        BY <1>3, <1>6, <2>2 DEF Queues
  <2>4. QED
        BY <1>3, <1>6, <2>1, <2>3 DEF Due
<1>7. QED
      BY <1>1, <1>4, <1>5, <1>6 DEF queueOrSendPacket, p

\* ml/util/rateLimiter.c: the callback, with what it takes from the queue.
LEMMA FreeSpaceSInv ==
  ASSUME SInv, NEW i \in 1 .. Len(events), freeSpaceInBucket_cb(i)
  PROVE  Bucket' /\ Queues' /\ Due'
<1>1. changes' = changes /\ changes \in 0 .. MaxChanges /\ Bucket /\ Queues /\ events \in Seq(Nat)
      BY DEF freeSpaceInBucket_cb, SInv, Due
<1>2. RemoveAt(events, i) \in Seq(Nat)
      BY <1>1, RemoveAtLen
<1>3. CASE events' = RemoveAt(events, i) /\ UNCHANGED <<bucketVars, queueVars>>
      BY <1>1, <1>2, <1>3 DEF Bucket, Queues, Due, bucketVars, queueVars
<1>4. CASE /\ \E k \in 0 .. Len(txq) : Takes(k) /\ Dequeue(k)
           /\ events' = IF txq' = <<>> THEN RemoveAt(events, i)
                        ELSE Append(RemoveAt(events, i), Delay(Head(txq').len))
  <2>1. PICK k \in 0 .. Len(txq) : Takes(k) /\ Dequeue(k)
        BY <1>4
  <2> DEFINE ps == SubSeq(txq, 1, k)
  <2>2. txq \in Seq(Packet) /\ txsize = Bytes(txq) /\ txsize <= TXmaxSize /\ TXmaxSize \in Nat
        BY <1>1, BoundsAssumption DEF Queues
  <2>3. /\ ps \in Seq(Packet) /\ txq' \in Seq(Packet)
        /\ Bytes(txq) = Bytes(ps) + Bytes(txq')
        BY <2>1, <2>2, BytesSplit DEF Dequeue
  <2>4. Bytes(ps) \in Nat /\ Bytes(txq') \in Nat
        BY <2>3, BytesType
  <2>5. txsize' = Bytes(txq') /\ txsize' <= TXmaxSize
    <3>1. txsize' = txsize - Bytes(ps)
          BY <2>1 DEF Dequeue
    <3> HIDE DEF ps
    <3>2. QED
          BY <2>2, <2>3, <2>4, <3>1
  <2>6. Bytes(ps) = 0 \/ Fits(Bytes(ps))
    <3>1. CASE k = 0
      <4>1. ps = <<>>
            BY <2>2, <3>1
      <4>2. QED
            BY <4>1, BytesEmpty
    <3>2. CASE k > 0
          BY <2>1, <3>2 DEF Takes
    <3>3. QED
          BY <3>1, <3>2
  <2>7. Bucket'
        BY <1>1, <2>1, <2>4, <2>6, FillBucket DEF Dequeue
  <2>8. rtxq' \in Fitting /\ rtxsize' = Bytes(rtxq')
    <3>1. \A j \in 1 .. Len(ps) : RtxRoom(ps[j].len)
      <4>1. Len(ps) = k /\ \A j \in 1 .. k : ps[j] = txq[j]
            BY <2>2
      <4>2. QED
            BY <2>1, <4>1 DEF Dequeue
    <3>2. Store(ps)
          BY <2>1 DEF Dequeue
    <3> HIDE DEF ps
    <3>3. QED
          BY <1>1, <2>3, <3>1, <3>2, StoreQueues
  <2>9. events' \in Seq(Nat)
    <3>1. CASE txq' = <<>>
          BY <1>2, <1>4, <3>1
    <3>2. CASE txq' # <<>>
      <4>1. Head(txq') \in Packet
            BY <2>3, <3>2
      <4>2. k < Len(txq)
        <5>1. txq' = SubSeq(txq, k + 1, Len(txq))
              BY <2>1 DEF Dequeue
        <5>2. QED
              BY <2>2, <3>2, <5>1
      <4>3. Delay(Head(txq').len) \in Nat
            BY <1>1, <2>1, <4>1, <4>2, DelayDue DEF Takes
      <4>4. QED
            BY <1>2, <1>4, <3>2, <4>3
    <3>3. QED
          BY <3>1, <3>2
  <2>10. QED
         BY <1>1, <2>3, <2>5, <2>7, <2>8, <2>9 DEF Queues, Due
<1>5. QED
      BY <1>3, <1>4 DEF freeSpaceInBucket_cb

\* ml/util/rateLimiter.c: the strengthened invariant holds at first.
LEMMA InitSInv == Init => SInv
<1> SUFFICES ASSUME Init PROVE SInv
    OBVIOUS
<1>1. Bucket
  <2>1. PICK p \in Params : bucket_size = p[1] /\ drain_rate = p[2]
        BY DEF Init
  <2>2. p \in Nat \X Int
        BY ParamsAssumption
  <2>3. <<bucket_size, drain_rate>> = p /\ 0 <= p[1]
        BY <2>1, <2>2
  <2>4. <<bucket_size, drain_rate>> \in Params /\ \E q \in Params : 0 <= q[1]
        BY <2>3
  <2>5. QED
        BY <2>4 DEF Init, Bucket
<1>2. Queues
  <2>1. <<>> \in Seq(Packet) /\ TXmaxSize \in Nat /\ RTXmaxSize \in Nat
        BY BoundsAssumption
  <2>2. QED
        BY <2>1, BytesEmpty DEF Init, Queues, Fitting
<1>3. Due
      BY BoundsAssumption DEF Init, Due
<1>4. QED
      BY <1>1, <1>2, <1>3, InitIInv DEF SInv

\* ml/util/rateLimiter.c: it is inductive.
LEMMA NextSInv == SInv /\ [Next]_vars => SInv'
<1> SUFFICES ASSUME SInv, [Next]_vars PROVE SInv'
    OBVIOUS
<1>1. IInv'
      BY NextIInv DEF SInv
<1> SUFFICES Bucket' /\ Queues' /\ Due'
    BY <1>1 DEF SInv
<1>2. CASE Submit
      BY <1>2, SubmitSInv
<1>3. CASE FreeSpace
      BY <1>3, FreeSpaceSInv DEF FreeSpace
<1>4. ASSUME NEW p \in Params, setOutputRateParams(p)
      PROVE  Bucket' /\ Queues' /\ Due'
  <2>1. p \in Nat \X Int /\ <<p[1], p[2]>> = p
        BY ParamsAssumption
  <2>2. Left \in 0 .. bytes_in_bucket /\ bytes_in_bucket \in Nat /\ gap \in Nat
        /\ then_usec \in Nat
    <3>1. then_usec \in 0 .. TicksPerSec - 1
          BY DEF SInv, Bucket
    <3>2. QED
          BY <3>1, LeftType DEF SInv, Bucket
  <2>3. Usec(then_usec, gap) \in 0 .. TicksPerSec - 1
        BY <2>2, UsecType
  <2>4. \E q \in Params : bytes_in_bucket' <= q[1]
    <3>1. PICK q \in Params : bytes_in_bucket <= q[1]
          BY DEF SInv, Bucket
    <3>2. q[1] \in Nat
          BY ParamsAssumption
    <3>3. bytes_in_bucket' <= q[1]
          BY <1>4, <2>2, <3>1, <3>2 DEF setOutputRateParams
    <3>4. QED
          BY <3>3
  <2>5. Bucket'
        BY <1>4, <2>1, <2>2, <2>3, <2>4 DEF Bucket, setOutputRateParams
  <2>6. Queues' /\ Due'
        BY <1>4, BoundsAssumption DEF SInv, Queues, Due, setOutputRateParams, queueVars
  <2>7. QED
        BY <2>5, <2>6
<1>5. CASE Tick
  <2>1. Bucket'
        BY <1>5, TickBucket DEF SInv
  <2>2. events' \in Seq(Nat)
    <3>1. events \in Seq(Nat)
          BY DEF SInv, Due
    <3>2. \A i \in 1 .. Len(events) : events[i] - 1 \in Nat
          BY <1>5, <3>1 DEF Tick
    <3>3. events' = [i \in 1 .. Len(events) |-> events[i] - 1] /\ Len(events) \in Nat
          BY <1>5, <3>1 DEF Tick
    <3>4. QED
          BY <3>2, <3>3, IsASeq
  <2>3. Queues' /\ Due'
        BY <1>5, <2>2 DEF SInv, Queues, Due, Tick, queueVars
  <2>4. QED
        BY <2>1, <2>3
<1>6. CASE UNCHANGED vars
      BY <1>6 DEF SInv, Bucket, Queues, Due, vars, bucketVars, queueVars
<1>7. QED
      BY <1>2, <1>3, <1>4, <1>5, <1>6 DEF Next

-----------------------------------------------------------------------------
(* The theorems.                                                            *)

\* ml/util/rateLimiter.c: while packets wait a callback is pending, without drops the
\* only one, whatever sizes and rates are used and however the rate changes.
THEOREM DrainPlannedHolds == Spec => []DrainPlanned
<1>1. IInv => DrainPlanned
      BY DEF IInv
<1>2. QED
      BY <1>1, InitIInv, NextIInv, PTL DEF Spec

\* ml/util/rateLimiter.c: no packet overtakes one that is still waiting.
THEOREM InOrderHolds == Spec => []InOrder
<1>1. IInv => InOrder
  <2> SUFFICES ASSUME IInv, NEW i \in 1 .. MaxPackets, NEW j \in 1 .. MaxPackets,
                      i < j, fate[j] = "sent"
               PROVE  fate[i] \in {"sent", "dropped"}
      BY DEF InOrder
  <2>1. fate[i] # "queued"
        BY DEF IInv, Fated, SentIsOlder
  <2>2. fate[i] # "new"
        BY DEF IInv, Types, Fated, NewIsNotSubmitted
  <2>3. QED
        BY <2>1, <2>2 DEF IInv, Types, Fates
<1>2. QED
      BY <1>1, InitIInv, NextIInv, PTL DEF Spec

\* ml/util/rateLimiter.c: the types of the state.
THEOREM TypeCorrect == Spec => []TypeOK
<1>1. SInv => TypeOK
  <2> SUFFICES ASSUME SInv PROVE TypeOK
      OBVIOUS
  <2>1. <<bucket_size, drain_rate>> \in Nat \X Int
        BY ParamsTypes DEF SInv
  <2>2. rtxq \in Seq(Packet) /\ txsize \in Nat /\ rtxsize \in Nat
        BY BytesType DEF SInv, Queues, Fitting
  <2>3. QED
        BY <2>1, <2>2 DEF SInv, IInv, Types, Bucket, Queues, Due, TypeOK
<1>2. QED
      BY <1>1, InitSInv, NextSInv, PTL DEF Spec

\* ml/util/queueManagement.c: the size fields are the bytes queued, within their bounds,
\* for any packets and whatever is dropped, expired or trimmed.
THEOREM SizesConsistentHolds == Spec => []SizesConsistent
<1>1. SInv => SizesConsistent
      BY DEF SInv, Queues, Fitting, SizesConsistent
<1>2. QED
      BY <1>1, InitSInv, NextSInv, PTL DEF Spec

\* ml/util/rateLimiter.c: for every resolution of the clock, rate and size, the integer
\* arithmetic of outputRateControl exceeds neither by more than a byte.
THEOREM RateRespectedHolds == Spec => []RateRespected
<1>1. SInv => RateRespected
  <2> SUFFICES ASSUME SInv, drain_rate > 0
               PROVE  ideal <= (bucket_size + 1) * TicksPerSec
      BY DEF RateRespected
  <2>1. bucket_size \in Nat /\ drain_rate \in Int /\ TicksPerSec \in Nat \ {0}
        BY ParamsTypes DEF SInv
  <2>2. /\ bytes_in_bucket \in Nat /\ ideal \in Nat /\ gap \in Nat
        /\ then_usec \in 0 .. TicksPerSec - 1
        BY DEF SInv, Bucket
  <2>3. (bucket_size + 1) * TicksPerSec = TicksPerSec * bucket_size + TicksPerSec
        /\ TicksPerSec * bucket_size \in Nat
        BY <2>1
  <2>4. CASE ideal = 0
        BY <2>1, <2>3, <2>4
  <2>5. CASE /\ bytes_in_bucket <= bucket_size
             /\ ideal + gap * (drain_rate + 1)
                  <= TicksPerSec * bytes_in_bucket + TicksPerSec - 1 - then_usec
    <3>1. TicksPerSec * bytes_in_bucket <= TicksPerSec * bucket_size
          BY <2>1, <2>2, <2>5, Products
    <3>2. gap * (drain_rate + 1) \in Nat /\ TicksPerSec * bytes_in_bucket \in Nat
          BY <2>1, <2>2
    <3>3. QED
          BY <2>1, <2>2, <2>3, <2>5, <3>1, <3>2
  <2>6. QED
        BY <2>4, <2>5 DEF SInv, Bucket
<1>2. QED
      BY <1>1, InitSInv, NextSInv, PTL DEF Spec
=============================================================================
