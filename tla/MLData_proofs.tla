---------------------------- MODULE MLData_proofs ----------------------------
(***************************************************************************)
(* The invariants of MLData for any messages, sizes and table, whatever    *)
(* the network does.                                                       *)
(*                                                                         *)
(* That no message has two slots rests on nothing the sender does: a       *)
(* packet of a message that has a slot finds it.  WithinBuffer needs that  *)
(* the packets end where their message ends, which Fragments gives and the *)
(* RTX queue keeps.  For DeliveredOnce the inductive invariant says that   *)
(* nothing of a message exists before it is handed over and that one that  *)
(* was handed up is still in its slot or has nothing left under way.       *)
(* CompleteMeansArrived needs that arrivedBytes is the number of bytes     *)
(* that arrived, which a repeated packet breaks.                           *)
(***************************************************************************)
EXTENDS MLData, DataLemmas

\* The packets send_msg makes: they end where their message ends.
Fragment == {p \in Packet : p.len <= Longest /\ p.off + p.len <= p.msg.len}

Of(m) == {p \in Fragment : p.msg = m}
NotOf(m) == {p \in Fragment : p.msg # m}

\* The packets a NACK asks for, and the NACKs that do not ask for m.
AskedBy(n) == {p \in Fragment : p.msg.con = n.con /\ p.msg.seqnr = n.seqnr}
NotAbout(m) == {n \in Nack : n.con # m.con \/ n.seqnr # m.seqnr}

Types ==
  /\ TypeOK
  /\ rtx \in Seq(Fragment)
  /\ net \in Seq(Fragment)

-----------------------------------------------------------------------------
(* The sender.                                                              *)

\* ml/ml.c: the largest payload.
LEMMA LongestIsLargest ==
  /\ Longest \in PayloadSizes /\ Longest \in Nat \ {0}
  /\ \A k \in PayloadSizes : k \in Nat \ {0} /\ k <= Longest
      BY SizesAssumption DEF Longest

\* ml/ml.c: the packets of a message cover it and no more.
LEMMA FragmentsType ==
  ASSUME NEW m \in Messages, NEW size \in PayloadSizes
  PROVE  Fragments(m, size) \in Seq(Of(m))
<1> DEFINE n == (m.len + size - 1) \div size
           frag(i) == [msg |-> m, off |-> (i - 1) * size,
                       len |-> Smaller(size, m.len - (i - 1) * size)]
<1>1. size \in Nat \ {0} /\ size <= Longest /\ Longest \in Nat
      BY LongestIsLargest
<1>2. m.len \in Nat \ {0}
      BY MessagesAssumption DEF Message
<1>3. n \in Nat /\ size * n <= m.len + size - 1
  <2> DEFINE x == m.len + size - 1
  <2>1. x \in Nat
        BY <1>1, <1>2
  <2> HIDE DEF x
  <2>2. x \div size \in Nat /\ x % size \in 0 .. size - 1 /\ x = size * (x \div size) + (x % size)
        BY <1>1, <2>1, Quotients
  <2>3. size * (x \div size) \in Int
        BY <1>1, <2>2
  <2>4. QED
        BY <2>2, <2>3 DEF x
<1>4. ASSUME NEW i \in 1 .. n
      PROVE  frag(i) \in Of(m)
  <2> HIDE DEF n
  <2>1. i \in Nat /\ i - 1 \in Nat /\ i <= n
        BY <1>3
  <2>2. size * i <= size * n
        BY <1>1, <1>3, <2>1, Products
  <2> DEFINE off == (i - 1) * size
  <2>3. off \in Nat /\ size * i = off + size /\ size * n \in Nat
        BY <1>1, <1>3, <2>1
  <2> HIDE DEF off
  <2>4. off + size <= m.len + size - 1
        BY <1>1, <1>2, <1>3, <2>2, <2>3
  <2>5. /\ Smaller(size, m.len - off) \in Nat \ {0}
        /\ Smaller(size, m.len - off) <= Longest
        /\ off + Smaller(size, m.len - off) <= m.len
        BY <1>1, <1>2, <2>3, <2>4 DEF Smaller
  <2>6. [msg |-> m, off |-> off, len |-> Smaller(size, m.len - off)] \in Of(m)
        BY <2>3, <2>5 DEF Of, Fragment, Packet
  <2>7. QED
        BY <2>6 DEF off
<1>5. Fragments(m, size) = [i \in 1 .. n |-> frag(i)]
      BY DEF Fragments
<1> HIDE DEF n, frag
<1>6. [i \in 1 .. n |-> frag(i)] \in [1 .. n -> Of(m)]
      BY <1>4
<1>7. QED
      BY <1>3, <1>5, <1>6

\* ml/util/queueManagement.c: the RTX queue holds old packets and new ones.
LEMMA KeptType ==
  ASSUME NEW S, rtx \in Seq(S), NEW ps \in Seq(S)
  PROVE  Kept(ps) \in Seq(S)
<1> DEFINE q == rtx \o ps
           drop == IF Len(q) > RtxHolds THEN Len(q) - RtxHolds ELSE 0
<1>1. q \in Seq(S) /\ Len(q) \in Nat
      BY ConcatProperties
<1>2. Kept(ps) = SubSeq(q, drop + 1, Len(q))
      BY DEF Kept
<1> HIDE DEF q
<1>3. drop \in Nat
      BY <1>1, SizesAssumption
<1> HIDE DEF drop
<1>4. \A i \in drop + 1 .. Len(q) : q[i] \in S
      BY <1>1, <1>3
<1>5. QED
      BY <1>1, <1>2, <1>3, <1>4, SubSeqProperties

\* The first packets of a message are packets of it.
LEMMA FirstOnes ==
  ASSUME NEW S, NEW ps \in Seq(S), NEW k \in Int, k <= Len(ps)
  PROVE  SubSeq(ps, 1, k) \in Seq(S)
<1>1. \A i \in 1 .. k : ps[i] \in S
      OBVIOUS
<1>2. QED
      BY <1>1, SubSeqProperties

\* ml/ml.c: what refused attempts to send a message leave.
Attempts(m) == [sent : Seq(Of(m)), queued : Seq(Of(m)), size : PayloadSizes]

\* ml/ml.c: packets of the message that were refused, before the attempts after them.
LEMMA OneRefused ==
  ASSUME NEW m \in Messages, NEW size \in PayloadSizes, NEW b \in Attempts(m),
         NEW k \in DOMAIN Fragments(m, size)
  PROVE  [sent   |-> SubSeq(Fragments(m, size), 1, k - 1) \o b.sent,
          queued |-> SubSeq(Fragments(m, size), 1, k) \o b.queued,
          size   |-> b.size] \in Attempts(m)
<1> DEFINE ps == Fragments(m, size)
<1>1. ps \in Seq(Of(m)) /\ Len(ps) \in Nat /\ k \in 1 .. Len(ps)
      BY FragmentsType
<1>2. b.sent \in Seq(Of(m)) /\ b.queued \in Seq(Of(m)) /\ b.size \in PayloadSizes
      BY DEF Attempts
<1> HIDE DEF ps
<1>3. k \in Int /\ k - 1 \in Int /\ k <= Len(ps) /\ k - 1 <= Len(ps)
      BY <1>1
<1>4. SubSeq(ps, 1, k - 1) \in Seq(Of(m)) /\ SubSeq(ps, 1, k) \in Seq(Of(m))
      BY <1>1, <1>3, FirstOnes
<1>5. /\ SubSeq(ps, 1, k - 1) \o b.sent \in Seq(Of(m))
      /\ SubSeq(ps, 1, k) \o b.queued \in Seq(Of(m))
      BY <1>2, <1>4, ConcatProperties
<1>6. QED
      BY <1>2, <1>5 DEF Attempts, ps

\* ml/ml.c: the retry loop of send_msg ends, however often the kernel refuses a packet,
\* and leaves packets of the message only.
LEMMA RefusalsType ==
  ASSUME NEW m \in Messages, pmtu[m.con] \in PayloadSizes
  PROVE  Refusals(m) \in SUBSET Attempts(m)
<1> DEFINE X == PayloadSizes
           V == SUBSET Attempts(m)
           TooLong(size, carried) ==
             {k \in DOMAIN Fragments(m, size) : Fragments(m, size)[k].len > carried}
           Refused(size, k, b) ==
             [sent   |-> SubSeq(Fragments(m, size), 1, k - 1) \o b.sent,
              queued |-> SubSeq(Fragments(m, size), 1, k) \o b.queued,
              size   |-> b.size]
           After(size, B) ==
             {[sent |-> <<>>, queued |-> <<>>, size |-> size]} \cup
             UNION {{Refused(size, k, b) : k \in TooLong(size, b.size)} : b \in B}
           iter == CHOOSE f : f = [size \in X |->
                     After(size, UNION {f[l] : l \in pmtu_decrement(size)})]
           rank == [size \in X |-> size]
           step == [size \in X |-> [g \in [X -> V] |->
                     After(size, UNION {g[l] : l \in pmtu_decrement(size)})]]
<1>1. Refusals(m) = iter[pmtu[m.con]]
      BY Zenon DEF Refusals
<1>2. Longest \in Nat /\ rank \in [X -> 0 .. Longest]
      BY LongestIsLargest
<1>3. \A size \in X : \A l \in pmtu_decrement(size) :
        l \in X /\ rank[l] < rank[size] /\ rank[l] \in Nat
      BY LongestIsLargest DEF pmtu_decrement
<1>4. ASSUME NEW size \in X, NEW B \in V
      PROVE  After(size, B) \in V
  <2>1. [sent |-> <<>>, queued |-> <<>>, size |-> size] \in Attempts(m)
        BY DEF Attempts
  <2>2. \A b \in B : \A k \in TooLong(size, b.size) : Refused(size, k, b) \in Attempts(m)
        BY OneRefused
  <2> HIDE DEF Refused, TooLong
  <2>3. QED
        BY <2>1, <2>2
<1>5. ASSUME NEW g \in [X -> V], NEW size \in X
      PROVE  UNION {g[l] : l \in pmtu_decrement(size)} \in V
  <2>1. \A l \in pmtu_decrement(size) : g[l] \in V
        BY <1>3
  <2>2. QED
        BY <2>1
<1>6. \A size \in X : \A g \in [X -> V] :
        step[size][g] = After(size, UNION {g[l] : l \in pmtu_decrement(size)})
      OBVIOUS
<1> HIDE DEF After
<1>7. step \in [X -> [[X -> V] -> V]]
      BY <1>4, <1>5
<1>8. FromLower(X, V, rank, step)
  <2> SUFFICES ASSUME NEW size \in X, NEW g \in [X -> V], NEW h \in [X -> V],
                      \A y \in X : rank[y] < rank[size] => g[y] = h[y]
               PROVE  step[size][g] = step[size][h]
      BY DEF FromLower
  <2>1. \A l \in pmtu_decrement(size) : g[l] = h[l]
        BY <1>3
  <2>2. UNION {g[l] : l \in pmtu_decrement(size)} = UNION {h[l] : l \in pmtu_decrement(size)}
        BY <2>1
  <2> HIDE DEF step
  <2>3. QED
        BY <1>6, <2>2
<1> HIDE DEF step
<1>9. \E f \in [X -> V] : Solves(f, X, step)
  <2>1. {} \in V
        OBVIOUS
  <2> HIDE DEF X, V, rank
  <2>2. QED
        BY <1>2, <1>7, <1>8, <2>1, Recursion
<1>10. PICK f \in [X -> V] : Solves(f, X, step)
       BY <1>9
<1>11. f = [size \in X |-> After(size, UNION {f[l] : l \in pmtu_decrement(size)})]
       BY <1>6, <1>10 DEF Solves
<1>12. iter = [size \in X |-> After(size, UNION {iter[l] : l \in pmtu_decrement(size)})]
       BY <1>11
<1>13. \A size \in X :
         iter[size] = After(size, UNION {iter[l] : l \in pmtu_decrement(size)})
       BY <1>12
<1> HIDE DEF iter, rank
<1> DEFINE T == {k \in Nat : \A size \in X : rank[size] < k => iter[size] \in V}
<1>14. 0 \in T
  <2>1. \A size \in X : ~ (rank[size] < 0)
        BY <1>2
  <2>2. QED
        BY <2>1
<1>15. ASSUME NEW k \in Nat, k \in T
       PROVE  k + 1 \in T
  <2> SUFFICES ASSUME NEW size \in X, rank[size] < k + 1
               PROVE  iter[size] \in V
      OBVIOUS
  <2>1. rank[size] \in Int
        BY <1>2
  <2>2. \A l \in pmtu_decrement(size) : l \in X /\ rank[l] < k
        BY <1>3, <2>1
  <2>3. \A l \in pmtu_decrement(size) : iter[l] \in V
        BY <1>15, <2>2
  <2>4. UNION {iter[l] : l \in pmtu_decrement(size)} \in V
        BY <2>3
  <2>5. QED
        BY <1>4, <1>13, <2>4
<1> HIDE DEF T
<1>16. \A k \in Nat : k \in T
       BY <1>14, <1>15, Induction
<1>17. QED
  <2>1. pmtu[m.con] \in X /\ rank[pmtu[m.con]] \in Nat
        BY <1>2
  <2>2. rank[pmtu[m.con]] + 1 \in T /\ rank[pmtu[m.con]] < rank[pmtu[m.con]] + 1
        BY <1>16, <2>1
  <2>3. QED
        BY <1>1, <2>1, <2>2 DEF T

\* ml/ml.c: however its packets are cut and how many of them are sent, send_msg adds
\* packets of the message and no others.
LEMMA Sends ==
  ASSUME Types, NEW m \in Messages, mlSendData(m)
  PROVE  /\ \E ps \in Seq(Of(m)) : net' = net \o ps
         /\ \E ps \in Seq(Of(m)) : rtx' = Kept(ps)
         /\ pmtu' \in [Conns -> PayloadSizes]
<1>1. m.con \in Conns /\ pmtu[m.con] \in PayloadSizes /\ pmtu \in [Conns -> PayloadSizes]
      BY DEF Conns, Types, TypeOK
<1>2. PICK b \in Refusals(m) : SendWhole(m, b) \/ SendThrottled(m, b)
      BY DEF mlSendData
<1>3. b.sent \in Seq(Of(m)) /\ b.queued \in Seq(Of(m)) /\ b.size \in PayloadSizes
      BY <1>1, RefusalsType DEF Attempts
<1> DEFINE all == Fragments(m, b.size)
<1>4. all \in Seq(Of(m)) /\ Len(all) \in Nat
      BY <1>3, FragmentsType
<1>5. ASSUME NEW ps \in Seq(Of(m)), SendAfter(m, b, ps)
      PROVE  /\ \E qs \in Seq(Of(m)) : net' = net \o qs
             /\ \E qs \in Seq(Of(m)) : rtx' = Kept(qs)
             /\ pmtu' \in [Conns -> PayloadSizes]
  <2>1. b.sent \o ps \in Seq(Of(m)) /\ b.queued \o ps \in Seq(Of(m))
        BY <1>3, <1>5, ConcatProperties
  <2>2. /\ net' = net \o (b.sent \o ps) /\ rtx' = Kept(b.queued \o ps)
        /\ pmtu' = [pmtu EXCEPT ![m.con] = b.size]
        BY <1>5 DEF SendAfter
  <2>3. QED
        BY <1>1, <1>3, <2>1, <2>2
<1> HIDE DEF all
<1>6. CASE SendWhole(m, b)
      BY <1>4, <1>5, <1>6 DEF SendWhole, all
<1>7. CASE SendThrottled(m, b)
  <2>1. PICK k \in 0 .. Len(all) - 1 : SendAfter(m, b, SubSeq(all, 1, k))
        BY <1>7 DEF SendThrottled, all
  <2>2. k \in Int /\ k <= Len(all)
        BY <1>4
  <2>3. SubSeq(all, 1, k) \in Seq(Of(m))
        BY <1>4, <2>2, FirstOnes
  <2>4. QED
        BY <1>5, <2>1, <2>3
<1>8. QED
      BY <1>2, <1>6, <1>7

\* ml/util/queueManagement.c: searchPacketInRTX finds a packet of the message, at the
\* offset it is asked for.
LEMMA FoundType ==
  ASSUME rtx \in Seq(Fragment), NEW n, NEW off, InRtx(n.con, n.seqnr, off) # {}
  PROVE  Found(n, off) \in AskedBy(n) /\ Found(n, off).len \in 1 .. Longest
<1> DEFINE I == InRtx(n.con, n.seqnr, off)
<1>1. I \subseteq 1 .. Len(rtx) /\ Len(rtx) \in Nat
      BY DEF InRtx
<1>2. I \subseteq Nat /\ I # {}
      BY <1>1
<1> HIDE DEF I
<1>3. \E j \in I : \A k \in I : j <= k
      BY <1>2, LeastNumber
<1> DEFINE i == CHOOSE j \in I : \A k \in I : j <= k
<1>4. i \in I
      BY <1>3
<1>5. Found(n, off) = rtx[i]
      BY DEF Found, I
<1> HIDE DEF i
<1>6. /\ rtx[i] \in Fragment /\ rtx[i].msg.con = n.con /\ rtx[i].msg.seqnr = n.seqnr
      BY <1>4 DEF I, InRtx
<1>7. rtx[i].len \in Nat \ {0} /\ rtx[i].len <= Longest
      BY <1>6 DEF Fragment, Packet
<1>8. QED
      BY <1>5, <1>6, <1>7, LongestIsLargest DEF AskedBy

\* ml/util/queueManagement.c: rtxPacketsFromTo ends, and sends packets of the message
\* the NACK names only.
LEMMA RtxPacketsType ==
  ASSUME rtx \in Seq(Fragment), NEW n \in Nack
  PROVE  rtxPackets(n) \in Seq(AskedBy(n))
<1> DEFINE X == n.from .. n.to + Longest
           V == Seq(AskedBy(n))
           Sent(p) == IF p.len <= pmtu[p.msg.con] THEN <<p>> ELSE <<>>
           Ends(off) == off >= n.to \/ InRtx(n.con, n.seqnr, off) = {}
           iter == CHOOSE f : f = [off \in X |->
                     IF Ends(off) THEN <<>>
                     ELSE Sent(Found(n, off)) \o f[off + Found(n, off).len]]
           rank == [off \in X |-> n.to + Longest - off]
           N == n.to + Longest - n.from
           step == [off \in X |-> [g \in [X -> V] |->
                     IF Ends(off) THEN <<>>
                     ELSE Sent(Found(n, off)) \o g[off + Found(n, off).len]]]
<1>1. n.from \in Int /\ n.to \in Int /\ Longest \in Nat \ {0}
      BY LongestIsLargest DEF Nack
<1>2. rtxPackets(n) = IF n.from > n.to THEN <<>> ELSE iter[n.from]
      BY Zenon DEF rtxPackets
<1>3. <<>> \in V
      OBVIOUS
<1> SUFFICES ASSUME ~ (n.from > n.to) PROVE iter[n.from] \in V
    BY <1>2, <1>3
<1>4. N \in Nat /\ rank \in [X -> 0 .. N]
      BY <1>1
<1>5. ASSUME NEW off \in X, ~ Ends(off)
      PROVE  /\ Sent(Found(n, off)) \in V
             /\ off + Found(n, off).len \in X
             /\ rank[off + Found(n, off).len] < rank[off]
             /\ rank[off + Found(n, off).len] \in Nat
  <2>1. Found(n, off) \in AskedBy(n) /\ Found(n, off).len \in 1 .. Longest
        BY <1>5, FoundType
  <2>2. Sent(Found(n, off)) \in V
        BY <2>1
  <2> DEFINE l == Found(n, off).len
  <2>3. l \in 1 .. Longest
        BY <2>1
  <2> HIDE DEF l
  <2>4. off + l \in X /\ n.to + Longest - (off + l) < n.to + Longest - off
        BY <1>1, <1>5, <2>3
  <2>5. /\ rank[off + l] = n.to + Longest - (off + l)
        /\ rank[off] = n.to + Longest - off
        BY <2>4
  <2>6. rank[off + l] \in Nat
        BY <1>4, <2>4
  <2> HIDE DEF rank
  <2>7. QED
        BY <2>2, <2>4, <2>5, <2>6 DEF l
<1>6. \A off \in X : \A g \in [X -> V] :
        step[off][g] = IF Ends(off) THEN <<>>
                       ELSE Sent(Found(n, off)) \o g[off + Found(n, off).len]
      OBVIOUS
<1>7. step \in [X -> [[X -> V] -> V]]
  <2> SUFFICES ASSUME NEW off \in X, NEW g \in [X -> V], ~ Ends(off)
               PROVE  Sent(Found(n, off)) \o g[off + Found(n, off).len] \in V
      BY <1>3
  <2> DEFINE a == Sent(Found(n, off))
             b == g[off + Found(n, off).len]
  <2>1. a \in V /\ b \in V
        BY <1>5
  <2> HIDE DEF a, b
  <2>2. a \o b \in V
        BY <2>1
  <2>3. QED
        BY <2>2 DEF a, b
<1>8. FromLower(X, V, rank, step)
  <2> SUFFICES ASSUME NEW off \in X, NEW g \in [X -> V], NEW h \in [X -> V],
                      \A y \in X : rank[y] < rank[off] => g[y] = h[y]
               PROVE  step[off][g] = step[off][h]
      BY DEF FromLower
  <2>1. ~ Ends(off) => g[off + Found(n, off).len] = h[off + Found(n, off).len]
        BY <1>5
  <2>2. /\ step[off][g] = IF Ends(off) THEN <<>>
                          ELSE Sent(Found(n, off)) \o g[off + Found(n, off).len]
        /\ step[off][h] = IF Ends(off) THEN <<>>
                          ELSE Sent(Found(n, off)) \o h[off + Found(n, off).len]
        BY <1>6
  <2> HIDE DEF step, Ends, Sent
  <2>3. QED
        BY <2>1, <2>2
<1> HIDE DEF step
<1>9. \E f \in [X -> V] : Solves(f, X, step)
  <2> HIDE DEF X, V, rank, N
  <2>1. QED
        BY <1>3, <1>4, <1>7, <1>8, Recursion
<1>10. PICK f \in [X -> V] : Solves(f, X, step)
       BY <1>9
<1> HIDE DEF rank
<1>11. f = [off \in X |-> IF Ends(off) THEN <<>>
                          ELSE Sent(Found(n, off)) \o f[off + Found(n, off).len]]
       BY <1>6, <1>10 DEF Solves
<1>12. iter = [off \in X |-> IF Ends(off) THEN <<>>
                             ELSE Sent(Found(n, off)) \o iter[off + Found(n, off).len]]
       BY <1>11
<1>13. \A off \in X : iter[off] = IF Ends(off) THEN <<>>
                             ELSE Sent(Found(n, off)) \o iter[off + Found(n, off).len]
       BY <1>12
<1> HIDE DEF iter, Ends
<1> DEFINE T == {k \in Nat : \A off \in X : rank[off] < k => iter[off] \in V}
<1>14. 0 \in T
  <2>1. \A off \in X : ~ (rank[off] < 0)
        BY <1>4
  <2>2. QED
        BY <2>1
<1>15. ASSUME NEW k \in Nat, k \in T
       PROVE  k + 1 \in T
  <2> SUFFICES ASSUME NEW off \in X, rank[off] < k + 1
               PROVE  iter[off] \in V
      OBVIOUS
  <2> SUFFICES ASSUME ~ Ends(off) PROVE iter[off] \in V
      BY <1>3, <1>13
  <2> DEFINE a == Sent(Found(n, off))
             b == iter[off + Found(n, off).len]
  <2>1. /\ a \in V /\ off + Found(n, off).len \in X
        /\ rank[off + Found(n, off).len] < rank[off]
        /\ rank[off + Found(n, off).len] \in Nat
        BY <1>5
  <2>2. rank[off] \in Int
        BY <1>4
  <2>3. rank[off + Found(n, off).len] < k
        BY <2>1, <2>2
  <2>4. b \in V
        BY <1>15, <2>1, <2>3
  <2>5. iter[off] = a \o b
        BY <1>13
  <2> HIDE DEF a, b
  <2>6. QED
        BY <2>1, <2>4, <2>5
<1> HIDE DEF T
<1>16. \A k \in Nat : k \in T
       BY <1>14, <1>15, Induction
<1>17. QED
  <2>1. n.from \in X /\ rank[n.from] \in Nat
        BY <1>1, <1>4
  <2>2. rank[n.from] + 1 \in T /\ rank[n.from] < rank[n.from] + 1
        BY <1>16, <2>1
  <2>3. QED
        BY <2>1, <2>2 DEF T

-----------------------------------------------------------------------------
(* The entries of recvdatabuf.                                              *)

\* MissingCovered, WithinBuffer and their types for one entry.
Covered(e) ==
  Len(e.gaps) < RTX_MAX_GAPS =>
    \A u \in 0 .. e.expectedOffset - 1 :
      u \in e.got \/ \E g \in 1 .. Len(e.gaps) : u \in e.gaps[g].from .. e.gaps[g].to - 1

Within(e) == e.got \subseteq Units(e.msg) /\ e.expectedOffset <= e.msg.len

Entry(e) == e \in Recv /\ Covered(e) /\ Within(e)

\* The lengths of an entry's message and of a packet are numbers.
LEMMA Numbers ==
  ASSUME NEW p \in Fragment
  PROVE  /\ p \in Packet /\ p.msg \in Messages /\ p.msg \in Message
         /\ p.off \in Nat /\ p.len \in Nat \ {0} /\ p.msg.len \in Nat \ {0}
         /\ p.msg.con \in Conns /\ p.msg.con \in Nat /\ p.msg.seqnr \in Nat
         /\ p.off + p.len <= p.msg.len
<1>1. p \in Packet /\ p.off + p.len <= p.msg.len
      BY DEF Fragment
<1>2. p.msg \in Messages /\ p.off \in Nat /\ p.len \in Nat \ {0}
      BY <1>1 DEF Packet
<1>3. p.msg \in Message
      BY <1>2, MessagesAssumption
<1>4. QED
      BY <1>1, <1>2, <1>3 DEF Message, Conns

\* ml/ml.c: the fields of struct recvdata.
LEMMA RecvFields ==
  ASSUME NEW e \in Recv
  PROVE  /\ e.msg \in Messages /\ e.got \in SUBSET Nat /\ e.arrivedBytes \in Nat
         /\ e.status \in {"ACTIVE", "COMPLETE"} /\ e.expectedOffset \in Nat
         /\ e.gaps \in Seq(Gap) /\ e.timeout \in BOOLEAN /\ e.last \in BOOLEAN
         /\ e.msg.len \in Nat \ {0} /\ e.msg.con \in Conns /\ e.msg.seqnr \in Nat
<1>1. e.msg \in Messages
      BY DEF Recv
<1>2. e.msg \in Message
      BY <1>1, MessagesAssumption
<1>3. QED
      BY <1>1, <1>2 DEF Recv, Message, Conns

\* ml/ml.c: the gaps stay gaps.
LEMMA GapsAfterType ==
  ASSUME NEW e \in Recv, NEW p \in Fragment
  PROVE  /\ GapsAfter(e, p) \in Seq(Gap)
         /\ OpensGap(e, p) => GapsAfter(e, p) =
                Append(e.gaps, [from |-> e.expectedOffset, to |-> p.off])
         /\ ~ OpensGap(e, p) =>
                /\ Len(GapsAfter(e, p)) = Len(e.gaps)
                /\ \A g \in 1 .. Len(e.gaps) :
                     \/ GapsAfter(e, p)[g] = e.gaps[g]
                     \/ AtGap(e.gaps[g], p) /\ GapsAfter(e, p)[g] = Narrowed(e.gaps[g], p)
<1>1. e.gaps \in Seq(Gap) /\ Len(e.gaps) \in Nat /\ e.expectedOffset \in Nat
      BY RecvFields
<1>2. p.off \in Nat /\ p.len \in Nat
      BY Numbers
<1>3. CASE OpensGap(e, p)
  <2>1. [from |-> e.expectedOffset, to |-> p.off] \in Gap
        BY <1>1, <1>2 DEF Gap
  <2>2. QED
        BY <1>1, <1>3, <2>1 DEF GapsAfter
<1>4. CASE ~ OpensGap(e, p)
  <2> DEFINE at(g) == /\ p.off < e.expectedOffset
                      /\ AtGap(e.gaps[g], p)
                      /\ \A h \in 1 .. g - 1 : ~ AtGap(e.gaps[h], p)
  <2>1. GapsAfter(e, p) = [g \in 1 .. Len(e.gaps) |->
                             IF at(g) THEN Narrowed(e.gaps[g], p) ELSE e.gaps[g]]
        BY <1>4 DEF GapsAfter
  <2>2. \A g \in 1 .. Len(e.gaps) : at(g) => AtGap(e.gaps[g], p)
        OBVIOUS
  <2> HIDE DEF at
  <2>3. ASSUME NEW g \in 1 .. Len(e.gaps)
        PROVE  e.gaps[g] \in Gap /\ Narrowed(e.gaps[g], p) \in Gap
    <3>1. e.gaps[g] \in Gap
          BY <1>1
    <3>2. QED
          BY <1>2, <3>1 DEF Narrowed, Gap
  <2>4. GapsAfter(e, p) \in [1 .. Len(e.gaps) -> Gap]
        BY <2>1, <2>3
  <2>5. GapsAfter(e, p) \in Seq(Gap) /\ Len(GapsAfter(e, p)) = Len(e.gaps)
        BY <1>1, <2>4
  <2>6. QED
        BY <1>4, <2>1, <2>2, <2>5
<1>5. QED
      BY <1>3, <1>4

\* ml/ml.c: what a fragment changes in the entry of its message.
LEMMA EnteredFields ==
  ASSUME NEW e \in Recv, NEW p \in Fragment
  PROVE  /\ Entered(e, p) \in Recv
         /\ Entered(e, p).msg = e.msg
         /\ Entered(e, p).got = e.got \cup (p.off .. p.off + p.len - 1)
         /\ Entered(e, p).arrivedBytes = e.arrivedBytes + p.len
         /\ Entered(e, p).gaps = GapsAfter(e, p)
         /\ Entered(e, p).expectedOffset =
              IF p.off >= e.expectedOffset THEN p.off + p.len ELSE e.expectedOffset
<1> DEFINE f == Entered(e, p)
<1>1. /\ e.msg \in Messages /\ e.got \in SUBSET Nat /\ e.arrivedBytes \in Nat
      /\ e.expectedOffset \in Nat /\ e.timeout \in BOOLEAN /\ e.last \in BOOLEAN
      BY RecvFields
<1>2. p.off \in Nat /\ p.len \in Nat \ {0}
      BY Numbers
<1>3. GapsAfter(e, p) \in Seq(Gap)
      BY GapsAfterType
<1>a. e = [msg |-> e.msg, got |-> e.got, arrivedBytes |-> e.arrivedBytes,
           status |-> e.status, expectedOffset |-> e.expectedOffset, gaps |-> e.gaps,
           timeout |-> e.timeout, last |-> e.last]
      BY DEF Recv
<1> DEFINE D == {"msg", "got", "arrivedBytes", "status", "expectedOffset", "gaps", "timeout", "last"}
<1>b. DOMAIN e = D
      BY <1>a
<1>c. f = [x \in D |-> f[x]]
      BY <1>b DEF Entered
<1>4. /\ f.msg = e.msg
      /\ f.got = e.got \cup (p.off .. p.off + p.len - 1)
      /\ f.arrivedBytes = e.arrivedBytes + p.len
      /\ f.status = IF e.arrivedBytes + p.len = e.msg.len THEN "COMPLETE" ELSE "ACTIVE"
      /\ f.expectedOffset = IF p.off >= e.expectedOffset THEN p.off + p.len
                            ELSE e.expectedOffset
      /\ f.gaps = GapsAfter(e, p)
      /\ f.timeout = TRUE
      /\ f.last \in BOOLEAN
  <2>1. f.last = (e.last \/ ~ e.timeout)
        BY <1>b DEF Entered
  <2>2. f.last \in BOOLEAN
        BY <2>1
  <2>3. QED
        BY <1>b, <2>2 DEF Entered
<1>5. e.got \cup (p.off .. p.off + p.len - 1) \in SUBSET Nat
      BY <1>1, <1>2
<1>6. f \in Recv
  <2> HIDE DEF f
  <2>1. /\ e.arrivedBytes + p.len \in Nat
        /\ (IF p.off >= e.expectedOffset THEN p.off + p.len ELSE e.expectedOffset) \in Nat
        BY <1>1, <1>2
  <2>2. QED
        BY <1>1, <1>3, <1>c, <1>4, <1>5, <2>1 DEF Recv
<1>7. QED
      BY <1>4, <1>6

\* ml/ml.c: a fragment covers the part of its gap it takes from it, and opens a gap
\* for what it leaves out.
LEMMA EnteredCovered ==
  ASSUME NEW e \in Recv, NEW p \in Fragment, Covered(e)
  PROVE  Covered(Entered(e, p))
<1> DEFINE f == Entered(e, p)
           gs == GapsAfter(e, p)
<1>1. /\ f.got = e.got \cup (p.off .. p.off + p.len - 1) /\ f.gaps = gs
      /\ f.expectedOffset = IF p.off >= e.expectedOffset THEN p.off + p.len ELSE e.expectedOffset
      BY EnteredFields
<1>2. /\ e.expectedOffset \in Nat /\ e.gaps \in Seq(Gap) /\ Len(e.gaps) \in Nat
      /\ p.off \in Nat /\ p.len \in Nat \ {0}
      BY RecvFields, Numbers
<1> HIDE DEF f
<1> SUFFICES ASSUME Len(gs) < RTX_MAX_GAPS, NEW u \in 0 .. f.expectedOffset - 1,
                    u \notin p.off .. p.off + p.len - 1, u \notin e.got
             PROVE  \E g \in 1 .. Len(gs) : u \in gs[g].from .. gs[g].to - 1
    BY <1>1 DEF Covered, f
<1>3. CASE OpensGap(e, p)
  <2> DEFINE new == [from |-> e.expectedOffset, to |-> p.off]
  <2>1. gs = Append(e.gaps, new) /\ new \in Gap
        BY <1>2, <1>3, GapsAfterType DEF Gap
  <2> HIDE DEF gs
  <2>2. /\ Len(gs) = Len(e.gaps) + 1 /\ gs[Len(e.gaps) + 1] = new
        /\ \A g \in 1 .. Len(e.gaps) : gs[g] = e.gaps[g]
        BY <1>2, <2>1
  <2>3. Len(e.gaps) < RTX_MAX_GAPS
        BY <1>3 DEF OpensGap
  <2>4. CASE u < e.expectedOffset
    <3>1. u \in 0 .. e.expectedOffset - 1
          BY <1>2, <2>4
    <3>2. PICK g \in 1 .. Len(e.gaps) : u \in e.gaps[g].from .. e.gaps[g].to - 1
          BY <2>3, <3>1 DEF Covered
    <3>3. g \in 1 .. Len(gs) /\ gs[g] = e.gaps[g]
          BY <1>2, <2>2
    <3>4. QED
          BY <3>2, <3>3
  <2>5. CASE ~ (u < e.expectedOffset)
    <3>1. u \in e.expectedOffset .. p.off - 1
          BY <1>1, <1>2, <2>5
    <3>2. new.from = e.expectedOffset /\ new.to = p.off
          OBVIOUS
    <3> HIDE DEF new
    <3>3. Len(e.gaps) + 1 \in 1 .. Len(gs) /\ gs[Len(e.gaps) + 1] = new
          BY <1>2, <2>2
    <3>4. QED
          BY <3>1, <3>2, <3>3
  <2>6. QED
        BY <2>4, <2>5
<1>4. CASE ~ OpensGap(e, p)
  <2>1. /\ Len(gs) = Len(e.gaps)
        /\ \A g \in 1 .. Len(e.gaps) :
             \/ gs[g] = e.gaps[g]
             \/ AtGap(e.gaps[g], p) /\ gs[g] = Narrowed(e.gaps[g], p)
        BY <1>4, GapsAfterType
  <2> HIDE DEF gs
  <2>2. p.off <= e.expectedOffset
        BY <1>2, <1>4, <2>1 DEF OpensGap
  <2>3. u \in 0 .. e.expectedOffset - 1
        BY <1>1, <1>2, <2>2
  <2>4. PICK g \in 1 .. Len(e.gaps) : u \in e.gaps[g].from .. e.gaps[g].to - 1
        BY <2>1, <2>3 DEF Covered
  <2>5. e.gaps[g] \in Gap
        BY <1>2
  <2>6. CASE gs[g] = e.gaps[g]
        BY <2>1, <2>4, <2>6
  <2>7. CASE AtGap(e.gaps[g], p) /\ gs[g] = Narrowed(e.gaps[g], p)
    <3>1. e.gaps[g].from \in Int /\ e.gaps[g].to \in Int
          BY <2>5 DEF Gap
    <3> DEFINE a == e.gaps[g].from
               z == e.gaps[g].to
    <3>a. /\ gs[g].from = IF p.off = a THEN a + p.len ELSE a
          /\ gs[g].to = IF p.off = a THEN z ELSE z - p.len
          BY <2>5, <2>7 DEF Narrowed, Gap
    <3>b. p.off = a \/ p.off = z - p.len
          BY <2>7 DEF AtGap
    <3> HIDE DEF a, z
    <3>c. u \in a .. z - 1 /\ a \in Int /\ z \in Int
          BY <2>4, <3>1 DEF a, z
    <3>2. u \in gs[g].from .. gs[g].to - 1
          BY <1>2, <3>a, <3>b, <3>c
    <3>3. QED
          BY <2>1, <3>2
  <2>8. QED
        BY <2>1, <2>6, <2>7
<1>5. QED
      BY <1>3, <1>4

\* ml/ml.c: an entry stays one with each fragment of its message.
LEMMA EnteredEntry ==
  ASSUME NEW e, Entry(e), NEW p \in Fragment, p.msg = e.msg
  PROVE  Entry(Entered(e, p)) /\ Entered(e, p).msg = e.msg
<1>1. e \in Recv /\ Covered(e) /\ Within(e)
      BY DEF Entry
<1>2. /\ Entered(e, p) \in Recv /\ Entered(e, p).msg = e.msg
      /\ Entered(e, p).got = e.got \cup (p.off .. p.off + p.len - 1)
      /\ Entered(e, p).expectedOffset =
           IF p.off >= e.expectedOffset THEN p.off + p.len ELSE e.expectedOffset
      BY <1>1, EnteredFields
<1>3. Covered(Entered(e, p))
      BY <1>1, EnteredCovered
<1>4. /\ p.off \in Nat /\ p.len \in Nat \ {0} /\ e.msg.len \in Nat \ {0}
      /\ p.off + p.len <= e.msg.len
      BY Numbers
<1>5. Within(Entered(e, p))
  <2>1. \A u \in p.off .. p.off + p.len - 1 : u \in 0 .. e.msg.len - 1
        BY <1>4
  <2>2. QED
        BY <1>1, <1>2, <1>4, <2>1 DEF Within, Units
<1>6. QED
      BY <1>2, <1>3, <1>5 DEF Entry

\* ml/ml.c: a new slot is an entry, and the last-packet timer leaves one.
LEMMA NewEntry ==
  ASSUME NEW m \in Messages
  PROVE  /\ Entry(NewRecv(m)) /\ NewRecv(m).msg = m /\ NewRecv(m).status = "ACTIVE"
<1>1. NewRecv(m) \in Recv
      BY DEF NewRecv, Recv
<1>2. /\ NewRecv(m).msg = m /\ NewRecv(m).status = "ACTIVE" /\ NewRecv(m).got = {}
      /\ NewRecv(m).expectedOffset = 0
      BY DEF NewRecv
<1>3. m.len \in Nat
      BY MessagesAssumption DEF Message
<1>4. Covered(NewRecv(m)) /\ Within(NewRecv(m))
      BY <1>2, <1>3 DEF Covered, Within
<1>5. QED
      BY <1>1, <1>2, <1>4 DEF Entry

\* ml/ml.c: so does the last-packet timer.
LEMMA FiredEntry ==
  ASSUME NEW e, Entry(e)
  PROVE  /\ Entry([e EXCEPT !.last = FALSE])
         /\ [e EXCEPT !.last = FALSE].msg = e.msg
         /\ [e EXCEPT !.last = FALSE].status = e.status
         /\ [e EXCEPT !.last = FALSE].got = e.got
         /\ [e EXCEPT !.last = FALSE].arrivedBytes = e.arrivedBytes
<1> DEFINE f == [e EXCEPT !.last = FALSE]
<1>1. e \in Recv /\ Covered(e) /\ Within(e)
      BY DEF Entry
<1>2. /\ f \in Recv /\ f.msg = e.msg /\ f.status = e.status /\ f.got = e.got
      /\ f.arrivedBytes = e.arrivedBytes /\ f.gaps = e.gaps /\ f.expectedOffset = e.expectedOffset
      BY <1>1 DEF Recv
<1> HIDE DEF f
<1>3. Covered(f) /\ Within(f)
      BY <1>1, <1>2 DEF Covered, Within
<1>4. /\ Entry(f) /\ f.msg = e.msg /\ f.status = e.status
      /\ f.got = e.got /\ f.arrivedBytes = e.arrivedBytes
      BY <1>2, <1>3 DEF Entry
<1>5. QED
      BY <1>4 DEF f

-----------------------------------------------------------------------------
(* The invariants.                                                          *)

Buffer == \A i \in Slots : recvdatabuf[i] # NULL => Entry(recvdatabuf[i])

NoSlot(m) == \A i \in Slots : recvdatabuf[i] # NULL => recvdatabuf[i].msg # m

\* No packet of m is under way, and none is asked for.
Quiet(m) == net \in Seq(NotOf(m)) /\ nacks \in Seq(NotAbout(m))

\* Nothing of a message exists before it is handed over.
UnsentIsNew ==
  \A m \in unsent :
    /\ Quiet(m) /\ NoSlot(m)
    /\ rtx \in Seq(NotOf(m))
    /\ \A k \in 1 .. Len(upcalls) : upcalls[k].msg # m

\* A message handed up is still known to its slot, or nothing of it is left.
Done(m) ==
  \/ \E i \in Slots : /\ recvdatabuf[i] # NULL
                      /\ recvdatabuf[i].msg = m
                      /\ recvdatabuf[i].status = "COMPLETE"
  \/ Quiet(m) /\ NoSlot(m)

UpcallsDone == \A k \in 1 .. Len(upcalls) : Done(upcalls[k].msg)

IInv ==
  /\ Types /\ Buffer /\ OneSlotPerMessage
  /\ UnsentIsNew
  /\ faults["late"] = 0 => UpcallsDone
  /\ DeliveredOnce

\* A sequence of elements of T is a sequence over T.
LEMMA SeqOver ==
  ASSUME NEW S, NEW T, NEW s \in Seq(S), \A i \in 1 .. Len(s) : s[i] \in T
  PROVE  s \in Seq(T)
<1>1. Len(s) \in Nat /\ s \in [1 .. Len(s) -> T]
      OBVIOUS
<1>2. QED
      BY <1>1

\* A channel loses what is taken off it, at most.
LEMMA TakenType ==
  ASSUME NEW S, NEW s \in Seq(S), NEW i \in 1 .. Len(s), NEW again
  PROVE  Taken(s, i, again) \in Seq(S) /\ RemoveAt(s, i) \in Seq(S)
      BY RemoveAtLen DEF Taken

\* The bounds count up.
LEMMA FaultType ==
  ASSUME faults \in [FaultKinds -> Nat], NEW k \in FaultKinds, Fault(k)
  PROVE  /\ faults' \in [FaultKinds -> Nat]
         /\ faults'["late"] = 0 => faults["late"] = 0
         /\ faults'[k] # 0
      BY DEF Fault, FaultKinds

\* They count up in every step.
LEMMA NextFaults ==
  ASSUME Types, [Next]_vars
  PROVE  /\ faults' \in [FaultKinds -> Nat]
         /\ faults'["late"] = 0 => faults["late"] = 0
<1>1. faults \in [FaultKinds -> Nat]
      BY DEF Types, TypeOK
<1>2. CASE UNCHANGED faults
      BY <1>1, <1>2
<1>3. CASE \E k \in FaultKinds : Fault(k)
      BY <1>1, <1>3, FaultType
<1>4. UNCHANGED faults \/ \E k \in FaultKinds : Fault(k)
  <2>1. ASSUME NEW m \in Messages, mlSendData(m)
        PROVE  UNCHANGED faults \/ Fault("throttle")
        BY <2>1 DEF mlSendData, SendWhole, SendThrottled
  <2>2. ASSUME NEW k, NEW again, recv_data_msg(k, again)
        PROVE  UNCHANGED faults \/ Fault("dup")
        BY <2>2 DEF recv_data_msg, Delivered
  <2>3. ASSUME NEW k, NEW again, recv_nack_msg(k, again)
        PROVE  UNCHANGED faults \/ Fault("dup")
        BY <2>3 DEF recv_nack_msg, Delivered
  <2>4. ASSUME NEW k, LosePacket(k) \/ LoseNack(k)
        PROVE  Fault("lose")
        BY <2>4 DEF LosePacket, LoseNack
  <2>5. ASSUME NEW k, pkt_recv_timeout_cb(k) \/ last_pkt_recv_timeout_cb(k)
        PROVE  UNCHANGED faults
        BY <2>5 DEF pkt_recv_timeout_cb, last_pkt_recv_timeout_cb
  <2>6. ASSUME NEW i, recv_timeout_cb(i)
        PROVE  UNCHANGED faults \/ Fault("late")
        BY <2>6 DEF recv_timeout_cb
  <2>7. ASSUME NEW c, mlCloseConnection(c)
        PROVE  Fault("close")
        BY <2>7 DEF mlCloseConnection
  <2>8. CASE UNCHANGED vars
        BY <2>8 DEF vars
  <2>9. {"lose", "dup", "throttle", "close", "late"} = FaultKinds
        BY DEF FaultKinds
  <2>10. QED
        BY <2>1, <2>2, <2>3, <2>4, <2>5, <2>6, <2>7, <2>8, <2>9
           DEF Next, ReceiveData, ReceiveNack, NackTimeout
<1>5. QED
      BY <1>2, <1>3, <1>4

-----------------------------------------------------------------------------
(* What the steps do to the slots.                                          *)

\* ml/ml.c: recv_data_msg enters a packet into the slot of its message, or into a new
\* one when no slot has the message, or drops it.
LEMMA DataStep ==
  ASSUME Types, Buffer, NEW k \in 1 .. Len(net), NEW again, recv_data_msg(k, again)
  PROVE  \/ UNCHANGED <<recvdatabuf, nackTimers, upcalls>>
         \/ \E i \in Slots, e \in Recv :
              /\ Entry(e) /\ e.msg = net[k].msg /\ e.status = "ACTIVE"
              /\ \/ recvdatabuf[i] = e
                 \/ recvdatabuf[i] = NULL /\ NoSlot(e.msg) /\ e = NewRecv(e.msg)
              /\ Enter(i, e, net[k])
<1> DEFINE p == net[k]
<1>1. p \in Fragment
      BY DEF Types
<1>2. p.msg \in Messages
      BY <1>1, Numbers
<1>3. ASSUME NEW i \in Slots, recvdatabuf[i] # NULL
      PROVE  /\ recvdatabuf[i] \in Recv /\ Entry(recvdatabuf[i])
             /\ recvdatabuf[i].msg \in Messages
      BY <1>3, RecvFields DEF Buffer, Entry
<1>4. CASE UNCHANGED <<recvdatabuf, nackTimers, upcalls>>
      BY <1>4
<1>5. ASSUME NEW i \in Slots, Least(i, SlotsOf(p)), recvdatabuf[i].status = "ACTIVE",
             Enter(i, recvdatabuf[i], p)
      PROVE  /\ Entry(recvdatabuf[i]) /\ recvdatabuf[i] \in Recv
             /\ recvdatabuf[i].msg = p.msg
  <2>1. /\ recvdatabuf[i] # NULL
        /\ recvdatabuf[i].msg.con = p.msg.con /\ recvdatabuf[i].msg.seqnr = p.msg.seqnr
        BY <1>5 DEF Least, SlotsOf
  <2>2. recvdatabuf[i].msg = p.msg
        BY <1>2, <1>3, <2>1, MessagesAssumption
  <2>3. QED
        BY <1>3, <2>1, <2>2
<1>6. ASSUME NEW i \in Slots, SlotsOf(p) = {}, Least(i, FreeSlots),
             Enter(i, NewRecv(p.msg), p)
      PROVE  recvdatabuf[i] = NULL /\ NoSlot(p.msg)
      BY <1>6 DEF Least, FreeSlots, SlotsOf, NoSlot
<1>7. Entry(NewRecv(p.msg)) /\ NewRecv(p.msg).msg = p.msg /\ NewRecv(p.msg).status = "ACTIVE"
      BY <1>2, NewEntry
<1>8. NewRecv(p.msg) \in Recv
      BY <1>7 DEF Entry
<1>9. \/ UNCHANGED <<recvdatabuf, nackTimers, upcalls>>
      \/ \E i \in Slots : /\ Least(i, SlotsOf(p)) /\ recvdatabuf[i].status = "ACTIVE"
                          /\ Enter(i, recvdatabuf[i], p)
      \/ \E i \in Slots : SlotsOf(p) = {} /\ Least(i, FreeSlots) /\ Enter(i, NewRecv(p.msg), p)
      BY DEF recv_data_msg
<1> HIDE DEF p
<1>10. \/ UNCHANGED <<recvdatabuf, nackTimers, upcalls>>
       \/ \E i \in Slots, e \in Recv :
            /\ Entry(e) /\ e.msg = p.msg /\ e.status = "ACTIVE"
            /\ \/ recvdatabuf[i] = e
               \/ recvdatabuf[i] = NULL /\ NoSlot(e.msg) /\ e = NewRecv(e.msg)
            /\ Enter(i, e, p)
  <2>1. CASE \E i \in Slots : /\ Least(i, SlotsOf(p)) /\ recvdatabuf[i].status = "ACTIVE"
                              /\ Enter(i, recvdatabuf[i], p)
        BY <1>5, <2>1
  <2>2. CASE \E i \in Slots : /\ SlotsOf(p) = {} /\ Least(i, FreeSlots)
                              /\ Enter(i, NewRecv(p.msg), p)
        BY <1>6, <1>7, <1>8, <2>2
  <2>3. QED
        BY <1>9, <2>1, <2>2
<1>11. QED
       BY <1>10 DEF p

\* The slots after a step.
SlotChanged(i, f) ==
  /\ recvdatabuf' = [recvdatabuf EXCEPT ![i] = f]
  /\ f # NULL => Entry(f)
  /\ f # NULL => \A j \in Slots : j # i /\ recvdatabuf[j] # NULL => recvdatabuf[j].msg # f.msg

\* A change of one slot.
LEMMA ChangedSlots ==
  ASSUME Types, Buffer, OneSlotPerMessage, NEW i \in Slots, NEW f, SlotChanged(i, f)
  PROVE  /\ recvdatabuf' \in [Slots -> Recv \cup {NULL}]
         /\ Buffer' /\ OneSlotPerMessage'
         /\ recvdatabuf'[i] = f /\ \A j \in Slots : j # i => recvdatabuf'[j] = recvdatabuf[j]
<1>1. recvdatabuf \in [Slots -> Recv \cup {NULL}]
      BY DEF Types, TypeOK
<1>2. /\ recvdatabuf' = [recvdatabuf EXCEPT ![i] = f]
      /\ f # NULL => Entry(f)
      /\ f # NULL => \A j \in Slots : j # i /\ recvdatabuf[j] # NULL => recvdatabuf[j].msg # f.msg
      BY DEF SlotChanged
<1>3. f \in Recv \cup {NULL}
      BY <1>2 DEF Entry
<1>4. recvdatabuf'[i] = f /\ \A j \in Slots : j # i => recvdatabuf'[j] = recvdatabuf[j]
      BY <1>1, <1>2
<1>5. recvdatabuf' \in [Slots -> Recv \cup {NULL}]
      BY <1>1, <1>2, <1>3
<1>6. Buffer'
  <2> SUFFICES ASSUME NEW j \in Slots, recvdatabuf'[j] # NULL PROVE Entry(recvdatabuf'[j])
      BY DEF Buffer, Entry, Covered, Within
  <2>1. QED
        BY <1>2, <1>4 DEF Buffer
<1>7. OneSlotPerMessage'
      BY <1>2, <1>4 DEF OneSlotPerMessage
<1>8. QED
      BY <1>4, <1>5, <1>6, <1>7

\* ml/ml.c: the slot a packet is entered into.
LEMMA EnterSlot ==
  ASSUME Types, Buffer, OneSlotPerMessage, NEW i \in Slots, NEW e \in Recv, NEW p \in Fragment,
         Entry(e), e.msg = p.msg, Enter(i, e, p),
         recvdatabuf[i] = e \/ (recvdatabuf[i] = NULL /\ NoSlot(e.msg))
  PROVE  SlotChanged(i, Entered(e, p)) /\ Entered(e, p) # NULL /\ Entered(e, p).msg = e.msg
<1>1. Entry(Entered(e, p)) /\ Entered(e, p).msg = e.msg
      BY EnteredEntry
<1>2. recvdatabuf' = [recvdatabuf EXCEPT ![i] = Entered(e, p)]
      BY DEF Enter
<1>3. e # NULL /\ Entered(e, p) # NULL
      BY <1>1, NullAssumption DEF Entry
<1>4. \A j \in Slots : j # i /\ recvdatabuf[j] # NULL => recvdatabuf[j].msg # e.msg
      BY <1>3 DEF OneSlotPerMessage, NoSlot
<1>5. QED
      BY <1>1, <1>2, <1>3, <1>4 DEF SlotChanged

\* ml/ml.c: the last-packet timer leaves the message of its slot alone.
LEMMA FiredSlot ==
  ASSUME Types, Buffer, OneSlotPerMessage, NEW i \in Slots, last_pkt_recv_timeout_cb(i)
  PROVE  /\ recvdatabuf[i] # NULL
         /\ SlotChanged(i, [recvdatabuf[i] EXCEPT !.last = FALSE])
<1> DEFINE f == [recvdatabuf[i] EXCEPT !.last = FALSE]
<1>1. recvdatabuf[i] # NULL /\ recvdatabuf' = [recvdatabuf EXCEPT ![i].last = FALSE]
      BY DEF last_pkt_recv_timeout_cb
<1>2. recvdatabuf' = [recvdatabuf EXCEPT ![i] = f]
      BY <1>1
<1>3. Entry(recvdatabuf[i])
      BY <1>1 DEF Buffer
<1>4. Entry(f) /\ f.msg = recvdatabuf[i].msg
      BY <1>3, FiredEntry
<1> HIDE DEF f
<1>5. \A j \in Slots : j # i /\ recvdatabuf[j] # NULL => recvdatabuf[j].msg # f.msg
      BY <1>1, <1>4 DEF OneSlotPerMessage
<1>6. SlotChanged(i, f)
      BY <1>2, <1>4, <1>5 DEF SlotChanged
<1>7. QED
      BY <1>1, <1>6 DEF f

\* ml/ml.c: recv_timeout_cb empties its slot.
LEMMA FreedSlot ==
  ASSUME NEW i \in Slots, recv_timeout_cb(i)
  PROVE  recvdatabuf[i] # NULL /\ SlotChanged(i, NULL)
      BY DEF recv_timeout_cb, SlotChanged

\* ml/ml.c: whatever packets arrive and whatever timers fire, the slots hold entries
\* and each message has one.
LEMMA NextSlots ==
  ASSUME Types, Buffer, OneSlotPerMessage, [Next]_vars
  PROVE  recvdatabuf' \in [Slots -> Recv \cup {NULL}] /\ Buffer' /\ OneSlotPerMessage'
<1>1. CASE UNCHANGED recvdatabuf
      BY <1>1 DEF Types, TypeOK, Buffer, OneSlotPerMessage, Entry, Covered, Within
<1>2. CASE ReceiveData
  <2>1. PICK k \in 1 .. Len(net), again \in BOOLEAN : recv_data_msg(k, again)
        BY <1>2 DEF ReceiveData, Arriving
  <2>2. net[k] \in Fragment
        BY DEF Types
  <2>3. CASE UNCHANGED <<recvdatabuf, nackTimers, upcalls>>
        BY <1>1, <2>3
  <2>4. ASSUME NEW i \in Slots, NEW e \in Recv, Entry(e), e.msg = net[k].msg,
               recvdatabuf[i] = e \/ (recvdatabuf[i] = NULL /\ NoSlot(e.msg)),
               Enter(i, e, net[k])
        PROVE  SlotChanged(i, Entered(e, net[k]))
        BY <2>2, <2>4, EnterSlot
  <2>5. QED
        BY <2>1, <2>3, <2>4, DataStep, ChangedSlots
<1>3. ASSUME NEW i \in Slots, last_pkt_recv_timeout_cb(i) \/ recv_timeout_cb(i)
      PROVE  recvdatabuf' \in [Slots -> Recv \cup {NULL}] /\ Buffer' /\ OneSlotPerMessage'
      BY <1>3, FiredSlot, FreedSlot, ChangedSlots
<1>4. CASE \E m \in Messages : mlSendData(m)
      BY <1>1, <1>4 DEF mlSendData, receiverVars
<1>5. CASE ReceiveNack
      BY <1>1, <1>5 DEF ReceiveNack, recv_nack_msg, receiverVars
<1>6. CASE \/ \E k \in 1 .. Len(net) : LosePacket(k)
           \/ \E k \in 1 .. Len(nacks) : LoseNack(k)
      BY <1>1, <1>6 DEF LosePacket, LoseNack, receiverVars
<1>7. CASE NackTimeout
      BY <1>1, <1>7 DEF NackTimeout, pkt_recv_timeout_cb
<1>8. CASE \E c \in Conns : mlCloseConnection(c)
      BY <1>1, <1>8 DEF mlCloseConnection
<1>9. CASE UNCHANGED vars
      BY <1>1, <1>9 DEF vars, receiverVars
<1>10. QED
      BY <1>2, <1>3, <1>4, <1>5, <1>6, <1>7, <1>8, <1>9 DEF Next

-----------------------------------------------------------------------------
(* The types of the rest.                                                   *)

\* ml/ml.c: the packets under way, the RTX queue and the estimates of the path MTU.
LEMMA NextSender ==
  ASSUME Types, [Next]_vars
  PROVE  /\ unsent' \subseteq Messages /\ pmtu' \in [Conns -> PayloadSizes]
         /\ rtx' \in Seq(Fragment) /\ net' \in Seq(Fragment)
<1>1. /\ unsent \subseteq Messages /\ pmtu \in [Conns -> PayloadSizes]
      /\ rtx \in Seq(Fragment) /\ net \in Seq(Fragment) /\ nacks \in Seq(Nack)
      BY DEF Types, TypeOK
<1>2. ASSUME UNCHANGED senderVars, net' \in Seq(Fragment)
      PROVE  /\ unsent' \subseteq Messages /\ pmtu' \in [Conns -> PayloadSizes]
             /\ rtx' \in Seq(Fragment) /\ net' \in Seq(Fragment)
      BY <1>1, <1>2 DEF senderVars
<1>3. CASE UNCHANGED <<senderVars, net>>
      BY <1>1, <1>2, <1>3
<1>4. ASSUME NEW m \in Messages, mlSendData(m)
      PROVE  /\ unsent' \subseteq Messages /\ pmtu' \in [Conns -> PayloadSizes]
             /\ rtx' \in Seq(Fragment) /\ net' \in Seq(Fragment)
  <2>1. /\ \E ps \in Seq(Of(m)) : net' = net \o ps
        /\ \E ps \in Seq(Of(m)) : rtx' = Kept(ps)
        /\ pmtu' \in [Conns -> PayloadSizes]
        BY <1>4, Sends
  <2>2. \A ps \in Seq(Of(m)) : ps \in Seq(Fragment)
        BY SeqMonotonic DEF Of
  <2>3. net' \in Seq(Fragment)
        BY <1>1, <2>1, <2>2, ConcatProperties
  <2>4. rtx' \in Seq(Fragment)
        BY <1>1, <2>1, <2>2, KeptType
  <2>5. unsent' \subseteq Messages
        BY <1>1, <1>4 DEF mlSendData
  <2>6. QED
        BY <2>1, <2>3, <2>4, <2>5
<1>5. CASE ReceiveData
  <2>1. PICK k \in 1 .. Len(net), again \in BOOLEAN : recv_data_msg(k, again)
        BY <1>5 DEF ReceiveData, Arriving
  <2>2. net' = Taken(net, k, again) /\ UNCHANGED senderVars
        BY <2>1 DEF recv_data_msg
  <2>3. QED
        BY <1>1, <1>2, <2>2, TakenType
<1>6. CASE ReceiveNack
  <2>1. PICK k \in 1 .. Len(nacks), again \in BOOLEAN : recv_nack_msg(k, again)
        BY <1>6 DEF ReceiveNack, Arriving
  <2>2. net' = net \o rtxPackets(nacks[k]) /\ UNCHANGED senderVars
        BY <2>1 DEF recv_nack_msg
  <2>3. nacks[k] \in Nack
        BY <1>1
  <2>4. rtxPackets(nacks[k]) \in Seq(AskedBy(nacks[k]))
        BY <1>1, <2>3, RtxPacketsType
  <2>a. \A p \in AskedBy(nacks[k]) : p \in Fragment
        BY DEF AskedBy
  <2>b. rtxPackets(nacks[k]) \in Seq(Fragment)
        BY <2>4, <2>a, SeqMonotonic
  <2>5. net' \in Seq(Fragment)
        BY <1>1, <2>2, <2>b, ConcatProperties
  <2>6. QED
        BY <1>2, <2>2, <2>5
<1>7. ASSUME NEW k \in 1 .. Len(net), LosePacket(k)
      PROVE  UNCHANGED senderVars /\ net' \in Seq(Fragment)
      BY <1>1, <1>7, TakenType DEF LosePacket
<1>8. CASE \E k \in 1 .. Len(nacks) : LoseNack(k)
      BY <1>3, <1>8 DEF LoseNack
<1>9. CASE NackTimeout
      BY <1>3, <1>9 DEF NackTimeout, pkt_recv_timeout_cb
<1>10. CASE \E i \in Slots : last_pkt_recv_timeout_cb(i) \/ recv_timeout_cb(i)
       BY <1>3, <1>10 DEF last_pkt_recv_timeout_cb, recv_timeout_cb
<1>11. CASE \E c \in Conns : mlCloseConnection(c)
       BY <1>3, <1>11 DEF mlCloseConnection
<1>12. CASE UNCHANGED vars
       BY <1>3, <1>12 DEF vars
<1>13. QED
       BY <1>2, <1>4, <1>5, <1>6, <1>7, <1>8, <1>9, <1>10, <1>11, <1>12 DEF Next

\* ml/ml.c: a NACK names the message of a slot.
LEMMA SendNackType ==
  ASSUME Types, NEW e \in Recv, NEW from \in Int, NEW to \in Int, SendNack(e, from, to)
  PROVE  /\ nacks' \in Seq(Nack)
         /\ nacks' = Append(nacks, [con |-> e.msg.con, seqnr |-> e.msg.seqnr,
                                    from |-> from, to |-> to])
         /\ [con |-> e.msg.con, seqnr |-> e.msg.seqnr, from |-> from, to |-> to] \in Nack
<1>1. e.msg.con \in Conns /\ e.msg.seqnr \in Nat
      BY RecvFields
<1>2. [con |-> e.msg.con, seqnr |-> e.msg.seqnr, from |-> from, to |-> to] \in Nack
      BY <1>1 DEF Nack
<1>3. nacks \in Seq(Nack)
      BY DEF Types, TypeOK
<1>4. QED
      BY <1>2, <1>3 DEF SendNack

\* ml/ml.c: a timer that applies asks over the slot it speaks of.
LEMMA NackTimerStep ==
  ASSUME Types, NEW k \in 1 .. Len(nackTimers), pkt_recv_timeout_cb(k)
  PROVE  /\ nackTimers' \in Seq(NackTimer)
         /\ \/ UNCHANGED nacks
            \/ \E i \in Slots, from \in Int, to \in Int :
                 recvdatabuf[i] \in Recv /\ SendNack(recvdatabuf[i], from, to)
<1> DEFINE t == nackTimers[k]
           e == recvdatabuf[t.id]
<1>1. nackTimers \in Seq(NackTimer) /\ recvdatabuf \in [Slots -> Recv \cup {NULL}]
      BY DEF Types, TypeOK
<1>2. t \in NackTimer /\ t.id \in Slots /\ t.gap \in Nat \ {0} /\ t.retry \in Nat
  <2>1. t \in NackTimer
        BY <1>1
  <2>2. QED
        BY <2>1 DEF NackTimer
<1>3. RemoveAt(nackTimers, k) \in Seq(NackTimer)
      BY <1>1, RemoveAtLen
<1>4. CASE ~ Applies(t)
      BY <1>3, <1>4 DEF pkt_recv_timeout_cb
<1>5. CASE Applies(t)
  <2>1. e \in Recv /\ t.gap <= Len(e.gaps)
        BY <1>1, <1>2, <1>5 DEF Applies
  <2>2. SendNack(e, e.gaps[t.gap].from, e.gaps[t.gap].to)
        BY <1>5 DEF pkt_recv_timeout_cb
  <2>3. nackTimers' = IF t.retry > 1 THEN [nackTimers EXCEPT ![k].retry = @ - 1]
                      ELSE RemoveAt(nackTimers, k)
        BY <1>5 DEF pkt_recv_timeout_cb
  <2>4. e.gaps[t.gap].from \in Int /\ e.gaps[t.gap].to \in Int
    <3> HIDE DEF e, t
    <3>1. e.gaps \in Seq(Gap) /\ t.gap \in 1 .. Len(e.gaps)
          BY <1>2, <2>1, RecvFields
    <3>2. e.gaps[t.gap] \in Gap
          BY <3>1
    <3>3. QED
          BY <3>2 DEF Gap
  <2>5. t.retry > 1 => [nackTimers EXCEPT ![k].retry = @ - 1] \in Seq(NackTimer)
    <3> DEFINE u == [t EXCEPT !.retry = t.retry - 1]
    <3>1. t.retry > 1 => u \in NackTimer
          BY <1>2 DEF NackTimer
    <3>2. [nackTimers EXCEPT ![k].retry = @ - 1] = [nackTimers EXCEPT ![k] = u]
          OBVIOUS
    <3> HIDE DEF u
    <3>3. QED
          BY <1>1, <3>1, <3>2
  <2>6. nackTimers' \in Seq(NackTimer)
        BY <1>3, <2>3, <2>5
  <2>7. QED
        BY <1>2, <2>1, <2>2, <2>4, <2>6
<1>6. QED
      BY <1>4, <1>5

\* ml/ml.c: so does the last-packet timer.
LEMMA LastTimerStep ==
  ASSUME Types, NEW i \in Slots, last_pkt_recv_timeout_cb(i)
  PROVE  /\ UNCHANGED nackTimers
         /\ \/ UNCHANGED nacks
            \/ \E from \in Int, to \in Int :
                 recvdatabuf[i] \in Recv /\ SendNack(recvdatabuf[i], from, to)
<1>1. recvdatabuf[i] # NULL /\ recvdatabuf \in [Slots -> Recv \cup {NULL}]
      BY DEF last_pkt_recv_timeout_cb, Types, TypeOK
<1>2. recvdatabuf[i] \in Recv
      BY <1>1
<1>3. recvdatabuf[i].expectedOffset \in Int /\ recvdatabuf[i].msg.len \in Int
      BY <1>2, RecvFields
<1>4. QED
      BY <1>2, <1>3 DEF last_pkt_recv_timeout_cb

\* A timer sends no NACK or one, about the message of a slot.
LEMMA TimerNacks ==
  ASSUME Types,
         \/ \E k \in 1 .. Len(nackTimers) : pkt_recv_timeout_cb(k)
         \/ \E i \in Slots : last_pkt_recv_timeout_cb(i)
  PROVE  \/ UNCHANGED nacks
         \/ \E i \in Slots, from \in Int, to \in Int :
              recvdatabuf[i] \in Recv /\ SendNack(recvdatabuf[i], from, to)
      BY NackTimerStep, LastTimerStep

\* ml/ml.c: the callback is told of the message of its slot.
LEMMA UpcallsType ==
  ASSUME Types, NEW f \in Recv
  PROVE  UpcallsAfter(f) \in Seq(Upcall)
<1>1. /\ f.msg \in Messages /\ f.got \in SUBSET Nat /\ f.msg.len \in Nat
      /\ f.arrivedBytes \in Nat
      BY RecvFields
<1>2. [msg |-> f.msg, got |-> f.got, nrMissingBytes |-> f.msg.len - f.arrivedBytes] \in Upcall
      BY <1>1 DEF Upcall
<1>3. upcalls \in Seq(Upcall)
      BY DEF Types, TypeOK
<1>4. QED
      BY <1>2, <1>3 DEF UpcallsAfter

\* ml/ml.c: the NACKs under way, the connections, the timers and the callbacks.
LEMMA NextReceiver ==
  ASSUME Types, Buffer, [Next]_vars
  PROVE  /\ nacks' \in Seq(Nack) /\ open' \subseteq Conns
         /\ nackTimers' \in Seq(NackTimer) /\ upcalls' \in Seq(Upcall)
<1>1. /\ nacks \in Seq(Nack) /\ open \subseteq Conns
      /\ nackTimers \in Seq(NackTimer) /\ upcalls \in Seq(Upcall)
      BY DEF Types, TypeOK
<1>2. CASE UNCHANGED <<nacks, receiverVars>>
      BY <1>1, <1>2 DEF receiverVars
<1>3. CASE \E m \in Messages : mlSendData(m)
      BY <1>2, <1>3 DEF mlSendData
<1>4. CASE ReceiveData
  <2>1. PICK k \in 1 .. Len(net), again \in BOOLEAN : recv_data_msg(k, again)
        BY <1>4 DEF ReceiveData, Arriving
  <2>2. UNCHANGED <<nacks, open>> /\ net[k] \in Fragment
        BY <2>1 DEF recv_data_msg, Types
  <2>3. CASE UNCHANGED <<recvdatabuf, nackTimers, upcalls>>
        BY <1>1, <2>2, <2>3
  <2>4. ASSUME NEW i \in Slots, NEW e \in Recv, Enter(i, e, net[k])
        PROVE  nackTimers' \in Seq(NackTimer) /\ upcalls' \in Seq(Upcall)
    <3>1. Entered(e, net[k]) \in Recv
          BY <2>2, EnteredFields
    <3>2. upcalls' \in Seq(Upcall)
          BY <2>4, <3>1, UpcallsType DEF Enter
    <3>3. /\ e.msg.seqnr \in Nat /\ Len(e.gaps) + 1 \in Nat \ {0} /\ RTX_RETRY \in Nat
          BY RecvFields, SizesAssumption
    <3>4. [id |-> i, seqnr |-> e.msg.seqnr, gap |-> Len(e.gaps) + 1, retry |-> RTX_RETRY]
            \in NackTimer
          BY <3>3 DEF NackTimer
    <3>5. nackTimers' \in Seq(NackTimer)
          BY <1>1, <2>4, <3>4 DEF Enter
    <3>6. QED
          BY <3>2, <3>5
  <2>5. QED
        BY <1>1, <2>1, <2>2, <2>3, <2>4, DataStep
<1>5. CASE ReceiveNack
  <2>1. PICK k \in 1 .. Len(nacks), again \in BOOLEAN : recv_nack_msg(k, again)
        BY <1>5 DEF ReceiveNack, Arriving
  <2>2. nacks' = Taken(nacks, k, again) /\ UNCHANGED receiverVars
        BY <2>1 DEF recv_nack_msg
  <2>3. nacks' \in Seq(Nack)
        BY <1>1, <2>2, TakenType
  <2>4. QED
        BY <1>1, <2>2, <2>3 DEF receiverVars
<1>6. CASE \E k \in 1 .. Len(net) : LosePacket(k)
      BY <1>2, <1>6 DEF LosePacket
<1>7. ASSUME NEW k \in 1 .. Len(nacks), LoseNack(k)
      PROVE  nacks' \in Seq(Nack) /\ UNCHANGED receiverVars
      BY <1>1, <1>7, TakenType DEF LoseNack
<1>8. CASE NackTimeout
  <2>1. PICK k \in 1 .. Len(nackTimers) : pkt_recv_timeout_cb(k)
        BY <1>8 DEF NackTimeout
  <2>2. UNCHANGED <<open, upcalls>>
        BY <2>1 DEF pkt_recv_timeout_cb
  <2>3. nackTimers' \in Seq(NackTimer)
        BY <2>1, NackTimerStep
  <2>4. nacks' \in Seq(Nack)
        BY <1>1, <2>1, TimerNacks, SendNackType
  <2>5. QED
        BY <1>1, <2>2, <2>3, <2>4
<1>9. ASSUME NEW i \in Slots, last_pkt_recv_timeout_cb(i)
      PROVE  /\ nacks' \in Seq(Nack) /\ open' \subseteq Conns
             /\ nackTimers' \in Seq(NackTimer) /\ upcalls' \in Seq(Upcall)
  <2>1. UNCHANGED <<open, upcalls, nackTimers>>
        BY <1>9 DEF last_pkt_recv_timeout_cb
  <2>2. nacks' \in Seq(Nack)
        BY <1>1, <1>9, TimerNacks, SendNackType
  <2>3. QED
        BY <1>1, <2>1, <2>2
<1>10. CASE \E i \in Slots : recv_timeout_cb(i)
       BY <1>1, <1>10 DEF recv_timeout_cb
<1>11. CASE \E c \in Conns : mlCloseConnection(c)
       BY <1>1, <1>11 DEF mlCloseConnection
<1>12. CASE UNCHANGED vars
       BY <1>2, <1>12 DEF vars
<1>13. QED
  <2>1. ASSUME NEW k \in 1 .. Len(nacks), LoseNack(k)
        PROVE  /\ nacks' \in Seq(Nack) /\ open' \subseteq Conns
               /\ nackTimers' \in Seq(NackTimer) /\ upcalls' \in Seq(Upcall)
        BY <1>1, <1>7, <2>1 DEF receiverVars
  <2>2. QED
        BY <2>1, <1>3, <1>4, <1>5, <1>6, <1>8, <1>9, <1>10, <1>11, <1>12 DEF Next

\* ml/ml.c: the types of the model, with the packets within their messages.
LEMMA NextTypes ==
  ASSUME Types, Buffer, OneSlotPerMessage, [Next]_vars
  PROVE  Types'
<1>1. /\ unsent' \subseteq Messages /\ pmtu' \in [Conns -> PayloadSizes]
      /\ rtx' \in Seq(Fragment) /\ net' \in Seq(Fragment)
      BY NextSender
<1>2. rtx' \in Seq(Packet) /\ net' \in Seq(Packet)
      BY <1>1, SeqMonotonic DEF Fragment
<1>3. /\ nacks' \in Seq(Nack) /\ open' \subseteq Conns
      /\ nackTimers' \in Seq(NackTimer) /\ upcalls' \in Seq(Upcall)
      BY NextReceiver
<1>4. recvdatabuf' \in [Slots -> Recv \cup {NULL}]
      BY NextSlots
<1>5. faults' \in [FaultKinds -> Nat]
      BY NextFaults
<1>6. QED
      BY <1>1, <1>2, <1>3, <1>4, <1>5 DEF Types, TypeOK

-----------------------------------------------------------------------------
(* What is new, and what is done.                                           *)

\* A NACK that is not about m asks for no packet of m.
LEMMA NotAskedFor ==
  ASSUME NEW m, NEW n \in NotAbout(m)
  PROVE  n \in Nack /\ AskedBy(n) \subseteq NotOf(m)
      BY DEF NotAbout, AskedBy, NotOf

\* ml/ml.c: once nothing of a message is left, nothing of it comes back.
LEMMA QuietStays ==
  ASSUME Types, Buffer, [Next]_vars, NEW m \in Messages, Quiet(m), NoSlot(m), ~ mlSendData(m)
  PROVE  Quiet(m)'
<1>1. /\ net \in Seq(NotOf(m)) /\ nacks \in Seq(NotAbout(m)) /\ rtx \in Seq(Fragment)
      BY DEF Quiet, Types
<1> SUFFICES net' \in Seq(NotOf(m)) /\ nacks' \in Seq(NotAbout(m))
    BY DEF Quiet, NotOf, NotAbout, Fragment, Packet, Nack
<1>2. CASE UNCHANGED <<net, nacks>>
      BY <1>1, <1>2
<1>3. ASSUME NEW l \in Messages, mlSendData(l)
      PROVE  net' \in Seq(NotOf(m)) /\ nacks' \in Seq(NotAbout(m))
  <2>1. PICK ps \in Seq(Of(l)) : net' = net \o ps
        BY <1>3, Sends
  <2>2. \A p \in Of(l) : p \in NotOf(m)
        BY <1>3 DEF Of, NotOf
  <2>3. ps \in Seq(NotOf(m))
        BY <2>2, SeqMonotonic
  <2>4. nacks' = nacks
        BY <1>3 DEF mlSendData
  <2>5. QED
        BY <1>1, <2>1, <2>3, <2>4, ConcatProperties
<1>4. CASE ReceiveData
  <2>1. PICK k \in 1 .. Len(net), again \in BOOLEAN : recv_data_msg(k, again)
        BY <1>4 DEF ReceiveData, Arriving
  <2>2. net' = Taken(net, k, again) /\ nacks' = nacks
        BY <2>1 DEF recv_data_msg
  <2>3. QED
        BY <1>1, <2>2, TakenType
<1>5. CASE ReceiveNack
  <2>1. PICK k \in 1 .. Len(nacks), again \in BOOLEAN : recv_nack_msg(k, again)
        BY <1>5 DEF ReceiveNack, Arriving
  <2>2. net' = net \o rtxPackets(nacks[k]) /\ nacks' = Taken(nacks, k, again)
        BY <2>1 DEF recv_nack_msg
  <2>3. nacks[k] \in NotAbout(m)
        BY <1>1
  <2>4. nacks[k] \in Nack /\ AskedBy(nacks[k]) \subseteq NotOf(m)
        BY <2>3, NotAskedFor
  <2>5. rtxPackets(nacks[k]) \in Seq(AskedBy(nacks[k]))
        BY <1>1, <2>4, RtxPacketsType
  <2>6. rtxPackets(nacks[k]) \in Seq(NotOf(m))
        BY <2>4, <2>5, SeqMonotonic
  <2>7. net' \in Seq(NotOf(m))
        BY <1>1, <2>2, <2>6, ConcatProperties
  <2>8. nacks' \in Seq(NotAbout(m))
        BY <1>1, <2>2, TakenType
  <2>9. QED
        BY <2>7, <2>8
<1>6. ASSUME NEW k \in 1 .. Len(net), LosePacket(k)
      PROVE  net' \in Seq(NotOf(m)) /\ nacks' \in Seq(NotAbout(m))
      BY <1>1, <1>6, TakenType DEF LosePacket
<1>7. ASSUME NEW k \in 1 .. Len(nacks), LoseNack(k)
      PROVE  net' \in Seq(NotOf(m)) /\ nacks' \in Seq(NotAbout(m))
      BY <1>1, <1>7, TakenType DEF LoseNack
<1>8. CASE \/ NackTimeout
           \/ \E i \in Slots : last_pkt_recv_timeout_cb(i)
  <2>1. net' = net
        BY <1>8 DEF NackTimeout, pkt_recv_timeout_cb, last_pkt_recv_timeout_cb
  <2>2. CASE UNCHANGED nacks
        BY <1>1, <2>1, <2>2
  <2>3. ASSUME NEW i \in Slots, NEW from \in Int, NEW to \in Int,
               recvdatabuf[i] \in Recv, SendNack(recvdatabuf[i], from, to)
        PROVE  nacks' \in Seq(NotAbout(m))
    <3> DEFINE e == recvdatabuf[i]
               n == [con |-> e.msg.con, seqnr |-> e.msg.seqnr, from |-> from, to |-> to]
    <3>1. n \in Nack /\ nacks' = Append(nacks, n)
          BY <2>3, SendNackType
    <3>2. e # NULL /\ e.msg \in Messages
          BY <2>3, NullAssumption, RecvFields
    <3>3. e.msg # m
          BY <3>2 DEF NoSlot
    <3>4. e.msg.con # m.con \/ e.msg.seqnr # m.seqnr
          BY <3>2, <3>3, MessagesAssumption
    <3>5. n.con = e.msg.con /\ n.seqnr = e.msg.seqnr
          OBVIOUS
    <3> HIDE DEF n, e
    <3>6. n \in NotAbout(m)
          BY <3>1, <3>4, <3>5 DEF NotAbout
    <3>7. QED
          BY <1>1, <3>1, <3>6
  <2>4. UNCHANGED nacks \/ \E i \in Slots, from \in Int, to \in Int :
          recvdatabuf[i] \in Recv /\ SendNack(recvdatabuf[i], from, to)
        BY <1>8, TimerNacks DEF NackTimeout
  <2>5. QED
        BY <1>1, <2>1, <2>2, <2>3, <2>4
<1>9. CASE \E i \in Slots : recv_timeout_cb(i)
      BY <1>2, <1>9 DEF recv_timeout_cb
<1>10. CASE \E c \in Conns : mlCloseConnection(c)
       BY <1>2, <1>10 DEF mlCloseConnection
<1>11. CASE UNCHANGED vars
       BY <1>2, <1>11 DEF vars
<1>12. QED
       BY <1>3, <1>4, <1>5, <1>6, <1>7, <1>8, <1>9, <1>10, <1>11 DEF Next

\* A packet under way is of a message that is not quiet.
LEMMA NotQuiet ==
  ASSUME NEW k \in 1 .. Len(net), Quiet(net[k].msg)
  PROVE  FALSE
<1>1. net[k] \in NotOf(net[k].msg)
      BY DEF Quiet
<1>2. QED
      BY <1>1 DEF NotOf

\* ml/ml.c: nor does it get a slot.
LEMMA NoSlotStays ==
  ASSUME Types, Buffer, OneSlotPerMessage, [Next]_vars,
         NEW m \in Messages, Quiet(m), NoSlot(m)
  PROVE  NoSlot(m)'
<1>1. CASE UNCHANGED recvdatabuf
      BY <1>1 DEF NoSlot
<1>2. ASSUME NEW i \in Slots, NEW f, SlotChanged(i, f), f # NULL => f.msg # m
      PROVE  NoSlot(m)'
      BY <1>2, ChangedSlots DEF NoSlot
<1>3. CASE ReceiveData
  <2>1. PICK k \in 1 .. Len(net), again \in BOOLEAN : recv_data_msg(k, again)
        BY <1>3 DEF ReceiveData, Arriving
  <2>2. net[k] \in Fragment /\ net[k].msg # m
        BY NotQuiet DEF Types
  <2>3. CASE UNCHANGED <<recvdatabuf, nackTimers, upcalls>>
        BY <1>1, <2>3
  <2>4. ASSUME NEW i \in Slots, NEW e \in Recv, Entry(e), e.msg = net[k].msg,
               recvdatabuf[i] = e \/ (recvdatabuf[i] = NULL /\ NoSlot(e.msg)),
               Enter(i, e, net[k])
        PROVE  NoSlot(m)'
        BY <1>2, <2>2, <2>4, EnterSlot
  <2>5. QED
        BY <2>1, <2>3, <2>4, DataStep
<1>4. ASSUME NEW i \in Slots, last_pkt_recv_timeout_cb(i)
      PROVE  NoSlot(m)'
  <2>1. recvdatabuf[i] # NULL /\ SlotChanged(i, [recvdatabuf[i] EXCEPT !.last = FALSE])
        BY <1>4, FiredSlot
  <2>2. [recvdatabuf[i] EXCEPT !.last = FALSE].msg = recvdatabuf[i].msg
        BY <2>1, FiredEntry DEF Buffer
  <2>3. recvdatabuf[i].msg # m
        BY <2>1 DEF NoSlot
  <2>4. QED
        BY <1>2, <2>1, <2>2, <2>3
<1>5. ASSUME NEW i \in Slots, recv_timeout_cb(i)
      PROVE  NoSlot(m)'
      BY <1>2, <1>5, FreedSlot
<1>6. CASE \E l \in Messages : mlSendData(l)
      BY <1>1, <1>6 DEF mlSendData, receiverVars
<1>7. CASE ReceiveNack
      BY <1>1, <1>7 DEF ReceiveNack, recv_nack_msg, receiverVars
<1>8. CASE \/ \E k \in 1 .. Len(net) : LosePacket(k)
           \/ \E k \in 1 .. Len(nacks) : LoseNack(k)
      BY <1>1, <1>8 DEF LosePacket, LoseNack, receiverVars
<1>9. CASE NackTimeout
      BY <1>1, <1>9 DEF NackTimeout, pkt_recv_timeout_cb
<1>10. CASE \E c \in Conns : mlCloseConnection(c)
       BY <1>1, <1>10 DEF mlCloseConnection
<1>11. CASE UNCHANGED vars
       BY <1>1, <1>11 DEF vars, receiverVars
<1>12. QED
       BY <1>3, <1>4, <1>5, <1>6, <1>7, <1>8, <1>9, <1>10, <1>11 DEF Next

\* ml/ml.c: the callback is called by recv_data_msg, about the message of the packet.
LEMMA UpcallStep ==
  ASSUME Types, Buffer, OneSlotPerMessage, [Next]_vars
  PROVE  \/ UNCHANGED upcalls
         \/ \E i \in Slots, e \in Recv, k \in 1 .. Len(net), u \in Upcall :
              /\ Entry(e) /\ e.msg = net[k].msg /\ e.status = "ACTIVE"
              /\ recvdatabuf[i] = e \/ (recvdatabuf[i] = NULL /\ NoSlot(e.msg))
              /\ SlotChanged(i, Entered(e, net[k])) /\ Entered(e, net[k]) # NULL
              /\ Entered(e, net[k]).msg = e.msg /\ Entered(e, net[k]).status = "COMPLETE"
              /\ upcalls' = Append(upcalls, u) /\ u.msg = e.msg
<1>1. CASE ReceiveData
  <2>1. PICK k \in 1 .. Len(net), again \in BOOLEAN : recv_data_msg(k, again)
        BY <1>1 DEF ReceiveData, Arriving
  <2>2. net[k] \in Fragment
        BY DEF Types
  <2>3. CASE UNCHANGED <<recvdatabuf, nackTimers, upcalls>>
        BY <2>3
  <2>4. ASSUME NEW i \in Slots, NEW e \in Recv, Entry(e), e.msg = net[k].msg,
               e.status = "ACTIVE",
               recvdatabuf[i] = e \/ (recvdatabuf[i] = NULL /\ NoSlot(e.msg)),
               Enter(i, e, net[k]), Entered(e, net[k]).status = "COMPLETE"
        PROVE  /\ SlotChanged(i, Entered(e, net[k])) /\ Entered(e, net[k]) # NULL
               /\ Entered(e, net[k]).msg = e.msg
               /\ \E u \in Upcall : upcalls' = Append(upcalls, u) /\ u.msg = e.msg
    <3> DEFINE f == Entered(e, net[k])
               u == [msg |-> f.msg, got |-> f.got,
                     nrMissingBytes |-> f.msg.len - f.arrivedBytes]
    <3>1. SlotChanged(i, f) /\ f # NULL /\ f.msg = e.msg
          BY <2>2, <2>4, EnterSlot
    <3>2. f \in Recv
          BY <2>2, EnteredFields
    <3>3. upcalls' = Append(upcalls, u)
          BY <2>4 DEF Enter, UpcallsAfter
    <3> HIDE DEF f
    <3>4. u \in Upcall /\ u.msg = f.msg
      <4>1. /\ f.msg \in Messages /\ f.got \in SUBSET Nat /\ f.msg.len \in Nat
            /\ f.arrivedBytes \in Nat
            BY <3>2, RecvFields
      <4>2. QED
            BY <4>1 DEF Upcall
    <3> HIDE DEF u
    <3>5. QED
          BY <3>1, <3>3, <3>4 DEF f
  <2>5. ASSUME NEW i \in Slots, NEW e \in Recv, Enter(i, e, net[k]),
               Entered(e, net[k]).status # "COMPLETE"
        PROVE  UNCHANGED upcalls
        BY <2>5 DEF Enter, UpcallsAfter
  <2>6. QED
        BY <2>1, <2>3, <2>4, <2>5, DataStep
<1>2. CASE \E l \in Messages : mlSendData(l)
      BY <1>2 DEF mlSendData, receiverVars
<1>3. CASE ReceiveNack
      BY <1>3 DEF ReceiveNack, recv_nack_msg, receiverVars
<1>4. CASE \/ \E k \in 1 .. Len(net) : LosePacket(k)
           \/ \E k \in 1 .. Len(nacks) : LoseNack(k)
      BY <1>4 DEF LosePacket, LoseNack, receiverVars
<1>5. CASE NackTimeout
      BY <1>5 DEF NackTimeout, pkt_recv_timeout_cb
<1>6. CASE \E i \in Slots : last_pkt_recv_timeout_cb(i) \/ recv_timeout_cb(i)
      BY <1>6 DEF last_pkt_recv_timeout_cb, recv_timeout_cb
<1>7. CASE \E c \in Conns : mlCloseConnection(c)
      BY <1>7 DEF mlCloseConnection
<1>8. CASE UNCHANGED vars
      BY <1>8 DEF vars, receiverVars
<1>9. QED
      BY <1>1, <1>2, <1>3, <1>4, <1>5, <1>6, <1>7, <1>8 DEF Next

\* ml/ml.c: a message is handed up after it was handed over.
LEMMA NextUnsent ==
  ASSUME IInv, [Next]_vars
  PROVE  UnsentIsNew'
<1> SUFFICES ASSUME NEW m \in unsent'
             PROVE  /\ Quiet(m)' /\ NoSlot(m)'
                    /\ rtx' \in Seq(NotOf(m))
                    /\ \A k \in 1 .. Len(upcalls') : upcalls'[k].msg # m
    BY DEF UnsentIsNew, NotOf, Fragment, Packet
<1>1. Types /\ Buffer /\ OneSlotPerMessage
      BY DEF IInv
<1>2. m \in unsent /\ ~ mlSendData(m)
  <2>1. (\E l \in Messages : mlSendData(l)) \/ UNCHANGED unsent
        BY DEF Next, ReceiveData, recv_data_msg, ReceiveNack, recv_nack_msg, NackTimeout,
               LosePacket, LoseNack, pkt_recv_timeout_cb, last_pkt_recv_timeout_cb,
               recv_timeout_cb, mlCloseConnection, vars, senderVars
  <2>2. \A l \in Messages : mlSendData(l) => unsent' = unsent \ {l}
        BY DEF mlSendData
  <2>3. mlSendData(m) => unsent' = unsent \ {m}
        BY DEF mlSendData
  <2>4. QED
        BY <2>1, <2>2, <2>3
<1>3. m \in Messages
      BY <1>1, <1>2 DEF Types, TypeOK
<1>4. /\ Quiet(m) /\ NoSlot(m) /\ rtx \in Seq(NotOf(m))
      /\ \A k \in 1 .. Len(upcalls) : upcalls[k].msg # m
      BY <1>2 DEF IInv, UnsentIsNew
<1>5. Quiet(m)'
      BY <1>1, <1>2, <1>3, <1>4, QuietStays
<1>6. NoSlot(m)'
      BY <1>1, <1>3, <1>4, NoSlotStays
<1>7. rtx' \in Seq(NotOf(m))
  <2>1. ASSUME NEW l \in Messages, mlSendData(l)
        PROVE  rtx' \in Seq(NotOf(m))
    <3>1. PICK ps \in Seq(Of(l)) : rtx' = Kept(ps)
          BY <1>1, <2>1, Sends
    <3>2. \A p \in Of(l) : p \in NotOf(m)
          BY <1>2, <2>1 DEF Of, NotOf
    <3>3. ps \in Seq(NotOf(m))
          BY <3>2, SeqMonotonic
    <3>4. QED
          BY <1>4, <3>1, <3>3, KeptType
  <2>2. (\E l \in Messages : mlSendData(l)) \/ UNCHANGED rtx
        BY DEF Next, ReceiveData, recv_data_msg, ReceiveNack, recv_nack_msg, NackTimeout,
               LosePacket, LoseNack, pkt_recv_timeout_cb, last_pkt_recv_timeout_cb,
               recv_timeout_cb, mlCloseConnection, vars, senderVars
  <2>3. QED
        BY <1>4, <2>1, <2>2
<1>8. \A k \in 1 .. Len(upcalls') : upcalls'[k].msg # m
  <2>1. upcalls \in Seq(Upcall)
        BY <1>1 DEF Types, TypeOK
  <2>2. CASE UNCHANGED upcalls
        BY <1>4, <2>2
  <2>3. ASSUME NEW k \in 1 .. Len(net), NEW u \in Upcall,
               upcalls' = Append(upcalls, u), u.msg = net[k].msg
        PROVE  \A j \in 1 .. Len(upcalls') : upcalls'[j].msg # m
    <3>1. net[k].msg # m
          BY <1>4, NotQuiet
    <3>2. QED
          BY <1>4, <2>1, <2>3, <3>1
  <2>4. \/ UNCHANGED upcalls
        \/ \E k \in 1 .. Len(net), u \in Upcall :
             upcalls' = Append(upcalls, u) /\ u.msg = net[k].msg
        BY <1>1, UpcallStep
  <2>5. QED
        BY <2>2, <2>3, <2>4
<1>9. QED
      BY <1>5, <1>6, <1>7, <1>8

\* ml/ml.c: a packet of a message that is done is entered nowhere.
LEMMA NotEnteredAgain ==
  ASSUME OneSlotPerMessage, NEW i \in Slots, NEW e \in Recv, NEW k \in 1 .. Len(net),
         e.msg = net[k].msg, e.status = "ACTIVE",
         recvdatabuf[i] = e \/ (recvdatabuf[i] = NULL /\ NoSlot(e.msg)),
         Done(e.msg)
  PROVE  FALSE
<1>1. ~ Quiet(e.msg)
      BY NotQuiet
<1>2. PICK j \in Slots : /\ recvdatabuf[j] # NULL /\ recvdatabuf[j].msg = e.msg
                         /\ recvdatabuf[j].status = "COMPLETE"
      BY <1>1 DEF Done
<1>3. recvdatabuf[i] = e /\ e # NULL
      BY <1>2, NullAssumption DEF NoSlot
<1>4. i = j
      BY <1>2, <1>3 DEF OneSlotPerMessage
<1>5. QED
      BY <1>2, <1>3, <1>4

\* ml/ml.c: a slot is given back before the last packets of its message arrived, or
\* nothing of the message is left.
LEMMA FreedIsQuiet ==
  ASSUME Types, OneSlotPerMessage, NEW i \in Slots, recv_timeout_cb(i), faults'["late"] = 0,
         NEW m, m = recvdatabuf[i].msg
  PROVE  Quiet(m)' /\ NoSlot(m)'
<1>1. /\ recvdatabuf[i] # NULL /\ recvdatabuf' = [recvdatabuf EXCEPT ![i] = NULL]
      /\ IF UnderWay(m) THEN Fault("late") ELSE UNCHANGED faults
      /\ net' = net /\ nacks' = nacks
      BY DEF recv_timeout_cb
<1>2. ~ UnderWay(m)
  <2>1. faults \in [FaultKinds -> Nat] /\ "late" \in FaultKinds
        BY DEF Types, TypeOK, FaultKinds
  <2>2. QED
        BY <1>1, <2>1, FaultType
<1>3. recvdatabuf \in [Slots -> Recv \cup {NULL}] /\ net \in Seq(Fragment) /\ nacks \in Seq(Nack)
      BY DEF Types, TypeOK
<1>4. net \in Seq(NotOf(m))
  <2>1. \A k \in 1 .. Len(net) : net[k] \in NotOf(m)
        BY <1>2, <1>3 DEF UnderWay, NotOf
  <2>2. QED
        BY <1>3, <2>1, SeqOver
<1>5. nacks \in Seq(NotAbout(m))
  <2>1. \A k \in 1 .. Len(nacks) : nacks[k] \in NotAbout(m)
        BY <1>2, <1>3 DEF UnderWay, NotAbout
  <2>2. QED
        BY <1>3, <2>1, SeqOver
<1>6. ASSUME NEW j \in Slots, recvdatabuf'[j] # NULL
      PROVE  recvdatabuf'[j].msg # m
      BY <1>1, <1>3, <1>6 DEF OneSlotPerMessage
<1>7. QED
      BY <1>1, <1>4, <1>5, <1>6 DEF Quiet, NoSlot, NotOf, NotAbout, Fragment, Packet, Nack

\* ml/ml.c: what is done stays done as long as no slot is cleaned up early.
LEMMA DoneStays ==
  ASSUME IInv, [Next]_vars, faults'["late"] = 0, NEW m \in Messages, Done(m), m \notin unsent
  PROVE  Done(m)'
<1>1. Types /\ Buffer /\ OneSlotPerMessage
      BY DEF IInv
<1>2. CASE Quiet(m) /\ NoSlot(m)
  <2>1. ~ mlSendData(m)
        BY DEF mlSendData
  <2>2. Quiet(m)' /\ NoSlot(m)'
        BY <1>1, <1>2, <2>1, QuietStays, NoSlotStays
  <2>3. QED
        BY <2>2 DEF Done
<1>3. ASSUME NEW j \in Slots, recvdatabuf[j] # NULL, recvdatabuf[j].msg = m,
             recvdatabuf[j].status = "COMPLETE"
      PROVE  Done(m)'
  <2>1. CASE recvdatabuf'[j] = recvdatabuf[j]
        BY <1>3, <2>1 DEF Done
  <2>2. CASE UNCHANGED recvdatabuf
        BY <2>1, <2>2
  <2>3. ASSUME NEW i \in Slots, NEW f, SlotChanged(i, f), i # j
        PROVE  recvdatabuf'[j] = recvdatabuf[j]
        BY <1>1, <2>3, ChangedSlots
  <2>4. CASE ReceiveData
    <3>1. PICK k \in 1 .. Len(net), again \in BOOLEAN : recv_data_msg(k, again)
          BY <2>4 DEF ReceiveData, Arriving
    <3>2. net[k] \in Fragment
          BY <1>1 DEF Types
    <3>3. CASE UNCHANGED <<recvdatabuf, nackTimers, upcalls>>
          BY <2>2, <3>3
    <3>4. ASSUME NEW i \in Slots, NEW e \in Recv, Entry(e), e.msg = net[k].msg,
                 e.status = "ACTIVE",
                 recvdatabuf[i] = e \/ (recvdatabuf[i] = NULL /\ NoSlot(e.msg)),
                 Enter(i, e, net[k])
          PROVE  recvdatabuf'[j] = recvdatabuf[j]
      <4>1. i # j
            BY <1>3, <3>4
      <4>2. SlotChanged(i, Entered(e, net[k]))
            BY <1>1, <3>2, <3>4, EnterSlot
      <4>3. QED
            BY <2>3, <4>1, <4>2
    <3>5. QED
          BY <1>1, <2>1, <3>1, <3>3, <3>4, DataStep
  <2>5. ASSUME NEW i \in Slots, last_pkt_recv_timeout_cb(i)
        PROVE  Done(m)'
    <3> DEFINE f == [recvdatabuf[i] EXCEPT !.last = FALSE]
    <3>1. recvdatabuf[i] # NULL /\ SlotChanged(i, f)
          BY <1>1, <2>5, FiredSlot
    <3>2. Entry(recvdatabuf[i])
          BY <1>1, <3>1 DEF Buffer
    <3>3. /\ Entry(f) /\ f.msg = recvdatabuf[i].msg /\ f.status = recvdatabuf[i].status
          BY <3>2, FiredEntry
    <3> HIDE DEF f
    <3>4. CASE i # j
          BY <2>1, <2>3, <3>1, <3>4
    <3>5. CASE i = j
      <4>1. recvdatabuf'[j] = f /\ f # NULL
            BY <1>1, <3>1, <3>3, <3>5, ChangedSlots, NullAssumption DEF Entry
      <4>2. QED
            BY <1>3, <3>3, <3>5, <4>1 DEF Done
    <3>6. QED
          BY <3>4, <3>5
  <2>6. ASSUME NEW i \in Slots, recv_timeout_cb(i)
        PROVE  Done(m)'
    <3>1. CASE i # j
          BY <2>1, <2>3, <2>6, <3>1, FreedSlot
    <3>2. CASE i = j
      <4>1. Quiet(m)' /\ NoSlot(m)'
            BY <1>1, <1>3, <2>6, <3>2, FreedIsQuiet
      <4>2. QED
            BY <4>1 DEF Done
    <3>3. QED
          BY <3>1, <3>2
  <2>7. CASE \E l \in Messages : mlSendData(l)
        BY <2>2, <2>7 DEF mlSendData, receiverVars
  <2>8. CASE ReceiveNack
        BY <2>2, <2>8 DEF ReceiveNack, recv_nack_msg, receiverVars
  <2>9. CASE \/ \E k \in 1 .. Len(net) : LosePacket(k)
             \/ \E k \in 1 .. Len(nacks) : LoseNack(k)
        BY <2>2, <2>9 DEF LosePacket, LoseNack, receiverVars
  <2>10. CASE NackTimeout
         BY <2>2, <2>10 DEF NackTimeout, pkt_recv_timeout_cb
  <2>11. CASE \E c \in Conns : mlCloseConnection(c)
         BY <2>2, <2>11 DEF mlCloseConnection
  <2>12. CASE UNCHANGED vars
         BY <2>2, <2>12 DEF vars, receiverVars
  <2>13. QED
         BY <2>4, <2>5, <2>6, <2>7, <2>8, <2>9, <2>10, <2>11, <2>12 DEF Next
<1>4. QED
      BY <1>2, <1>3 DEF Done

\* ml/ml.c: a message is handed up once and then done.
LEMMA NextDone ==
  ASSUME IInv, [Next]_vars, faults'["late"] = 0
  PROVE  UpcallsDone' /\ DeliveredOnce'
<1>1. Types /\ Buffer /\ OneSlotPerMessage
      BY DEF IInv
<1>2. faults["late"] = 0
      BY <1>1, NextFaults
<1>3. /\ UpcallsDone
      /\ \A j, k \in 1 .. Len(upcalls) : upcalls[j].msg = upcalls[k].msg => j = k
      BY <1>2 DEF IInv, DeliveredOnce
<1>4. upcalls \in Seq(Upcall) /\ Len(upcalls) \in Nat
      BY <1>1 DEF Types, TypeOK
<1>5. ASSUME NEW k \in 1 .. Len(upcalls), NEW m, m = upcalls[k].msg
      PROVE  Done(m)'
  <2>1. m \in Messages
    <3>1. upcalls[k] \in Upcall
          BY <1>4
    <3>2. QED
          BY <1>5, <3>1 DEF Upcall
  <2>2. m \notin unsent
        BY <1>5 DEF IInv, UnsentIsNew
  <2>3. Done(m)
        BY <1>3, <1>5 DEF UpcallsDone
  <2>4. QED
        BY <2>1, <2>2, <2>3, DoneStays
<1>6. CASE UNCHANGED upcalls
  <2>1. UpcallsDone'
    <3> SUFFICES ASSUME NEW k \in 1 .. Len(upcalls'), NEW m, m = upcalls'[k].msg
                 PROVE  Done(m)'
        BY DEF UpcallsDone, Done, Quiet, NoSlot, NotOf, NotAbout, Fragment, Packet, Nack
    <3>1. QED
          BY <1>5, <1>6
  <2>2. DeliveredOnce'
        BY <1>3, <1>6 DEF DeliveredOnce
  <2>3. QED
        BY <2>1, <2>2
<1>7. ASSUME NEW i \in Slots, NEW e \in Recv, NEW k \in 1 .. Len(net), NEW u \in Upcall,
             e.msg = net[k].msg, e.status = "ACTIVE",
             recvdatabuf[i] = e \/ (recvdatabuf[i] = NULL /\ NoSlot(e.msg)),
             SlotChanged(i, Entered(e, net[k])), Entered(e, net[k]) # NULL,
             Entered(e, net[k]).msg = e.msg, Entered(e, net[k]).status = "COMPLETE",
             upcalls' = Append(upcalls, u), u.msg = e.msg
      PROVE  UpcallsDone' /\ DeliveredOnce'
  <2>1. /\ Len(upcalls') = Len(upcalls) + 1 /\ upcalls'[Len(upcalls) + 1] = u
        /\ \A j \in 1 .. Len(upcalls) : upcalls'[j] = upcalls[j]
        BY <1>4, <1>7
  <2>2. \A j \in 1 .. Len(upcalls) : upcalls[j].msg # u.msg
    <3>1. ~ Done(e.msg)
          BY <1>1, <1>7, NotEnteredAgain
    <3>2. QED
          BY <1>3, <1>7, <3>1 DEF UpcallsDone
  <2>3. ASSUME NEW m, m = u.msg
        PROVE  Done(m)'
    <3>1. recvdatabuf'[i] = Entered(e, net[k])
          BY <1>1, <1>7, ChangedSlots
    <3>2. QED
          BY <1>7, <2>3, <3>1 DEF Done
  <2>4. UpcallsDone'
    <3> SUFFICES ASSUME NEW j \in 1 .. Len(upcalls'), NEW m, m = upcalls'[j].msg
                 PROVE  Done(m)'
        BY DEF UpcallsDone, Done, Quiet, NoSlot, NotOf, NotAbout, Fragment, Packet, Nack
    <3>1. CASE j \in 1 .. Len(upcalls)
          BY <1>5, <2>1, <3>1
    <3>2. CASE j = Len(upcalls) + 1
          BY <2>1, <2>3, <3>2
    <3>3. QED
          BY <1>4, <2>1, <3>1, <3>2
  <2>5. DeliveredOnce'
    <3> SUFFICES ASSUME NEW j \in 1 .. Len(upcalls'), NEW l \in 1 .. Len(upcalls'),
                        upcalls'[j].msg = upcalls'[l].msg
                 PROVE  j = l
        BY DEF DeliveredOnce
    <3>1. /\ j \in 1 .. Len(upcalls) \/ j = Len(upcalls) + 1
          /\ l \in 1 .. Len(upcalls) \/ l = Len(upcalls) + 1
          BY <1>4, <2>1
    <3>2. QED
          BY <1>3, <2>1, <2>2, <3>1
  <2>6. QED
        BY <2>4, <2>5
<1>8. QED
      BY <1>1, <1>6, <1>7, UpcallStep

\* ml/ml.c: IInv holds at first.
LEMMA InitIInv == Init => IInv
<1> SUFFICES ASSUME Init PROVE IInv
    OBVIOUS
<1>1. /\ unsent = Messages /\ pmtu = [c \in Conns |-> Longest]
      /\ rtx = <<>> /\ net = <<>> /\ nacks = <<>> /\ open = Conns
      /\ recvdatabuf = [i \in Slots |-> NULL] /\ nackTimers = <<>> /\ upcalls = <<>>
      /\ faults = [k \in FaultKinds |-> 0]
      BY DEF Init
<1>2. Longest \in PayloadSizes
      BY LongestIsLargest
<1>3. \A S : <<>> \in Seq(S)
      OBVIOUS
<1>4. Types
      BY <1>1, <1>2, <1>3 DEF Types, TypeOK
<1>5. Buffer /\ OneSlotPerMessage /\ \A m : NoSlot(m)
      BY <1>1 DEF Buffer, OneSlotPerMessage, NoSlot
<1>6. UnsentIsNew
      BY <1>1, <1>3, <1>5 DEF UnsentIsNew, Quiet
<1>7. UpcallsDone /\ DeliveredOnce
      BY <1>1 DEF UpcallsDone, DeliveredOnce
<1>8. QED
      BY <1>4, <1>5, <1>6, <1>7 DEF IInv

\* ml/ml.c: IInv is inductive.
LEMMA NextIInv == IInv /\ [Next]_vars => IInv'
<1> SUFFICES ASSUME IInv, [Next]_vars PROVE IInv'
    OBVIOUS
<1>1. Types /\ Buffer /\ OneSlotPerMessage
      BY DEF IInv
<1>2. Types' /\ Buffer' /\ OneSlotPerMessage'
      BY <1>1, NextTypes, NextSlots
<1>3. UnsentIsNew'
      BY NextUnsent
<1>4. faults'["late"] = 0 => UpcallsDone' /\ DeliveredOnce'
      BY NextDone
<1>5. DeliveredOnce'
      BY <1>4 DEF DeliveredOnce
<1>6. QED
      BY <1>2, <1>3, <1>4, <1>5 DEF IInv

\* ml/ml.c: IInv holds in every state.
LEMMA IInvHolds == Spec => []IInv
      BY InitIInv, NextIInv, PTL DEF Spec

\* ml/ml.c: the queues, channels, slots, timers and callbacks keep their shape,
\* whatever the network does.
THEOREM TypeCorrect == Spec => []TypeOK
<1>1. IInv => TypeOK
      BY DEF IInv, Types
<1>2. QED
      BY <1>1, IInvHolds, PTL

\* ml/ml.c: whatever packets arrive, repeated, late or re-cut, no message has two
\* slots.
THEOREM OneSlotPerMessageHolds == Spec => []OneSlotPerMessage
<1>1. IInv => OneSlotPerMessage
      BY DEF IInv
<1>2. QED
      BY <1>1, IInvHolds, PTL

\* ml/ml.c: however the sender re-cuts a message, no fragment reaches beyond the buffer
\* allocated for it.
THEOREM WithinBufferHolds == Spec => []WithinBuffer
<1>1. IInv => WithinBuffer
      BY DEF IInv, Buffer, Entry, Within, WithinBuffer
<1>2. QED
      BY <1>1, IInvHolds, PTL

\* ml/ml.c: in whatever order fragments arrive, what is missing below the expected
\* offset lies in a gap, unless the gaps ran out.
THEOREM MissingCoveredHolds == Spec => []MissingCovered
<1>1. IInv => MissingCovered
      BY DEF IInv, Buffer, Entry, Covered, MissingCovered
<1>2. QED
      BY <1>1, IInvHolds, PTL

\* ml/ml.c: as long as no slot is cleaned up with packets of its message under way,
\* the application gets a message once.
THEOREM DeliveredOnceHolds == Spec => []DeliveredOnce
<1>1. IInv => DeliveredOnce
      BY DEF IInv
<1>2. QED
      BY <1>1, IInvHolds, PTL
-----------------------------------------------------------------------------
(* The count of the bytes.                                                  *)

\* recv_data_msg takes a packet none of whose bytes the slot of its message has.
FreshArrivals ==
  \A k \in 1 .. Len(net), again \in BOOLEAN :
    recv_data_msg(k, again) =>
      \A i \in Slots :
        recvdatabuf[i] # NULL /\ recvdatabuf[i].msg = net[k].msg =>
          recvdatabuf[i].got \cap (net[k].off .. net[k].off + net[k].len - 1) = {}

\* arrivedBytes counts the bytes that arrived.
CountsBytes(e) == IsFiniteSet(e.got) /\ e.arrivedBytes = Cardinality(e.got)

Counted == \A i \in Slots : recvdatabuf[i] # NULL => CountsBytes(recvdatabuf[i])

\* ml/ml.c: a new slot counts none, and a fresh packet its own.
LEMMA EnteredCounts ==
  ASSUME NEW e \in Recv, NEW p \in Fragment, CountsBytes(e),
         e.got \cap (p.off .. p.off + p.len - 1) = {}
  PROVE  CountsBytes(Entered(e, p))
<1> DEFINE B == p.off .. p.off + p.len - 1
<1>1. /\ Entered(e, p).got = e.got \cup B
      /\ Entered(e, p).arrivedBytes = e.arrivedBytes + p.len
      BY EnteredFields
<1>2. p.off \in Nat /\ p.len \in Nat \ {0}
      BY Numbers
<1>3. IsFiniteSet(B) /\ Cardinality(B) = p.len
  <2>1. p.off \in Int /\ p.off + p.len - 1 \in Int /\ ~ (p.off > p.off + p.len - 1)
        /\ (p.off + p.len - 1) - p.off + 1 = p.len
        BY <1>2
  <2>2. QED
        BY <2>1, FS_Interval
<1>4. e.got \cap B = {}
      OBVIOUS
<1> HIDE DEF B
<1>5. /\ IsFiniteSet(e.got \cup B)
      /\ Cardinality(e.got \cup B) =
           Cardinality(e.got) + Cardinality(B) - Cardinality(e.got \cap B)
      BY <1>3, FS_Union DEF CountsBytes
<1>6. Cardinality(e.got \cap B) = 0
      BY <1>4, FS_EmptySet
<1>7. e.arrivedBytes \in Nat /\ e.arrivedBytes = Cardinality(e.got)
      BY RecvFields DEF CountsBytes
<1>8. Cardinality(e.got \cup B) = e.arrivedBytes + p.len
      BY <1>2, <1>3, <1>5, <1>6, <1>7
<1>9. QED
      BY <1>1, <1>5, <1>8 DEF CountsBytes

\* ml/ml.c: what is left to arrive of an entry that counts its bytes.
LEMMA MissingCount ==
  ASSUME NEW e, Entry(e), CountsBytes(e)
  PROVE  e.msg.len - e.arrivedBytes = Cardinality(Units(e.msg) \ e.got)
<1> DEFINE U == 0 .. e.msg.len - 1
<1>1. e.msg.len \in Nat \ {0} /\ e.arrivedBytes \in Nat
      BY RecvFields DEF Entry
<1>2. IsFiniteSet(U) /\ Cardinality(U) = e.msg.len
  <2>1. /\ 0 \in Int /\ e.msg.len - 1 \in Int /\ ~ (0 > e.msg.len - 1)
        /\ (e.msg.len - 1) - 0 + 1 = e.msg.len
        BY <1>1
  <2>2. QED
        BY <2>1, FS_Interval
<1>3. e.got \subseteq U /\ Units(e.msg) = U
      BY DEF Entry, Within, Units
<1> HIDE DEF U
<1>4. /\ IsFiniteSet(U \ e.got)
      /\ Cardinality(U \ e.got) = Cardinality(U) - Cardinality(U \cap e.got)
      BY <1>2, FS_Difference
<1>5. U \cap e.got = e.got
      BY <1>3
<1>6. QED
      BY <1>2, <1>3, <1>4, <1>5 DEF CountsBytes

\* ml/ml.c: a packet that arrives is counted once.
LEMMA DataCounts ==
  ASSUME IInv, Counted, CompleteMeansArrived, FreshArrivals,
         NEW k \in 1 .. Len(net), NEW again \in BOOLEAN, recv_data_msg(k, again)
  PROVE  Counted' /\ CompleteMeansArrived'
<1>1. Types /\ Buffer /\ OneSlotPerMessage
      BY DEF IInv
<1>2. net[k] \in Fragment
      BY <1>1 DEF Types
<1>3. upcalls \in Seq(Upcall) /\ Len(upcalls) \in Nat
      BY <1>1 DEF Types, TypeOK
<1>4. CASE UNCHANGED <<recvdatabuf, nackTimers, upcalls>>
  <2>1. Counted'
        BY <1>4 DEF Counted, CountsBytes
  <2>2. CompleteMeansArrived'
        BY <1>4 DEF CompleteMeansArrived, Units
  <2>3. QED
        BY <2>1, <2>2
<1>5. ASSUME NEW i \in Slots, NEW e \in Recv, Entry(e), e.msg = net[k].msg,
             \/ recvdatabuf[i] = e
             \/ recvdatabuf[i] = NULL /\ NoSlot(e.msg) /\ e = NewRecv(e.msg),
             Enter(i, e, net[k])
      PROVE  Counted' /\ CompleteMeansArrived'
  <2>1. PICK p \in Fragment : p = net[k]
        BY <1>2
  <2>2. PICK f : f = Entered(e, p)
        OBVIOUS
  <2>3. Entry(f) /\ f # NULL /\ SlotChanged(i, f)
    <3>1. SlotChanged(i, f) /\ f # NULL
          BY <1>1, <1>5, <2>1, <2>2, EnterSlot
    <3>2. QED
          BY <3>1 DEF SlotChanged
  <2>4. CountsBytes(e) /\ e.got \cap (p.off .. p.off + p.len - 1) = {}
    <3>1. CASE recvdatabuf[i] = e
      <4>1. e # NULL
            BY NullAssumption
      <4>2. QED
            BY <1>5, <2>1, <3>1, <4>1 DEF Counted, FreshArrivals
    <3>2. CASE e = NewRecv(e.msg)
      <4>1. e.got = {} /\ e.arrivedBytes = 0
            BY <3>2 DEF NewRecv
      <4>2. QED
            BY <4>1, FS_EmptySet DEF CountsBytes
    <3>3. QED
          BY <1>5, <3>1, <3>2
  <2>5. CountsBytes(f)
        BY <2>2, <2>4, EnteredCounts
  <2>6. Counted'
    <3>1. recvdatabuf'[i] = f /\ \A j \in Slots : j # i => recvdatabuf'[j] = recvdatabuf[j]
          BY <1>1, <2>3, ChangedSlots
    <3>2. ASSUME NEW j \in Slots, recvdatabuf'[j] # NULL
          PROVE  CountsBytes(recvdatabuf'[j])
          BY <2>5, <3>1, <3>2 DEF Counted
    <3>3. QED
          BY <3>2 DEF Counted, CountsBytes
  <2>7. upcalls' = UpcallsAfter(f)
        BY <1>5, <2>1, <2>2 DEF Enter
  <2>8. CASE f.status # "COMPLETE"
        BY <2>6, <2>7, <2>8 DEF UpcallsAfter, CompleteMeansArrived, Units
  <2>9. CASE f.status = "COMPLETE"
    <3>1. PICK u : u = [msg |-> f.msg, got |-> f.got,
                        nrMissingBytes |-> f.msg.len - f.arrivedBytes]
          OBVIOUS
    <3>2. u.nrMissingBytes = Cardinality(Units(u.msg) \ u.got)
          BY <2>3, <2>5, <3>1, MissingCount
    <3>3. upcalls' = Append(upcalls, u)
          BY <2>7, <2>9, <3>1 DEF UpcallsAfter
    <3>4. /\ Len(upcalls') = Len(upcalls) + 1 /\ upcalls'[Len(upcalls) + 1] = u
          /\ \A j \in 1 .. Len(upcalls) : upcalls'[j] = upcalls[j]
          BY <1>3, <3>3
    <3>5. ASSUME NEW j \in 1 .. Len(upcalls')
          PROVE  upcalls'[j].nrMissingBytes =
                   Cardinality(Units(upcalls'[j].msg) \ upcalls'[j].got)
      <4>1. CASE j \in 1 .. Len(upcalls)
            BY <3>4, <4>1 DEF CompleteMeansArrived
      <4>2. CASE j = Len(upcalls) + 1
            BY <3>2, <3>4, <4>2
      <4>3. QED
            BY <1>3, <3>4, <4>1, <4>2
    <3>6. QED
          BY <2>6, <3>5 DEF CompleteMeansArrived, Units
  <2>10. QED
         BY <2>8, <2>9
<1>6. QED
      BY <1>1, <1>4, <1>5, DataStep

\* ml/ml.c: the timers leave the count of a slot alone.
LEMMA NextCounted ==
  ASSUME IInv, Counted, CompleteMeansArrived, FreshArrivals, [Next]_vars
  PROVE  Counted' /\ CompleteMeansArrived'
<1>1. Types /\ Buffer /\ OneSlotPerMessage
      BY DEF IInv
<1>2. CASE ReceiveData
  <2>1. PICK k \in 1 .. Len(net), again \in BOOLEAN : recv_data_msg(k, again)
        BY <1>2 DEF ReceiveData, Arriving
  <2>2. QED
        BY <2>1, DataCounts
<1>3. ASSUME UNCHANGED upcalls, NEW i \in Slots, NEW f, SlotChanged(i, f),
             f # NULL => CountsBytes(f)
      PROVE  Counted' /\ CompleteMeansArrived'
  <2>1. recvdatabuf'[i] = f /\ \A j \in Slots : j # i => recvdatabuf'[j] = recvdatabuf[j]
        BY <1>1, <1>3, ChangedSlots
  <2>2. ASSUME NEW j \in Slots, recvdatabuf'[j] # NULL
        PROVE  CountsBytes(recvdatabuf'[j])
        BY <1>3, <2>1, <2>2 DEF Counted
  <2>3. CompleteMeansArrived'
        BY <1>3 DEF CompleteMeansArrived, Units
  <2>4. QED
        BY <2>2, <2>3 DEF Counted, CountsBytes
<1>4. ASSUME NEW i \in Slots, last_pkt_recv_timeout_cb(i)
      PROVE  Counted' /\ CompleteMeansArrived'
  <2>1. recvdatabuf[i] # NULL /\ SlotChanged(i, [recvdatabuf[i] EXCEPT !.last = FALSE])
        BY <1>1, <1>4, FiredSlot
  <2>2. CountsBytes([recvdatabuf[i] EXCEPT !.last = FALSE])
        BY <1>1, <2>1, FiredEntry DEF Buffer, Counted, CountsBytes
  <2>3. UNCHANGED upcalls
        BY <1>4 DEF last_pkt_recv_timeout_cb
  <2>4. QED
        BY <1>3, <2>1, <2>2, <2>3
<1>5. ASSUME NEW i \in Slots, recv_timeout_cb(i)
      PROVE  Counted' /\ CompleteMeansArrived'
  <2>1. SlotChanged(i, NULL) /\ UNCHANGED upcalls
        BY <1>5, FreedSlot DEF recv_timeout_cb
  <2>2. QED
        BY <1>3, <2>1
<1>6. CASE UNCHANGED <<recvdatabuf, upcalls>>
  <2>1. Counted'
        BY <1>6 DEF Counted, CountsBytes
  <2>2. CompleteMeansArrived'
        BY <1>6 DEF CompleteMeansArrived, Units
  <2>3. QED
        BY <2>1, <2>2
<1>7. CASE \E l \in Messages : mlSendData(l)
      BY <1>6, <1>7 DEF mlSendData, receiverVars
<1>8. CASE ReceiveNack
      BY <1>6, <1>8 DEF ReceiveNack, recv_nack_msg, receiverVars
<1>9. CASE \/ \E k \in 1 .. Len(net) : LosePacket(k)
           \/ \E k \in 1 .. Len(nacks) : LoseNack(k)
      BY <1>6, <1>9 DEF LosePacket, LoseNack, receiverVars
<1>10. CASE NackTimeout
       BY <1>6, <1>10 DEF NackTimeout, pkt_recv_timeout_cb
<1>11. CASE \E c \in Conns : mlCloseConnection(c)
       BY <1>6, <1>11 DEF mlCloseConnection
<1>12. CASE UNCHANGED vars
       BY <1>6, <1>12 DEF vars, receiverVars
<1>13. QED
       BY <1>2, <1>4, <1>5, <1>7, <1>8, <1>9, <1>10, <1>11, <1>12 DEF Next

\* ml/ml.c:1163: whatever is lost, re-cut, late or reordered, a message that is handed up
\* as complete has arrived, as long as no packet brings bytes its slot has already.
THEOREM CompleteMeansArrivedHolds ==
  Spec /\ [][FreshArrivals]_vars => []CompleteMeansArrived
<1>1. Init => Counted /\ CompleteMeansArrived
      BY DEF Init, Counted, CompleteMeansArrived
<1>2. IInv /\ Counted /\ CompleteMeansArrived /\ [Next]_vars /\ [FreshArrivals]_vars
      => Counted' /\ CompleteMeansArrived'
  <2>1. CASE FreshArrivals
        BY <2>1, NextCounted
  <2>2. CASE UNCHANGED vars
        BY <2>2 DEF vars, receiverVars, Counted, CountsBytes, CompleteMeansArrived, Units
  <2>3. QED
        BY <2>1, <2>2
<1>3. QED
      BY <1>1, <1>2, IInvHolds, PTL DEF Spec
=============================================================================
