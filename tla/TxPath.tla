------------------------------- MODULE TxPath -------------------------------
(***************************************************************************)
(* The sending path of the messaging layer: the token bucket of            *)
(* ml/util/rateLimiter.c, the queue of packets that wait for room in the   *)
(* bucket and the queue of sent packets kept for retransmission, both of   *)
(* ml/util/queueManagement.c.                                              *)
(*                                                                         *)
(* Time is counted in ticks, TicksPerSec of them to a second: a tick       *)
(* stands for the microsecond of struct timeval.  bib_then is kept as its  *)
(* tv_usec part and the ticks that have gone by since.  One handler of the *)
(* event loop is one step, during which the clock does not move.           *)
(***************************************************************************)
EXTENDS Integers, Sequences, SequencesExt

CONSTANTS
  TicksPerSec,     \* resolution of gettimeofday
  MaxGap,          \* the clock is followed this far beyond bib_then
  Params,          \* the <<bucket_size, drain_rate>> the application may set
  Sizes,           \* packet lengths
  TXmaxSize,       \* bound on the bytes waiting
  RTXmaxSize,      \* bound on the bytes kept for retransmission
  MaxPackets,      \* packets submitted
  MaxChanges       \* calls of setOutputRateParams

ASSUME ParamsAssumption ==
  /\ TicksPerSec \in Nat \ {0}
  /\ Params \subseteq Nat \X Int
  /\ Params # {}

ASSUME BoundsAssumption ==
  /\ Sizes \subseteq Nat \ {0}
  /\ TXmaxSize \in Nat
  /\ RTXmaxSize \in Nat
  /\ MaxPackets \in Nat
  /\ MaxChanges \in Nat

\* Far enough that the bucket has run empty whatever it held.
ASSUME GapAssumption ==
  /\ MaxGap \in Nat /\ MaxGap >= TicksPerSec
  /\ \A p, q \in Params : q[2] > 0 => MaxGap >= TicksPerSec * (p[1] \div q[2] + 5)

VARIABLES
  bucket_size, drain_rate,  \* as in the code, drain_rate in bytes per second
  bytes_in_bucket,
  then_usec,                \* bib_then.tv_usec
  gap,                      \* ticks since bib_then
  txq, txsize,              \* TXqueue: its packets, its size field
  rtxq, rtxsize,            \* RTXqueue
  events,                   \* pending freeSpaceInBucket_cb: ticks until due
  submitted,                \* packets handed over so far; a packet is its number
  fate,                     \* what became of each packet
  changes,                  \* calls of setOutputRateParams so far
  ideal                     \* history: fill of an exact bucket, see RateRespected

bucketVars == <<bucket_size, drain_rate, bytes_in_bucket, then_usec, gap, ideal>>
queueVars == <<txq, txsize, rtxq, rtxsize, fate>>
vars == <<bucketVars, queueVars, events, submitted, changes>>

Packet == [nr : 1 .. MaxPackets, len : Sizes]
Fates == {"new", "queued", "sent", "dropped"}

TypeOK ==
  /\ <<bucket_size, drain_rate>> \in Nat \X Int
  /\ bytes_in_bucket \in Nat
  /\ then_usec \in 0 .. TicksPerSec - 1
  /\ gap \in Nat
  /\ txq \in Seq(Packet) /\ txsize \in Nat
  /\ rtxq \in Seq(Packet) /\ rtxsize \in Nat
  /\ events \in Seq(Nat)
  /\ submitted \in 0 .. MaxPackets
  /\ fate \in [1 .. MaxPackets -> Fates]
  /\ changes \in 0 .. MaxChanges
  /\ ideal \in Nat

-----------------------------------------------------------------------------
(* outputRateControl.                                                       *)

\* C's division truncates towards zero.
Quotient(x, d) == IF x >= 0 THEN x \div d ELSE - ((- x) \div d)

\* Seconds between the tv_sec fields, and the new tv_usec, g ticks after a
\* bib_then with tv_usec = u.
Seconds(u, g) == (u + g) \div TicksPerSec
Usec(u, g) == (u + g) % TicksPerSec

Leaked(r, u, g) ==
  r * Seconds(u, g) + Quotient(r * (Usec(u, g) - u), TicksPerSec)

\* Mutation of AfterLeak: a leak larger than the content is not cut off.
AfterLeakUncut(r, b, u, g) ==
  IF r <= 0 \/ Seconds(u, g) - 1 > b \div r + 1 THEN 0 ELSE b - Leaked(r, u, g)

\* What is left of b bytes g ticks later.
AfterLeak(r, b, u, g) ==
  IF \/ r <= 0
     \/ Seconds(u, g) - 1 > b \div r + 1
     \/ Leaked(r, u, g) > b
  THEN 0 ELSE b - Leaked(r, u, g)

Left == AfterLeak(drain_rate, bytes_in_bucket, then_usec, gap)

Fits(len) == drain_rate <= 0 \/ Left + len <= bucket_size

\* Mutation of Fill: bib_then is only set when the bucket was empty.
FillKeepsThen(in) ==
  /\ bytes_in_bucket' = IF drain_rate <= 0 THEN 0 ELSE Left + in
  /\ IF Left = 0 THEN then_usec' = Usec(then_usec, gap) /\ gap' = 0
                 ELSE UNCHANGED <<then_usec, gap>>
  /\ ideal' = IF drain_rate <= 0 THEN 0 ELSE ideal + in * TicksPerSec
  /\ UNCHANGED <<bucket_size, drain_rate>>

\* The bucket after a call for len bytes that found room for in of them.
Fill(in) ==
  /\ bytes_in_bucket' = IF drain_rate <= 0 THEN 0 ELSE Left + in
  /\ then_usec' = Usec(then_usec, gap)
  /\ gap' = 0
  /\ ideal' = IF drain_rate <= 0 THEN 0 ELSE ideal + in * TicksPerSec
  /\ UNCHANGED <<bucket_size, drain_rate>>

-----------------------------------------------------------------------------
(* queueManagement.c.                                                       *)

Bytes(q) == FoldLeft(LAMBDA sum, p : sum + p.len, 0, q)

\* Removing oldest packets until there is room for one of len bytes.  It takes
\* a packet that fits the empty queue: RtxRoom; otherwise the loop of
\* addPacketRTXqueue never ends.
RtxRoom(len) == len <= RTXmaxSize

Trim(q, len) ==
  LET fitting == {k \in 0 .. Len(q) : Bytes(SubSeq(q, k + 1, Len(q))) + len <= RTXmaxSize}
      k == CHOOSE i \in fitting : \A j \in fitting : i <= j
  IN SubSeq(q, k + 1, Len(q))

\* addPacketRTXqueue for the packets ps one after the other.
Kept(q, ps) == FoldLeft(LAMBDA acc, p : Append(Trim(acc, p.len), p), q, ps)

\* The packets too old for maxTimeToHold are a prefix of the queue.
Expire(q, k) == SubSeq(q, k + 1, Len(q))

Store(ps) ==
  \E k \in 0 .. Len(rtxq) :
    /\ ps = <<>> => k = 0
    /\ rtxq' = Kept(Expire(rtxq, k), ps)
    /\ rtxsize' = rtxsize - Bytes(rtxq) + Bytes(rtxq')

-----------------------------------------------------------------------------
(* rateLimiter.c.                                                           *)

\* planFreeSpaceInBucketEvent: the time in which the bucket leaks len bytes.
Delay(len) == (len * TicksPerSec) \div drain_rate

Mark(ps, what) ==
  fate' = [i \in 1 .. MaxPackets |->
             IF \E j \in 1 .. Len(ps) : ps[j].nr = i THEN what ELSE fate[i]]

\* addPacketTXqueue
Enqueue(p) ==
  \/ /\ txsize + p.len > TXmaxSize
     /\ Mark(<<p>>, "dropped")
     /\ UNCHANGED <<txq, txsize>>
  \/ /\ txsize + p.len <= TXmaxSize
     /\ txq' = Append(txq, p)
     /\ txsize' = txsize + p.len
     /\ Mark(<<p>>, "queued")

\* Mutation of queueOrSendPacket: a packet that fits passes the waiting ones.
queueOrSendPacketEager(p) ==
  \/ /\ ~ Fits(p.len)
     /\ Fill(0)
     /\ events' = IF txq = <<>> THEN Append(events, Delay(p.len)) ELSE events
     /\ Enqueue(p)
     /\ UNCHANGED <<rtxq, rtxsize>>
  \/ /\ Fits(p.len)
     /\ RtxRoom(p.len)
     /\ Fill(p.len)
     /\ Store(<<p>>)
     /\ Mark(<<p>>, "sent")
     /\ UNCHANGED <<events, txq, txsize>>

\* Mutation of queueOrSendPacket: every packet that does not fit plans.
queueOrSendPacketPlans(p) ==
  \/ /\ ~ Fits(p.len)
     /\ Fill(0)
     /\ events' = Append(events, Delay(p.len))
     /\ Enqueue(p)
     /\ UNCHANGED <<rtxq, rtxsize>>
  \/ /\ txq # <<>>
     /\ Fits(p.len)
     /\ Enqueue(p)
     /\ UNCHANGED <<bucketVars, events, rtxq, rtxsize>>
  \/ /\ txq = <<>>
     /\ Fits(p.len)
     /\ RtxRoom(p.len)
     /\ Fill(p.len)
     /\ Store(<<p>>)
     /\ Mark(<<p>>, "sent")
     /\ UNCHANGED <<events, txq, txsize>>

\* queueOrSendPacket for a packet of priority 0.  send_msg passes HP & NO_RTX
\* for control messages, which is 0 as well: no other priority occurs.
queueOrSendPacket(p) ==
  \/ /\ txq # <<>>
     /\ Enqueue(p)
     /\ UNCHANGED <<bucketVars, events, rtxq, rtxsize>>
  \/ /\ txq = <<>>
     /\ ~ Fits(p.len)
     /\ Fill(0)
     /\ events' = Append(events, Delay(p.len))
     /\ Enqueue(p)
     /\ UNCHANGED <<rtxq, rtxsize>>
  \/ /\ txq = <<>>
     /\ Fits(p.len)
     /\ RtxRoom(p.len)
     /\ Fill(p.len)
     /\ Store(<<p>>)
     /\ Mark(<<p>>, "sent")
     /\ UNCHANGED <<events, txq, txsize>>

Submit ==
  /\ submitted < MaxPackets
  /\ submitted' = submitted + 1
  /\ \E len \in Sizes : queueOrSendPacket([nr |-> submitted', len |-> len])
  /\ UNCHANGED changes

\* How many packets the loop of freeSpaceInBucket_cb takes from the queue.
Takes(k) ==
  /\ k \in 0 .. Len(txq)
  /\ k > 0 => Fits(Bytes(SubSeq(txq, 1, k)))
  /\ k < Len(txq) => ~ Fits(Bytes(SubSeq(txq, 1, k + 1)))

\* Mutation of Dequeue: the bytes taken are not subtracted.
DequeueKeepsSize(k) ==
  LET ps == SubSeq(txq, 1, k)
  IN /\ \A i \in 1 .. k : RtxRoom(txq[i].len)
     /\ txq' = SubSeq(txq, k + 1, Len(txq))
     /\ Fill(Bytes(ps))
     /\ Store(ps)
     /\ Mark(ps, "sent")
     /\ UNCHANGED txsize

Dequeue(k) ==
  LET ps == SubSeq(txq, 1, k)
  IN /\ \A i \in 1 .. k : RtxRoom(txq[i].len)
     /\ txq' = SubSeq(txq, k + 1, Len(txq))
     /\ txsize' = txsize - Bytes(ps)
     /\ Fill(Bytes(ps))
     /\ Store(ps)
     /\ Mark(ps, "sent")

\* Mutation of freeSpaceInBucket_cb: it plans again only if it sent nothing.
freeSpaceInBucket_cbOnce(i) ==
  /\ i \in 1 .. Len(events)
  /\ events[i] = 0
  /\ \/ /\ txq = <<>>
        /\ events' = RemoveAt(events, i)
        /\ UNCHANGED <<bucketVars, queueVars>>
     \/ /\ txq # <<>>
        /\ \E k \in 0 .. Len(txq) : Takes(k) /\ Dequeue(k)
        /\ events' = IF txq' # txq THEN RemoveAt(events, i)
                     ELSE Append(RemoveAt(events, i), Delay(Head(txq').len))
  /\ UNCHANGED <<submitted, changes>>

freeSpaceInBucket_cb(i) ==
  /\ i \in 1 .. Len(events)
  /\ events[i] = 0
  /\ \/ /\ txq = <<>>
        /\ events' = RemoveAt(events, i)
        /\ UNCHANGED <<bucketVars, queueVars>>
     \/ /\ txq # <<>>
        /\ \E k \in 0 .. Len(txq) : Takes(k) /\ Dequeue(k)
        /\ events' = IF txq' = <<>> THEN RemoveAt(events, i)
                     ELSE Append(RemoveAt(events, i), Delay(Head(txq').len))
  /\ UNCHANGED <<submitted, changes>>

\* setOutputRateParams: the leak up to now is still counted at the old rate.
setOutputRateParams(p) ==
  /\ changes < MaxChanges
  /\ changes' = changes + 1
  /\ bucket_size' = p[1]
  /\ drain_rate' = p[2]
  /\ bytes_in_bucket' = Left
  /\ then_usec' = Usec(then_usec, gap)
  /\ gap' = 0
  /\ ideal' = 0
  /\ UNCHANGED <<queueVars, events, submitted>>

-----------------------------------------------------------------------------
(* The clock.                                                               *)

\* The fill of the exact bucket, a tick later.
Drained == IF ideal > drain_rate + 1 THEN ideal - drain_rate - 1 ELSE 0

\* Timers fire when they are due: the clock waits for them.  Past MaxGap the
\* gap is kept by whole seconds.
Tick ==
  /\ \A i \in 1 .. Len(events) : events[i] > 0
  /\ gap' = IF gap < MaxGap THEN gap + 1 ELSE gap + 1 - TicksPerSec
  /\ events' = [i \in 1 .. Len(events) |-> events[i] - 1]
  /\ ideal' = IF drain_rate <= 0 THEN 0 ELSE Drained
  /\ UNCHANGED <<bucket_size, drain_rate, bytes_in_bucket, then_usec,
                 queueVars, submitted, changes>>

-----------------------------------------------------------------------------

Init ==
  /\ \E p \in Params : bucket_size = p[1] /\ drain_rate = p[2]
  /\ bytes_in_bucket = 0
  /\ then_usec \in 0 .. TicksPerSec - 1
  /\ gap = 0
  /\ txq = <<>> /\ txsize = 0
  /\ rtxq = <<>> /\ rtxsize = 0
  /\ events = <<>>
  /\ submitted = 0
  /\ fate = [i \in 1 .. MaxPackets |-> "new"]
  /\ changes = 0
  /\ ideal = 0

FreeSpace == \E i \in 1 .. Len(events) : freeSpaceInBucket_cb(i)

Next ==
  \/ Submit
  \/ FreeSpace
  \/ \E p \in Params : setOutputRateParams(p)
  \/ Tick

Spec == Init /\ [][Next]_vars

\* Time passes and libevent runs what is due.
LiveSpec == Spec /\ WF_vars(Tick) /\ WF_vars(FreeSpace)

-----------------------------------------------------------------------------
(* Properties.                                                              *)

\* No packet is forgotten in the queue, and callbacks do not multiply: while
\* packets wait a callback that will look at them is pending, and as long as
\* nothing was dropped it is the only one, and none is pending otherwise.
DrainPlanned ==
  /\ txq # <<>> => events # <<>>
  /\ (\A i \in 1 .. MaxPackets : fate[i] # "dropped")
       => Len(events) = IF txq = <<>> THEN 0 ELSE 1

\* The size fields are the sums of the queued lengths and keep within their
\* bounds.
SizesConsistent ==
  /\ txsize = Bytes(txq) /\ txsize <= TXmaxSize
  /\ rtxsize = Bytes(rtxq) /\ rtxsize <= RTXmaxSize

\* Packets leave in the order they were handed over: none overtakes one that
\* is still waiting, whether it goes out at once or from the queue.
InOrder ==
  \A i, j \in 1 .. MaxPackets :
    i < j /\ fate[j] = "sent" => fate[i] \in {"sent", "dropped"}

\* The integer arithmetic of outputRateControl keeps to the configured rate:
\* an exact bucket that drains one byte a second faster and is one byte larger
\* never overflows.  (With the rate and size themselves it does: truncation
\* gives back up to a byte at each new second.)
RateRespected == drain_rate > 0 => ideal <= (bucket_size + 1) * TicksPerSec

\* Every packet that was queued and is no larger than the bucket is sent.
QueuedIsSent ==
  \A i \in 1 .. MaxPackets : (fate[i] = "queued") ~> (fate[i] = "sent")
=============================================================================
