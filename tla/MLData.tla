------------------------------- MODULE MLData -------------------------------
(***************************************************************************)
(* Data messages of the messaging layer (ml/ml.c): fragmentation by        *)
(* send_msg, reassembly by recv_data_msg in the table recvdatabuf, and the *)
(* repair of losses by NACKs answered from the sender's RTX queue.         *)
(*                                                                         *)
(* One node sends, one receives, over connections that are established.    *)
(* A message is known by its connection and its seqnr.  Bytes are counted  *)
(* in units; the buffer of a message is the set of the units written.      *)
(* Monitoring headers are left out: the lengths here are without them.     *)
(***************************************************************************)
EXTENDS Integers, Sequences, FiniteSets, SequencesExt

CONSTANTS
  Messages,         \* the messages handed to mlSendData
  PayloadSizes,     \* payload of a full packet at each path MTU estimate
  RECVDATABUFSIZE,
  RTX_MAX_GAPS,
  RTX_RETRY,
  RtxHolds,         \* packets the RTX queue holds
  NULL,             \* an empty slot
  InOrder,          \* TRUE: the network keeps the order of the packets
  RttBelowTimeout,  \* TRUE: timers only fire once the wire is silent
  MaxFaults         \* bound on each kind of fault, see FaultKinds

Message == [con : Nat, seqnr : Nat, len : Nat \ {0}]

\* A slot cleaned up with packets of its message still under way is "late".
FaultKinds == {"lose", "dup", "throttle", "close", "late"}

ASSUME MessagesAssumption ==
  /\ Messages \subseteq Message
  /\ \A m, k \in Messages : m.con = k.con /\ m.seqnr = k.seqnr => m = k

ASSUME SizesAssumption ==
  /\ PayloadSizes \subseteq Nat \ {0}
  /\ \E l \in PayloadSizes : \A k \in PayloadSizes : k <= l
  /\ RECVDATABUFSIZE \in Nat \ {0}
  /\ RTX_MAX_GAPS \in Nat
  /\ RTX_RETRY \in Nat \ {0}
  /\ RtxHolds \in Nat
  /\ InOrder \in BOOLEAN /\ RttBelowTimeout \in BOOLEAN
  /\ MaxFaults \in [FaultKinds -> Nat]

VARIABLES
  unsent,      \* messages not handed over yet
  pmtu,        \* pmtu[c]: payload of a full packet on connection c
  rtx,         \* the sender's RTX queue
  net,         \* data packets under way, in the order they were sent
  nacks,       \* NACKs under way
  open,        \* connections of the receiver
  recvdatabuf,
  nackTimers,  \* pending pkt_recv_timeout_cb with their arguments
  upcalls,     \* history: the receive_data_callback calls
  faults

senderVars == <<unsent, pmtu, rtx>>
receiverVars == <<open, recvdatabuf, nackTimers, upcalls>>
vars == <<senderVars, net, nacks, receiverVars, faults>>

Conns == {m.con : m \in Messages}
Slots == 0 .. RECVDATABUFSIZE - 1

Packet == [msg : Messages, off : Nat, len : Nat \ {0}]
Nack == [con : Conns, seqnr : Nat, from : Int, to : Int]
Gap == [from : Int, to : Int]
Recv == [msg : Messages, got : SUBSET Nat, arrivedBytes : Nat,
         status : {"ACTIVE", "COMPLETE"}, expectedOffset : Nat,
         gaps : Seq(Gap), timeout : BOOLEAN, last : BOOLEAN]
NackTimer == [id : Slots, seqnr : Nat, gap : Nat \ {0}, retry : Nat]
Upcall == [msg : Messages, got : SUBSET Nat, nrMissingBytes : Int]

\* No message being received is the empty slot.
ASSUME NullAssumption == NULL \notin Recv

TypeOK ==
  /\ unsent \subseteq Messages
  /\ pmtu \in [Conns -> PayloadSizes]
  /\ rtx \in Seq(Packet)
  /\ net \in Seq(Packet)
  /\ nacks \in Seq(Nack)
  /\ open \subseteq Conns
  /\ recvdatabuf \in [Slots -> Recv \cup {NULL}]
  /\ nackTimers \in Seq(NackTimer)
  /\ upcalls \in Seq(Upcall)
  /\ faults \in [FaultKinds -> Nat]

Units(m) == 0 .. m.len - 1

\* The payload of a full packet at the path MTU a connection starts with.
Longest == CHOOSE l \in PayloadSizes : \A k \in PayloadSizes : k <= l

-----------------------------------------------------------------------------
(* The environment.                                                         *)

Fault(k) ==
  /\ faults[k] < MaxFaults[k]
  /\ faults' = [faults EXCEPT ![k] = @ + 1]

\* The positions of a channel that can be the next to arrive.
Arriving(channel) == {i \in 1 .. Len(channel) : InOrder => i = 1}

Silent == net = <<>> /\ nacks = <<>>

UnderWay(m) ==
  \/ \E i \in 1 .. Len(net) : net[i].msg = m
  \/ \E i \in 1 .. Len(nacks) : nacks[i].con = m.con /\ nacks[i].seqnr = m.seqnr

\* Packet i of a channel is taken off; a duplicate of it may stay.
Taken(channel, i, again) == IF again THEN channel ELSE RemoveAt(channel, i)

Delivered(again) ==
  IF again THEN Fault("dup") ELSE UNCHANGED faults

LosePacket(i) ==
  /\ Fault("lose")
  /\ net' = RemoveAt(net, i)
  /\ UNCHANGED <<senderVars, nacks, receiverVars>>

LoseNack(i) ==
  /\ Fault("lose")
  /\ nacks' = RemoveAt(nacks, i)
  /\ UNCHANGED <<senderVars, net, receiverVars>>

-----------------------------------------------------------------------------
(* The sender.                                                              *)

Smaller(a, b) == IF a <= b THEN a ELSE b

\* Mutation of Fragments: a last, empty packet when the sizes divide.
FragmentsOneMore(m, size) ==
  [i \in 1 .. m.len \div size + 1 |->
     [msg |-> m, off |-> (i - 1) * size, len |-> Smaller(size, m.len - (i - 1) * size)]]

\* Mutation of Fragments: the last packet is not cut off at the end.
FragmentsUncut(m, size) ==
  [i \in 1 .. (m.len + size - 1) \div size |->
     [msg |-> m, off |-> (i - 1) * size, len |-> size]]

\* The packets of m, each with a payload of size units but for the last.
Fragments(m, size) ==
  [i \in 1 .. (m.len + size - 1) \div size |->
     [msg |-> m, off |-> (i - 1) * size, len |-> Smaller(size, m.len - (i - 1) * size)]]

\* addPacketRTXqueue for the packets ps; the oldest ones make room.
Kept(ps) ==
  LET q == rtx \o ps
      drop == IF Len(q) > RtxHolds THEN Len(q) - RtxHolds ELSE 0
  IN SubSeq(q, drop + 1, Len(q))

\* pmtu_decrement: the next smaller payload, if there is one.
pmtu_decrement(size) ==
  {l \in PayloadSizes : l < size /\ \A k \in PayloadSizes : k < size => k <= l}

\* send_msg puts a packet in the RTX queue before it tries to send it.  When
\* the kernel refuses one as too long, the message starts over in smaller
\* packets, which may be refused in turn: what the refused attempts leave on
\* the wire and in the queue, and the size that is sent in the end.  The path
\* carries the smallest payload.
Refusals(m) ==
  LET TooLong(size, carried) ==
        {k \in DOMAIN Fragments(m, size) : Fragments(m, size)[k].len > carried}
      Refused(size, k, b) ==
        [sent   |-> SubSeq(Fragments(m, size), 1, k - 1) \o b.sent,
         queued |-> SubSeq(Fragments(m, size), 1, k) \o b.queued,
         size   |-> b.size]
      from[size \in PayloadSizes] ==
        {[sent |-> <<>>, queued |-> <<>>, size |-> size]} \cup
        UNION {{Refused(size, k, b) : k \in TooLong(size, b.size)} :
                 b \in UNION {from[l] : l \in pmtu_decrement(size)}}
  IN from[pmtu[m.con]]

\* The packets ps go out after those of the refused attempts b.
SendAfter(m, b, ps) ==
  /\ net' = net \o (b.sent \o ps)
  /\ rtx' = Kept(b.queued \o ps)
  /\ pmtu' = [pmtu EXCEPT ![m.con] = b.size]

SendWhole(m, b) ==
  /\ SendAfter(m, b, Fragments(m, b.size))
  /\ UNCHANGED faults

\* When the TX queue is full, the rest of the message is not sent.
SendThrottled(m, b) ==
  /\ Fault("throttle")
  /\ \E k \in 0 .. Len(Fragments(m, b.size)) - 1 :
       SendAfter(m, b, SubSeq(Fragments(m, b.size), 1, k))

mlSendData(m) ==
  /\ m \in unsent
  /\ unsent' = unsent \ {m}
  /\ \E b \in Refusals(m) : SendWhole(m, b) \/ SendThrottled(m, b)
  /\ UNCHANGED <<nacks, receiverVars>>

\* searchPacketInRTX: the positions of the packets of the message at off; the
\* oldest is found.
InRtx(con, seqnr, off) ==
  {i \in 1 .. Len(rtx) : rtx[i].msg.con = con /\ rtx[i].msg.seqnr = seqnr /\ rtx[i].off = off}

\* rtxPacketsFromTo: the packets found one behind the other from off on.
\* Those the kernel still takes go out.
Found(n, off) ==
  rtx[CHOOSE j \in InRtx(n.con, n.seqnr, off) :
        \A k \in InRtx(n.con, n.seqnr, off) : j <= k]

rtxPackets(n) ==
  LET Sent(p) == IF p.len <= pmtu[p.msg.con] THEN <<p>> ELSE <<>>
      from[off \in n.from .. n.to + Longest] ==
        IF off >= n.to \/ InRtx(n.con, n.seqnr, off) = {} THEN <<>>
        ELSE Sent(Found(n, off)) \o from[off + Found(n, off).len]
  IN IF n.from > n.to THEN <<>> ELSE from[n.from]

recv_nack_msg(i, again) ==
  /\ Delivered(again)
  /\ nacks' = Taken(nacks, i, again)
  /\ net' = net \o rtxPackets(nacks[i])
  /\ UNCHANGED <<senderVars, receiverVars>>

-----------------------------------------------------------------------------
(* recv_data_msg.                                                           *)

NewRecv(m) ==
  [msg |-> m, got |-> {}, arrivedBytes |-> 0, status |-> "ACTIVE",
   expectedOffset |-> 0, gaps |-> <<>>, timeout |-> FALSE, last |-> FALSE]

\* Mutation of SlotsOf: messages that are complete are not found.
SlotsOfActive(p) ==
  {i \in Slots : /\ recvdatabuf[i] # NULL
                 /\ recvdatabuf[i].status = "ACTIVE"
                 /\ recvdatabuf[i].msg.con = p.msg.con
                 /\ recvdatabuf[i].msg.seqnr = p.msg.seqnr}

SlotsOf(p) ==
  {i \in Slots : /\ recvdatabuf[i] # NULL
                 /\ recvdatabuf[i].msg.con = p.msg.con
                 /\ recvdatabuf[i].msg.seqnr = p.msg.seqnr}

FreeSlots == {i \in Slots : recvdatabuf[i] = NULL}

Least(i, S) == i \in S /\ \A j \in S : i <= j

\* p opens a gap: it is beyond what was expected next.
OpensGap(e, p) == p.off > e.expectedOffset /\ Len(e.gaps) < RTX_MAX_GAPS

\* p fits the start or the end of gap g.
AtGap(g, p) == p.off = g.from \/ p.off = g.to - p.len

\* Mutation of Narrowed: the start always moves.
NarrowedAtStart(g, p) == [g EXCEPT !.from = p.off + p.len]

Narrowed(g, p) ==
  IF p.off = g.from THEN [g EXCEPT !.from = @ + p.len] ELSE [g EXCEPT !.to = @ - p.len]

\* The gaps after p: one more, or the first one p fits is narrowed.
GapsAfter(e, p) ==
  IF OpensGap(e, p) THEN Append(e.gaps, [from |-> e.expectedOffset, to |-> p.off])
  ELSE [g \in 1 .. Len(e.gaps) |->
          IF /\ p.off < e.expectedOffset
             /\ AtGap(e.gaps[g], p)
             /\ \A h \in 1 .. g - 1 : ~ AtGap(e.gaps[h], p)
          THEN Narrowed(e.gaps[g], p)
          ELSE e.gaps[g]]

\* Mutation of Entered: completion deletes the timer that frees the slot.
EnteredUntimed(e, p) ==
  [e EXCEPT
     !.got = @ \cup (p.off .. p.off + p.len - 1),
     !.arrivedBytes = @ + p.len,
     !.status = IF e.arrivedBytes + p.len = e.msg.len THEN "COMPLETE" ELSE "ACTIVE",
     !.gaps = GapsAfter(e, p),
     !.expectedOffset = IF p.off >= @ THEN p.off + p.len ELSE @,
     !.timeout = e.arrivedBytes + p.len # e.msg.len,
     !.last = @ \/ ~ e.timeout]

\* Mutation of Entered: the last-packet timer is not armed.
EnteredNoLast(e, p) ==
  [e EXCEPT
     !.got = @ \cup (p.off .. p.off + p.len - 1),
     !.arrivedBytes = @ + p.len,
     !.status = IF e.arrivedBytes + p.len = e.msg.len THEN "COMPLETE" ELSE "ACTIVE",
     !.gaps = GapsAfter(e, p),
     !.expectedOffset = IF p.off >= @ THEN p.off + p.len ELSE @,
     !.timeout = TRUE]

\* The entry after fragment p; its timers are armed with the first one.
Entered(e, p) ==
  [e EXCEPT
     !.got = @ \cup (p.off .. p.off + p.len - 1),
     !.arrivedBytes = @ + p.len,
     !.status = IF e.arrivedBytes + p.len = e.msg.len THEN "COMPLETE" ELSE "ACTIVE",
     !.gaps = GapsAfter(e, p),
     !.expectedOffset = IF p.off >= @ THEN p.off + p.len ELSE @,
     !.timeout = TRUE,
     !.last = @ \/ ~ e.timeout]

\* The callback of a message that is complete.
UpcallsAfter(f) ==
  IF f.status = "COMPLETE"
  THEN Append(upcalls, [msg |-> f.msg, got |-> f.got,
                        nrMissingBytes |-> f.msg.len - f.arrivedBytes])
  ELSE upcalls

Enter(i, e, p) ==
  /\ recvdatabuf' = [recvdatabuf EXCEPT ![i] = Entered(e, p)]
  /\ upcalls' = UpcallsAfter(Entered(e, p))
  /\ nackTimers' = IF OpensGap(e, p)
                   THEN Append(nackTimers, [id |-> i, seqnr |-> e.msg.seqnr,
                                            gap |-> Len(e.gaps) + 1,
                                            retry |-> RTX_RETRY])
                   ELSE nackTimers

\* Without a free slot the code writes to recvdatabuf[-1]: no step here.
recv_data_msg(k, again) ==
  LET p == net[k]
  IN /\ Delivered(again)
     /\ net' = Taken(net, k, again)
     /\ \/ /\ p.msg.con \notin open
           /\ UNCHANGED <<recvdatabuf, nackTimers, upcalls>>
        \/ /\ p.msg.con \in open
           /\ \E i \in Slots :
                \/ /\ Least(i, SlotsOf(p))
                   /\ recvdatabuf[i].status = "COMPLETE"
                   /\ UNCHANGED <<recvdatabuf, nackTimers, upcalls>>
                \/ /\ Least(i, SlotsOf(p))
                   /\ recvdatabuf[i].status = "ACTIVE"
                   /\ Enter(i, recvdatabuf[i], p)
                \/ /\ SlotsOf(p) = {}
                   /\ Least(i, FreeSlots)
                   /\ Enter(i, NewRecv(p.msg), p)
     /\ UNCHANGED <<senderVars, nacks, open>>

-----------------------------------------------------------------------------
(* The receiver's timers.  A NACK is sent over connectbuf[connectionID],    *)
(* which the handlers do not test for NULL: no step on a closed connection. *)

SendNack(e, from, to) ==
  /\ e.msg.con \in open
  /\ nacks' = Append(nacks, [con |-> e.msg.con, seqnr |-> e.msg.seqnr,
                             from |-> from, to |-> to])

\* The timer still speaks of the message in its slot, and of an open gap.  A
\* gap beyond gapCounter is 0 .. 0 in gapArray.
Applies(t) ==
  LET e == recvdatabuf[t.id]
  IN /\ e # NULL
     /\ e.msg.seqnr = t.seqnr
     /\ t.gap <= Len(e.gaps)
     /\ e.gaps[t.gap].from # e.gaps[t.gap].to

pkt_recv_timeout_cb(k) ==
  LET t == nackTimers[k]
      e == recvdatabuf[t.id]
  IN /\ RttBelowTimeout => Silent
     /\ \/ /\ ~ Applies(t)
           /\ nackTimers' = RemoveAt(nackTimers, k)
           /\ UNCHANGED nacks
        \/ /\ Applies(t)
           /\ SendNack(e, e.gaps[t.gap].from, e.gaps[t.gap].to)
           /\ nackTimers' = IF t.retry > 1 THEN [nackTimers EXCEPT ![k].retry = @ - 1]
                            ELSE RemoveAt(nackTimers, k)
     /\ UNCHANGED <<senderVars, net, open, recvdatabuf, upcalls, faults>>

\* The NACK timers of slot i are due before its other timers when round trips
\* are below the timeouts.
NacksFirst(i) ==
  RttBelowTimeout => Silent /\ \A k \in 1 .. Len(nackTimers) : nackTimers[k].id # i

\* Mutation of last_pkt_recv_timeout_cb: it asks for the whole message.
last_pkt_recv_timeout_cbWhole(i) ==
  LET e == recvdatabuf[i]
  IN /\ e # NULL
     /\ e.last
     /\ NacksFirst(i)
     /\ recvdatabuf' = [recvdatabuf EXCEPT ![i].last = FALSE]
     /\ \/ /\ e.expectedOffset = e.msg.len
           /\ UNCHANGED nacks
        \/ /\ e.expectedOffset # e.msg.len
           /\ SendNack(e, 0, e.msg.len)
     /\ UNCHANGED <<senderVars, net, open, nackTimers, upcalls, faults>>

last_pkt_recv_timeout_cb(i) ==
  LET e == recvdatabuf[i]
  IN /\ e # NULL
     /\ e.last
     /\ NacksFirst(i)
     /\ recvdatabuf' = [recvdatabuf EXCEPT ![i].last = FALSE]
     /\ \/ /\ e.expectedOffset = e.msg.len
           /\ UNCHANGED nacks
        \/ /\ e.expectedOffset # e.msg.len
           /\ SendNack(e, e.expectedOffset, e.msg.len)
     /\ UNCHANGED <<senderVars, net, open, nackTimers, upcalls, faults>>

\* last_pkt_recv_timeout is a fraction of recv_timeout, armed with it.  The
\* callback for an incomplete message is commented out.
recv_timeout_cb(i) ==
  LET e == recvdatabuf[i]
  IN /\ e # NULL
     /\ e.timeout
     /\ ~ e.last
     /\ NacksFirst(i)
     /\ recvdatabuf' = [recvdatabuf EXCEPT ![i] = NULL]
     /\ IF UnderWay(e.msg) THEN Fault("late") ELSE UNCHANGED faults
     /\ UNCHANGED <<senderVars, net, nacks, open, nackTimers, upcalls>>

\* mlCloseConnection leaves recvdatabuf and the timers on it alone.
mlCloseConnection(c) ==
  /\ Fault("close")
  /\ c \in open
  /\ open' = open \ {c}
  /\ UNCHANGED <<senderVars, net, nacks, recvdatabuf, nackTimers, upcalls>>

-----------------------------------------------------------------------------

Init ==
  /\ unsent = Messages
  /\ pmtu = [c \in Conns |-> Longest]
  /\ rtx = <<>> /\ net = <<>> /\ nacks = <<>>
  /\ open = Conns
  /\ recvdatabuf = [i \in Slots |-> NULL]
  /\ nackTimers = <<>>
  /\ upcalls = <<>>
  /\ faults = [k \in FaultKinds |-> 0]

ReceiveData ==
  \E k \in Arriving(net), again \in BOOLEAN : recv_data_msg(k, again)

ReceiveNack ==
  \E k \in Arriving(nacks), again \in BOOLEAN : recv_nack_msg(k, again)

NackTimeout == \E k \in 1 .. Len(nackTimers) : pkt_recv_timeout_cb(k)

Next ==
  \/ \E m \in Messages : mlSendData(m)
  \/ ReceiveData
  \/ ReceiveNack
  \/ \E k \in 1 .. Len(net) : LosePacket(k)
  \/ \E k \in 1 .. Len(nacks) : LoseNack(k)
  \/ NackTimeout
  \/ \E i \in Slots : last_pkt_recv_timeout_cb(i) \/ recv_timeout_cb(i)
  \/ \E c \in Conns : mlCloseConnection(c)

Spec == Init /\ [][Next]_vars

\* libevent fires the timers.
TimerFairness ==
  /\ WF_vars(NackTimeout)
  /\ \A i \in Slots : WF_vars(last_pkt_recv_timeout_cb(i)) /\ WF_vars(recv_timeout_cb(i))

LiveSpec == Spec /\ TimerFairness

\* A network that delivers what it does not lose.
DeliveringSpec == LiveSpec /\ WF_vars(ReceiveData) /\ WF_vars(ReceiveNack)

-----------------------------------------------------------------------------
(* Properties.                                                              *)

\* Nothing that is missing is forgotten: each unit below expectedOffset that
\* has not been written lies in a gap, and above it the last-packet timer
\* asks.  Only after RTX_MAX_GAPS gaps may one escape.
MissingCovered ==
  \A i \in Slots : recvdatabuf[i] # NULL =>
    LET e == recvdatabuf[i] IN
    Len(e.gaps) < RTX_MAX_GAPS =>
      \A u \in 0 .. e.expectedOffset - 1 :
        u \in e.got \/ \E g \in 1 .. Len(e.gaps) : u \in e.gaps[g].from .. e.gaps[g].to - 1

\* The fragments fit the buffer allocated from the length in the first one's
\* header: nothing is written behind it, whatever the order of the fragments
\* and however often the sender changed their size.
WithinBuffer ==
  \A i \in Slots : recvdatabuf[i] # NULL =>
    /\ recvdatabuf[i].got \subseteq Units(recvdatabuf[i].msg)
    /\ recvdatabuf[i].expectedOffset <= recvdatabuf[i].msg.len

\* One slot per message: no fragment is split off into a second slot.
OneSlotPerMessage ==
  \A i, j \in Slots :
    recvdatabuf[i] # NULL /\ recvdatabuf[j] # NULL /\ recvdatabuf[i].msg = recvdatabuf[j].msg
      => i = j

\* Every slot is given back: recv_timeout_cb cleans it up, complete or not, as
\* long as nobody closes its connection under it.
SlotsReclaimed ==
  \A i \in Slots :
    (recvdatabuf[i] # NULL)
      ~> (recvdatabuf[i] = NULL \/ recvdatabuf[i].msg.con \notin open)

\* "buffer full -> msg completly arrived" (ml.c), nrMissingBytes "The number
\* of bytes that did not arrive" (ml.h): a message handed up as complete has
\* all its bytes.
CompleteMeansArrived ==
  \A k \in 1 .. Len(upcalls) :
    upcalls[k].nrMissingBytes = Cardinality(Units(upcalls[k].msg) \ upcalls[k].got)

\* A message is handed to the application once, unless one of its packets
\* arrives after the slot that knew the message was cleaned up.
DeliveredOnce ==
  faults["late"] = 0 =>
    \A j, k \in 1 .. Len(upcalls) : upcalls[j].msg = upcalls[k].msg => j = k

\* On a network that keeps the order and loses one packet at most, the NACKs
\* repair every message of more than one packet.  A message of one packet is
\* not repaired: when that packet is lost, nothing at the receiver knows of the
\* message, and no timer asks for it.
Repaired ==
  \A m \in {k \in Messages : k.len > Longest} :
    (m \notin unsent) ~> \E k \in 1 .. Len(upcalls) : upcalls[k].msg = m /\ upcalls[k].got = Units(m)
=============================================================================
