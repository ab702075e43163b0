---------------------------------- MODULE Rtt ----------------------------------
(***************************************************************************)
(* The round trip time of a stream, measured in band (monl/plugins/        *)
(* rtt_measure.cpp, and the packet hooks of monl/measure_dispatcher.cpp).  *)
(*                                                                         *)
(* Every packet carries the time it was sent at.  The counterpart at the   *)
(* far node answers in the headers of its own packets with a reply time:   *)
(* the send time of the last packet it saw, moved on by how long ago that  *)
(* was on its own clock.  The near node subtracts it from its clock.       *)
(*                                                                         *)
(* The result vectors of a stream last as long as its dispatcher entry,    *)
(* that is, as long as some measure is loaded for it; they keep their      *)
(* values from packet to packet.  A packet of a node without an entry has  *)
(* no monitoring header.  Packets are lost, repeated and overtake each     *)
(* other and the control messages, which are those of MonRemote.  A user   *)
(* destroys a measure he is done with and creates another; deactivating    *)
(* it may end the process, see MonRemote.                                  *)
(*                                                                         *)
(* MonMeasure::every passes on the mean of up to tx_every round trips; it  *)
(* is modelled as their sum and their number.                              *)
(***************************************************************************)
EXTENDS Integers

CONSTANTS
  NAN,
  TX_EVERY,      \* tx_every of RttMeasure
  Skews,         \* how far the clock of the far node is ahead
  Sharing,       \* the sets of nodes where other measures keep the entry of the stream
  MaxTime,       \* bound on the time
  MaxPackets,    \* MaxPackets[n]: bound on the packets sent by node n
  MaxMeasures    \* bound on the measures activated one after the other

RttAssumption ==
  /\ TX_EVERY \in Nat \ {0}
  /\ Skews \subseteq Nat /\ Sharing \subseteq SUBSET {"near", "far"}
  /\ MaxTime \in Nat \ {0} /\ MaxPackets \in [{"near", "far"} -> Nat] /\ MaxMeasures \in Nat

VARIABLES
  now,       \* the time, and the clock of the near node
  skew,
  shared,    \* one of Sharing
  near,      \* the measure and its entry at the near node
  far,       \* the counterpart and its entry at the far node
  toFar, toNear,  \* the packets sent, which arrive any number of times
  ctrl,      \* the control messages under way
  packets    \* packets[n]: sent by node n so far

rttVars == <<now, skew, shared, near, far, toFar, toNear, ctrl, packets>>

Times == 0 .. MaxTime + MaxTime
Values == Times \cup {NAN}
Measures == 0 .. MaxMeasures   \* 0 is none

\* of: the measure a packet was sent on behalf of.  A packet without header has no
\* send time.
PacketToFar == [sent : Times, of : Measures, header : BOOLEAN]

\* history: forward is how long the packet answered was under way, mixed says
\* that it was of another measure than its counterpart.
PacketToNear == [sent : Times, of : Measures, header : BOOLEAN, reply : Int,
                 forward : Times, mixed : BOOLEAN]

Control == [type : {"INIT", "RESPONSE", "DEINIT"}, of : Measures]

\* What was summed up for a mean.  History: trips is how long the packets that made
\* meas_sum and those they answer were under way; pure says that this measure and its
\* counterpart were there by then.
Sums == [meas_sum : Int \cup {NAN}, meas_cnt : 0 .. TX_EVERY, trips : Int, pure : BOOLEAN]

\* The last packet a counterpart saw.
Seen == [last_time_rx : Nat, last_time_rem_tx : Values, forward : Times, mixed : BOOLEAN]

TypeOK ==
  /\ now \in 1 .. MaxTime /\ skew \in Skews
  /\ shared \in Sharing
  /\ near.status \in {"NULL", "INITIALISING", "RUNNING"}
  /\ near.measure \in Measures
  /\ near.R_REPLY_TIME \in Int \cup {NAN}
  /\ near.rx_cnt \in 0 .. TX_EVERY - 1 /\ near.sums \in Sums
  /\ near.sample \in Sums \cup {NAN}   \* the last mean handed on that was pure
  /\ far.counterpart \in Measures
  /\ far.R_SEND_TIME \in Values /\ far.R_REPLY_TIME \in Int \cup {NAN}
  /\ far.seen \in Seen
  /\ toFar \subseteq PacketToFar /\ toNear \subseteq PacketToNear
  /\ ctrl \subseteq Control
  /\ packets \in [{"near", "far"} -> Nat]

NoSum == [meas_sum |-> 0, meas_cnt |-> 0, trips |-> 0, pure |-> TRUE]
Unseen == [last_time_rx |-> 0, last_time_rem_tx |-> 0, forward |-> 0, mixed |-> FALSE]

Init ==
  /\ now = 1 /\ skew \in Skews
  /\ shared \in Sharing
  /\ near = [status |-> "NULL", measure |-> 0, R_REPLY_TIME |-> NAN, rx_cnt |-> 0,
             sums |-> NoSum, sample |-> NAN]
  /\ far = [counterpart |-> 0, R_SEND_TIME |-> NAN, R_REPLY_TIME |-> NAN, seen |-> Unseen]
  /\ toFar = {} /\ toNear = {} /\ ctrl = {}
  /\ packets = [n \in {"near", "far"} |-> 0]

\* Times only matter in comparison: the first one that does is that of a packet.
Tick ==
  /\ now < MaxTime
  /\ packets["near"] + packets["far"] > 0
  /\ now' = now + 1
  /\ UNCHANGED <<skew, shared, near, far, toFar, toNear, ctrl, packets>>

NearEntry == "near" \in shared \/ near.status # "NULL"
FarEntry == "far" \in shared \/ far.counterpart # 0

-----------------------------------------------------------------------------
(* The measure is set up and taken down.                                    *)

\* A new measure.
activateMeasure ==
  /\ near.status = "NULL" /\ near.measure < MaxMeasures
  /\ near' = [near EXCEPT !.status = "INITIALISING", !.measure = @ + 1]
  /\ ctrl' = ctrl \cup {[type |-> "INIT", of |-> near.measure + 1]}
  /\ UNCHANGED <<now, skew, shared, far, toFar, toNear, packets>>

\* The handle of the counterpart is not known before it has answered.
monDestroyMeasure ==
  /\ near.status # "NULL"
  /\ near' = [near EXCEPT !.status = "NULL", !.rx_cnt = 0, !.sums = NoSum, !.sample = NAN,
                          !.R_REPLY_TIME = IF "near" \in shared THEN @ ELSE NAN]
  /\ ctrl' = ctrl \cup {[type |-> "DEINIT", of |-> near.measure] :
                          x \in {x \in {near} : x.status = "RUNNING"}}
  /\ UNCHANGED <<now, skew, shared, far, toFar, toNear, packets>>

\* The entry at the far node once a counterpart is destroyed.
Vacated(f) ==
  [counterpart |-> 0,
   R_SEND_TIME |-> IF "far" \in shared THEN f.R_SEND_TIME ELSE NAN,
   R_REPLY_TIME |-> IF "far" \in shared THEN f.R_REPLY_TIME ELSE NAN,
   seen |-> Unseen]

\* A counterpart for measure m takes the place of a previous one.
Started(f, m) == [Vacated(f) EXCEPT !.counterpart = m]

initRemoteMeasureRx(c) ==
  /\ c.type = "INIT"
  /\ far' = Started(far, c.of)
  /\ ctrl' = (ctrl \ {c}) \cup {[type |-> "RESPONSE", of |-> c.of]}
  /\ UNCHANGED near

deinitRemoteMeasureRx(c) ==
  /\ c.type = "DEINIT"
  /\ far' = IF far.counterpart = c.of THEN Vacated(far) ELSE far
  /\ ctrl' = ctrl \ {c}
  /\ UNCHANGED near

remoteMeasureResponseRx(c) ==
  /\ c.type = "RESPONSE"
  /\ near' = IF near.status # "NULL" /\ near.measure = c.of
             THEN [near EXCEPT !.status = "RUNNING"] ELSE near
  /\ ctrl' = ctrl \ {c}
  /\ UNCHANGED far

receiveCtrlMsg(c) ==
  /\ initRemoteMeasureRx(c) \/ deinitRemoteMeasureRx(c) \/ remoteMeasureResponseRx(c)
  /\ UNCHANGED <<now, skew, shared, toFar, toNear, packets>>

-----------------------------------------------------------------------------
(* The packets.                                                             *)

Sends(n) ==
  /\ packets[n] < MaxPackets[n]
  /\ packets' = [packets EXCEPT ![n] = @ + 1]

cbTxPktNear ==
  /\ Sends("near")
  /\ toFar' = toFar \cup {[sent |-> now, header |-> NearEntry,
                           of |-> IF near.status = "NULL" THEN 0 ELSE near.measure]}
  /\ UNCHANGED <<now, skew, shared, near, far, toNear, ctrl>>

\* RttMeasure::RxPkt of the counterpart, on the vector as packet p left it.
RxPktFar(f, p) ==
  IF f.counterpart = 0 THEN f
  ELSE [f EXCEPT !.seen = [last_time_rx |-> now + skew, last_time_rem_tx |-> f.R_SEND_TIME,
                           forward |-> now - p.sent, mixed |-> p.of # f.counterpart]]

cbRxPktFar(p) ==
  /\ far' = RxPktFar(IF FarEntry /\ p.header THEN [far EXCEPT !.R_SEND_TIME = p.sent]
                     ELSE far, p)
  /\ UNCHANGED <<now, skew, shared, near, toFar, toNear, ctrl, packets>>

\* Mutation of Reply: the time the packet was held is not taken into account.
ReplyHeld(f) ==
  IF f.seen.last_time_rem_tx \in {0, NAN} \/ f.seen.last_time_rx = 0 THEN NAN
  ELSE f.seen.last_time_rem_tx

\* RttMeasure::TxPkt of the counterpart.
Reply(f) ==
  IF f.seen.last_time_rem_tx \in {0, NAN} \/ f.seen.last_time_rx = 0 THEN NAN
  ELSE f.seen.last_time_rem_tx + (now + skew) - f.seen.last_time_rx

\* Without a counterpart the vector is as it was; NAN is written as 0.
cbTxPktFar ==
  LET reply == IF far.counterpart = 0 THEN far.R_REPLY_TIME ELSE Reply(far) IN
  /\ Sends("far")
  /\ far' = [far EXCEPT !.R_REPLY_TIME = reply]
  /\ toNear' = toNear \cup {[sent |-> now, of |-> far.counterpart, header |-> FarEntry,
                             reply |-> IF reply = NAN THEN 0 ELSE reply,
                             forward |-> far.seen.forward, mixed |-> far.seen.mixed]}
  /\ UNCHANGED <<now, skew, shared, near, toFar, ctrl>>

\* The sums of n with one more round trip.
Summed(n, p) ==
  LET rtt == IF n.R_REPLY_TIME = NAN THEN NAN ELSE now - n.R_REPLY_TIME IN
  [meas_sum |-> IF NAN \in {n.sums.meas_sum, rtt} THEN NAN ELSE n.sums.meas_sum + rtt,
   meas_cnt |-> n.sums.meas_cnt + 1,
   trips |-> n.sums.trips + p.forward + now - p.sent,
   pure |-> n.sums.pure /\ p.of = n.measure /\ ~p.mixed]

\* RttMeasure::RxPkt of the measure: there is a reply time unless it is 0.  Only a mean
\* that is a number is a new sample.
RxPktNear(n, p) ==
  LET sums == Summed(n, p) IN
  IF n.status # "RUNNING" \/ n.R_REPLY_TIME = 0 THEN n
  ELSE [n EXCEPT !.rx_cnt = (@ + 1) % TX_EVERY,
                 !.sums = IF n.rx_cnt = 0 THEN NoSum ELSE sums,
                 !.sample = IF n.rx_cnt = 0 /\ sums.meas_sum # NAN /\ sums.pure
                            THEN sums ELSE @]

cbRxPktNear(p) ==
  /\ near' = RxPktNear(IF NearEntry /\ p.header THEN [near EXCEPT !.R_REPLY_TIME = p.reply]
                       ELSE near, p)
  /\ UNCHANGED <<now, skew, shared, far, toFar, toNear, ctrl, packets>>

-----------------------------------------------------------------------------

Next ==
  \/ Tick
  \/ activateMeasure \/ monDestroyMeasure
  \/ \E c \in ctrl : receiveCtrlMsg(c)
  \/ cbTxPktNear \/ cbTxPktFar
  \/ \E p \in toFar : cbRxPktFar(p)
  \/ \E p \in toNear : cbRxPktNear(p)

Spec == Init /\ [][Next]_rttVars

\* The measure reports the round trips that packets made: how far the clocks are
\* apart and how long the far node waited before it answered do not show, whatever
\* is lost, repeated or late.  It is so as long as the packets, both ways, were sent
\* while this measure and its counterpart were there.
RttIsRoundTrip ==
  near.sample # NAN => near.sample.meas_sum = near.sample.trips
================================================================================
