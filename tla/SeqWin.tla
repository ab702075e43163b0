------------------------------- MODULE SeqWin -------------------------------
(***************************************************************************)
(* Loss measurement of the monitoring layer (monl/plugins/seqwin_measure,  *)
(* loss_measure and loss_burst_measure).                                   *)
(*                                                                         *)
(* The sender numbers its packets with counters that wrap around.  The     *)
(* receiver keeps the last number seen in each of WIN_SIZE places; a       *)
(* packet p is compared with the number in its place, which should be      *)
(* p - WIN_SIZE.  The three plugins run one after the other on the same    *)
(* result vector, whose entries keep their values from packet to packet.   *)
(*                                                                         *)
(* The network loses packets, repeats them, and delays them by less than   *)
(* Spread.                                                                 *)
(*                                                                         *)
(* MonMeasure::every averages tx_every values of R_LOSS and leaves their   *)
(* mean in the vector, where LossBurstMeasure and later packets without a  *)
(* verdict of their own find it.  Of the mean only counts whether it is 0, *)
(* 1 or PART, and for that it is enough to know which values were summed.  *)
(***************************************************************************)
EXTENDS Integers

CONSTANTS
  NAN,           \* no value
  PART,          \* a value between 0 and 1
  Modulus,       \* the sequence numbers are taken modulo this
  WIN_SIZE,      \* P_SEQN_WIN_SIZE
  OVERFLOW_TH,   \* P_SEQN_WIN_OVERFLOW_TH
  TX_EVERY,      \* tx_every of LossMeasure
  Spread,        \* bound on the delay of a packet, in packets
  First,         \* the packets sent before the measure starts
  MaxPackets,    \* bound on the packets sent
  MaxRepeats     \* bound on the repeated packets

\* A delay is told from an outage, and an outage from a delay of numbers that
\* wrapped around.  The window need not divide the range: the default of 5 does
\* not divide 2^32.
SeqWinAssumption ==
  /\ NAN \notin Int /\ PART \notin Int \cup {NAN}
  /\ WIN_SIZE \in Nat \ {0} /\ Modulus \in Nat \ {0}
  /\ TX_EVERY \in Nat \ {0}
  /\ Spread \in Nat /\ First \in Nat /\ OVERFLOW_TH \in Nat
  /\ MaxPackets \in Nat /\ MaxRepeats \in Nat
  /\ OVERFLOW_TH > WIN_SIZE + Spread /\ Modulus > OVERFLOW_TH + Spread + WIN_SIZE

VARIABLES
  sent,        \* packets sent so far
  arrived,     \* those that arrived since the measure started, of the last ones
  repeats,     \* packets that arrived again
  pnum,        \* 0 before the first packet
  initial_sn, largest_sn, sn_win, win_valid,
  r,           \* the entries R_SEQWIN, R_LOSS, R_LOSS_BURST of the result vector
  burst,
  every,       \* rx_cnt modulo tx_every, and the values in meas_sum
  outage,      \* a place went without a packet for OVERFLOW_TH numbers
  judged,      \* the packet whose place was found to lead it by a window or more
  verdicts     \* history: the verdict it brought, the last mean and whether a packet
               \* about which there was a verdict since the mean before did not arrive

vars == <<sent, arrived, repeats, pnum, initial_sn, largest_sn, sn_win, win_valid, r,
          burst, every, outage, judged, verdicts>>

Numbers == 0 .. Modulus - 1
Places == 0 .. WIN_SIZE - 1
Losses == {0, 1, PART, NAN}

TypeOK ==
  /\ sent \in Nat
  /\ arrived \subseteq 0 .. sent - 1
  /\ repeats \in Nat
  /\ pnum \in {0, 1}
  /\ initial_sn \in Numbers /\ largest_sn \in Numbers
  /\ sn_win \in [Places -> Numbers]
  /\ win_valid \in BOOLEAN
  /\ r.SEQWIN \in Numbers \cup {NAN} /\ r.LOSS \in Losses /\ r.LOSS_BURST \in Nat \cup {NAN}
  /\ burst \in Nat
  /\ every.rx_cnt \in 0 .. TX_EVERY - 1 /\ every.meas_sum \subseteq Losses
  /\ outage \in BOOLEAN
  /\ judged \in 0 .. sent - 1 \cup {NAN}
  /\ verdicts \in [verdict : Losses, mean : Losses, missed : BOOLEAN]

Init ==
  /\ sent = First
  /\ arrived = {}
  /\ repeats = 0
  /\ pnum = 0
  /\ initial_sn = 0 /\ largest_sn = 0
  /\ sn_win = [i \in Places |-> 0]
  /\ win_valid = FALSE
  /\ r = [SEQWIN |-> NAN, LOSS |-> NAN, LOSS_BURST |-> NAN]
  /\ burst = 0
  /\ every = [rx_cnt |-> 0, meas_sum |-> {}]
  /\ outage = FALSE
  /\ judged = NAN
  /\ verdicts = [verdict |-> NAN, mean |-> NAN, missed |-> FALSE]

SendPacket ==
  /\ sent < MaxPackets
  /\ sent' = sent + 1
  /\ UNCHANGED <<arrived, repeats, pnum, initial_sn, largest_sn, sn_win, win_valid, r,
                 burst, every, outage, judged, verdicts>>

Minus(a, b) == (a - b) % Modulus

-----------------------------------------------------------------------------
(* The plugins on a packet with number p_sn.                                *)

Ind(p_sn) == Minus(p_sn, initial_sn) % WIN_SIZE
Delta(p_sn) == Minus(p_sn, sn_win[Ind(p_sn)])
ValidNow(p_sn) == win_valid \/ Minus(p_sn, initial_sn) >= WIN_SIZE

FirstPacket(p_sn) ==
  /\ pnum = 0
  /\ initial_sn' = p_sn /\ largest_sn' = p_sn
  /\ sn_win' = [i \in Places |-> p_sn]
  /\ win_valid' = FALSE
  /\ pnum' = 1

\* Mutation of Window: a late packet takes its place back.
WindowTakesLate(p_sn) ==
  /\ pnum # 0
  /\ win_valid' = ValidNow(p_sn)
  /\ largest_sn' = IF Minus(p_sn, largest_sn) < OVERFLOW_TH THEN p_sn ELSE largest_sn
  /\ sn_win' = [sn_win EXCEPT ![Ind(p_sn)] = p_sn]
  /\ UNCHANGED <<pnum, initial_sn>>

Window(p_sn) ==
  /\ pnum # 0
  /\ win_valid' = ValidNow(p_sn)
  /\ largest_sn' = IF Minus(p_sn, largest_sn) < OVERFLOW_TH THEN p_sn ELSE largest_sn
  /\ sn_win' = IF ~ValidNow(p_sn) \/ Delta(p_sn) < OVERFLOW_TH
               THEN [sn_win EXCEPT ![Ind(p_sn)] = p_sn]
               ELSE sn_win
  /\ UNCHANGED <<pnum, initial_sn>>

\* R_SEQWIN after SeqWinMeasure::RxPkt
SeqwinOf(p_sn) ==
  IF pnum = 0 THEN r.SEQWIN
  ELSE IF Delta(p_sn) = 0 THEN 0
  ELSE IF ValidNow(p_sn) THEN Delta(p_sn)
  ELSE r.SEQWIN

\* The verdict of LossMeasure::RxPkt
LossOf(seqwin) ==
  IF seqwin = NAN THEN r.LOSS
  ELSE IF seqwin > WIN_SIZE /\ seqwin < OVERFLOW_TH THEN 1
  ELSE IF seqwin = WIN_SIZE THEN 0
  ELSE r.LOSS

Mean(values) ==
  IF NAN \in values THEN NAN
  ELSE IF values \in {{0}, {1}} THEN CHOOSE v \in values : TRUE
  ELSE PART

\* Mutation of MeanOf: the value of the packet itself is returned.
MeanOfLast(loss) == IF every.rx_cnt = 0 THEN loss ELSE NAN

\* What every() returns; it leaves its argument as it was unless it returns a mean.
MeanOf(loss) == IF every.rx_cnt = 0 THEN Mean(every.meas_sum \cup {loss}) ELSE NAN

Summed(loss) ==
  [rx_cnt |-> (every.rx_cnt + 1) % TX_EVERY,
   meas_sum |-> IF every.rx_cnt = 0 THEN {} ELSE every.meas_sum \cup {loss}]

\* LossBurstMeasure::RxPkt
Burst(loss) ==
  IF loss = NAN THEN UNCHANGED burst
  ELSE burst' = IF loss # 0 THEN burst + 1 ELSE 0

\* The place of the packet was not filled for so long that the packet looks
\* like one from before: from then on no packet gets into the window.
Outage(p_sn) ==
  /\ pnum # 0 /\ ValidNow(p_sn)
  /\ Delta(p_sn) \in OVERFLOW_TH .. Modulus - 1 - Spread - WIN_SIZE

\* A packet reaches the measures: the first time, again, or out of order.
RxPkt(p) ==
  LET p_sn == p % Modulus
      seqwin == SeqwinOf(p_sn)
      verdict == LossOf(seqwin)
      averaged == seqwin # NAN
      mean == IF averaged THEN MeanOf(verdict) ELSE NAN
      loss == IF averaged /\ every.rx_cnt = 0 THEN mean ELSE verdict
      judges == pnum # 0 /\ ValidNow(p_sn) /\ Delta(p_sn) \in WIN_SIZE .. OVERFLOW_TH - 1
      missed == judges /\ p - WIN_SIZE \notin arrived
  IN /\ p \in 0 .. sent - 1 /\ p + Spread >= sent
     /\ \/ FirstPacket(p_sn)
        \/ Window(p_sn)
     /\ Burst(loss)
     /\ r' = [SEQWIN |-> seqwin, LOSS |-> loss,
              LOSS_BURST |-> IF loss = 0 THEN burst ELSE r.LOSS_BURST]
     /\ every' = IF averaged THEN Summed(verdict) ELSE every
     /\ judged' = IF judges THEN p ELSE NAN
     /\ verdicts' = [verdict |-> IF judges THEN verdict ELSE NAN, mean |-> mean,
                 missed |-> missed \/ (verdicts.missed /\ every.meas_sum # {})]
     /\ outage' = (outage \/ Outage(p_sn))
     /\ arrived' = {q \in arrived \cup {p} : q + Spread + WIN_SIZE >= sent}
     /\ repeats' = repeats + (IF p \in arrived THEN 1 ELSE 0)
     /\ repeats' <= MaxRepeats
     /\ UNCHANGED sent

Next == SendPacket \/ \E p \in 0 .. sent - 1 : RxPkt(p)

Spec == Init /\ [][Next]_vars

-----------------------------------------------------------------------------
\* A packet is counted as lost exactly when it did not arrive: the verdict that
\* packet p brings is about p - WIN_SIZE, also when numbers wrap around and
\* packets are repeated or overtake each other, as long as no place stays empty
\* for the overflow threshold.  A loss shows in the mean it is part of.
LossIsLoss ==
  ~outage =>
    /\ judged # NAN => (verdicts.verdict = 1 <=> judged - WIN_SIZE \notin arrived)
    /\ verdicts.mean = 0 => ~verdicts.missed
=============================================================================
