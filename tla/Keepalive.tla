----------------------------- MODULE Keepalive ------------------------------
(***************************************************************************)
(* Keepalive messages of the messaging layer (ml/ml.c).                    *)
(*                                                                         *)
(* A connection with a positive keepalive interval gets a message each     *)
(* interval.  The timer holds a copy of the peer's socket ID, not of the   *)
(* connection, and looks the connection up when it fires: it outlives a    *)
(* close, and serves whatever connection with the peer there is then.      *)
(*                                                                         *)
(* The interval is positive or 0.  A connection here is the first entry    *)
(* with the socket ID, which mlConnectionExist finds.  A message for a     *)
(* connection that is READY goes to the transmission path.                 *)
(***************************************************************************)
EXTENDS Integers

CONSTANTS
  KeptPeers,      \* the peers
  Intervals,      \* the keepalive intervals applications ask for
  MaxChains       \* bound on the pending timers of a peer

KeepaliveAssumption == Intervals \subseteq Nat /\ MaxChains \in Nat

VARIABLES
  keepalive,      \* keepalive[p]: the interval of the connection with p, or NoConn
  chains,         \* chains[p]: the timers pending for p
  keepalive_seq   \* parity of the messages sent on the connection with p

vars == <<keepalive, chains, keepalive_seq>>

NoConn == -1

TypeOK ==
  /\ keepalive \in [KeptPeers -> Nat \cup {NoConn}]
  /\ chains \in [KeptPeers -> Nat]
  /\ keepalive_seq \in [KeptPeers -> {0, 1}]

Init ==
  /\ keepalive = [p \in KeptPeers |-> NoConn]
  /\ chains = [p \in KeptPeers |-> 0]
  /\ keepalive_seq = [p \in KeptPeers |-> 0]

setupKeepalive(p, interval) ==
  chains' = [chains EXCEPT ![p] = @ + (IF interval # 0 THEN 1 ELSE 0)]

\* A connection entry is made; an INVITE makes it with interval 0.
Created(p, interval) ==
  /\ keepalive[p] = NoConn
  /\ keepalive' = [keepalive EXCEPT ![p] = interval]
  /\ keepalive_seq' = [keepalive_seq EXCEPT ![p] = 0]
  /\ setupKeepalive(p, interval)

\* Mutation of Reopened: only a new entry gets a timer.
ReopenedUnarmed(p, interval) ==
  /\ keepalive[p] # NoConn
  /\ keepalive' = [keepalive EXCEPT ![p] = interval]
  /\ UNCHANGED <<keepalive_seq, chains>>

\* mlOpenConnection finds an entry: newKeepalive decides on the timer.
Reopened(p, interval) ==
  /\ keepalive[p] # NoConn
  /\ keepalive' = [keepalive EXCEPT ![p] = interval]
  /\ IF keepalive[p] = 0 /\ interval # 0
     THEN setupKeepalive(p, interval)
     ELSE UNCHANGED chains
  /\ UNCHANGED keepalive_seq

mlOpenConnection(p, interval) ==
  /\ chains[p] < MaxChains
  /\ Created(p, interval) \/ Reopened(p, interval)

recv_conn_msg(p) == Created(p, 0)

mlCloseConnection(p) ==
  /\ keepalive[p] # NoConn
  /\ keepalive' = [keepalive EXCEPT ![p] = NoConn]
  /\ keepalive_seq' = [keepalive_seq EXCEPT ![p] = 0]
  /\ UNCHANGED chains

\* The connection fell from under the timer or keepalive was disabled, or a
\* message is sent if the connection is READY and the timer armed again.
keepalive_fn(p, ready) ==
  /\ chains[p] > 0
  /\ \/ /\ keepalive[p] <= 0
        /\ chains' = [chains EXCEPT ![p] = @ - 1]
        /\ UNCHANGED keepalive_seq
     \/ /\ keepalive[p] > 0 /\ ready
        /\ keepalive_seq' = [keepalive_seq EXCEPT ![p] = 1 - @]
        /\ UNCHANGED chains
     \/ /\ keepalive[p] > 0 /\ ~ready
        /\ UNCHANGED <<chains, keepalive_seq>>
  /\ UNCHANGED keepalive

Next ==
  \E p \in KeptPeers :
    \/ \E interval \in Intervals : mlOpenConnection(p, interval)
    \/ recv_conn_msg(p)
    \/ mlCloseConnection(p)
    \/ \E ready \in BOOLEAN : keepalive_fn(p, ready)

Spec == Init /\ [][Next]_vars

-----------------------------------------------------------------------------
\* A connection with a positive interval has a timer pending, whoever made the
\* entry, however often the interval was changed, and whatever timers of
\* earlier connections with the peer are still about.
KeptAlive == \A p \in KeptPeers : keepalive[p] > 0 => chains[p] > 0
=============================================================================
