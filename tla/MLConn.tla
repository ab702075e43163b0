------------------------------- MODULE MLConn -------------------------------
(***************************************************************************)
(* The connection handshake of the messaging layer (ml/ml.c).              *)
(*                                                                         *)
(* Every node runs one libevent loop, so each handler below is one atomic  *)
(* step.  A node keeps a table connectbuf of CONNECTBUFSIZE slots; a slot  *)
(* is empty or holds one connection.  Connections are opened by the        *)
(* three-way exchange INVITE / CONNECT / READY over UDP, with a timer per  *)
(* connection that repeats the last message and lowers the path MTU        *)
(* estimate when it stays unanswered.                                      *)
(*                                                                         *)
(* The network is a set of packets: they are delivered in any order, may   *)
(* stay undelivered, may be lost, and may be delivered again.              *)
(*                                                                         *)
(* A packet names its sender exactly.  So it is on hosts of network byte   *)
(* order, and on all hosts for nodes of NoNat while their internal address *)
(* is used; elsewhere the external address in a connection message cannot  *)
(* be answered (SocketId!Converted, MLStart!InviteMatches).                *)
(***************************************************************************)
EXTENDS Integers, FiniteSets

CONSTANTS
  Nodes,            \* the peers
  CONNECTBUFSIZE,   \* slots of a connection table
  MAX_TRIALS,       \* sends at one MTU estimate before it is lowered
  Requests,         \* the calls of mlOpenConnection the applications make
  NULL,             \* an empty slot
  PathMtu,          \* PathMtu[n][m]: the largest packet that gets from n to m
  SameExternal,     \* pairs of nodes with the same external IP address
  InternalPath,     \* pairs that reach each other by internal addresses
  NoNat,            \* nodes whose external address is their internal one
  MaxFaults,        \* bound on duplicated, lost packets, closes, data packets
  WireCapacity,     \* packets under way at most; one more is lost
  RttBelowTimeout   \* TRUE: a timer only fires once the wire is silent

INVITE  == "INVITE"
CONNECT == "CONNECT"
READY   == "READY"
DATA    == "DATA"
Statuses == {INVITE, CONNECT, READY}

MAX == 1472
DSL == 1464
DSLMEDIUM == 1422
DSLSLIM == 1372
BELOWDSL == 1172
MIN == 472
P_ERROR == -1
PmtuSizes == {MAX, DSL, DSLMEDIUM, DSLSLIM, BELOWDSL, MIN}

SlotIds == 0 .. CONNECTBUFSIZE - 1
NoId == -1
FaultKinds == {"dup", "lose", "close", "data"}
Outcomes == {"idle", "pending", "called", "failed", "closed", "rejected"}

Request == [from : Nodes, to : Nodes, nr : Nat]

Entry == [status : Statuses, peer : Nodes, ext : SlotIds \cup {NoId},
          pmtu : PmtuSizes, trials : Nat, internal : BOOLEAN,
          timer : BOOLEAN, cbs : SUBSET Requests]

Packet == [type : Statuses \cup {DATA}, src : Nodes, dst : Nodes,
           local : SlotIds, remote : SlotIds \cup {NoId},
           pmtu : PmtuSizes, direct : BOOLEAN]

ASSUME ConstantsAssumption ==
  /\ CONNECTBUFSIZE \in Nat \ {0}
  /\ MAX_TRIALS \in Nat \ {0}
  /\ Requests \subseteq Request
  /\ PathMtu \in [Nodes -> [Nodes -> Nat]]
  /\ \A n, m \in Nodes : PathMtu[n][m] >= MIN
  /\ MaxFaults \in [FaultKinds -> Nat]
  /\ WireCapacity \in Nat
  /\ RttBelowTimeout \in BOOLEAN

\* No connection is the empty slot.
ASSUME NullAssumption == NULL \notin Entry

VARIABLES
  conn,    \* conn[n][s]: slot s of node n's connectbuf
  net,     \* packets under way
  req,     \* req[r]: what became of request r
  faults   \* faults[k]: how often the environment did k

vars == <<conn, net, req, faults>>

TypeOK ==
  /\ conn \in [Nodes -> [SlotIds -> Entry \cup {NULL}]]
  /\ net \subseteq Packet
  /\ req \in [Requests -> Outcomes]
  /\ faults \in [FaultKinds -> Nat]

-----------------------------------------------------------------------------
(* Looking up the table.                                                    *)

Least(s, S) == s \in S /\ \A t \in S : s <= t

FreeSlots(n) == {s \in SlotIds : conn[n][s] = NULL}

\* Mutation of SlotsOf: only established connections are found, as
\* mlConnectionExist does with its argument ready set.
SlotsOfReadyOnly(n, m) ==
  {s \in SlotIds : conn[n][s] # NULL /\ conn[n][s].peer = m /\ conn[n][s].status = READY}

\* The slots whose external_socketID is m: mlConnectionExist and the search
\* of the INVITE case take the first one.
SlotsOf(n, m) == {s \in SlotIds : conn[n][s] # NULL /\ conn[n][s].peer = m}

\* connectbuf[id] # NULL
Exists(n, id) == id \in SlotIds /\ conn[n][id] # NULL

-----------------------------------------------------------------------------
(* Sending.                                                                 *)

pmtu_decrement(p) ==
  CASE p = MAX       -> DSLSLIM
    [] p = DSL       -> DSLMEDIUM
    [] p = DSLMEDIUM -> DSLSLIM
    [] p = MIN       -> P_ERROR
    [] OTHER         -> MIN

Smaller(a, b) == IF a <= b THEN a ELSE b

\* The estimates send_msg can settle on when it starts from p: it lowers the
\* estimate while the kernel answers EMSGSIZE, which the kernel does only for
\* a packet larger than the path takes (and need not do even then).
Estimates[p \in PmtuSizes] ==
  IF pmtu_decrement(p) = P_ERROR THEN {p} ELSE {p} \cup Estimates[pmtu_decrement(p)]

Settled(p, size, path) ==
  {q \in PmtuSizes : /\ q \in Estimates[p]
                     /\ \A b \in Estimates[p] : b > q => Smaller(b, size) > path}

\* udpgen: the internal or the external address of the peer.
Reaches(n, e) == e.internal => e.peer \in NoNat \/ <<n, e.peer>> \in InternalPath

\* Mutation of Wire: the two connection ids of the header are swapped.
WireSwappedIds(n, s, e, type, size, q) ==
  IF Reaches(n, e) /\ Smaller(q, size) <= PathMtu[n][e.peer]
  THEN {[type |-> type, src |-> n, dst |-> e.peer,
         local |-> IF e.ext = NoId THEN s ELSE e.ext,
         remote |-> IF type = INVITE THEN NoId ELSE s, pmtu |-> e.pmtu,
         direct |-> e.internal \/ n \in NoNat]}
  ELSE {}

\* Mutation of Wire: data carries the sender's own id as the remote one.
WireDataOwnId(n, s, e, type, size, q) ==
  IF Reaches(n, e) /\ Smaller(q, size) <= PathMtu[n][e.peer]
  THEN {[type |-> type, src |-> n, dst |-> e.peer, local |-> s,
         remote |-> IF type = DATA THEN s ELSE e.ext, pmtu |-> e.pmtu,
         direct |-> e.internal \/ n \in NoNat]}
  ELSE {}

\* What the call puts on the wire once it settled on estimate q.  The payload
\* still claims the estimate the entry had before the call.
Wire(n, s, e, type, size, q) ==
  IF Reaches(n, e) /\ Smaller(q, size) <= PathMtu[n][e.peer]
  THEN {[type |-> type, src |-> n, dst |-> e.peer, local |-> s,
         remote |-> e.ext, pmtu |-> e.pmtu,
         direct |-> e.internal \/ n \in NoNat]}
  ELSE {}

\* Slot s of n becomes e and sends a message; rest is what else is under way.
Send(n, s, e, type, size, rest) ==
  \E q \in Settled(e.pmtu, size, PathMtu[n][e.peer]) :
    /\ conn' = [conn EXCEPT ![n][s] = [e EXCEPT !.pmtu = q]]
    /\ net' = IF Cardinality(rest) < WireCapacity
              THEN rest \cup Wire(n, s, e, type, size, q)
              ELSE rest

\* Mutation of SendFirst: the trial count is not restarted.
SendFirstKeepsTrials(n, s, e, type, size, rest) ==
  Send(n, s, [e EXCEPT !.timer = TRUE], type, size, rest)

\* send_conn_msg_with_pmtu_discovery: the first trial, with its timer.
SendFirst(n, s, e, type, size, rest) ==
  Send(n, s, [e EXCEPT !.trials = 1, !.timer = TRUE], type, size, rest)

\* Requests rs get outcome o.
Resolve(rs, o) == req' = [r \in Requests |-> IF r \in rs THEN o ELSE req[r]]

-----------------------------------------------------------------------------
(* mlOpenConnection.                                                        *)

NewEntry(status, peer, ext, pmtu, internal, cbs) ==
  [status |-> status, peer |-> peer, ext |-> ext, pmtu |-> pmtu,
   trials |-> 0, internal |-> internal, timer |-> FALSE, cbs |-> cbs]

OpenKnown(r, s) ==
  LET e == conn[r.from][s] IN
  /\ Least(s, SlotsOf(r.from, r.to))
  /\ \/ /\ e.status = READY
        /\ Resolve({r}, "called")
        /\ UNCHANGED conn
     \/ /\ e.status # READY
        /\ Resolve({r}, "pending")
        /\ conn' = [conn EXCEPT ![r.from][s].cbs = @ \cup {r}]
  /\ UNCHANGED net

OpenNew(r, s) ==
  /\ SlotsOf(r.from, r.to) = {}
  /\ Least(s, FreeSlots(r.from))
  /\ Resolve({r}, "pending")
  /\ SendFirst(r.from, s,
               NewEntry(INVITE, r.to, NoId, DSLSLIM,
                        <<r.from, r.to>> \in SameExternal, {r}),
               INVITE, DSLSLIM, net)

OpenRejected(r) ==
  /\ SlotsOf(r.from, r.to) = {}
  /\ FreeSlots(r.from) = {}
  /\ Resolve({r}, "rejected")
  /\ UNCHANGED <<conn, net>>

mlOpenConnection(r) ==
  /\ req[r] = "idle"
  /\ \/ \E s \in SlotIds : OpenKnown(r, s) \/ OpenNew(r, s)
     \/ OpenRejected(r)
  /\ UNCHANGED faults

-----------------------------------------------------------------------------
(* recv_conn_msg.                                                           *)

\* The datagram is delivered; a duplicate of it may stay on the wire.
Delivered(m, again) ==
  /\ again => faults["dup"] < MaxFaults["dup"]
  /\ faults' = [faults EXCEPT !["dup"] = IF again THEN @ + 1 ELSE @]

Rest(m, again) == IF again THEN net ELSE net \ {m}

\* Mutation of AnswerInvite: the announced connection id is not noted.
AnswerInviteKeepsId(n, s, e, m, rest) ==
  SendFirst(n, s, [e EXCEPT !.status = CONNECT], CONNECT, m.pmtu, rest)

\* The answer to an INVITE whatever the state of the connection.
AnswerInvite(n, s, e, m, rest) ==
  SendFirst(n, s, [e EXCEPT !.ext = m.local, !.status = CONNECT],
            CONNECT, m.pmtu, rest)

RecvInvite(m, again) ==
  LET n == m.dst
      rest == Rest(m, again)
  IN /\ m.type = INVITE
     /\ Delivered(m, again)
     /\ \/ \E s \in SlotIds :
             /\ Least(s, SlotsOf(n, m.src))
             /\ AnswerInvite(n, s, conn[n][s], m, rest)
        \/ \E s \in SlotIds :
             /\ SlotsOf(n, m.src) = {}
             /\ Least(s, FreeSlots(n))
             /\ AnswerInvite(n, s, NewEntry(CONNECT, m.src, m.local, m.pmtu,
                                            m.direct, {}), m, rest)
        \/ /\ SlotsOf(n, m.src) = {}
           /\ FreeSlots(n) = {}
           /\ net' = rest
           /\ UNCHANGED conn
     /\ UNCHANGED req

\* Mutation of Established: the callbacks run but stay on the list.
EstablishedKeepsCallbacks(e) == [e EXCEPT !.status = READY]

\* The connection is established: receive_Connection_cb, then every queued
\* callback, which empties the list.
Established(e) == [e EXCEPT !.status = READY, !.cbs = {}]

\* Mutation of RecvConnect: a CONNECT for an established connection is ignored.
RecvConnectOnce(m, again) ==
  LET n == m.dst
      s == m.remote
      e == conn[n][s]
      rest == Rest(m, again)
  IN /\ m.type = CONNECT
     /\ s \in SlotIds
     /\ Delivered(m, again)
     /\ \/ /\ e # NULL => e.status # INVITE
           /\ net' = rest
           /\ UNCHANGED <<conn, req>>
        \/ /\ e # NULL /\ e.status = INVITE
           /\ SendFirst(n, s, Established([e EXCEPT !.ext = m.local]),
                        READY, m.pmtu, rest)
           /\ Resolve(e.cbs, "called")

\* remote_con_id is an index without a check: RemoteIdKnown shows that
\* it is never -1 here.
RecvConnect(m, again) ==
  LET n == m.dst
      s == m.remote
      e == conn[n][s]
      rest == Rest(m, again)
  IN /\ m.type = CONNECT
     /\ s \in SlotIds
     /\ Delivered(m, again)
     /\ \/ /\ e = NULL
           /\ net' = rest
           /\ UNCHANGED <<conn, req>>
        \/ /\ e # NULL /\ e.status = INVITE
           /\ SendFirst(n, s, Established([e EXCEPT !.ext = m.local]),
                        READY, m.pmtu, rest)
           /\ Resolve(e.cbs, "called")
        \/ /\ e # NULL /\ e.status # INVITE
           /\ SendFirst(n, s, e, READY, m.pmtu, rest)
           /\ UNCHANGED req

RecvReady(m, again) ==
  LET n == m.dst
      s == m.remote
      e == conn[n][s]
  IN /\ m.type = READY
     /\ s \in SlotIds
     /\ Delivered(m, again)
     /\ net' = Rest(m, again)
     /\ \/ /\ e # NULL /\ e.status = CONNECT
           /\ conn' = [conn EXCEPT ![n][s] = Established(e)]
           /\ Resolve(e.cbs, "called")
        \/ /\ e # NULL => e.status # CONNECT
           /\ UNCHANGED <<conn, req>>

-----------------------------------------------------------------------------
(* pmtu_timeout_cb.                                                         *)

Silent(n, m) == ~ \E p \in net : {p.src, p.dst} = {n, m}

\* Mutation of GiveUp: the failed connection is not closed.
GiveUpKeepsEntry(n, s) ==
  /\ conn' = [conn EXCEPT ![n][s].pmtu = P_ERROR, ![n][s].timer = FALSE]
  /\ Resolve(conn[n][s].cbs, "failed")
  /\ UNCHANGED net

GiveUp(n, s) ==
  /\ conn' = [conn EXCEPT ![n][s] = NULL]
  /\ Resolve(conn[n][s].cbs, "failed")
  /\ UNCHANGED net

\* Mutation of Retry: the timer is not armed again.
RetryUnarmed(n, s, e, p, t) ==
  LET f == IF p = P_ERROR
           THEN [e EXCEPT !.pmtu = DSLSLIM, !.internal = FALSE]
           ELSE [e EXCEPT !.pmtu = p]
  IN /\ Send(n, s, [f EXCEPT !.trials = t + 1, !.timer = FALSE],
             e.status, f.pmtu, net)
     /\ UNCHANGED req

\* resend_conn_msg after the estimate became p and the trials t.
Retry(n, s, e, p, t) ==
  LET f == IF p = P_ERROR
           THEN [e EXCEPT !.pmtu = DSLSLIM, !.internal = FALSE]
           ELSE [e EXCEPT !.pmtu = p]
  IN /\ Send(n, s, [f EXCEPT !.trials = t + 1, !.timer = TRUE],
             e.status, f.pmtu, net)
     /\ UNCHANGED req

pmtu_timeout_cb(n, s) ==
  LET e == conn[n][s]
      last == e.trials = MAX_TRIALS
      p == IF last THEN pmtu_decrement(e.pmtu) ELSE e.pmtu
      t == IF last THEN 0 ELSE e.trials
  IN /\ e # NULL
     /\ e.timer
     /\ RttBelowTimeout => Silent(n, e.peer)
     /\ \/ /\ e.status = READY
           /\ conn' = [conn EXCEPT ![n][s].timer = FALSE]
           /\ UNCHANGED <<net, req>>
        \/ /\ e.status # READY
           /\ p = P_ERROR /\ ~ e.internal
           /\ GiveUp(n, s)
        \/ /\ e.status # READY
           /\ p # P_ERROR \/ e.internal
           /\ Retry(n, s, e, p, t)
     /\ UNCHANGED faults

-----------------------------------------------------------------------------
(* The application and the network.                                         *)

Fault(k) ==
  /\ faults[k] < MaxFaults[k]
  /\ faults' = [faults EXCEPT ![k] = @ + 1]

\* The peer is not told and queued callbacks are freed without being called.
mlCloseConnection(n, s) ==
  /\ Fault("close")
  /\ conn[n][s] # NULL
  /\ conn' = [conn EXCEPT ![n][s] = NULL]
  /\ Resolve(conn[n][s].cbs, "closed")
  /\ UNCHANGED net

mlSendData(n, s) ==
  /\ Fault("data")
  /\ conn[n][s] # NULL
  /\ conn[n][s].status = READY
  /\ Send(n, s, conn[n][s], DATA, conn[n][s].pmtu, net)
  /\ UNCHANGED req

\* recv_data_msg as far as the connection is concerned: the data goes to the
\* connection remote_con_id names, if there is one (see MLData for the rest).
RecvData(m, again) ==
  /\ m.type = DATA
  /\ Delivered(m, again)
  /\ net' = Rest(m, again)
  /\ UNCHANGED <<conn, req>>

Lose(m) ==
  /\ Fault("lose")
  /\ net' = net \ {m}
  /\ UNCHANGED <<conn, req>>

-----------------------------------------------------------------------------

Init ==
  /\ conn = [n \in Nodes |-> [s \in SlotIds |-> NULL]]
  /\ net = {}
  /\ req = [r \in Requests |-> "idle"]
  /\ faults = [k \in FaultKinds |-> 0]

Receive(m) ==
  \E again \in BOOLEAN :
    \/ RecvInvite(m, again)
    \/ RecvConnect(m, again)
    \/ RecvReady(m, again)
    \/ RecvData(m, again)

Next ==
  \/ \E r \in Requests : mlOpenConnection(r)
  \/ \E m \in net : Receive(m) \/ Lose(m)
  \/ \E n \in Nodes, s \in SlotIds :
       \/ pmtu_timeout_cb(n, s)
       \/ mlCloseConnection(n, s)
       \/ mlSendData(n, s)

Spec == Init /\ [][Next]_vars

\* libevent fires every armed timer.
TimerFairness == \A n \in Nodes, s \in SlotIds : WF_vars(pmtu_timeout_cb(n, s))

LiveSpec == Spec /\ TimerFairness

\* A network that delivers what it does not lose.
DeliveringSpec == LiveSpec /\ WF_vars(\E m \in net : Receive(m))

-----------------------------------------------------------------------------
(* Properties.                                                              *)

\* recv_conn_msg and recv_data_msg index connectbuf with remote_con_id; a
\* CONNECT, READY or data packet always carries the id its peer announced, so
\* connectbuf[-1] is never read although only part of the code tests for it.
RemoteIdKnown == \A m \in net : m.type # INVITE => m.remote # NoId

\* Every connection that is not established has its retry timer armed and a
\* trial count within MAX_TRIALS: no attempt is ever forgotten half way, and
\* the equality test trials == MAX_TRIALS cannot be stepped over.
Retrying ==
  \A n \in Nodes, s \in SlotIds :
    conn[n][s] # NULL /\ conn[n][s].status # READY =>
      conn[n][s].timer /\ conn[n][s].trials \in 1 .. MAX_TRIALS

\* At most one connection per peer: opening and being invited at the same
\* time never leaves two entries with the same external_socketID.
OneSlotPerPeer ==
  \A n \in Nodes : \A s, t \in SlotIds :
    conn[n][s] # NULL /\ conn[n][t] # NULL /\ conn[n][s].peer = conn[n][t].peer
      => s = t

\* A callback is owed exactly while it waits on the list of a connection to
\* the peer it asked for that is not established: none is lost, none stays
\* behind on an established connection, none is still listed once it ran.
CallbackOwed ==
  /\ \A n \in Nodes, s \in SlotIds :
       conn[n][s] # NULL =>
         /\ conn[n][s].status = READY => conn[n][s].cbs = {}
         /\ \A r \in conn[n][s].cbs :
              req[r] = "pending" /\ r.from = n /\ r.to = conn[n][s].peer
  /\ \A r \in Requests : req[r] = "pending" =>
       \E s \in SlotIds : conn[r.from][s] # NULL /\ r \in conn[r.from][s].cbs

\* A handshake answer is accepted only from the peer of the connection it
\* names: no CONNECT under way would establish a connection of another peer,
\* no READY would complete one.
AnswerFromPeer ==
  \A m \in net :
    Exists(m.dst, m.remote) =>
      LET e == conn[m.dst][m.remote] IN
      (m.type = CONNECT /\ e.status = INVITE) \/ (m.type = READY /\ e.status = CONNECT)
        => e.peer = m.src

\* Data is attributed to the peer that sent it: mlRecvData's connectionID,
\* "The connection the data came from" (ml/include/ml.h).
DataFromPeer ==
  \A m \in net : m.type = DATA /\ Exists(m.dst, m.remote) => conn[m.dst][m.remote].peer = m.src

\* Every call of mlOpenConnection that was accepted is answered: its callback
\* runs, or the failure callback does, or the application closed the
\* connection.
OpenResolved == \A r \in Requests : (req[r] = "pending") ~> (req[r] # "pending")

\* Both ends of r's connection are READY and know each other's ids.
Linked(r) ==
  \E s, t \in SlotIds :
    /\ conn[r.from][s] # NULL /\ conn[r.to][t] # NULL
    /\ conn[r.from][s].peer = r.to /\ conn[r.to][t].peer = r.from
    /\ conn[r.from][s].status = READY /\ conn[r.to][t].status = READY
    /\ conn[r.from][s].ext = t /\ conn[r.to][t].ext = s

\* With round trips below the timeout, nobody closing and few enough losses
\* every open call succeeds for good: recv_conn_msg answers repeated INVITEs and
\* CONNECTs, so both ends end up READY with each other's ids.
OpenSucceeds == \A r \in Requests :
  (req[r] = "pending") ~> [](req[r] = "called" /\ Linked(r))

-----------------------------------------------------------------------------
(* The service the connections give to the application.                     *)

LinkUp(n, m) == \E s \in SlotsOf(n, m) : conn[n][s].status = READY

\* The table of a node as its view of the link to each peer.
Link ==
  [n \in Nodes |-> [m \in Nodes |->
     IF SlotsOf(n, m) = {} THEN "none" ELSE IF LinkUp(n, m) THEN "up" ELSE "opening"]]

Service == INSTANCE ConnService WITH link <- Link, answer <- req

\* The handshake implements the service: every handler, whatever arrives and
\* in whatever order, is one step of ConnService or none.
ImplementsService == Service!Spec
=============================================================================
