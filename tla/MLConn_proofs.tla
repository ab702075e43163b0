---------------------------- MODULE MLConn_proofs ----------------------------
(***************************************************************************)
(* Proofs about MLConn for every set of peers, every table size, every     *)
(* network path and every bound on faults: the type invariant, the safety  *)
(* invariants of the connection table, that the handshake implements the   *)
(* service of ConnService, and that packets are attributed to the peer     *)
(* they are from as long as no slot is used for one peer after another.    *)
(*                                                                         *)
(* The invariant is proved slot by slot.  Every action changes at most one *)
(* slot of one table, so lemma SlotUpdate says once what a new content of  *)
(* a slot must satisfy, and the proof of each action checks just that.     *)
(***************************************************************************)
EXTENDS MLConn, TLAPS

\* What a connection f of node n satisfies on its own, the requests being rq.
GoodEntry(n, f, rq) ==
  /\ f.ext = NoId => f.status = INVITE
  /\ f.status # READY => f.timer /\ f.trials \in 1 .. MAX_TRIALS
  /\ f.status = READY => f.cbs = {}
  /\ \A r \in f.cbs : rq[r] = "pending" /\ r.from = n /\ r.to = f.peer

\* The part of the invariant about the tables and the requests.
TableInv ==
  /\ conn \in [Nodes -> [SlotIds -> Entry \cup {NULL}]]
  /\ req \in [Requests -> Outcomes]
  /\ \A n \in Nodes, s \in SlotIds : conn[n][s] # NULL => GoodEntry(n, conn[n][s], req)
  /\ OneSlotPerPeer
  /\ \A r \in Requests : req[r] = "pending" =>
       \E s \in SlotIds : conn[r.from][s] # NULL /\ r \in conn[r.from][s].cbs

\* The part about the wire and the environment.
NetInv ==
  /\ net \subseteq Packet
  /\ RemoteIdKnown

FaultsInv == faults \in [FaultKinds -> Nat]

IInv == TableInv /\ NetInv /\ FaultsInv

-----------------------------------------------------------------------------
(* How a step changes the tables: one slot at a time, in a few ways.  *)

\* Request r is answered without touching a table.
Answered(r) ==
  /\ UNCHANGED conn
  /\ req[r] = "idle"
  /\ \/ /\ \E s \in SlotsOf(r.from, r.to) : conn[r.from][s].status = READY
        /\ Resolve({r}, "called")
     \/ /\ SlotsOf(r.from, r.to) = {}
        /\ Resolve({r}, "rejected")

\* Request r joins the callbacks of the connection in slot s, which becomes f.
Queued(r, s, f) ==
  LET e == conn[r.from][s] IN
  /\ req[r] = "idle" /\ Resolve({r}, "pending")
  /\ e # NULL /\ e.status # READY /\ e.peer = r.to
  /\ conn' = [conn EXCEPT ![r.from][s] = f]
  /\ f.status = e.status /\ f.ext = e.ext /\ f.timer = e.timer
  /\ f.trials = e.trials /\ f.peer = e.peer /\ f.cbs = e.cbs \cup {r}

\* A free slot s of n takes a new connection f.
Taken(n, s, f) ==
  /\ conn[n][s] = NULL
  /\ \A t \in SlotIds : conn[n][t] # NULL => conn[n][t].peer # f.peer
  /\ conn' = [conn EXCEPT ![n][s] = f]
  /\ f.trials = 1 /\ f.timer = TRUE /\ f.status # READY

\* Request r opens the new connection f.
Opened(r, s, f) ==
  /\ req[r] = "idle" /\ Resolve({r}, "pending")
  /\ Taken(r.from, s, f)
  /\ f.status = INVITE /\ f.peer = r.to /\ f.cbs = {r}

\* The peer opens the new connection f.
Invited(n, s, f) ==
  /\ UNCHANGED req
  /\ Taken(n, s, f)
  /\ f.status = CONNECT /\ f.ext # NoId /\ f.cbs = {}

\* The connection in slot s of n keeps its peer and its callbacks.
Kept(n, s, f) ==
  /\ conn[n][s] # NULL
  /\ conn' = [conn EXCEPT ![n][s] = f] /\ UNCHANGED req
  /\ f.peer = conn[n][s].peer /\ f.cbs = conn[n][s].cbs
  /\ f.ext = NoId => f.status = INVITE
  /\ f.status # READY => f.timer /\ f.trials \in 1 .. MAX_TRIALS
  /\ f.status = READY => conn[n][s].status = READY

\* It comes up.
CameUp(n, s, f) ==
  /\ conn[n][s] # NULL /\ conn[n][s].status # READY
  /\ conn' = [conn EXCEPT ![n][s] = f]
  /\ f.peer = conn[n][s].peer /\ f.cbs = {} /\ f.status = READY /\ f.ext # NoId
  /\ Resolve(conn[n][s].cbs, "called")

\* It goes away.
Removed(n, s, o) ==
  /\ conn[n][s] # NULL
  /\ o = "failed" => conn[n][s].status # READY
  /\ conn' = [conn EXCEPT ![n][s] = NULL]
  /\ Resolve(conn[n][s].cbs, o)

TableStep ==
  \/ UNCHANGED <<conn, req>>
  \/ \E r \in Requests :
       \/ Answered(r)
       \/ \E s \in SlotIds, f \in Entry : Queued(r, s, f) \/ Opened(r, s, f)
  \/ \E n \in Nodes, s \in SlotIds :
       \/ \E f \in Entry : Invited(n, s, f) \/ Kept(n, s, f) \/ CameUp(n, s, f)
       \/ \E o \in {"failed", "closed"} : Removed(n, s, o)

StepOK == TableStep /\ NetInv' /\ FaultsInv'

-----------------------------------------------------------------------------
(* What a change of one slot must satisfy.                                  *)

\* Slot s of n may become f when f is good, no other slot has its peer, the
\* requests that stop pending are those the slot listed and those that pend
\* are listed by f or by another slot.
LEMMA SlotUpdate ==
  ASSUME TableInv,
         NEW n \in Nodes, NEW s \in SlotIds, NEW f \in Entry \cup {NULL},
         conn' = [conn EXCEPT ![n][s] = f],
         req' \in [Requests -> Outcomes],
         f # NULL => GoodEntry(n, f, req'),
         f # NULL => \A t \in SlotIds \ {s} :
                       conn[n][t] # NULL => conn[n][t].peer # f.peer,
         \A r \in Requests : req[r] = "pending" /\ req'[r] # "pending" =>
           conn[n][s] # NULL /\ r \in conn[n][s].cbs,
         \A r \in Requests : req'[r] = "pending" =>
           \/ f # NULL /\ r.from = n /\ r \in f.cbs
           \/ req[r] = "pending" /\ ~ (conn[n][s] # NULL /\ r \in conn[n][s].cbs)
  PROVE  TableInv'
PROOF
<1>1. /\ conn' \in [Nodes -> [SlotIds -> Entry \cup {NULL}]]
      /\ conn'[n][s] = f
      /\ \A m \in Nodes, t \in SlotIds : <<m, t>> # <<n, s>> => conn'[m][t] = conn[m][t]
  BY DEF TableInv
<1>2. ASSUME NEW m \in Nodes, NEW t \in SlotIds, conn'[m][t] # NULL
      PROVE  GoodEntry(m, conn'[m][t], req')
  <2>1. CASE <<m, t>> = <<n, s>>
    BY <1>1, <1>2, <2>1 DEF GoodEntry
  <2>2. CASE <<m, t>> # <<n, s>>
    <3>1. conn'[m][t] = conn[m][t] /\ GoodEntry(m, conn[m][t], req)
      BY <1>1, <1>2, <2>2 DEF TableInv
    <3>2. conn[m][t] \in Entry
      BY <1>2, <3>1 DEF TableInv
    <3>3. ASSUME NEW r \in conn[m][t].cbs PROVE req'[r] = "pending"
      <4>1. r \in Requests
        BY <3>2, <3>3 DEF Entry
      <4>2. req[r] = "pending" /\ r.from = m /\ r.to = conn[m][t].peer
        BY <3>1, <3>3 DEF GoodEntry
      <4>3. SUFFICES ASSUME conn[n][s] # NULL, r \in conn[n][s].cbs PROVE FALSE
        BY <4>1, <4>2
      <4>4. r.from = n /\ r.to = conn[n][s].peer
        BY <4>3 DEF TableInv, GoodEntry
      <4>5. m = n /\ t # s
        BY <2>2, <4>2, <4>4
      <4> QED BY <1>2, <3>1, <4>2, <4>3, <4>4, <4>5 DEF TableInv, OneSlotPerPeer
    <3> QED BY <3>1, <3>3 DEF GoodEntry
  <2> QED BY <2>1, <2>2
<1>3. OneSlotPerPeer'
  <2> SUFFICES ASSUME NEW m \in Nodes, NEW t \in SlotIds, NEW u \in SlotIds,
                      conn'[m][t] # NULL, conn'[m][u] # NULL,
                      conn'[m][t].peer = conn'[m][u].peer, t # u
               PROVE  FALSE
    BY DEF OneSlotPerPeer
  <2>1. CASE m = n /\ t = s
    BY <1>1, <2>1
  <2>2. CASE m = n /\ u = s
    BY <1>1, <2>2
  <2>3. CASE m # n \/ (t # s /\ u # s)
    <3>1. conn'[m][t] = conn[m][t] /\ conn'[m][u] = conn[m][u]
      BY <1>1, <2>3
    <3> QED BY <3>1 DEF TableInv, OneSlotPerPeer
  <2> QED BY <2>1, <2>2, <2>3
<1>4. ASSUME NEW r \in Requests, req'[r] = "pending"
      PROVE  \E t \in SlotIds : conn'[r.from][t] # NULL /\ r \in conn'[r.from][t].cbs
  <2>1. CASE f # NULL /\ r.from = n /\ r \in f.cbs
    BY <1>1, <2>1
  <2>2. CASE req[r] = "pending" /\ ~ (conn[n][s] # NULL /\ r \in conn[n][s].cbs)
    <3>1. PICK t \in SlotIds : conn[r.from][t] # NULL /\ r \in conn[r.from][t].cbs
      BY <2>2 DEF TableInv
    <3>2. r.from \in Nodes
      BY ConstantsAssumption DEF Request
    <3>3. <<r.from, t>> # <<n, s>>
      BY <2>2, <3>1
    <3> QED BY <1>1, <3>1, <3>2, <3>3
  <2> QED BY <1>4, <2>1, <2>2
<1> QED BY <1>1, <1>2, <1>3, <1>4 DEF TableInv

-----------------------------------------------------------------------------
(* Sending.                                                                 *)

\* f is e but for its estimate, its trials and its timer.
SameConnection(e, f) ==
  f.status = e.status /\ f.peer = e.peer /\ f.ext = e.ext /\ f.cbs = e.cbs

\* Send settles on one of the estimates and adds at most one packet, which
\* names the peer's connection unless it is an INVITE.
LEMMA SendUpdate ==
  ASSUME NetInv,
         NEW n \in Nodes, NEW s \in SlotIds, NEW e \in Entry,
         NEW type \in Statuses \cup {DATA}, NEW size, NEW rest \in SUBSET net,
         e.ext # NoId \/ type = INVITE,
         Send(n, s, e, type, size, rest)
  PROVE  /\ NetInv'
         /\ \E f \in Entry :
              /\ conn' = [conn EXCEPT ![n][s] = f]
              /\ SameConnection(e, f) /\ f.trials = e.trials /\ f.timer = e.timer
PROOF
<1>1. PICK q \in PmtuSizes :
        /\ conn' = [conn EXCEPT ![n][s] = [e EXCEPT !.pmtu = q]]
        /\ net' = rest \/ net' = rest \cup Wire(n, s, e, type, size, q)
  BY DEF Send, Settled
<1>2. ASSUME NEW m \in Wire(n, s, e, type, size, q)
      PROVE  m \in Packet /\ (m.type # INVITE => m.remote # NoId)
  <2>1. m = [type |-> type, src |-> n, dst |-> e.peer, local |-> s,
             remote |-> e.ext, pmtu |-> e.pmtu,
             direct |-> e.internal \/ n \in NoNat]
    BY <1>2 DEF Wire
  <2>2. e.peer \in Nodes /\ e.ext \in SlotIds \cup {NoId} /\ e.pmtu \in PmtuSizes
    BY DEF Entry
  <2>3. m \in Packet
    BY <2>1, <2>2 DEF Packet
  <2> QED BY <2>1, <2>3
<1>3. NetInv'
  BY <1>1, <1>2 DEF NetInv, RemoteIdKnown
<1>4. PICK f : f = [e EXCEPT !.pmtu = q]
  OBVIOUS
<1>5. f \in Entry /\ SameConnection(e, f) /\ f.trials = e.trials /\ f.timer = e.timer
  BY <1>4 DEF Entry, SameConnection
<1> QED BY <1>1, <1>3, <1>4, <1>5

\* The first trial of a handshake message: its timer runs and it is trial 1.
LEMMA SendFirstUpdate ==
  ASSUME NetInv,
         NEW n \in Nodes, NEW s \in SlotIds, NEW e \in Entry,
         NEW type \in Statuses, NEW size, NEW rest \in SUBSET net,
         e.ext # NoId \/ type = INVITE,
         SendFirst(n, s, e, type, size, rest)
  PROVE  /\ NetInv'
         /\ \E f \in Entry :
              /\ conn' = [conn EXCEPT ![n][s] = f]
              /\ SameConnection(e, f) /\ f.trials = 1 /\ f.timer = TRUE
PROOF
<1>1. PICK g : g = [e EXCEPT !.trials = 1, !.timer = TRUE]
  OBVIOUS
<1>2. g \in Entry
  BY <1>1 DEF Entry
<1>3. SameConnection(e, g) /\ g.trials = 1 /\ g.timer = TRUE
  BY <1>1 DEF Entry, SameConnection
<1>4. Send(n, s, g, type, size, rest)
  BY <1>1 DEF SendFirst
<1>5. g.ext # NoId \/ type = INVITE
  BY <1>3 DEF SameConnection
<1>6. type \in Statuses \cup {DATA}
  OBVIOUS
<1>7. /\ NetInv'
      /\ \E f \in Entry :
           /\ conn' = [conn EXCEPT ![n][s] = f]
           /\ SameConnection(g, f) /\ f.trials = g.trials /\ f.timer = g.timer
  BY <1>2, <1>4, <1>5, <1>6, SendUpdate
<1>8. PICK f \in Entry :
        /\ conn' = [conn EXCEPT ![n][s] = f]
        /\ SameConnection(g, f) /\ f.trials = g.trials /\ f.timer = g.timer
  BY <1>7
<1>9. SameConnection(e, f) /\ f.trials = 1 /\ f.timer = TRUE
  BY <1>3, <1>8 DEF SameConnection
<1> QED BY <1>7, <1>8, <1>9

-----------------------------------------------------------------------------
(* Initially, and when a step leaves the tables alone.                      *)

LEMMA InitInv ==
  ASSUME Init PROVE IInv
PROOF
<1>1. TableInv
  BY DEF Init, TableInv, OneSlotPerPeer, Outcomes
<1>2. NetInv /\ FaultsInv
  BY DEF Init, NetInv, RemoteIdKnown, FaultsInv
<1> QED BY <1>1, <1>2 DEF IInv

\* Requests may change as long as the same ones are pending.
LEMMA SameTable ==
  ASSUME TableInv, conn' = conn,
         req' \in [Requests -> Outcomes],
         \A r \in Requests : req'[r] = "pending" <=> req[r] = "pending"
  PROVE  TableInv'
PROOF
<1>1. ASSUME NEW n \in Nodes, NEW s \in SlotIds, conn[n][s] # NULL
      PROVE  GoodEntry(n, conn'[n][s], req')
  <2>1. conn[n][s].cbs \subseteq Requests
    BY <1>1 DEF TableInv, Entry
  <2> QED BY <1>1, <2>1 DEF TableInv, GoodEntry
<1>2. ASSUME NEW r \in Requests, req'[r] = "pending"
      PROVE  \E s \in SlotIds : conn'[r.from][s] # NULL /\ r \in conn'[r.from][s].cbs
  BY <1>2 DEF TableInv
<1> QED BY <1>1, <1>2 DEF TableInv, OneSlotPerPeer

\* What Resolve does.
LEMMA ResolveUpdate ==
  ASSUME req \in [Requests -> Outcomes], NEW rs, NEW o \in Outcomes, Resolve(rs, o)
  PROVE  /\ req' \in [Requests -> Outcomes]
         /\ \A r \in Requests : req'[r] = IF r \in rs THEN o ELSE req[r]
BY DEF Resolve

\* Counting a fault or a duplicate keeps the counters natural.
LEMMA FaultsUpdate ==
  ASSUME FaultsInv,
         \/ UNCHANGED faults
         \/ \E k \in FaultKinds : Fault(k)
         \/ \E m, again : Delivered(m, again)
  PROVE  FaultsInv'
BY DEF FaultsInv, Fault, Delivered, FaultKinds

-----------------------------------------------------------------------------
(* mlOpenConnection.                                                        *)

LEMMA OpenStep ==
  ASSUME IInv, NEW r \in Requests, mlOpenConnection(r)
  PROVE  StepOK
PROOF
<1>0. PICK n \in Nodes : n = r.from
  BY ConstantsAssumption DEF Request
<1>1. r.to \in Nodes /\ req[r] = "idle" /\ r.from = n
  BY <1>0, ConstantsAssumption DEF Request, mlOpenConnection
<1>2. FaultsInv'
  BY FaultsUpdate DEF IInv, mlOpenConnection
<1>3. TableInv /\ NetInv
  BY DEF IInv
<1>4. ASSUME UNCHANGED net PROVE NetInv'
  BY <1>3, <1>4 DEF NetInv, RemoteIdKnown
<1>5. ASSUME NEW s \in SlotIds, OpenKnown(r, s) PROVE TableStep /\ NetInv'
  <2>1. s \in SlotsOf(r.from, r.to) /\ conn[n][s] # NULL /\ UNCHANGED net
    BY <1>1, <1>5 DEF OpenKnown, Least, SlotsOf
  <2>2. PICK e \in Entry : e = conn[n][s] /\ e.peer = r.to
    BY <1>1, <1>3, <2>1 DEF TableInv, SlotsOf
  <2>3. CASE e.status = READY /\ Resolve({r}, "called") /\ UNCHANGED conn
    <3>1. Answered(r)
      BY <1>1, <2>1, <2>2, <2>3 DEF Answered
    <3> QED BY <1>4, <2>1, <3>1 DEF TableStep
  <2>4. CASE /\ e.status # READY /\ Resolve({r}, "pending")
             /\ conn' = [conn EXCEPT ![r.from][s].cbs = @ \cup {r}]
    <3>1. PICK f : f = [e EXCEPT !.cbs = @ \cup {r}]
      OBVIOUS
    <3>2. conn' = [conn EXCEPT ![n][s] = f]
      BY <1>1, <2>2, <2>4, <3>1
    <3>3. /\ f \in Entry /\ f.status = e.status /\ f.ext = e.ext /\ f.timer = e.timer
          /\ f.trials = e.trials /\ f.peer = e.peer /\ f.cbs = e.cbs \cup {r}
      BY <2>2, <3>1 DEF Entry
    <3>4. Queued(r, s, f)
      BY <1>1, <2>1, <2>2, <2>4, <3>2, <3>3 DEF Queued
    <3> QED BY <1>4, <2>1, <3>3, <3>4 DEF TableStep
  <2> QED BY <1>1, <1>5, <2>2, <2>3, <2>4 DEF OpenKnown
<1>6. ASSUME NEW s \in SlotIds, OpenNew(r, s) PROVE TableStep /\ NetInv'
  <2>1. PICK e : e = NewEntry(INVITE, r.to, NoId, DSLSLIM,
                              <<r.from, r.to>> \in SameExternal, {r})
    OBVIOUS
  <2>2. e \in Entry /\ e.status = INVITE /\ e.peer = r.to /\ e.cbs = {r}
    BY <1>1, <2>1 DEF NewEntry, Entry, Statuses, PmtuSizes
  <2>3. SendFirst(n, s, e, INVITE, DSLSLIM, net)
    BY <1>1, <1>6, <2>1 DEF OpenNew
  <2>4. PICK f \in Entry :
          /\ NetInv' /\ conn' = [conn EXCEPT ![n][s] = f]
          /\ SameConnection(e, f) /\ f.trials = 1 /\ f.timer = TRUE
    BY <1>3, <2>2, <2>3, SendFirstUpdate DEF Statuses
  <2>5. f.status = INVITE /\ f.peer = r.to /\ f.cbs = {r}
    BY <2>2, <2>4 DEF SameConnection
  <2>6. conn[n][s] = NULL /\ \A t \in SlotIds : conn[n][t] # NULL => conn[n][t].peer # r.to
    BY <1>1, <1>6 DEF OpenNew, SlotsOf, Least, FreeSlots
  <2>7. Taken(n, s, f)
    BY <2>4, <2>5, <2>6 DEF Taken, INVITE, READY
  <2>8. Opened(r, s, f)
    BY <1>1, <1>6, <2>5, <2>7 DEF Opened, OpenNew
  <2> QED BY <2>4, <2>8 DEF TableStep
<1>7. ASSUME OpenRejected(r) PROVE TableStep /\ NetInv'
  <2>1. Answered(r)
    BY <1>1, <1>7 DEF OpenRejected, Answered
  <2> QED BY <1>4, <1>7, <2>1 DEF OpenRejected, TableStep
<1> QED BY <1>2, <1>5, <1>6, <1>7 DEF mlOpenConnection, StepOK

-----------------------------------------------------------------------------
(* recv_conn_msg.                                                           *)

LEMMA AnswerInviteUpdate ==
  ASSUME IInv, NEW m \in net, NEW s \in SlotIds, NEW e \in Entry,
         NEW rest \in SUBSET net, m.type = INVITE,
         AnswerInvite(m.dst, s, e, m, rest)
  PROVE  /\ NetInv'
         /\ \E f \in Entry :
              /\ conn' = [conn EXCEPT ![m.dst][s] = f]
              /\ f.status = CONNECT /\ f.peer = e.peer /\ f.cbs = e.cbs
              /\ f.ext # NoId /\ f.trials = 1 /\ f.timer = TRUE
PROOF
<1>1. m.dst \in Nodes /\ m.local \in SlotIds /\ NetInv
  BY DEF IInv, NetInv, Packet
<1>2. PICK g : g = [e EXCEPT !.ext = m.local, !.status = CONNECT]
  OBVIOUS
<1>3. g \in Entry
  BY <1>1, <1>2 DEF Entry, Statuses
<1>4. g.status = CONNECT /\ g.peer = e.peer /\ g.cbs = e.cbs /\ g.ext # NoId
  BY <1>1, <1>2, ConstantsAssumption DEF Entry, SlotIds, NoId
<1>5. SendFirst(m.dst, s, g, CONNECT, m.pmtu, rest) /\ CONNECT \in Statuses
  BY <1>2 DEF AnswerInvite, Statuses
<1>6. PICK n \in Nodes : n = m.dst
  BY <1>1
<1>7. /\ NetInv'
      /\ \E f \in Entry :
           /\ conn' = [conn EXCEPT ![n][s] = f]
           /\ SameConnection(g, f) /\ f.trials = 1 /\ f.timer = TRUE
  BY <1>1, <1>3, <1>4, <1>5, <1>6, SendFirstUpdate
<1> QED BY <1>4, <1>6, <1>7 DEF SameConnection

LEMMA RecvInviteStep ==
  ASSUME IInv, NEW m \in net, NEW again \in BOOLEAN, RecvInvite(m, again)
  PROVE  StepOK
PROOF
<1>1. PICK n \in Nodes : n = m.dst
  BY DEF IInv, NetInv, Packet
<1>2. TableInv /\ NetInv /\ FaultsInv' /\ UNCHANGED req /\ m.type = INVITE
  BY FaultsUpdate DEF IInv, RecvInvite
<1>3. PICK rest \in SUBSET net : rest = Rest(m, again)
  BY DEF Rest
<1>4. ASSUME NEW s \in SlotIds, Least(s, SlotsOf(n, m.src)),
             AnswerInvite(n, s, conn[n][s], m, rest)
      PROVE  TableStep /\ NetInv'
  <2>1. conn[n][s] # NULL
    BY <1>4 DEF Least, SlotsOf
  <2>2. PICK e \in Entry : e = conn[n][s]
    BY <1>2, <2>1 DEF TableInv
  <2>3. AnswerInvite(m.dst, s, e, m, rest)
    BY <1>1, <1>4, <2>2
  <2>4. PICK f \in Entry :
          /\ NetInv' /\ conn' = [conn EXCEPT ![m.dst][s] = f]
          /\ f.status = CONNECT /\ f.peer = e.peer /\ f.cbs = e.cbs
          /\ f.ext # NoId /\ f.trials = 1 /\ f.timer = TRUE
    BY <1>2, <2>3, AnswerInviteUpdate
  <2>5. Kept(n, s, f)
    BY <1>1, <1>2, <2>1, <2>2, <2>4, ConstantsAssumption DEF Kept, READY, CONNECT
  <2> QED BY <2>4, <2>5 DEF TableStep
<1>5. ASSUME NEW s \in SlotIds, SlotsOf(n, m.src) = {}, Least(s, FreeSlots(n)),
             AnswerInvite(n, s, NewEntry(CONNECT, m.src, m.local, m.pmtu, m.direct, {}),
                          m, rest)
      PROVE  TableStep /\ NetInv'
  <2>1. PICK e : e = NewEntry(CONNECT, m.src, m.local, m.pmtu, m.direct, {})
    OBVIOUS
  <2>2. e \in Entry
    BY <2>1 DEF IInv, NetInv, Packet, NewEntry, Entry, Statuses
  <2>3. e.peer = m.src /\ e.cbs = {}
    BY <2>1 DEF NewEntry
  <2>4. AnswerInvite(m.dst, s, e, m, rest)
    BY <1>1, <1>5, <2>1
  <2>5. PICK f \in Entry :
          /\ NetInv' /\ conn' = [conn EXCEPT ![m.dst][s] = f]
          /\ f.status = CONNECT /\ f.peer = e.peer /\ f.cbs = e.cbs
          /\ f.ext # NoId /\ f.trials = 1 /\ f.timer = TRUE
    BY <1>2, <2>2, <2>4, AnswerInviteUpdate
  <2>6. conn[n][s] = NULL /\ \A t \in SlotIds : conn[n][t] # NULL => conn[n][t].peer # m.src
    BY <1>5 DEF SlotsOf, Least, FreeSlots
  <2>7. Taken(n, s, f)
    BY <1>1, <2>3, <2>5, <2>6 DEF Taken, CONNECT, READY
  <2>8. Invited(n, s, f)
    BY <1>2, <2>3, <2>5, <2>7 DEF Invited
  <2> QED BY <2>5, <2>8 DEF TableStep
<1>6. ASSUME net' = rest, UNCHANGED conn PROVE TableStep /\ NetInv'
  BY <1>2, <1>6 DEF TableStep, NetInv, RemoteIdKnown
<1> QED BY <1>1, <1>2, <1>3, <1>4, <1>5, <1>6 DEF RecvInvite, StepOK

LEMMA RecvConnectStep ==
  ASSUME IInv, NEW m \in net, NEW again \in BOOLEAN, RecvConnect(m, again)
  PROVE  StepOK
PROOF
<1>1. PICK n \in Nodes : n = m.dst
  BY DEF IInv, NetInv, Packet
<1>2. PICK s \in SlotIds : s = m.remote
  BY DEF RecvConnect
<1>3. TableInv /\ NetInv /\ FaultsInv'
  BY FaultsUpdate DEF IInv, RecvConnect
<1>4. PICK rest \in SUBSET net : rest = Rest(m, again)
  BY DEF Rest
<1>5. CASE net' = rest /\ UNCHANGED <<conn, req>>
  BY <1>3, <1>5 DEF StepOK, TableStep, NetInv, RemoteIdKnown
<1>6. ASSUME NEW e \in Entry, e = conn[n][s], e # NULL, e.status = INVITE,
             SendFirst(n, s, Established([e EXCEPT !.ext = m.local]), READY, m.pmtu, rest),
             Resolve(e.cbs, "called")
      PROVE  StepOK
  <2>1. m.local \in SlotIds
    BY DEF IInv, NetInv, Packet
  <2>2. PICK g : g = Established([e EXCEPT !.ext = m.local])
    OBVIOUS
  <2>3. g \in Entry /\ g.status = READY /\ g.peer = e.peer /\ g.cbs = {} /\ g.ext = m.local
    BY <2>1, <2>2 DEF Established, Entry, Statuses
  <2>4. g.ext # NoId
    BY <2>1, <2>3, ConstantsAssumption DEF SlotIds, NoId
  <2>5. SendFirst(n, s, g, READY, m.pmtu, rest) /\ READY \in Statuses
    BY <1>6, <2>2 DEF Statuses
  <2>6. PICK f \in Entry :
          /\ NetInv' /\ conn' = [conn EXCEPT ![n][s] = f] /\ SameConnection(g, f)
    BY <1>3, <2>3, <2>4, <2>5, SendFirstUpdate
  <2>7. CameUp(n, s, f)
    BY <1>6, <2>3, <2>4, <2>6 DEF CameUp, SameConnection, INVITE, READY
  <2> QED BY <1>3, <2>6, <2>7 DEF StepOK, TableStep
<1>7. ASSUME NEW e \in Entry, e = conn[n][s], e # NULL, e.status # INVITE,
             SendFirst(n, s, e, READY, m.pmtu, rest), UNCHANGED req
      PROVE  StepOK
  <2>1. GoodEntry(n, e, req)
    BY <1>3, <1>7 DEF TableInv
  <2>2. e.ext # NoId /\ READY \in Statuses
    BY <1>7, <2>1 DEF GoodEntry, Statuses
  <2>3. PICK f \in Entry :
          /\ NetInv' /\ conn' = [conn EXCEPT ![n][s] = f]
          /\ SameConnection(e, f) /\ f.trials = 1 /\ f.timer = TRUE
    BY <1>3, <1>7, <2>2, SendFirstUpdate
  <2>4. Kept(n, s, f)
    BY <1>7, <2>2, <2>3, ConstantsAssumption DEF Kept, SameConnection
  <2> QED BY <1>3, <2>3, <2>4 DEF StepOK, TableStep
<1>8. conn[n][s] # NULL => conn[n][s] \in Entry
  BY <1>3 DEF TableInv
<1> QED BY <1>1, <1>2, <1>4, <1>5, <1>6, <1>7, <1>8 DEF RecvConnect

LEMMA RecvReadyStep ==
  ASSUME IInv, NEW m \in net, NEW again \in BOOLEAN, RecvReady(m, again)
  PROVE  StepOK
PROOF
<1>1. PICK n \in Nodes : n = m.dst
  BY DEF IInv, NetInv, Packet
<1>2. PICK s \in SlotIds : s = m.remote
  BY DEF RecvReady
<1>3. TableInv /\ NetInv /\ FaultsInv'
  BY FaultsUpdate DEF IInv, RecvReady
<1>4. NetInv'
  BY DEF IInv, NetInv, RemoteIdKnown, RecvReady, Rest
<1>5. CASE UNCHANGED <<conn, req>>
  BY <1>3, <1>4, <1>5 DEF StepOK, TableStep
<1>6. ASSUME NEW e, e = conn[n][s], e # NULL, e.status = CONNECT,
             conn' = [conn EXCEPT ![n][s] = Established(e)],
             Resolve(e.cbs, "called")
      PROVE  StepOK
  <2>1. e \in Entry /\ GoodEntry(n, e, req)
    BY <1>3, <1>6 DEF TableInv
  <2>2. e.ext # NoId
    BY <1>6, <2>1 DEF GoodEntry, CONNECT, INVITE
  <2>3. PICK f : f = Established(e)
    OBVIOUS
  <2>4. /\ f \in Entry
        /\ f.peer = e.peer /\ f.cbs = {} /\ f.status = READY /\ f.ext = e.ext
    BY <2>1, <2>3 DEF Established, Entry, Statuses
  <2>5. CameUp(n, s, f)
    BY <1>6, <2>2, <2>3, <2>4 DEF CameUp, CONNECT, READY
  <2> QED BY <1>3, <1>4, <2>4, <2>5 DEF StepOK, TableStep
<1> QED BY <1>1, <1>2, <1>5, <1>6 DEF RecvReady

-----------------------------------------------------------------------------
(* pmtu_timeout_cb, the application and the network.                        *)

\* A lowered estimate is one of the estimates or P_ERROR.
LEMMA Decremented ==
  ASSUME NEW p \in PmtuSizes
  PROVE  pmtu_decrement(p) \in PmtuSizes \cup {P_ERROR}
BY DEF pmtu_decrement, PmtuSizes, MAX, DSL, DSLMEDIUM, DSLSLIM, BELOWDSL, MIN, P_ERROR

LEMMA RetryStep ==
  ASSUME IInv, NEW n \in Nodes, NEW s \in SlotIds, NEW e \in Entry,
         e = conn[n][s], e # NULL, e.status # READY,
         NEW p \in PmtuSizes \cup {P_ERROR}, NEW t \in 0 .. MAX_TRIALS - 1,
         Retry(n, s, e, p, t)
  PROVE  TableStep /\ NetInv'
PROOF
<1>1. TableInv /\ NetInv /\ UNCHANGED req
  BY DEF IInv, Retry
<1>2. PICK f0 : f0 = IF p = P_ERROR
                     THEN [e EXCEPT !.pmtu = DSLSLIM, !.internal = FALSE]
                     ELSE [e EXCEPT !.pmtu = p]
  OBVIOUS
<1>3. f0 \in Entry
  BY <1>2 DEF Entry, PmtuSizes
<1>4. SameConnection(e, f0)
  BY <1>2 DEF SameConnection, Entry
<1>5. PICK g : g = [f0 EXCEPT !.trials = t + 1, !.timer = TRUE]
  OBVIOUS
<1>6. t + 1 \in 1 .. MAX_TRIALS /\ t + 1 \in Nat
  BY ConstantsAssumption
<1>7. g \in Entry
  BY <1>3, <1>5, <1>6 DEF Entry
<1>8. SameConnection(e, g) /\ g.trials \in 1 .. MAX_TRIALS /\ g.timer = TRUE
  BY <1>3, <1>4, <1>5, <1>6 DEF SameConnection, Entry
<1>9. PICK size : Send(n, s, g, e.status, size, net)
  BY <1>2, <1>5 DEF Retry
<1>10. GoodEntry(n, e, req)
  BY <1>1 DEF TableInv
<1>11. g.ext # NoId \/ e.status = INVITE
  BY <1>8, <1>10 DEF SameConnection, GoodEntry
<1>12. e.status \in Statuses \cup {DATA} /\ net \in SUBSET net
  BY DEF Entry
<1>13. /\ NetInv'
       /\ \E f \in Entry :
            /\ conn' = [conn EXCEPT ![n][s] = f]
            /\ SameConnection(g, f) /\ f.trials = g.trials /\ f.timer = g.timer
  BY <1>1, <1>7, <1>9, <1>11, <1>12, SendUpdate
<1>14. PICK f \in Entry :
         /\ conn' = [conn EXCEPT ![n][s] = f]
         /\ SameConnection(g, f) /\ f.trials = g.trials /\ f.timer = g.timer
  BY <1>13
<1>15. f.peer = e.peer /\ f.cbs = e.cbs /\ f.ext = e.ext /\ f.status = e.status
  BY <1>8, <1>14 DEF SameConnection
<1>16. f.trials \in 1 .. MAX_TRIALS /\ f.timer = TRUE
  BY <1>8, <1>14
<1>17. Kept(n, s, f)
  BY <1>1, <1>10, <1>14, <1>15, <1>16 DEF GoodEntry, Kept
<1> QED BY <1>13, <1>17 DEF TableStep

LEMMA TimeoutStep ==
  ASSUME IInv, NEW n \in Nodes, NEW s \in SlotIds, pmtu_timeout_cb(n, s)
  PROVE  StepOK
PROOF
<1>1. PICK e \in Entry : e = conn[n][s] /\ e # NULL
  BY DEF IInv, TableInv, pmtu_timeout_cb
<1>2. TableInv /\ NetInv /\ FaultsInv'
  BY FaultsUpdate DEF IInv, pmtu_timeout_cb
<1>3. CASE /\ e.status = READY
           /\ conn' = [conn EXCEPT ![n][s].timer = FALSE]
           /\ UNCHANGED <<net, req>>
  <2>1. PICK f : f = [e EXCEPT !.timer = FALSE]
    OBVIOUS
  <2>2. /\ f \in Entry /\ f.peer = e.peer /\ f.cbs = e.cbs /\ f.ext = e.ext
        /\ f.status = READY
    BY <1>3, <2>1 DEF Entry
  <2>3. GoodEntry(n, e, req)
    BY <1>1, <1>2 DEF TableInv
  <2>4. f.ext # NoId
    BY <1>3, <2>2, <2>3 DEF GoodEntry, READY, INVITE
  <2>5. Kept(n, s, f)
    BY <1>1, <1>3, <2>1, <2>2, <2>4 DEF Kept
  <2> QED BY <1>2, <1>3, <2>2, <2>5 DEF StepOK, TableStep, NetInv, RemoteIdKnown
<1>4. CASE e.status # READY /\ GiveUp(n, s)
  <2>1. Removed(n, s, "failed")
    BY <1>1, <1>4 DEF GiveUp, Removed
  <2> QED BY <1>2, <1>4, <2>1 DEF StepOK, TableStep, NetInv, RemoteIdKnown, GiveUp
<1>5. ASSUME NEW p, NEW t, e.status # READY,
             p = IF e.trials = MAX_TRIALS THEN pmtu_decrement(e.pmtu) ELSE e.pmtu,
             t = IF e.trials = MAX_TRIALS THEN 0 ELSE e.trials,
             Retry(n, s, e, p, t)
      PROVE  StepOK
  <2>1. e.pmtu \in PmtuSizes /\ e.trials \in Nat
    BY DEF Entry
  <2>2. p \in PmtuSizes \cup {P_ERROR}
    BY <1>5, <2>1, Decremented
  <2>3. e.trials \in 1 .. MAX_TRIALS
    BY <1>1, <1>2, <1>5 DEF TableInv, GoodEntry
  <2>4. t \in 0 .. MAX_TRIALS - 1
    <3>1. MAX_TRIALS \in Nat /\ MAX_TRIALS >= 1
      BY ConstantsAssumption
    <3>2. CASE e.trials = MAX_TRIALS
      BY <1>5, <3>1, <3>2
    <3>3. CASE e.trials # MAX_TRIALS
      <4>1. PICK k \in 1 .. MAX_TRIALS : k = e.trials
        BY <2>3
      <4> QED BY <1>5, <3>1, <3>3, <4>1
    <3> QED BY <3>2, <3>3
  <2> QED BY <1>1, <1>2, <1>5, <2>2, <2>4, RetryStep DEF StepOK
<1> QED BY <1>1, <1>3, <1>4, <1>5 DEF pmtu_timeout_cb

LEMMA CloseStep ==
  ASSUME IInv, NEW n \in Nodes, NEW s \in SlotIds, mlCloseConnection(n, s)
  PROVE  StepOK
PROOF
<1>1. FaultsInv'
  BY FaultsUpdate DEF IInv, mlCloseConnection, FaultKinds
<1>2. Removed(n, s, "closed")
  BY DEF mlCloseConnection, Removed
<1> QED BY <1>1, <1>2
      DEF IInv, StepOK, TableStep, NetInv, RemoteIdKnown, mlCloseConnection

LEMMA SendDataStep ==
  ASSUME IInv, NEW n \in Nodes, NEW s \in SlotIds, mlSendData(n, s)
  PROVE  StepOK
PROOF
<1>1. TableInv /\ NetInv /\ UNCHANGED req
  BY DEF IInv, mlSendData
<1>2. FaultsInv'
  BY FaultsUpdate DEF IInv, mlSendData, FaultKinds
<1>3. PICK e \in Entry : e = conn[n][s] /\ e # NULL /\ e.status = READY
  BY <1>1 DEF mlSendData, TableInv
<1>4. GoodEntry(n, e, req)
  BY <1>1, <1>3 DEF TableInv
<1>5. e.ext # NoId
  BY <1>3, <1>4 DEF GoodEntry, READY, INVITE
<1>6. PICK size : Send(n, s, e, DATA, size, net)
  BY <1>3 DEF mlSendData
<1>7. DATA \in Statuses \cup {DATA} /\ net \in SUBSET net
  OBVIOUS
<1>8. /\ NetInv'
      /\ \E f \in Entry :
           /\ conn' = [conn EXCEPT ![n][s] = f]
           /\ SameConnection(e, f) /\ f.trials = e.trials /\ f.timer = e.timer
  BY <1>1, <1>5, <1>6, <1>7, SendUpdate
<1>9. PICK f \in Entry : conn' = [conn EXCEPT ![n][s] = f] /\ SameConnection(e, f)
  BY <1>8
<1>10. Kept(n, s, f)
  BY <1>1, <1>3, <1>5, <1>9 DEF Kept, SameConnection
<1> QED BY <1>2, <1>8, <1>10 DEF StepOK, TableStep

\* Every step of the system is one of the table steps.
LEMMA NextStep ==
  ASSUME IInv, [Next]_vars
  PROVE  StepOK
PROOF
<1>1. ASSUME UNCHANGED <<conn, req>>, net' \subseteq net, FaultsInv' PROVE StepOK
  BY <1>1 DEF IInv, StepOK, TableStep, NetInv, RemoteIdKnown
<1>2. CASE UNCHANGED vars
  BY <1>1, <1>2 DEF vars, IInv, FaultsInv
<1>3. ASSUME NEW r \in Requests, mlOpenConnection(r) PROVE StepOK
  BY <1>3, OpenStep
<1>4. ASSUME NEW m \in net, NEW again \in BOOLEAN,
             \/ RecvInvite(m, again) \/ RecvConnect(m, again)
             \/ RecvReady(m, again) \/ RecvData(m, again)
      PROVE  StepOK
  <2>1. CASE RecvData(m, again)
    BY <1>1, <2>1, FaultsUpdate DEF RecvData, Rest, IInv
  <2> QED BY <1>4, <2>1, RecvInviteStep, RecvConnectStep, RecvReadyStep
<1>5. ASSUME NEW m \in net, Lose(m) PROVE StepOK
  BY <1>1, <1>5, FaultsUpdate DEF Lose, IInv, FaultKinds
<1>6. ASSUME NEW n \in Nodes, NEW s \in SlotIds,
             pmtu_timeout_cb(n, s) \/ mlCloseConnection(n, s) \/ mlSendData(n, s)
      PROVE  StepOK
  BY <1>6, TimeoutStep, CloseStep, SendDataStep
<1> QED BY <1>2, <1>3, <1>4, <1>5, <1>6 DEF Next, Receive

-----------------------------------------------------------------------------
(* Table steps keep the invariant.                                          *)

LEMMA TakenInv ==
  ASSUME TableInv, NEW n \in Nodes, NEW s \in SlotIds, NEW f \in Entry,
         Taken(n, s, f), req' \in [Requests -> Outcomes],
         f.ext = NoId => f.status = INVITE,
         \A r \in f.cbs : req'[r] = "pending" /\ r.from = n /\ r.to = f.peer,
         \A r \in Requests : req[r] = "pending" => req'[r] = "pending",
         \A r \in Requests : req'[r] = "pending" => req[r] = "pending" \/ r \in f.cbs
  PROVE  TableInv'
PROOF
<1>1. GoodEntry(n, f, req')
  BY ConstantsAssumption DEF GoodEntry, Taken
<1>2. \A t \in SlotIds \ {s} : conn[n][t] # NULL => conn[n][t].peer # f.peer
  BY DEF Taken
<1>3. \A r \in Requests : req'[r] = "pending" =>
        \/ f # NULL /\ r.from = n /\ r \in f.cbs
        \/ req[r] = "pending" /\ ~ (conn[n][s] # NULL /\ r \in conn[n][s].cbs)
  BY NullAssumption DEF Taken
<1>4. f \in Entry \cup {NULL} /\ conn' = [conn EXCEPT ![n][s] = f]
  BY DEF Taken
<1> QED BY <1>1, <1>2, <1>3, <1>4, SlotUpdate

LEMMA QueuedInv ==
  ASSUME TableInv, NEW r \in Requests, NEW s \in SlotIds, NEW f \in Entry,
         Queued(r, s, f)
  PROVE  TableInv'
PROOF
<1>1. PICK n \in Nodes : n = r.from
  BY ConstantsAssumption DEF Request
<1>2. PICK e \in Entry : e = conn[n][s] /\ e # NULL
  BY <1>1 DEF Queued, TableInv
<1>3. GoodEntry(n, e, req) /\ e.cbs \subseteq Requests
  BY <1>2 DEF TableInv, Entry
<1>4. /\ req' \in [Requests -> Outcomes]
      /\ \A x \in Requests : req'[x] = IF x = r THEN "pending" ELSE req[x]
  BY ResolveUpdate DEF Queued, TableInv, Outcomes
<1>5. f.peer = e.peer /\ f.cbs = e.cbs \cup {r} /\ r.to = f.peer
  BY <1>1, <1>2 DEF Queued
<1>6. GoodEntry(n, f, req')
  BY <1>1, <1>2, <1>3, <1>4 DEF GoodEntry, Queued
<1>7. \A t \in SlotIds \ {s} : conn[n][t] # NULL => conn[n][t].peer # f.peer
  BY <1>2, <1>5 DEF TableInv, OneSlotPerPeer
<1>8. \A x \in Requests : req'[x] = "pending" =>
        \/ f # NULL /\ x.from = n /\ x \in f.cbs
        \/ req[x] = "pending" /\ ~ (conn[n][s] # NULL /\ x \in conn[n][s].cbs)
  BY <1>1, <1>2, <1>3, <1>4, <1>5, NullAssumption DEF GoodEntry
<1>9. \A x \in Requests : req[x] = "pending" => req'[x] = "pending"
  BY <1>4
<1>10. f \in Entry \cup {NULL} /\ conn' = [conn EXCEPT ![n][s] = f]
  BY <1>1 DEF Queued
<1> QED BY <1>4, <1>6, <1>7, <1>8, <1>9, <1>10, SlotUpdate

LEMMA KeptInv ==
  ASSUME TableInv, NEW n \in Nodes, NEW s \in SlotIds, NEW f \in Entry, Kept(n, s, f)
  PROVE  TableInv'
PROOF
<1>1. PICK e \in Entry : e = conn[n][s] /\ e # NULL
  BY DEF Kept, TableInv
<1>2. GoodEntry(n, e, req)
  BY <1>1 DEF TableInv
<1>3. GoodEntry(n, f, req')
  BY <1>1, <1>2 DEF GoodEntry, Kept
<1>4. \A t \in SlotIds \ {s} : conn[n][t] # NULL => conn[n][t].peer # f.peer
  BY DEF TableInv, OneSlotPerPeer, Kept
<1>5. \A r \in Requests : req'[r] = "pending" =>
        \/ f # NULL /\ r.from = n /\ r \in f.cbs
        \/ req[r] = "pending" /\ ~ (conn[n][s] # NULL /\ r \in conn[n][s].cbs)
  BY <1>1, <1>2, NullAssumption DEF GoodEntry, Kept
<1>6. /\ f \in Entry \cup {NULL} /\ conn' = [conn EXCEPT ![n][s] = f]
      /\ req' \in [Requests -> Outcomes]
  BY DEF TableInv, Kept
<1>7. \A r \in Requests : req[r] = "pending" => req'[r] = "pending"
  BY DEF Kept
<1> QED BY <1>3, <1>4, <1>5, <1>6, <1>7, SlotUpdate

\* The connection comes up or goes away, and all its callbacks are resolved.
LEMMA ResolvedInv ==
  ASSUME TableInv, NEW n \in Nodes, NEW s \in SlotIds, NEW f \in Entry \cup {NULL},
         conn[n][s] # NULL,
         conn' = [conn EXCEPT ![n][s] = f],
         NEW o \in Outcomes \ {"pending"}, Resolve(conn[n][s].cbs, o),
         f # NULL => /\ f.peer = conn[n][s].peer /\ f.cbs = {}
                     /\ f.status = READY /\ f.ext # NoId
  PROVE  TableInv'
PROOF
<1>1. GoodEntry(n, conn[n][s], req) /\ conn[n][s] \in Entry
  BY DEF TableInv
<1>2. f # NULL => GoodEntry(n, f, req')
  BY <1>1 DEF GoodEntry
<1>3. f # NULL => \A t \in SlotIds \ {s} : conn[n][t] # NULL => conn[n][t].peer # f.peer
  BY DEF TableInv, OneSlotPerPeer
<1>4. /\ req' \in [Requests -> Outcomes]
      /\ \A r \in Requests : req'[r] = IF r \in conn[n][s].cbs THEN o ELSE req[r]
  BY ResolveUpdate DEF TableInv
<1>5. \A r \in Requests : req[r] = "pending" /\ req'[r] # "pending" =>
        conn[n][s] # NULL /\ r \in conn[n][s].cbs
  BY <1>4
<1>6. \A r \in Requests : req'[r] = "pending" =>
        \/ f # NULL /\ r.from = n /\ r \in f.cbs
        \/ req[r] = "pending" /\ ~ (conn[n][s] # NULL /\ r \in conn[n][s].cbs)
  BY <1>4
<1> QED BY <1>2, <1>3, <1>4, <1>5, <1>6, SlotUpdate

LEMMA TableStepInv ==
  ASSUME TableInv, TableStep
  PROVE  TableInv'
PROOF
<1>1. CASE UNCHANGED <<conn, req>>
  BY <1>1, SameTable DEF TableInv
<1>2. ASSUME NEW r \in Requests, Answered(r) PROVE TableInv'
  <2>1. PICK o \in {"called", "rejected"} : Resolve({r}, o)
    BY <1>2 DEF Answered
  <2>2. /\ req' \in [Requests -> Outcomes]
        /\ \A x \in Requests : req'[x] = IF x = r THEN o ELSE req[x]
    BY <2>1, ResolveUpdate DEF TableInv, Outcomes
  <2> QED BY <1>2, <2>1, <2>2, SameTable DEF Answered
<1>3. ASSUME NEW r \in Requests, NEW s \in SlotIds, NEW f \in Entry, Opened(r, s, f)
      PROVE  TableInv'
  <2>1. PICK n \in Nodes : n = r.from
    BY ConstantsAssumption DEF Request
  <2>2. /\ req' \in [Requests -> Outcomes]
        /\ \A x \in Requests : req'[x] = IF x = r THEN "pending" ELSE req[x]
    BY <1>3, ResolveUpdate DEF Opened, TableInv, Outcomes
  <2>3. Taken(n, s, f) /\ f.status = INVITE
    BY <1>3, <2>1 DEF Opened
  <2>4. \A x \in f.cbs : req'[x] = "pending" /\ x.from = n /\ x.to = f.peer
    BY <1>3, <2>1, <2>2 DEF Opened
  <2>5. \A x \in Requests : req'[x] = "pending" => req[x] = "pending" \/ x \in f.cbs
    BY <1>3, <2>2 DEF Opened
  <2>6. \A x \in Requests : req[x] = "pending" => req'[x] = "pending"
    BY <2>2
  <2>7. req' \in [Requests -> Outcomes]
    BY <2>2
  <2> QED BY <2>3, <2>4, <2>5, <2>6, <2>7, TakenInv
<1>4. ASSUME NEW n \in Nodes, NEW s \in SlotIds, NEW f \in Entry, Invited(n, s, f)
      PROVE  TableInv'
  BY <1>4, TakenInv DEF Invited, TableInv
<1>5. ASSUME NEW n \in Nodes, NEW s \in SlotIds, NEW f \in Entry, CameUp(n, s, f)
      PROVE  TableInv'
  <2>1. f \in Entry \cup {NULL} /\ "called" \in Outcomes \ {"pending"}
    BY DEF Outcomes
  <2> QED BY <1>5, <2>1, ResolvedInv DEF CameUp
<1>6. ASSUME NEW n \in Nodes, NEW s \in SlotIds, NEW o \in {"failed", "closed"},
             Removed(n, s, o)
      PROVE  TableInv'
  <2>1. NULL \in Entry \cup {NULL} /\ o \in Outcomes \ {"pending"}
    BY DEF Outcomes
  <2> QED BY <1>6, <2>1, ResolvedInv DEF Removed
<1> QED BY <1>1, <1>2, <1>3, <1>4, <1>5, <1>6, QueuedInv, KeptInv DEF TableStep

-----------------------------------------------------------------------------
(* The theorems.                                                            *)

LEMMA NextInv ==
  ASSUME IInv, [Next]_vars
  PROVE  IInv'
BY NextStep, TableStepInv DEF StepOK, IInv

\* The inductive invariant holds in every state a handler leaves behind.
THEOREM Invariance == Spec => []IInv
PROOF
<1>1. Init => IInv
  BY InitInv
<1>2. IInv /\ [Next]_vars => IInv'
  BY NextInv
<1> QED BY <1>1, <1>2, PTL DEF Spec

\* Every variable keeps its type, whatever the handlers of ml.c do.
THEOREM TypeCorrect == Spec => []TypeOK
PROOF
<1>1. IInv => TypeOK
  BY DEF IInv, TableInv, NetInv, FaultsInv, TypeOK
<1> QED BY <1>1, Invariance, PTL

\* remote_con_id, which recv_conn_msg and recv_data_msg use as an index, is
\* never -1 in a CONNECT, READY or data packet.
THEOREM RemoteIdsKnown == Spec => []RemoteIdKnown
PROOF
<1>1. IInv => RemoteIdKnown
  BY DEF IInv, NetInv
<1> QED BY <1>1, Invariance, PTL

\* No connection attempt is left without its retry timer, and its trial count
\* never steps over MAX_TRIALS, which pmtu_timeout_cb tests by equality.
THEOREM AlwaysRetrying == Spec => []Retrying
PROOF
<1>1. IInv => Retrying
  BY DEF IInv, TableInv, GoodEntry, Retrying
<1> QED BY <1>1, Invariance, PTL

\* The searches of mlOpenConnection and of the INVITE case keep one entry per
\* peer, whatever crosses on the wire.
THEOREM OneConnectionPerPeer == Spec => []OneSlotPerPeer
PROOF
<1>1. IInv => OneSlotPerPeer
  BY DEF IInv, TableInv
<1> QED BY <1>1, Invariance, PTL

\* No callback given to mlOpenConnection is lost, run twice or kept after the
\* connection is established or gone.
THEOREM CallbacksOwed == Spec => []CallbackOwed
PROOF
<1>1. IInv => CallbackOwed
  BY DEF IInv, TableInv, GoodEntry, CallbackOwed
<1> QED BY <1>1, Invariance, PTL

-----------------------------------------------------------------------------
(* The refinement of ConnService: each table step maps to one step of the   *)
(* service or to none.                                                      *)

LinkState(f) == IF f.status = READY THEN "up" ELSE "opening"


LEMMA LinkOfSlot ==
  ASSUME TableInv, NEW n \in Nodes, NEW s \in SlotIds, conn[n][s] # NULL
  PROVE  /\ conn[n][s].peer \in Nodes
         /\ SlotsOf(n, conn[n][s].peer) = {s}
         /\ Link[n][conn[n][s].peer] = LinkState(conn[n][s])
PROOF
<1>1. conn[n][s].peer \in Nodes
  BY DEF TableInv, Entry
<1>2. SlotsOf(n, conn[n][s].peer) = {s}
  BY DEF TableInv, OneSlotPerPeer, SlotsOf
<1> QED BY <1>1, <1>2 DEF Link, LinkUp, LinkState

LEMMA LinkOfNone ==
  ASSUME NEW n \in Nodes, NEW m \in Nodes, SlotsOf(n, m) = {}
  PROVE  Link[n][m] = "none"
BY DEF Link

\* The requests that wait on a link are the callbacks of its slot.
LEMMA WaitingOfSlot ==
  ASSUME TableInv, NEW n \in Nodes, NEW s \in SlotIds, conn[n][s] # NULL
  PROVE  Service!Waiting(n, conn[n][s].peer) = conn[n][s].cbs
PROOF
<1>1. PICK e \in Entry : e = conn[n][s]
  BY DEF TableInv
<1>2. GoodEntry(n, e, req) /\ e.cbs \subseteq Requests
  BY <1>1 DEF TableInv, Entry
<1>3. ASSUME NEW r \in Requests, r.from = n, r.to = e.peer, req[r] = "pending"
      PROVE  r \in e.cbs
  <2>1. PICK t \in SlotIds : conn[n][t] # NULL /\ r \in conn[n][t].cbs
    BY <1>3 DEF TableInv
  <2>2. r.to = conn[n][t].peer
    BY <2>1 DEF TableInv, GoodEntry
  <2>3. t = s
    BY <1>1, <1>3, <2>1, <2>2 DEF TableInv, OneSlotPerPeer
  <2> QED BY <1>1, <2>1, <2>3
<1>4. \A r \in e.cbs : r \in Requests /\ r.from = n /\ r.to = e.peer /\ req[r] = "pending"
  BY <1>2 DEF GoodEntry
<1> QED BY <1>1, <1>3, <1>4 DEF Service!Waiting

\* A table that differs from another in one place.
LEMMA OnePlace ==
  ASSUME NEW S, NEW F \in [Nodes -> [Nodes -> S]], NEW G \in [Nodes -> [Nodes -> S]],
         NEW n \in Nodes, NEW p \in Nodes,
         \A k, m \in Nodes : <<k, m>> # <<n, p>> => G[k][m] = F[k][m]
  PROVE  G = [F EXCEPT ![n][p] = G[n][p]]
PROOF
<1>1. PICK H \in [Nodes -> [Nodes -> S]] : H = [F EXCEPT ![n][p] = G[n][p]]
  OBVIOUS
<1>2. \A k, m \in Nodes : G[k][m] = H[k][m]
  BY <1>1
<1>3. \A k \in Nodes : G[k] = H[k]
  BY <1>2
<1> QED BY <1>1, <1>3

\* One slot changes: only the link to its peer changes.
LEMMA LinkSet ==
  ASSUME TableInv, TableInv',
         NEW n \in Nodes, NEW s \in SlotIds, NEW f \in Entry,
         conn' = [conn EXCEPT ![n][s] = f],
         conn[n][s] # NULL => conn[n][s].peer = f.peer
  PROVE  Service!LinkBecomes(n, f.peer, LinkState(f))
PROOF
<1>1. /\ conn'[n][s] = f
      /\ \A k \in Nodes, t \in SlotIds : <<k, t>> # <<n, s>> => conn'[k][t] = conn[k][t]
  BY DEF TableInv
<1>2. f # NULL /\ f.peer \in Nodes
  BY NullAssumption DEF Entry
<1>3. SlotsOf(n, f.peer)' = {s}
  BY <1>1, <1>2 DEF TableInv, OneSlotPerPeer, SlotsOf
<1>4. Link'[n][f.peer] = LinkState(f)
  BY <1>1, <1>2, <1>3 DEF Link, LinkUp, LinkState
<1>5. ASSUME NEW k \in Nodes, NEW m \in Nodes, <<k, m>> # <<n, f.peer>>
      PROVE  Link'[k][m] = Link[k][m]
  <2>1. SlotsOf(k, m)' = SlotsOf(k, m)
    BY <1>1, <1>2, <1>5 DEF SlotsOf
  <2>2. \A t \in SlotsOf(k, m) : conn'[k][t] = conn[k][t]
    BY <1>1, <1>2, <1>5, <2>1 DEF SlotsOf
  <2>3. LinkUp(k, m)' <=> LinkUp(k, m)
    BY <2>1, <2>2 DEF LinkUp
  <2> QED BY <2>1, <2>3 DEF Link
<1>6. Link' = [Link EXCEPT ![n][f.peer] = LinkState(f)]
  <2>1. /\ Link \in [Nodes -> [Nodes -> Service!LinkStates]]
        /\ Link' \in [Nodes -> [Nodes -> Service!LinkStates]]
    BY DEF Link, Service!LinkStates
  <2>2. Link' = [Link EXCEPT ![n][f.peer] = Link'[n][f.peer]]
    BY <1>2, <1>5, <2>1, OnePlace
  <2> QED BY <1>4, <2>2
<1> QED BY <1>6 DEF Service!LinkBecomes

LEMMA LinkClear ==
  ASSUME TableInv, TableInv',
         NEW n \in Nodes, NEW s \in SlotIds, conn[n][s] # NULL,
         conn' = [conn EXCEPT ![n][s] = NULL]
  PROVE  Service!LinkBecomes(n, conn[n][s].peer, "none")
PROOF
<1>1. /\ conn'[n][s] = NULL
      /\ \A k \in Nodes, t \in SlotIds : <<k, t>> # <<n, s>> => conn'[k][t] = conn[k][t]
  BY DEF TableInv
<1>2. PICK p \in Nodes : p = conn[n][s].peer
  BY DEF TableInv, Entry
<1>3. SlotsOf(n, p)' = {}
  BY <1>1, <1>2 DEF TableInv, OneSlotPerPeer, SlotsOf
<1>4. Link'[n][p] = "none"
  BY <1>3 DEF Link
<1>5. ASSUME NEW k \in Nodes, NEW m \in Nodes, <<k, m>> # <<n, p>>
      PROVE  Link'[k][m] = Link[k][m]
  <2>1. SlotsOf(k, m)' = SlotsOf(k, m)
    BY <1>1, <1>2, <1>5 DEF SlotsOf
  <2>2. \A t \in SlotsOf(k, m) : conn'[k][t] = conn[k][t]
    BY <1>1, <1>2, <1>5, <2>1 DEF SlotsOf
  <2>3. LinkUp(k, m)' <=> LinkUp(k, m)
    BY <2>1, <2>2 DEF LinkUp
  <2> QED BY <2>1, <2>3 DEF Link
<1>6. Link' = [Link EXCEPT ![n][p] = "none"]
  <2>1. /\ Link \in [Nodes -> [Nodes -> Service!LinkStates]]
        /\ Link' \in [Nodes -> [Nodes -> Service!LinkStates]]
    BY DEF Link, Service!LinkStates
  <2>2. Link' = [Link EXCEPT ![n][p] = Link'[n][p]]
    BY <1>5, <2>1, OnePlace
  <2> QED BY <1>4, <2>2
<1> QED BY <1>2, <1>6 DEF Service!LinkBecomes

\* A link that becomes what it is.
LEMMA LinkKept ==
  ASSUME NEW n \in Nodes, NEW p \in Nodes, Service!LinkBecomes(n, p, Link[n][p])
  PROVE  UNCHANGED Link
PROOF
<1>1. PICK F \in [Nodes -> [Nodes -> Service!LinkStates]] : F = Link
  BY DEF Link, Service!LinkStates
<1>2. Link' = [F EXCEPT ![n][p] = F[n][p]]
  BY <1>1 DEF Service!LinkBecomes
<1> QED BY <1>1, <1>2

\* Resolve is the service's AnswerAll.
LEMMA ResolveAnswers ==
  ASSUME NEW rs, NEW o, Resolve(rs, o)
  PROVE  Service!AnswerAll(rs, o)
BY DEF Resolve, Service!AnswerAll

-----------------------------------------------------------------------------
(* Every table step is a step of the service.                               *)

LEMMA AnsweredRefines ==
  ASSUME TableInv, NEW r \in Requests, Answered(r)
  PROVE  Service!Next
PROOF
<1>1. r.from \in Nodes /\ r.to \in Nodes
  BY ConstantsAssumption DEF Request
<1>2. UNCHANGED Link
  BY DEF Answered, Link, LinkUp, SlotsOf
<1>3. CASE /\ \E s \in SlotsOf(r.from, r.to) : conn[r.from][s].status = READY
           /\ Resolve({r}, "called")
  <2>1. Link[r.from][r.to] = "up"
    BY <1>1, <1>3 DEF Link, LinkUp
  <2> QED BY <1>2, <1>3, <2>1, ResolveAnswers DEF Answered, Service!Next, Service!Ask
<1>4. CASE SlotsOf(r.from, r.to) = {} /\ Resolve({r}, "rejected")
  <2>1. Link[r.from][r.to] = "none"
    BY <1>1, <1>4, LinkOfNone
  <2> QED BY <1>2, <1>4, <2>1, ResolveAnswers DEF Answered, Service!Next, Service!Ask
<1> QED BY <1>3, <1>4 DEF Answered

LEMMA QueuedRefines ==
  ASSUME TableInv, TableInv', NEW r \in Requests, NEW s \in SlotIds, NEW f \in Entry,
         Queued(r, s, f)
  PROVE  Service!Next
PROOF
<1>1. PICK n \in Nodes : n = r.from
  BY ConstantsAssumption DEF Request
<1>2. PICK e \in Entry : e = conn[n][s] /\ e # NULL
  BY <1>1 DEF Queued, TableInv
<1>3. e.status # READY /\ e.peer = r.to /\ f.status = e.status /\ f.peer = e.peer
  BY <1>1, <1>2 DEF Queued
<1>4. Link[n][r.to] = "opening"
  BY <1>2, <1>3, LinkOfSlot DEF LinkState
<1>5. conn' = [conn EXCEPT ![n][s] = f]
  BY <1>1 DEF Queued
<1>6. Service!LinkBecomes(n, f.peer, LinkState(f))
  BY <1>2, <1>3, <1>5, LinkSet
<1>7. UNCHANGED Link
  <2>1. r.to \in Nodes /\ Service!LinkBecomes(n, r.to, Link[n][r.to])
    BY <1>3, <1>4, <1>6, ConstantsAssumption DEF LinkState, Request
  <2> QED BY <2>1, LinkKept
<1>8. Service!AnswerAll({r}, "pending")
  BY ResolveAnswers DEF Queued
<1> QED BY <1>1, <1>4, <1>7, <1>8 DEF Queued, Service!Next, Service!Ask

LEMMA OpenedRefines ==
  ASSUME TableInv, TableInv', NEW r \in Requests, NEW s \in SlotIds, NEW f \in Entry,
         Opened(r, s, f)
  PROVE  Service!Next
PROOF
<1>1. PICK n \in Nodes : n = r.from
  BY ConstantsAssumption DEF Request
<1>2. /\ conn' = [conn EXCEPT ![n][s] = f] /\ conn[n][s] = NULL
      /\ f.status = INVITE /\ f.peer = r.to
      /\ \A t \in SlotIds : conn[n][t] # NULL => conn[n][t].peer # r.to
  BY <1>1 DEF Opened, Taken
<1>3. r.to \in Nodes
  BY ConstantsAssumption DEF Request
<1>4. Link[n][r.to] = "none"
  BY <1>2, <1>3, LinkOfNone DEF SlotsOf
<1>5. Service!LinkBecomes(n, r.to, "opening")
  BY <1>2, LinkSet DEF LinkState, INVITE, READY
<1>6. Service!AnswerAll({r}, "pending")
  BY ResolveAnswers DEF Opened
<1> QED BY <1>1, <1>4, <1>5, <1>6 DEF Opened, Service!Next, Service!Ask

LEMMA KeptRefines ==
  ASSUME TableInv, TableInv', NEW n \in Nodes, NEW s \in SlotIds, NEW f \in Entry,
         Kept(n, s, f)
  PROVE  Service!Next \/ UNCHANGED <<Link, req>>
PROOF
<1>1. PICK e \in Entry : e = conn[n][s] /\ e # NULL
  BY DEF Kept, TableInv
<1>2. f.peer = e.peer /\ (f.status = READY => e.status = READY) /\ UNCHANGED req
  BY <1>1 DEF Kept
<1>3. conn' = [conn EXCEPT ![n][s] = f]
  BY DEF Kept
<1>4. Service!LinkBecomes(n, f.peer, LinkState(f))
  BY <1>1, <1>2, <1>3, LinkSet
<1>5. e.peer \in Nodes /\ Link[n][e.peer] = LinkState(e)
  BY <1>1, LinkOfSlot
<1>6. CASE f.status = READY
  <2>1. Service!LinkBecomes(n, e.peer, Link[n][e.peer])
    BY <1>2, <1>4, <1>5, <1>6 DEF LinkState
  <2> QED BY <1>2, <1>5, <2>1, LinkKept
<1>7. CASE f.status # READY
  <2>1. Service!Invited(n, e.peer)
    BY <1>2, <1>4, <1>7 DEF LinkState, Service!Invited
  <2> QED BY <1>5, <2>1 DEF Service!Next
<1> QED BY <1>6, <1>7

LEMMA CameUpRefines ==
  ASSUME TableInv, TableInv', NEW n \in Nodes, NEW s \in SlotIds, NEW f \in Entry,
         CameUp(n, s, f)
  PROVE  Service!Next
PROOF
<1>1. PICK e \in Entry : e = conn[n][s] /\ e # NULL
  BY DEF CameUp, TableInv
<1>2. /\ f.peer = e.peer /\ f.status = READY /\ e.status # READY
      /\ conn' = [conn EXCEPT ![n][s] = f] /\ Resolve(e.cbs, "called")
  BY <1>1 DEF CameUp
<1>3. e.peer \in Nodes /\ Link[n][e.peer] = "opening"
  BY <1>1, <1>2, LinkOfSlot DEF LinkState
<1>4. Service!LinkBecomes(n, e.peer, "up")
  BY <1>1, <1>2, LinkSet DEF LinkState
<1>5. Service!AnswerAll(Service!Waiting(n, e.peer), "called")
  BY <1>1, <1>2, WaitingOfSlot, ResolveAnswers
<1>6. Service!ComeUp(n, e.peer)
  BY <1>3, <1>4, <1>5 DEF Service!ComeUp
<1> QED BY <1>3, <1>6 DEF Service!Next

LEMMA RemovedRefines ==
  ASSUME TableInv, TableInv', NEW n \in Nodes, NEW s \in SlotIds,
         NEW o \in {"failed", "closed"}, Removed(n, s, o)
  PROVE  Service!Next
PROOF
<1>1. PICK e \in Entry : e = conn[n][s] /\ e # NULL
  BY DEF Removed, TableInv
<1>2. /\ o = "failed" => e.status # READY
      /\ conn' = [conn EXCEPT ![n][s] = NULL] /\ Resolve(e.cbs, o)
  BY <1>1 DEF Removed
<1>3. e.peer \in Nodes /\ Link[n][e.peer] = LinkState(e)
  BY <1>1, LinkOfSlot
<1>4. Service!LinkBecomes(n, e.peer, "none")
  BY <1>1, <1>2, LinkClear
<1>5. Service!AnswerAll(Service!Waiting(n, e.peer), o)
  BY <1>1, <1>2, WaitingOfSlot, ResolveAnswers
<1>6. Service!Fail(n, e.peer) \/ Service!Close(n, e.peer)
  BY <1>2, <1>3, <1>4, <1>5 DEF LinkState, Service!Fail, Service!Close
<1> QED BY <1>3, <1>6 DEF Service!Next

LEMMA TableStepRefines ==
  ASSUME TableInv, TableInv', TableStep
  PROVE  Service!Next \/ UNCHANGED <<Link, req>>
PROOF
<1>1. CASE UNCHANGED <<conn, req>>
  BY <1>1 DEF Link, LinkUp, SlotsOf
<1>2. ASSUME NEW n \in Nodes, NEW s \in SlotIds, NEW f \in Entry, Invited(n, s, f)
      PROVE  Service!Next
  <2>1. /\ conn' = [conn EXCEPT ![n][s] = f] /\ conn[n][s] = NULL
        /\ f.status # READY /\ UNCHANGED req
    BY <1>2 DEF Invited, Taken, CONNECT, READY
  <2>2. Service!LinkBecomes(n, f.peer, LinkState(f))
    BY <2>1, LinkSet
  <2>3. Service!Invited(n, f.peer)
    BY <2>1, <2>2 DEF LinkState, Service!Invited
  <2>4. f.peer \in Nodes
    BY DEF Entry
  <2> QED BY <2>3, <2>4 DEF Service!Next
<1> QED BY <1>1, <1>2, AnsweredRefines, QueuedRefines, OpenedRefines, KeptRefines,
           CameUpRefines, RemovedRefines DEF TableStep

\* Every behaviour of the handshake, with packets lost, repeated and reordered,
\* retries and closes, is a behaviour of the service.
THEOREM HandshakeImplementsService == Spec => ImplementsService
PROOF
<1>1. Init => Service!Init
  BY DEF Init, Service!Init, Link, SlotsOf
<1>2. IInv /\ IInv' /\ [Next]_vars => [Service!Next]_(Service!vars)
  <2> SUFFICES ASSUME IInv, IInv', [Next]_vars
               PROVE  [Service!Next]_(Service!vars)
    OBVIOUS
  <2>1. TableStep
    BY NextStep DEF StepOK
  <2> QED BY <2>1, TableStepRefines DEF IInv, Service!vars
<1> QED BY <1>1, <1>2, Invariance, PTL DEF Spec, ImplementsService, Service!Spec
-----------------------------------------------------------------------------
(* Whom a packet is from.                                                   *)

\* Slot s of node n is used for connections to owner[n][s] only.
Owned(owner) ==
  \A n \in Nodes, s \in SlotIds : conn[n][s] # NULL => conn[n][s].peer = owner[n][s]

\* The id a connection has noted is that of a slot its peer uses for this node.
NotedIds(owner) ==
  \A n \in Nodes, s \in SlotIds :
    conn[n][s] # NULL /\ conn[n][s].ext # NoId => owner[conn[n][s].peer][conn[n][s].ext] = n

\* So are both ids a packet carries.
CarriedIds(owner) ==
  \A m \in net : /\ owner[m.src][m.local] = m.dst
                 /\ m.remote # NoId => owner[m.dst][m.remote] = m.src

\* send_conn_msg, send_msg: a connection that has noted a right id sends right packets.
LEMMA SendNames ==
  ASSUME NEW owner, IInv, NotedIds(owner), CarriedIds(owner), Owned(owner)',
         NEW n \in Nodes, NEW s \in SlotIds, NEW e \in Entry, NEW type, NEW size,
         NEW rest \in SUBSET net,
         e.ext # NoId => owner[e.peer][e.ext] = n,
         Send(n, s, e, type, size, rest)
  PROVE  NotedIds(owner)' /\ CarriedIds(owner)'
<1>1. PICK q \in PmtuSizes :
        /\ conn' = [conn EXCEPT ![n][s] = [e EXCEPT !.pmtu = q]]
        /\ net' \subseteq rest \cup Wire(n, s, e, type, size, q)
      BY DEF Send, Settled
<1>2. /\ conn \in [Nodes -> [SlotIds -> Entry \cup {NULL}]]
      /\ \A k \in Nodes, t \in SlotIds : <<k, t>> # <<n, s>> => conn'[k][t] = conn[k][t]
      /\ conn'[n][s] \in Entry
      /\ conn'[n][s].peer = e.peer /\ conn'[n][s].ext = e.ext
      BY <1>1 DEF IInv, TableInv, Entry
<1>3. conn'[n][s] # NULL
      BY <1>2, NullAssumption
<1>4. owner[n][s] = e.peer
      BY <1>2, <1>3 DEF Owned
<1>5. NotedIds(owner)'
  <2> SUFFICES ASSUME NEW k \in Nodes, NEW t \in SlotIds, conn'[k][t] # NULL,
                      conn'[k][t].ext # NoId
               PROVE  owner[conn'[k][t].peer][conn'[k][t].ext] = k
      BY DEF NotedIds
  <2>1. CASE <<k, t>> = <<n, s>>
        BY <1>2, <2>1
  <2>2. CASE <<k, t>> # <<n, s>>
        BY <1>2, <2>2 DEF NotedIds
  <2>3. QED
        BY <2>1, <2>2
<1>6. ASSUME NEW m \in Wire(n, s, e, type, size, q)
      PROVE  m.src = n /\ m.local = s /\ m.dst = e.peer /\ m.remote = e.ext
      BY DEF Wire
<1>7. CarriedIds(owner)'
      BY <1>1, <1>4, <1>6 DEF CarriedIds
<1>8. QED
      BY <1>5, <1>7

\* The same of the first trial.
LEMMA SendFirstNames ==
  ASSUME NEW owner, IInv, NotedIds(owner), CarriedIds(owner), Owned(owner)',
         NEW n \in Nodes, NEW s \in SlotIds, NEW e \in Entry, NEW type, NEW size,
         NEW rest \in SUBSET net,
         e.ext # NoId => owner[e.peer][e.ext] = n,
         SendFirst(n, s, e, type, size, rest)
  PROVE  NotedIds(owner)' /\ CarriedIds(owner)'
<1>1. PICK g : g = [e EXCEPT !.trials = 1, !.timer = TRUE]
      OBVIOUS
<1>2. g \in Entry /\ g.ext = e.ext /\ g.peer = e.peer
      BY <1>1 DEF Entry
<1>3. Send(n, s, g, type, size, rest)
      BY <1>1 DEF SendFirst
<1>4. QED
      BY <1>2, <1>3, SendNames

\* A step that changes at most the timer, the status or the callbacks of a slot, or
\* empties it, and sends nothing, names no one new.
LEMMA SilentNames ==
  ASSUME NEW owner, IInv, NotedIds(owner), CarriedIds(owner), net' \subseteq net,
         \A n \in Nodes, s \in SlotIds :
           conn'[n][s] # NULL => /\ conn[n][s] # NULL
                                 /\ conn'[n][s].ext = conn[n][s].ext
                                 /\ conn'[n][s].peer = conn[n][s].peer
  PROVE  NotedIds(owner)' /\ CarriedIds(owner)'
<1>1. CarriedIds(owner)'
      BY DEF CarriedIds
<1>2. NotedIds(owner)'
      BY DEF NotedIds
<1>3. QED
      BY <1>1, <1>2

\* A slot that keeps its connection, but for the fields that do not matter here.
LEMMA SameNames ==
  ASSUME IInv, NEW n \in Nodes, NEW s \in SlotIds, NEW f,
         conn' = [conn EXCEPT ![n][s] = f],
         f # NULL => conn[n][s] # NULL /\ f.ext = conn[n][s].ext /\ f.peer = conn[n][s].peer
  PROVE  \A k \in Nodes, t \in SlotIds :
           conn'[k][t] # NULL => /\ conn[k][t] # NULL
                                 /\ conn'[k][t].ext = conn[k][t].ext
                                 /\ conn'[k][t].peer = conn[k][t].peer
BY DEF IInv, TableInv

\* mlOpenConnection: the new connection has noted no id.
LEMMA OpenNames ==
  ASSUME NEW owner, IInv, NotedIds(owner), CarriedIds(owner), Owned(owner)',
         NEW r \in Requests, mlOpenConnection(r)
  PROVE  NotedIds(owner)' /\ CarriedIds(owner)'
<1>1. r.from \in Nodes /\ r.to \in Nodes
      BY ConstantsAssumption DEF Request
<1>2. ASSUME NEW s \in SlotIds, OpenKnown(r, s)
      PROVE  NotedIds(owner)' /\ CarriedIds(owner)'
  <2>1. s \in SlotsOf(r.from, r.to) /\ net' = net
        BY <1>2 DEF OpenKnown, Least
  <2>2. PICK e \in Entry : e = conn[r.from][s] /\ e # NULL
        BY <1>1, <2>1 DEF IInv, TableInv, SlotsOf
  <2>3. conn' = conn \/ conn' = [conn EXCEPT ![r.from][s] = [e EXCEPT !.cbs = @ \cup {r}]]
        BY <1>2, <2>2 DEF OpenKnown
  <2>4. PICK f : f = [e EXCEPT !.cbs = @ \cup {r}]
        OBVIOUS
  <2>5. f.ext = e.ext /\ f.peer = e.peer
        BY <2>4 DEF Entry
  <2>6. conn' = conn \/ conn' = [conn EXCEPT ![r.from][s] = f]
        BY <2>3, <2>4
  <2>7. CASE conn' = conn
        BY <2>1, <2>7, SilentNames
  <2>8. CASE conn' = [conn EXCEPT ![r.from][s] = f]
        BY <1>1, <2>1, <2>2, <2>5, <2>8, SameNames, SilentNames
  <2>9. QED
        BY <2>6, <2>7, <2>8
<1>3. ASSUME NEW s \in SlotIds, OpenNew(r, s)
      PROVE  NotedIds(owner)' /\ CarriedIds(owner)'
  <2>1. PICK e : e = NewEntry(INVITE, r.to, NoId, DSLSLIM,
                              <<r.from, r.to>> \in SameExternal, {r})
        OBVIOUS
  <2>2. e \in Entry /\ e.ext = NoId
        BY <1>1, <2>1 DEF NewEntry, Entry, Statuses, PmtuSizes
  <2>3. SendFirst(r.from, s, e, INVITE, DSLSLIM, net) /\ net \in SUBSET net
        BY <1>3, <2>1 DEF OpenNew
  <2>4. QED
        BY <1>1, <2>2, <2>3, SendFirstNames
<1>4. CASE OpenRejected(r)
      BY <1>4, SilentNames DEF OpenRejected
<1>5. QED
      BY <1>2, <1>3, <1>4 DEF mlOpenConnection

\* recv_conn_msg: the id an INVITE announces is that of a slot its sender uses for
\* this node.
LEMMA InviteNames ==
  ASSUME NEW owner, IInv, NotedIds(owner), CarriedIds(owner), Owned(owner)',
         NEW m \in net, NEW again \in BOOLEAN, RecvInvite(m, again)
  PROVE  NotedIds(owner)' /\ CarriedIds(owner)'
<1>1. m \in Packet /\ m.dst \in Nodes /\ m.src \in Nodes /\ m.local \in SlotIds
      BY DEF IInv, NetInv, Packet
<1>2. PICK rest \in SUBSET net : rest = Rest(m, again)
      BY DEF Rest
<1>3. ASSUME NEW s \in SlotIds, NEW e \in Entry, e.peer = m.src,
             AnswerInvite(m.dst, s, e, m, rest)
      PROVE  NotedIds(owner)' /\ CarriedIds(owner)'
  <2>1. PICK g : g = [e EXCEPT !.ext = m.local, !.status = CONNECT]
        OBVIOUS
  <2>2. g \in Entry /\ g.ext = m.local /\ g.peer = m.src
        BY <1>1, <1>3, <2>1 DEF Entry, Statuses
  <2>3. owner[g.peer][g.ext] = m.dst
        BY <2>2 DEF CarriedIds
  <2>4. SendFirst(m.dst, s, g, CONNECT, m.pmtu, rest)
        BY <1>3, <2>1 DEF AnswerInvite
  <2>5. QED
        BY <1>1, <2>2, <2>3, <2>4, SendFirstNames
<1>4. ASSUME NEW s \in SlotIds, Least(s, SlotsOf(m.dst, m.src)),
             AnswerInvite(m.dst, s, conn[m.dst][s], m, rest)
      PROVE  NotedIds(owner)' /\ CarriedIds(owner)'
  <2>1. conn[m.dst][s] \in Entry /\ conn[m.dst][s].peer = m.src
        BY <1>1, <1>4 DEF IInv, TableInv, Least, SlotsOf
  <2>2. QED
        BY <1>3, <1>4, <2>1
<1>5. ASSUME NEW s \in SlotIds,
             AnswerInvite(m.dst, s, NewEntry(CONNECT, m.src, m.local, m.pmtu, m.direct, {}),
                          m, rest)
      PROVE  NotedIds(owner)' /\ CarriedIds(owner)'
  <2>1. PICK e : e = NewEntry(CONNECT, m.src, m.local, m.pmtu, m.direct, {})
        OBVIOUS
  <2>2. e \in Entry /\ e.peer = m.src
        BY <1>1, <2>1 DEF Packet, NewEntry, Entry, Statuses
  <2>3. QED
        BY <1>3, <1>5, <2>1, <2>2
<1>6. CASE net' = rest /\ UNCHANGED conn
      BY <1>6, SilentNames
<1>7. QED
      BY <1>2, <1>4, <1>5, <1>6 DEF RecvInvite

\* recv_conn_msg: a CONNECT comes from the peer of the slot it names.
LEMMA ConnectNames ==
  ASSUME NEW owner, IInv, NotedIds(owner), CarriedIds(owner), Owned(owner), Owned(owner)',
         NEW m \in net, NEW again \in BOOLEAN, RecvConnect(m, again)
  PROVE  NotedIds(owner)' /\ CarriedIds(owner)'
<1>1. m.dst \in Nodes /\ m.src \in Nodes /\ m.local \in SlotIds
      BY DEF IInv, NetInv, Packet
<1>2. PICK n \in Nodes : n = m.dst
      BY <1>1
<1>3. PICK s \in SlotIds : s = m.remote
      BY DEF RecvConnect
<1>4. PICK rest \in SUBSET net : rest = Rest(m, again)
      BY DEF Rest
<1>5. CASE net' = rest /\ UNCHANGED <<conn, req>>
      BY <1>5, SilentNames
<1>6. ASSUME NEW e \in Entry, e = conn[n][s], e # NULL,
             SendFirst(n, s, Established([e EXCEPT !.ext = m.local]), READY, m.pmtu, rest)
      PROVE  NotedIds(owner)' /\ CarriedIds(owner)'
  <2>1. PICK g : g = Established([e EXCEPT !.ext = m.local])
        OBVIOUS
  <2>2. g \in Entry /\ g.peer = e.peer /\ g.ext = m.local
        BY <1>1, <2>1 DEF Established, Entry, Statuses
  <2>3. s # NoId
        BY ConstantsAssumption DEF SlotIds, NoId
  <2>4. owner[n][s] = m.src /\ e.peer = owner[n][s]
        BY <1>2, <1>3, <1>6, <2>3 DEF CarriedIds, Owned
  <2>5. owner[g.peer][g.ext] = n
        BY <1>2, <2>2, <2>4 DEF CarriedIds
  <2>6. SendFirst(n, s, g, READY, m.pmtu, rest)
        BY <1>6, <2>1
  <2>7. QED
        BY <2>2, <2>5, <2>6, SendFirstNames
<1>7. ASSUME NEW e \in Entry, e = conn[n][s], e # NULL,
             SendFirst(n, s, e, READY, m.pmtu, rest)
      PROVE  NotedIds(owner)' /\ CarriedIds(owner)'
  <2>1. e.ext # NoId => owner[e.peer][e.ext] = n
        BY <1>7 DEF NotedIds
  <2>2. QED
        BY <1>7, <2>1, SendFirstNames
<1>8. conn[n][s] # NULL => conn[n][s] \in Entry
      BY DEF IInv, TableInv
<1>9. QED
      BY <1>2, <1>3, <1>4, <1>5, <1>6, <1>7, <1>8 DEF RecvConnect

\* recv_conn_msg: a READY changes no id.
LEMMA ReadyNames ==
  ASSUME NEW owner, IInv, NotedIds(owner), CarriedIds(owner),
         NEW m \in net, NEW again \in BOOLEAN, RecvReady(m, again)
  PROVE  NotedIds(owner)' /\ CarriedIds(owner)'
<1>1. PICK n \in Nodes : n = m.dst
      BY DEF IInv, NetInv, Packet
<1>2. PICK s \in SlotIds : s = m.remote
      BY DEF RecvReady
<1>3. net' \subseteq net
      BY DEF RecvReady, Rest
<1>4. CASE UNCHANGED <<conn, req>>
      BY <1>3, <1>4, SilentNames
<1>5. ASSUME NEW e, e = conn[n][s], e # NULL, conn' = [conn EXCEPT ![n][s] = Established(e)]
      PROVE  NotedIds(owner)' /\ CarriedIds(owner)'
  <2>1. PICK f : f = Established(e)
        OBVIOUS
  <2>2. e \in Entry
        BY <1>5 DEF IInv, TableInv
  <2>3. f.ext = e.ext /\ f.peer = e.peer
        BY <2>1, <2>2 DEF Established, Entry
  <2>4. QED
        BY <1>3, <1>5, <2>1, <2>3, SameNames, SilentNames
<1>6. QED
      BY <1>1, <1>2, <1>4, <1>5 DEF RecvReady

\* pmtu_timeout_cb: a retry repeats the ids of the connection.
LEMMA TimeoutNames ==
  ASSUME NEW owner, IInv, NotedIds(owner), CarriedIds(owner), Owned(owner)',
         NEW n \in Nodes, NEW s \in SlotIds, pmtu_timeout_cb(n, s)
  PROVE  NotedIds(owner)' /\ CarriedIds(owner)'
<1>1. PICK e \in Entry : e = conn[n][s] /\ e # NULL
      BY DEF IInv, TableInv, pmtu_timeout_cb
<1>2. GoodEntry(n, e, req)
      BY <1>1 DEF IInv, TableInv
<1>3. CASE /\ conn' = [conn EXCEPT ![n][s].timer = FALSE]
           /\ UNCHANGED <<net, req>>
  <2>1. PICK f : f = [e EXCEPT !.timer = FALSE]
        OBVIOUS
  <2>2. f.ext = e.ext /\ f.peer = e.peer /\ conn' = [conn EXCEPT ![n][s] = f]
        BY <1>1, <1>3, <2>1 DEF Entry
  <2>3. QED
        BY <1>1, <1>3, <2>2, SameNames, SilentNames
<1>4. CASE GiveUp(n, s)
      BY <1>4, SameNames, SilentNames DEF GiveUp
<1>5. ASSUME NEW p, NEW t, e.status # READY,
             p = IF e.trials = MAX_TRIALS THEN pmtu_decrement(e.pmtu) ELSE e.pmtu,
             t = IF e.trials = MAX_TRIALS THEN 0 ELSE e.trials,
             Retry(n, s, e, p, t)
      PROVE  NotedIds(owner)' /\ CarriedIds(owner)'
  <2>1. e.pmtu \in PmtuSizes /\ e.trials \in Nat
        BY DEF Entry
  <2>2. p \in PmtuSizes \cup {P_ERROR}
        BY <1>5, <2>1, Decremented
  <2>3. t + 1 \in Nat
        BY <1>5, <2>1
  <2>4. PICK f0 : f0 = IF p = P_ERROR
                       THEN [e EXCEPT !.pmtu = DSLSLIM, !.internal = FALSE]
                       ELSE [e EXCEPT !.pmtu = p]
        OBVIOUS
  <2>5. f0 \in Entry /\ f0.peer = e.peer /\ f0.ext = e.ext
        BY <2>2, <2>4 DEF Entry, PmtuSizes
  <2>6. PICK g : g = [f0 EXCEPT !.trials = t + 1, !.timer = TRUE]
        OBVIOUS
  <2>7. g \in Entry /\ g.peer = e.peer /\ g.ext = e.ext
        BY <2>3, <2>5, <2>6 DEF Entry
  <2>8. PICK size : Send(n, s, g, e.status, size, net)
        BY <1>5, <2>4, <2>6 DEF Retry
  <2>9. g.ext # NoId => owner[g.peer][g.ext] = n
        BY <1>1, <2>7 DEF NotedIds
  <2>10. QED
         BY <2>7, <2>8, <2>9, SendNames
<1>6. QED
      BY <1>1, <1>3, <1>4, <1>5 DEF pmtu_timeout_cb

\* Every step of the handshake.
LEMMA NextNames ==
  ASSUME NEW owner, IInv, NotedIds(owner), CarriedIds(owner), Owned(owner), Owned(owner)',
         [Next]_vars
  PROVE  NotedIds(owner)' /\ CarriedIds(owner)'
<1>1. ASSUME UNCHANGED conn, net' \subseteq net PROVE NotedIds(owner)' /\ CarriedIds(owner)'
      BY <1>1, SilentNames
<1>2. CASE UNCHANGED vars
      BY <1>1, <1>2 DEF vars
<1>3. ASSUME NEW r \in Requests, mlOpenConnection(r)
      PROVE  NotedIds(owner)' /\ CarriedIds(owner)'
      BY <1>3, OpenNames
<1>4. ASSUME NEW m \in net, NEW again \in BOOLEAN,
             \/ RecvInvite(m, again) \/ RecvConnect(m, again)
             \/ RecvReady(m, again) \/ RecvData(m, again)
      PROVE  NotedIds(owner)' /\ CarriedIds(owner)'
  <2>1. CASE RecvData(m, again)
        BY <1>1, <2>1 DEF RecvData, Rest
  <2>2. QED
        BY <1>4, <2>1, InviteNames, ConnectNames, ReadyNames
<1>5. ASSUME NEW m \in net, Lose(m) PROVE NotedIds(owner)' /\ CarriedIds(owner)'
      BY <1>1, <1>5 DEF Lose
<1>6. ASSUME NEW n \in Nodes, NEW s \in SlotIds, pmtu_timeout_cb(n, s)
      PROVE  NotedIds(owner)' /\ CarriedIds(owner)'
      BY <1>6, TimeoutNames
<1>7. ASSUME NEW n \in Nodes, NEW s \in SlotIds, mlCloseConnection(n, s)
      PROVE  NotedIds(owner)' /\ CarriedIds(owner)'
      BY <1>7, SameNames, SilentNames DEF mlCloseConnection
<1>8. ASSUME NEW n \in Nodes, NEW s \in SlotIds, mlSendData(n, s)
      PROVE  NotedIds(owner)' /\ CarriedIds(owner)'
  <2>1. PICK e \in Entry : e = conn[n][s] /\ e # NULL
        BY <1>8 DEF mlSendData, IInv, TableInv
  <2>2. PICK size : Send(n, s, e, DATA, size, net)
        BY <1>8, <2>1 DEF mlSendData
  <2>3. e.ext # NoId => owner[e.peer][e.ext] = n
        BY <2>1 DEF NotedIds
  <2>4. QED
        BY <2>1, <2>2, <2>3, SendNames
<1>9. QED
      BY <1>2, <1>3, <1>4, <1>5, <1>6, <1>7, <1>8 DEF Next, Receive

\* In a behaviour in which every slot is used for one peer, packets carry the ids of slots
\* of their sender and their receiver.
LEMMA NamesHold ==
  ASSUME NEW owner
  PROVE  Spec /\ []Owned(owner) => [](IInv /\ Owned(owner) /\ CarriedIds(owner))
<1>1. Init => NotedIds(owner) /\ CarriedIds(owner)
      BY DEF Init, NotedIds, CarriedIds
<1>2. /\ IInv /\ NotedIds(owner) /\ CarriedIds(owner) /\ Owned(owner) /\ Owned(owner)'
      /\ [Next]_vars
      => NotedIds(owner)' /\ CarriedIds(owner)'
      BY NextNames
<1>3. QED
      BY <1>1, <1>2, Invariance, PTL DEF Spec

\* ml/ml.c:1033: data is attributed to the peer that sent it, whatever is lost, late or
\* repeated and whatever connections fail, as long as no slot is used for one peer after
\* another.
THEOREM DataFromPeers ==
  ASSUME NEW owner
  PROVE  Spec /\ []Owned(owner) => []DataFromPeer
<1>1. IInv /\ Owned(owner) /\ CarriedIds(owner) => DataFromPeer
  <2> SUFFICES ASSUME IInv, Owned(owner), CarriedIds(owner), NEW m \in net,
                      Exists(m.dst, m.remote)
               PROVE  conn[m.dst][m.remote].peer = m.src
      BY DEF DataFromPeer
  <2>1. m.remote \in SlotIds /\ m.remote # NoId /\ m.dst \in Nodes
        BY ConstantsAssumption DEF Exists, SlotIds, NoId, IInv, NetInv, Packet
  <2>2. QED
        BY <2>1 DEF Exists, CarriedIds, Owned
<1>2. QED
      BY <1>1, NamesHold, PTL

\* ml/ml.c:824, 860: so are the answers of the handshake.
THEOREM AnswersFromPeer ==
  ASSUME NEW owner
  PROVE  Spec /\ []Owned(owner) => []AnswerFromPeer
<1>1. IInv /\ Owned(owner) /\ CarriedIds(owner) => AnswerFromPeer
  <2> SUFFICES ASSUME IInv, Owned(owner), CarriedIds(owner), NEW m \in net,
                      Exists(m.dst, m.remote)
               PROVE  conn[m.dst][m.remote].peer = m.src
      BY DEF AnswerFromPeer
  <2>1. m.remote \in SlotIds /\ m.remote # NoId /\ m.dst \in Nodes
        BY ConstantsAssumption DEF Exists, SlotIds, NoId, IInv, NetInv, Packet
  <2>2. QED
        BY <2>1 DEF Exists, CarriedIds, Owned
<1>2. QED
      BY <1>1, NamesHold, PTL
=============================================================================
