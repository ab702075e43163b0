------------------------------ MODULE MonRemote ------------------------------
(***************************************************************************)
(* Measures and their remote counterparts (monl/measure_dispatcher.cpp,    *)
(* monl/measure_manager.h).                                                *)
(*                                                                         *)
(* A measure is created, put on the execution lists of a stream (a peer    *)
(* and a message type) and taken off again.  One that needs the other end  *)
(* has an instance created there by an INITREMOTEMEASURE message, which    *)
(* sends back what it measures until a DEINITREMOTEMEASURE message.        *)
(*                                                                         *)
(* Measures are in band and have flags.  A result is its origin: the       *)
(* stream and the plugin it was measured with.  Messages arrive in any     *)
(* order, once; one that is lost, or that sendCtrlMsg fails to send, is    *)
(* one that stays in transit.  Undefined behaviour (a null table, erasing  *)
(* end(), a freed measure) ends the process, which is not started again.   *)
(***************************************************************************)
EXTENDS Naturals, Bags

CONSTANTS
  Nodes,
  Users,        \* the nodes whose application creates measures
  Plugins,      \* the plugins, by measurement id
  Paired,       \* those with TXREM or RXREM among their capabilities
  MsgTypes,
  MaxHandles,   \* bound on the measures created by a node, no handle wraps
  MaxEvents     \* bound on each kind of event, see EventKinds

\* "activate": a call of monActivateMeasure.  "other": a packet that measures look
\* at, or a counterpart that cannot be created or given its parameters.
EventKinds == {"activate", "other"}

MonRemoteAssumption ==
  /\ Users \subseteq Nodes
  /\ Paired \subseteq Plugins
  /\ MsgTypes # {}
  /\ MaxHandles \in Nat
  /\ MaxEvents \in [EventKinds -> Nat]

VARIABLES
  monl,       \* monl[n]: the measures and lists of node n
  held,       \* held[n]: the handles its user created and has not destroyed
  active,     \* active[n]: those its user has activated
  net,        \* the control messages in transit
  samples,    \* history: the results kept by measures, see Sample
  careless,   \* history: a user's call met an unfinished exchange (Careless), or a node
              \* took a user's measure for a counterpart (Misnames)
  events

vars == <<monl, held, active, net, samples, careless, events>>

Handles == 0 .. MaxHandles - 1
NoHandle == MaxHandles
NoMeasure == [status |-> "NULL"]
Statuses == {"STOPPED", "RUNNING", "RFAILED", "INITIALISING", "STOPPING"}

\* dst and msg_type of a measure that was never activated do not matter.
Measure == [mid : Plugins, remote : BOOLEAN, status : Statuses, dst : Nodes,
            msg_type : MsgTypes, mh_remote : Handles \cup {NoHandle}]

\* The place of a measure in dispatcherList: its mids_ and its el_ lists.
Key == [dst : Nodes, msg_type : MsgTypes, mid : Plugins, remote : BOOLEAN]
Origin == [dst : Nodes, msg_type : MsgTypes, mid : Plugins]

Message ==
  [type : {"INIT"}, src : Nodes, dst : Nodes, mid : Plugins, msg_type : MsgTypes,
   mh_local : Handles]
  \cup [type : {"DEINIT"}, src : Nodes, dst : Nodes, mh_local : Handles,
        mh_remote : Handles \cup {NoHandle}]
  \cup [type : {"RESPONSE"}, src : Nodes, dst : Nodes, command : {"INIT", "DEINIT"},
        mh_remote : Handles, mh_local : Handles \cup {NoHandle}, ok : BOOLEAN]
  \cup [type : {"RESULTS"}, src : Nodes, dst : Nodes, msg_type : MsgTypes,
        results : SUBSET [mh : Handles, mid : Plugins]]

\* A counterpart reported it, or the node saw the packet itself.
Sample == [node : Nodes, mh : Handles, reported : BOOLEAN, wanted : Origin, origin : Origin]

TypeOK ==
  /\ \A n \in Nodes :
       /\ monl[n].up \in BOOLEAN
       /\ monl[n].measures \in [Handles -> Measure \cup {NoMeasure}]
       /\ monl[n].lists \in [Key -> Handles \cup {NoHandle}]
       /\ monl[n].next \in Handles \cup {NoHandle}
  /\ held \in [Nodes -> SUBSET Handles] /\ active \in [Nodes -> SUBSET Handles]
  /\ BagToSet(net) \subseteq Message
  /\ samples \subseteq Sample
  /\ careless \in BOOLEAN
  /\ events \in [EventKinds -> Nat]

Init ==
  /\ monl = [n \in Nodes |-> [up |-> TRUE, measures |-> [h \in Handles |-> NoMeasure],
                              lists |-> [k \in Key |-> NoHandle], next |-> 0]]
  /\ held = [n \in Nodes |-> {}] /\ active = [n \in Nodes |-> {}]
  /\ net = EmptyBag /\ samples = {} /\ careless = FALSE
  /\ events = [k \in EventKinds |-> 0]

\* The messages in read are taken from the net, those in msgs are sent, and one
\* event of each kind in K happens.
Send(read, msgs, K) ==
  /\ net' = (net (-) SetToBag(read)) (+) SetToBag(msgs)
  /\ \A k \in K : events[k] < MaxEvents[k]
  /\ events' = [k \in EventKinds |-> IF k \in K THEN events[k] + 1 ELSE events[k]]

-----------------------------------------------------------------------------
(* What a node does to its own measures; s is the state of the node.        *)

KeyOf(m) == [dst |-> m.dst, msg_type |-> m.msg_type, mid |-> m.mid, remote |-> m.remote]
OriginOf(m) == [dst |-> m.dst, msg_type |-> m.msg_type, mid |-> m.mid]
IsPaired(m) == ~m.remote /\ m.mid \in Paired
IsValid(s, h) == h # NoHandle /\ s.measures[h] # NoMeasure
Listed(s, h) == s.lists[KeyOf(s.measures[h])] # NoHandle

\* The process ends: nothing of it is left.
Crashed(s) == [s EXCEPT !.up = FALSE, !.measures = [h \in Handles |-> NoMeasure],
                        !.lists = [k \in Key |-> NoHandle]]

\* createMeasure and insertNewInstance: the new handle is s.next.  dst and msg_type
\* are not set.
Created(s, mid, remote, mh) ==
  [s EXCEPT !.measures[s.next] =
              [mid |-> mid, remote |-> remote, status |-> "STOPPED", mh_remote |-> mh,
               dst |-> CHOOSE p \in Nodes : TRUE, msg_type |-> CHOOSE t \in MsgTypes : TRUE],
            !.next = @ + 1]

\* The tables are looked up by key: what is erased may be another measure, and
\* it is fatal that nothing is there.
stopMeasure(s, h) ==
  LET m == s.measures[h] IN
  IF Listed(s, h)
  THEN [s EXCEPT !.measures[h].status = IF IsPaired(m) THEN "STOPPING" ELSE "STOPPED",
                 !.lists[KeyOf(m)] = NoHandle]
  ELSE Crashed(s)

\* deactivateMeasure gets as far as stopMeasure.
Stops(s, h) == s.measures[h].status # "STOPPED" /\ Listed(s, h)
deactivateMeasure(s, h) == IF Stops(s, h) THEN stopMeasure(s, h) ELSE s

\* Mutation of monDestroyMeasure: the handle is given out again.
monDestroyMeasureReuses(s, h) ==
  [deactivateMeasure(s, h) EXCEPT !.measures[h] = NoMeasure, !.next = h]

monDestroyMeasure(s, h) == [deactivateMeasure(s, h) EXCEPT !.measures[h] = NoMeasure]

\* Mutation of Deinit: the wrong handle names the counterpart.
DeinitSwapped(n, s, h) ==
  LET m == s.measures[h] IN
  {[type |-> "DEINIT", src |-> n, dst |-> m.dst, mh_local |-> h, mh_remote |-> h] :
     x \in {x \in {m} : IsPaired(x)}}

\* deinitRemoteMeasureTx
Deinit(n, s, h) ==
  LET m == s.measures[h] IN
  {[type |-> "DEINIT", src |-> n, dst |-> m.dst, mh_local |-> h, mh_remote |-> m.mh_remote] :
     x \in {x \in {m} : IsPaired(x)}}

\* initRemoteMeasureTx
InitRemote(n, s, h) ==
  LET m == s.measures[h] IN
  {[type |-> "INIT", src |-> n, dst |-> m.dst, mid |-> m.mid, msg_type |-> m.msg_type,
    mh_local |-> h] : x \in {x \in {m} : IsPaired(x)}}

\* remoteMeasureResponseTx
Response(n, q, command, mh_remote, mh_local, ok) ==
  [type |-> "RESPONSE", src |-> n, dst |-> q, command |-> command,
   mh_remote |-> mh_remote, mh_local |-> mh_local, ok |-> ok]

Occupied(s, k) == s.lists[k] # NoHandle

\* activateMeasure, up to the messages.
Aimed(s, h, p, t) == [s EXCEPT !.measures[h].dst = p, !.measures[h].msg_type = t]

Loaded(s, h) ==
  LET m == s.measures[h] IN
  [s EXCEPT !.measures[h].status = IF IsPaired(m) THEN "INITIALISING" ELSE "RUNNING",
            !.lists[KeyOf(m)] = h]

Become(n, s) == monl' = [monl EXCEPT ![n] = s]

-----------------------------------------------------------------------------
(* The user's calls.                                                        *)

\* A call about measure h in state s is careless if another measure of its plugin
\* is listed for its stream, or an exchange about that stream is under way.
Careless(s, h) ==
  \/ s.lists[KeyOf(s.measures[h])] \notin {h, NoHandle}
  \/ \E g \in Handles : /\ IsValid(s, g) /\ IsPaired(s.measures[g])
                        /\ OriginOf(s.measures[g]) = OriginOf(s.measures[h])
                        /\ s.measures[g].status \in {"INITIALISING", "STOPPING"}

monCreateMeasure(n, mid) ==
  /\ n \in Users /\ monl[n].up /\ monl[n].next # NoHandle
  /\ Become(n, Created(monl[n], mid, FALSE, NoHandle))
  /\ held' = [held EXCEPT ![n] = @ \cup {monl[n].next}]
  /\ UNCHANGED <<active, net, samples, careless, events>>

\* The place being taken, dst and msg_type are overwritten all the same.
ActivateRejected(n, h, a) ==
  /\ Occupied(a, KeyOf(a.measures[h]))
  /\ Become(n, a)
  /\ careless' = TRUE
  /\ Send({}, {}, {"activate"})
  /\ UNCHANGED active

\* initRemoteMeasureTx may fail, and stopMeasure then sends a DEINITREMOTEMEASURE.
ActivateAccepted(n, h, a) ==
  LET l == Loaded(a, h) IN
  /\ ~Occupied(a, KeyOf(a.measures[h]))
  /\ \/ /\ Become(n, l)
        /\ Send({}, InitRemote(n, l, h), {"activate"})
        /\ active' = [active EXCEPT ![n] = @ \cup {h}]
     \/ /\ IsPaired(l.measures[h])
        /\ Become(n, stopMeasure(l, h))
        /\ Send({}, Deinit(n, l, h), {"activate"})
        /\ UNCHANGED active
  /\ careless' = (careless \/ Careless(a, h))

\* A user activates a measure that is not active.
monActivateMeasure(n, h, p, t) ==
  LET a == Aimed(monl[n], h, p, t) IN
  /\ monl[n].up /\ h \in held[n] \ active[n] /\ IsValid(monl[n], h)
  /\ ActivateRejected(n, h, a) \/ ActivateAccepted(n, h, a)
  /\ UNCHANGED <<held, samples>>

\* A handle that is no longer valid is refused.
monDeactivateMeasure(n, h) ==
  LET s == monl[n] IN
  /\ s.up /\ h \in active[n]
  /\ active' = [active EXCEPT ![n] = @ \ {h}]
  /\ IF IsValid(s, h)
     THEN /\ Become(n, deactivateMeasure(s, h))
          /\ Send({}, IF Stops(s, h) THEN Deinit(n, s, h) ELSE {}, {})
          /\ careless' = (careless \/ Careless(s, h))
     ELSE UNCHANGED <<monl, net, events, careless>>
  /\ UNCHANGED <<held, samples>>

monDestroyMeasureCall(n, h) ==
  LET s == monl[n] IN
  /\ s.up /\ h \in held[n]
  /\ held' = [held EXCEPT ![n] = @ \ {h}]
  /\ active' = [active EXCEPT ![n] = @ \ {h}]
  /\ IF IsValid(s, h)
     THEN /\ Become(n, monDestroyMeasure(s, h))
          /\ Send({}, IF Stops(s, h) THEN Deinit(n, s, h) ELSE {}, {})
          /\ careless' = (careless \/ Careless(s, h))
     ELSE UNCHANGED <<monl, net, events, careless>>
  /\ UNCHANGED samples

-----------------------------------------------------------------------------
(* receiveCtrlMsg: a message m arrives at m.dst.                            *)

\* Mutation of Displaced: the previous counterpart stays.
DisplacedStays(s, prev) == s

Displaced(s, prev) == IF prev = NoHandle THEN s ELSE monDestroyMeasure(s, prev)

\* A previous counterpart on the stream is destroyed first.
initRemoteMeasureRx(m) ==
  LET n == m.dst
      key == [dst |-> m.src, msg_type |-> m.msg_type, mid |-> m.mid, remote |-> TRUE]
      s == Displaced(monl[n], monl[n].lists[key])
      c == Created(s, m.mid, TRUE, m.mh_local)
      Answer(mh, ok) == {Response(n, m.src, "INIT", m.mh_local, mh, ok)}
  IN
  /\ m.type = "INIT"
  /\ s.next # NoHandle
  /\ \/ /\ Become(n, Loaded(Aimed(c, s.next, m.src, m.msg_type), s.next))
        /\ Send({m}, Answer(s.next, TRUE), {})
     \/ /\ Become(n, s)
        /\ Send({m}, Answer(NoHandle, FALSE), {"other"})
     \/ /\ Become(n, c)
        /\ Send({m}, Answer(s.next, FALSE), {"other"})
  /\ UNCHANGED samples

\* A handle may also be one of the user's measures, which tells its own counterpart.
\* stopMeasure returns no value: what deactivateMeasure passes on is arbitrary.
deinitRemoteMeasureRx(m) ==
  LET n == m.dst
      s == monl[n]
      h == m.mh_remote
      Answer(ok) == {Response(n, m.src, "DEINIT", m.mh_local, h, ok)}
                    \cup (IF Stops(s, h) THEN Deinit(n, s, h) ELSE {})
  IN
  /\ m.type = "DEINIT"
  /\ \/ /\ ~IsValid(s, h)
        /\ Become(n, s)
        /\ Send({m}, {}, {})
     \/ /\ IsValid(s, h)
        /\ s.measures[h].status = "STOPPED" \/ Stops(s, h)
        /\ Become(n, monDestroyMeasure(s, h))
        /\ Send({m}, Answer(TRUE), {})
     \/ /\ IsValid(s, h)
        /\ s.measures[h].status # "STOPPED"
        /\ Become(n, deactivateMeasure(s, h))
        /\ Send({m}, Answer(FALSE), {})
  /\ UNCHANGED samples

InitAnswered(s, m) ==
  [s EXCEPT !.measures[m.mh_remote].mh_remote = m.mh_local,
            !.measures[m.mh_remote].status = IF m.ok THEN "RUNNING" ELSE "RFAILED"]

\* A measure that is STOPPING is stopped once more, and destroyed.
DeinitAnswered(s, m) ==
  LET h == m.mh_remote IN
  IF m.ok /\ s.measures[h].status = "STOPPING"
  THEN IF Listed(s, h) THEN monDestroyMeasure(stopMeasure(s, h), h) ELSE Crashed(s)
  ELSE [s EXCEPT !.measures[h].status = IF m.ok THEN "STOPPED" ELSE "RFAILED"]

remoteMeasureResponseRx(m) ==
  LET n == m.dst
      s == monl[n]
      h == m.mh_remote
  IN
  /\ m.type = "RESPONSE"
  /\ \/ /\ ~IsValid(s, h)
        /\ Become(n, s)
        /\ Send({m}, {}, {})
     \/ /\ IsValid(s, h) /\ m.command = "INIT"
        /\ Become(n, InitAnswered(s, m))
        /\ Send({m}, {}, {})
     \/ /\ IsValid(s, h) /\ m.command = "DEINIT"
        /\ Become(n, DeinitAnswered(s, m))
        /\ Send({m}, IF m.ok /\ s.measures[h].status = "STOPPING" /\ Listed(s, h)
                      THEN Deinit(n, s, h) ELSE {}, {})
  /\ UNCHANGED samples

\* Mutation of Accepts: the sender is not compared.
AcceptsAnySender(s, h, m) ==
  /\ IsValid(s, h) /\ s.measures[h].status = "RUNNING"
  /\ s.measures[h].msg_type = m.msg_type

Accepts(s, h, m) ==
  /\ IsValid(s, h) /\ s.measures[h].status = "RUNNING"
  /\ s.measures[h].msg_type = m.msg_type
  /\ s.measures[h].dst = m.src

remoteResultsRx(m) ==
  LET n == m.dst
      s == monl[n]
  IN
  /\ m.type = "RESULTS"
  /\ samples' = samples \cup
       {[node |-> n, mh |-> r.mh, reported |-> TRUE, wanted |-> OriginOf(s.measures[r.mh]),
         origin |-> [dst |-> m.src, msg_type |-> m.msg_type, mid |-> r.mid]] :
          r \in {r \in m.results : Accepts(s, r.mh, m)}}
  /\ Send({m}, {}, {})
  /\ UNCHANGED monl

\* m ends a measure of the receiver's own user: the handle of a counterpart was learnt
\* from another node than the one that m is sent to.
Misnames(m) ==
  /\ m.type = "DEINIT"
  /\ IsValid(monl[m.dst], m.mh_remote) /\ ~monl[m.dst].measures[m.mh_remote].remote

receiveCtrlMsg(m) ==
  /\ BagIn(m, net)
  /\ monl[m.dst].up
  /\ \/ initRemoteMeasureRx(m)
     \/ deinitRemoteMeasureRx(m)
     \/ remoteMeasureResponseRx(m)
     \/ remoteResultsRx(m)
  /\ careless' = (careless \/ Misnames(m))
  /\ UNCHANGED <<held, active>>

-----------------------------------------------------------------------------
\* cbRxPkt, cbTxPkt, cbRxData, cbTxData: a packet of type t from or to p, for which
\* every plugin has a result.  The lists are walked through their pointers.
Packet(n, p, t) ==
  LET s == monl[n]
      On(remote) == {s.lists[k] : k \in {k \in Key : k.dst = p /\ k.msg_type = t
                                             /\ k.remote = remote}} \ {NoHandle}
      Runs(remote) == {h \in On(remote) : s.measures[h].status = "RUNNING"}
      results == {[mh |-> s.measures[h].mh_remote, mid |-> s.measures[h].mid] :
                    h \in Runs(TRUE)}
  IN
  /\ s.up /\ On(TRUE) \cup On(FALSE) # {}
  /\ IF \E h \in On(TRUE) \cup On(FALSE) : s.measures[h] = NoMeasure
     THEN /\ Become(n, Crashed(s))
          /\ Send({}, {}, {"other"})
          /\ UNCHANGED samples
     ELSE /\ samples' = samples \cup
               {[node |-> n, mh |-> h, reported |-> FALSE, wanted |-> OriginOf(s.measures[h]),
                 origin |-> [dst |-> p, msg_type |-> t, mid |-> s.measures[h].mid]] :
                  h \in Runs(FALSE)}
          /\ Send({}, {[type |-> "RESULTS", src |-> n, dst |-> p, msg_type |-> t,
                        results |-> results] : x \in {x \in {t} : results # {}}}, {"other"})
          /\ UNCHANGED monl
  /\ UNCHANGED <<held, active, careless>>

Next ==
  \/ \E n \in Nodes, mid \in Plugins : monCreateMeasure(n, mid)
  \/ \E n \in Nodes, h \in Handles :
       \/ \E p \in Nodes \ {n}, t \in MsgTypes : monActivateMeasure(n, h, p, t)
       \/ monDeactivateMeasure(n, h)
       \/ monDestroyMeasureCall(n, h)
  \/ \E m \in BagToSet(net) : receiveCtrlMsg(m)
  \/ \E n \in Nodes, t \in MsgTypes : \E p \in Nodes \ {n} : Packet(n, p, t)

Spec == Init /\ [][Next]_vars

\* The messaging layer goes on delivering what is in transit.
Fairness == WF_vars(\E m \in BagToSet(net) : receiveCtrlMsg(m))

-----------------------------------------------------------------------------
\* The lists and the measures agree for measures without a counterpart, be they a
\* user's or created for another node: such a measure runs if and only if it is
\* the one listed for its stream.  So at most one runs per stream and plugin,
\* nothing is measured through a pointer to a destroyed one, and none is left
\* running that no list reaches.
RunningIsListed ==
  \A n \in Nodes, k \in Key : k.remote \/ k.mid \notin Paired =>
    \A h \in Handles :
      LET m == monl[n].measures[h] IN
      (monl[n].lists[k] = h) = (m # NoMeasure /\ m.status = "RUNNING" /\ KeyOf(m) = k)

\* Whatever set-ups, refusals and answers crossed on the way, a counterpart reports
\* to the measure it was created for, or to none: a measure of its user's, made by
\* the same plugin.
CounterpartsAgree ==
  \A q \in Nodes, r \in Handles :
    LET c == monl[q].measures[r] IN
    c # NoMeasure /\ c.remote /\ c.status = "RUNNING" =>
      LET m == monl[c.dst].measures[c.mh_remote] IN
      m # NoMeasure => ~m.remote /\ m.mid = c.mid

\* A measure that is used again on another stream keeps no late result of the old
\* one: what a counterpart reports was measured on the stream, and by the plugin, the
\* measure is then active for.  So is what the node measures itself, with one
\* exception: the answer to the end of an exchange may stop a measure that its user
\* has meanwhile activated again, or that its node took for a counterpart, which then
\* stays on its list for ever.
SamplesOfStream ==
  \A x \in samples :
    x.origin # x.wanted => careless /\ ~x.reported /\ x.wanted.mid \in Paired

\* Counterpart r of node q measures for nobody: both ends are up, and the measure it
\* was created for is not active on its stream.
Orphan(q, r) ==
  LET c == monl[q].measures[r]
      m == monl[c.dst].measures[c.mh_remote]
  IN
  /\ c # NoMeasure /\ c.remote /\ c.status = "RUNNING" /\ monl[c.dst].up
  /\ ~ /\ c.mh_remote \in active[c.dst]
       /\ m # NoMeasure /\ m.dst = q /\ m.msg_type = c.msg_type

\* When careful users make no more calls, and messages are delivered, no counterpart
\* is left that measures for nobody.  (What was careless once stays so.)
CounterpartStops ==
  []<>(careless \/ \A q \in Nodes, r \in Handles : ~Orphan(q, r))

\* A deactivated measure can be activated again (include/mon.h:463): a measure lasts
\* until its user destroys it.
Reusable == \A n \in Nodes : \A h \in held[n] : monl[n].up /\ IsValid(monl[n], h)
=============================================================================
