-------------------------------- MODULE Node --------------------------------
(***************************************************************************)
(* The parts of a node that share no state: start-up (MLStart, extended    *)
(* here) and one instance of each of the other parts.  PartsSpec lets them *)
(* take their steps in any interleaving.  In a behaviour of NodeSpec one   *)
(* part takes steps and the others stay as they were initialised: as none  *)
(* reads or writes what another does, every behaviour of PartsSpec is one  *)
(* of these to each part, and this is what TLC checks.                     *)
(***************************************************************************)
EXTENDS MLStart, FiniteSets

CONSTANTS
  NULL, NAN,  \* no value
  PART,       \* a value between 0 and 1
  PeriodicHandles, MaxNesting,                                       \* Periodic
  KeptPeers, Intervals, MaxChains,                                   \* Keepalive
  Nodes, Users, Plugins, Paired, MsgTypes, MaxHandles, MaxEvents,    \* MonRemote
  SampleValues, WindowSizes, PublishingRate, MaxSamples,             \* ResultBuffer
  Modulus, WIN_SIZE, OVERFLOW_TH, LossTxEvery, Spread, First, SeqPackets, MaxRepeats, \* SeqWin
  RttTxEvery, Skews, Sharing, MaxTime, RttPackets, MaxMeasures,      \* Rtt
  Publishes, Queries, Huge, Delays, PUBLISH_BUFFER_SIZE, RepFaults,  \* RepClient
  Width, Lists, Replies                                              \* AltoClient

VARIABLES
  part,             \* the part that takes steps
  periodic, events, callbacks,                                  \* Periodic
  keepalive, chains, keepalive_seq,                             \* Keepalive
  monl, held, active, net, results, careless, monEvents,        \* MonRemote
  circular_buffer, size, pos, n_samples, samples, stats, new_data, period, history,
  window, zero,                                                 \* ResultBuffer
  sent, arrived, repeats, pnum, initial_sn, largest_sn, sn_win, win_valid, r, burst,
  every, outage, judged, verdicts,                              \* SeqWin
  now, skew, shared, near, far, toFar, toNear, ctrl, packets,   \* Rtt
  publish_delay, publish_buffer, in_transit, timer, evhttp_conn, open, calls, upcalls,
  confirmed, repFaults,                                         \* RepClient
  ALTO_DB_req, queryState, threadArgs, thread, count, rating, answered  \* AltoClient

Parts == {"start", "periodic", "keepalive", "monitoring", "results", "seqwin",
          "rtt", "repository", "alto"}

-----------------------------------------------------------------------------
P == INSTANCE Periodic WITH Handles <- PeriodicHandles
K == INSTANCE Keepalive
M == INSTANCE MonRemote WITH samples <- results, events <- monEvents
B == INSTANCE ResultBuffer WITH Samples <- SampleValues
S == INSTANCE SeqWin WITH TX_EVERY <- LossTxEvery, MaxPackets <- SeqPackets
T == INSTANCE Rtt WITH TX_EVERY <- RttTxEvery, MaxPackets <- RttPackets
R == INSTANCE RepClient WITH MaxFaults <- RepFaults, faults <- repFaults
A == INSTANCE AltoClient

ASSUME PartsAssumption ==
  /\ MLStartAssumption
  /\ P!PeriodicAssumption
  /\ K!KeepaliveAssumption
  /\ M!MonRemoteAssumption
  /\ B!ResultBufferAssumption
  /\ S!SeqWinAssumption
  /\ T!RttAssumption
  /\ R!CallsAssumption
  /\ A!AltoClientAssumption

-----------------------------------------------------------------------------
(* The behaviours.                                                          *)

periodicVars == <<periodic, events, callbacks>>
keepaliveVars == <<keepalive, chains, keepalive_seq>>
monitoringVars == <<monl, held, active, net, results, careless, monEvents>>
resultsVars == <<circular_buffer, size, pos, n_samples, samples, stats, new_data, period,
                 history, window, zero>>
seqwinVars == <<sent, arrived, repeats, pnum, initial_sn, largest_sn, sn_win, win_valid, r,
                burst, every, outage, judged, verdicts>>
rttVars == <<now, skew, shared, near, far, toFar, toNear, ctrl, packets>>
repositoryVars == <<publish_delay, publish_buffer, in_transit, timer, evhttp_conn, open,
                    calls, upcalls, confirmed, repFaults>>
altoVars == <<ALTO_DB_req, queryState, threadArgs, thread, count, rating, answered>>

NodeVars == <<part, vars, periodicVars, keepaliveVars, monitoringVars, resultsVars,
              seqwinVars, rttVars, repositoryVars, altoVars>>

\* Only a part that takes steps starts in each of its initial states.
NodeInit ==
  /\ part \in Parts
  /\ Init /\ (part # "start" => nat = NoAddress)
  /\ P!Init
  /\ K!Init
  /\ M!Init
  /\ B!Init /\ (part # "results" => size = 1 /\ ~zero)
  /\ S!Init
  /\ T!Init
  /\ R!Init /\ (part # "repository" => publish_delay = 0)
  /\ A!Init

\* Part p takes the step A, and no other part does.
Takes(p, Action) ==
  /\ part = p
  /\ Action
  /\ UNCHANGED part
  /\ (p # "start" => UNCHANGED vars)
  /\ (p # "periodic" => UNCHANGED periodicVars)
  /\ (p # "keepalive" => UNCHANGED keepaliveVars)
  /\ (p # "monitoring" => UNCHANGED monitoringVars)
  /\ (p # "results" => UNCHANGED resultsVars)
  /\ (p # "seqwin" => UNCHANGED seqwinVars)
  /\ (p # "rtt" => UNCHANGED rttVars)
  /\ (p # "repository" => UNCHANGED repositoryVars)
  /\ (p # "alto" => UNCHANGED altoVars)

NodeNext ==
  \/ Takes("start", \E internal \in Internals, stun \in BOOLEAN : mlInit(internal, stun))
  \/ Takes("start", nat_traversal_timeout)
  \/ \E m \in stunWire :
       \/ Takes("start", recv_stun_msg(m))
       \/ Takes("start", Served(m))
       \/ Takes("start", Lose(m))
  \/ Takes("start", mlGetLocalSocketID)
  \/ Takes("start", \E defined \in BOOLEAN : mlSetStunServer(defined))
  \/ Takes("start", \E mapping \in Mappings : Rebind(mapping))
  \/ \E h \in PeriodicHandles :
       \/ \E frequency \in {"live", "stopped"} :
            Takes("periodic", P!napaSchedulePeriodic(h, frequency))
       \/ Takes("periodic", P!napaStopPeriodic(h))
       \/ Takes("periodic", P!schedule_periodic_callback(h))
  \/ Takes("periodic", P!Return)
  \/ \E p \in KeptPeers :
       \/ \E interval \in Intervals : Takes("keepalive", K!mlOpenConnection(p, interval))
       \/ Takes("keepalive", K!recv_conn_msg(p))
       \/ Takes("keepalive", K!mlCloseConnection(p))
       \/ \E ready \in BOOLEAN : Takes("keepalive", K!keepalive_fn(p, ready))
  \/ \E n \in Nodes :
       \/ \E mid \in Plugins : Takes("monitoring", M!monCreateMeasure(n, mid))
       \/ \E h \in M!Handles :
            \/ \E p \in Nodes \ {n}, t \in MsgTypes :
                 Takes("monitoring", M!monActivateMeasure(n, h, p, t))
            \/ Takes("monitoring", M!monDeactivateMeasure(n, h))
            \/ Takes("monitoring", M!monDestroyMeasureCall(n, h))
       \/ \E p \in Nodes \ {n}, t \in MsgTypes : Takes("monitoring", M!Packet(n, p, t))
  \/ \E m \in DOMAIN net : Takes("monitoring", M!receiveCtrlMsg(m))
  \/ \E x \in SampleValues, ready \in BOOLEAN : Takes("results", B!newSample(x, ready))
  \/ \E ready \in BOOLEAN : Takes("results", B!publishResults(ready))
  \/ \E s \in WindowSizes : Takes("results", B!resizeBuffer(s))
  \/ \E z \in BOOLEAN : Takes("results", B!init(z))
  \/ Takes("seqwin", S!SendPacket)
  \/ \E p \in 0 .. sent - 1 : Takes("seqwin", S!RxPkt(p))
  \/ Takes("rtt", T!Tick)
  \/ Takes("rtt", T!activateMeasure)
  \/ Takes("rtt", T!monDestroyMeasure)
  \/ \E c \in ctrl : Takes("rtt", T!receiveCtrlMsg(c))
  \/ Takes("rtt", T!cbTxPktNear)
  \/ Takes("rtt", T!cbTxPktFar)
  \/ \E p \in toFar : Takes("rtt", T!cbRxPktFar(p))
  \/ \E p \in toNear : Takes("rtt", T!cbRxPktNear(p))
  \/ \E c \in Publishes : Takes("repository", R!repPublish(c))
  \/ \E c \in Queries : Takes("repository", R!query(c))
  \/ Takes("repository", R!deferred_publish_cb)
  \/ Takes("repository", R!Answer)
  \/ Takes("repository", R!callback_gone)
  \/ Takes("repository", R!repClose)
  \/ Takes("alto", A!start_ALTO_client)
  \/ Takes("alto", A!stop_ALTO_client)
  \/ \E l \in DOMAIN Lists :
       \/ Takes("alto", A!ALTO_query_exec(l))
       \/ \E reply \in A!Outcomes : Takes("alto", A!get_ALTO_guidance_for_list(l, reply))
  \/ \E reply \in A!Outcomes : Takes("alto", A!do_ALTO_update(reply))
  \/ Takes("alto", A!WriteBack)
  \/ Takes("alto", A!SignalReady)

\* The fairness of each part.  That of the repository client (RepClient!Fairness),
\* whose timer is armed from the start, is asked for where the client takes steps.
NodeFairness ==
  /\ Fairness
  /\ M!Fairness
  /\ A!Fairness
  /\ WF_repositoryVars(part = "repository" /\ R!deferred_publish_cb)
  /\ WF_repositoryVars(part = "repository" /\ R!Answer)

NodeSpec == NodeInit /\ [][NodeNext]_NodeVars

\* The parts side by side: each takes its own steps, whatever the others do.
PartsSpec ==
  Spec /\ P!Spec /\ K!Spec /\ M!Spec /\ B!Spec /\ S!Spec /\ T!Spec /\ R!Spec /\ A!Spec

LiveNodeSpec == NodeSpec /\ NodeFairness

-----------------------------------------------------------------------------
(* The properties of the parts, which their modules explain.                *)

\* Each part has its types when it takes steps; otherwise it is as initialised.
NodeTypeOK ==
  /\ part \in Parts
  /\ part = "start" => TypeOK
  /\ part = "periodic" => P!TypeOK
  /\ part = "keepalive" => K!TypeOK
  /\ part = "monitoring" => M!TypeOK
  /\ part = "results" => B!TypeOK
  /\ part = "seqwin" => S!TypeOK
  /\ part = "rtt" => T!TypeOK
  /\ part = "repository" => R!TypeOK
  /\ part = "alto" => A!TypeOK

\* common/common.c: one event for each struct, none for a freed one.
OneEvent == P!OneEvent

\* ml/ml.c: a connection with a positive interval has a timer.
KeptAlive == K!KeptAlive

\* monl/measure_dispatcher.cpp: the lists and the running measures agree.
RunningIsListed == M!RunningIsListed

\* monl/measure_dispatcher.cpp: a counterpart reports to its measure or to none.
CounterpartsAgree == M!CounterpartsAgree

\* monl/measure_dispatcher.cpp: no late result of an earlier stream is kept.
SamplesOfStream == M!SamplesOfStream

\* monl/measure_dispatcher.cpp: the counterpart of a careful user's measure stops.
CounterpartStops == M!CounterpartStops

\* include/mon.h:463: a measure can be used again until it is destroyed.
Reusable == M!Reusable

\* monl/result_buffer.cpp: the recursive statistics and those of the window are the
\* statistics of the samples.
Stats == B!StatsOfSamples /\ B!StatsOfWindow

\* monl/plugins: a packet is counted as lost exactly when it did not arrive, and a
\* round trip time is how long two packets were under way.
Measured == S!LossIsLoss /\ T!RttIsRoundTrip

\* rep/repoclient.c: the callback of a call runs once.
AnsweredOnce == R!AnsweredOnce

\* rep/repoclient.c: what is reported as published was confirmed, while batches
\* do not overlap.
SuccessMeansConfirmedInTime == R!SuccessMeansConfirmedInTime

\* ALTOclient/ALTOclient.c: READY means rated by the reply to the last query.
Rated == A!Rated

\* What was asked for comes to an end: the calls of the repository client are
\* answered, an ALTO query is over, the socket ID gets ready.
CallsEnd ==
  /\ BecomesReady
  /\ R!EveryCallAnswered
  /\ A!QueryEnds
=============================================================================
