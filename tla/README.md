# NAPA baselibs in TLA+

A verification project for the NAPA baselibs: the libraries below a
peer-to-peer streaming application. The core of the libraries is the
*messaging layer* (`ml/`), which opens connections between peers behind NATs,
cuts messages into UDP packets, reassembles them and repairs losses. This
directory holds TLA+ modules of that code, configurations that check them with
TLC on small instances, and proofs that TLAPS checks for every value of the
constants.

    tlc -workers 2 -config MLConnOpen.cfg MCMLConn      # one run
    tlapm MLConn_proofs.tla                             # the proofs of a module

`PROJECT.json` lists the runs, the lines of source every definition models, a
mutation of the code that breaks each property, the hazards and the findings.

## The system

All libraries of a process share one libevent loop (`eventbase`). A socket
becoming readable, a timer or an HTTP answer calls a handler; handlers run one
at a time, to the end. That is why **one handler is one atomic action** in all
modules, and why the hard part is not the interleaving of instructions but the
order in which handlers run: packets late, lost or repeated, timers that fire
before or after an answer, calls of the application in between, and tables
whose slots are reused while something still refers to them by number.

| Component | State | Operations | Talks to | What makes it correct | Module |
|---|---|---|---|---|---|
| Connection handshake, `ml/ml.c` | `connectbuf`: per connection its status, the peer, the peer's connection id, path MTU estimate, trials, timer, list of callbacks | `mlOpenConnection`, `mlCloseConnection`, `recv_conn_msg` (INVITE, CONNECT, READY), `pmtu_timeout_cb` | the peer, by UDP; the application, by callbacks | one entry per peer; every open answered once; both ends agree on ids; packets attributed to the right peer | `MLConn`, abstractly `ConnService` |
| Data transfer, `ml/ml.c`, `ml/util/queueManagement.c` | `recvdatabuf`: per message under reassembly its buffer, byte count, gaps, timers; the sender's RTX queue | `send_msg`, `recv_data_msg`, `recv_nack_msg`, `pkt_recv_timeout_cb`, `last_pkt_recv_timeout_cb`, `recv_timeout_cb` | the handshake (connection ids), the transmission path, the application | a message delivered once and whole, no write outside its buffer, losses repaired, slots reclaimed | `MLData` |
| Transmission path, `ml/util/rateLimiter.c`, `ml/util/queueManagement.c` | leaky bucket, TX queue, RTX queue, drain timer | `queueOrSendPacket`, `freeSpaceInBucket_cb`, `setOutputRateParams`, `addPacketRTXqueue` | `send_msg` above, the socket below | the rate is respected, order kept, the queue always drained | `TxPath` |
| Start-up and NAT discovery, `ml/ml.c` | own socket ID, STUN server, `NAT_traversal`, retry timer | `mlInit`, `try_stun`, `nat_traversal_timeout`, `recv_stun_msg`, `mlSetStunServer`, `mlGetLocalSocketID` | STUN server, the application's callback | one chain of retries until the address is known, which then stays; the ID handed out is the one peers see | `MLStart` over `SocketId` and `Stun` |
| Socket IDs, `ml/ml.c`, `ml/util/udpSocket.c` | none | text form and back, comparison, hash, byte order in messages | applications exchange them as text, peers in connection messages | two forms of one node compare equal | `SocketId` |
| STUN codec, `ml/util/stun.c` | none | build, encode, parse | start-up | what is encoded is parsed back | `Stun` |
| Keep-alives, `ml/ml.c` | a timer chain per connection, found by the peer's address | `setupKeepalive`, `keepalive_fn`, open, re-open, INVITE, close | connection table | a connection with an interval has a timer | `Keepalive` |
| Repository client, `rep/` | publish buffer, records in transit, publishing timer, HTTP connection | `repPublish`, `deferred_publish_cb`, queries, the HTTP callbacks, `repClose` | repository server by libevent's HTTP client; the application | every call answered once, success means published | `RepClient` |
| Periodic events, `common/common.c` | one pending event per periodic callback | `napaSchedulePeriodic`, `napaStopPeriodic` | event loop | exactly one event pending until stopped, freed once | `Periodic` |
| Remote measurements, `monl/measure_dispatcher.cpp`, `measure_manager.h` | measures by handle; per stream (peer, message type) the lists of those that run; handle of the counterpart | `monCreateMeasure`, `monActivateMeasure`, `monDeactivateMeasure`, `monDestroyMeasure`; INIT, DEINIT, RESPONSE and result messages; the packet hooks | the same code on other nodes, by ML messages | lists and measures agree, counterparts report to their measure and end with it, results belong to the stream | `MonRemote` |
| Result statistics, `monl/result_buffer.cpp` | a circular window, running statistics, what is not yet published | `newSample`, `resizeBuffer`, `init`, `publishResults` | repository client | the statistics are those of the samples | `ResultBuffer` |
| Monitoring plugins, `monl/plugins/` | last sequence numbers per window place, a burst length | per packet | dispatcher | a packet counts as lost exactly when it did not arrive; the round trip time is how long two packets were under way | `SeqWin` (three plugins), `Rtt`; the others estimate over floats |
| ALTO client, `ALTOclient/` | database of hosts and ratings, query state, a query thread | `start_`/`stop_ALTO_client`, `get_ALTO_guidance_for_list`, `ALTO_query_exec`, the thread | ALTO server, by libxml2 | READY means rated by the reply to the query asked; a query ends | `AltoClient` |
| Logging, UDP wrappers, FEC codec, STUN server, configuration of the monitoring layer, test programs | little or none | | | | not modelled |

How they interact. The application calls `mlOpenConnection`; the handshake
sends through `send_msg`, which asks the transmission path
(`queueOrSendPacket`) and is told `EMSGSIZE`, throttled or sent. Data uses the
same function and the connection's `external_connectionID`. The receiver finds
its connection, and a message its slot, by the numbers in the header only.
Timers refer to connections and slots by number too. The monitoring layer hooks
every packet; it and the application publish through the repository client.

What is hard, in the order it is modelled:

1. INVITEs that cross, packets that arrive late or twice, retries that change
   the path MTU estimate, the list of callbacks (`MLConn`);
2. fragments out of order, lost, repeated; NACKs; timers of messages already
   complete, cleaned up or of closed connections (`MLData`);
3. timer arithmetic in whole units, rates changed while packets wait
   (`TxPath`);
4. an answer that meets other records than it is about (`RepClient`);
5. numbers of closed connections reused while packets and timers still carry
   them (`MLConn`);
6. set-ups, refusals, answers and results of measurements that cross on the way
   between three nodes, with handles of destroyed measures (`MonRemote`);
7. a STUN answer that races the retry timer (`MLStart`), a stop inside a nested
   event loop (`Periodic`), the polled state of a thread (`AltoClient`), sequence
   numbers that wrap (`SeqWin`).

## Modules

### MLConn, and ConnService above it

Nodes, each with a table of `CONNECTBUFSIZE` slots. `conn[n][s]` is
`connectbuf[s]` of node `n`: `status`, `peer` (`external_socketID`), `ext`
(`external_connectionID`, -1 when unknown), `pmtu` (`pmtusize`), `trials`,
`internal` (`internal_connect`), `timer` (`timeout_event` is pending) and
`cbs` (the list `connection_head`). `req[r]` is history: what became of each
`mlOpenConnection` call. `net` is the set of datagrams.

| Action | Code |
|---|---|
| `mlOpenConnection` (`OpenKnown`, `OpenNew`, `OpenRejected`) | `mlOpenConnection`: existing READY connection calls back at once, an opening one queues, else the first free slot and an INVITE |
| `RecvInvite`, `RecvConnect`, `RecvReady` | the three cases of `recv_conn_msg` |
| `pmtu_timeout_cb` (`Retry`, `GiveUp`) | `pmtu_timeout_cb` with `resend_conn_msg` and the failure callback |
| `mlCloseConnection`, `mlSendData`, `RecvData` | the functions of these names as far as the connection goes |
| `Lose`, a delivery with `again` | the network |

`Send` is `send_conn_msg` with `send_msg`: the kernel may answer `EMSGSIZE` for
a packet larger than the path takes, and the estimate then falls within the
same call; or it may not know, and the packet disappears (`Wire`). Internal
addresses (peers behind one NAT) are tried first, as in the code. A packet names its
sender exactly; `SocketId` and the run `InviteMatches` show where the code does not, namely
behind a NAT on little-endian hosts. The runs that depend on the sender's name use nodes
without a NAT (`NoNat`).

`ConnService` says what the application is promised and nothing of how: one
link per pair, each call answered at once or when the link comes up, fails or
is closed, together with all calls that wait on it. `Link` is the refinement
mapping: a slot not READY is an opening link, a READY one an up link.

### MLData

One sender, one receiver, connections established. A message is a record
(connection, seqnr, length); bytes are counted in units. `recvdatabuf[i]` has
the fields of `struct recvdata` the code decides on: `arrivedBytes`, `status`,
`expectedOffset`, `gaps` (`gapArray` up to `gapCounter`) and its two timers.
`got`, the units really written, is history. `nackTimers` are the pending
`pkt_recv_timeout_cb` with their arguments. `mlSendData` fragments with the
current estimate; `Refusals` is the `EMSGSIZE` loop, which starts the message
over in the next smaller fragments, if need be several times, while the RTX queue keeps
the larger ones; it is a recursive function of the payload size. A path that does not carry
even the smallest packet, where `send_msg` gives up, is left out.
`SendThrottled` is a full TX queue. `recv_data_msg`, `recv_nack_msg` and the three
timer callbacks are actions of their own. The FEC build option is off.

### TxPath

`bytes_in_bucket`, `bib_then` and the two queues as in the code, with their hand
kept sizes. Time is counted in ticks (`TicksPerSec` a second); the leak is
computed as in `outputRateControl`, seconds and fraction apart and with C's
division. `ideal` is history: an exact bucket, against which `RateRespected`
compares. `events` are the pending `freeSpaceInBucket_cb`.

### RepClient

`publish_buffer`, `in_transit`, the publishing timer and the FIFO of requests of
the libevent HTTP connection. `repPublish` and the queries make calls;
`deferred_publish_cb` sends a batch; `_batch_publish_callback` and
`single_callback` are the answers with a response code; `callback_gone` is the
call with a NULL request; `repClose` drops everything but the timer.
`confirmed` and `upcalls` are history.

### SocketId, Stun and MLStart

An address is a family, a number and a port; a family may also have its bytes
exchanged, as `htons` leaves it. `mlSocketIDToString` prints the internal port
for both addresses, because `if (external_port = -1)` assigns; `Converted` is the
conversion of `send_conn_msg` and `recv_conn_msg`, which takes the external family
from the internal one. `Stun` encodes a message as type, length and 16-bit units;
`stunParseMessage` is the loop of the source, with the checks of each attribute.

`MLStart` keeps `local_socketID`, `stun_server`, `NAT_traversal` and the number of
pending `nat_traversal_timeout`s. `mlInit`, `nat_traversal_timeout`, `recv_stun_msg`
and `mlSetStunServer` are actions; `try_stun` is part of the handlers that call it.
The server, the network and a NAT that may change its mapping are the environment.
`published` is history: the texts the application handed out.

### Keepalive, Periodic

`Keepalive` has, per peer, the interval and the pending `keepalive_fn`s, which hold
the peer's address and not the entry: a close and a re-open can leave two chains.
Intervals are zero or positive. `Periodic` has the structs,
their pending events and the stack of application callbacks, which may run the event
loop again (`napaYield`).

### MonRemote

`monl[n]` is a node of the monitoring layer: `measures` (`mMeasureInstances`), `lists`
(`mids_local` and `mids_remote` of each stream, by `Key`), the next handle and whether
the process is `up`, as some paths erase `end()` of a map and end it (`Crashed`). `net`
is the bag of control messages, delivered in any order. `held` and `active` are what the
user did, `samples` and `careless` are history. A *careless* call is about a measure whose
stream has another measure of the plugin, or an exchange about that stream under way:
`CounterpartStops` promises something to careful users only, and the comment at `Careless`
says why. `Misnames` has the same effect without a careless call: a `DEINIT` names a measure of
the receiver's own user. A measure has a counterpart when its plugin is in `Paired`.

### ResultBuffer, SeqWin, Rtt

`ResultBuffer` computes AVG and VAR as fractions, by the recurrences of the code,
and compares them with their definitions over the history of samples. `SeqWin` joins
`SeqWinMeasure`, `LossMeasure` and `LossBurstMeasure` on one stream of packets with
numbers modulo `Modulus`; `judged` is the packet about which the last verdict is.
The window need not divide the range, as the default of 5 does not divide 2^32: places are counted
from the first packet of the measure, so they shift only after a full round from there (see below).

`Rtt` is the round trip time of one stream, measured in band: `RttMeasure` at the near node and
its counterpart at the far one, the packet hooks `cbTxPkt` and `cbRxPkt`, and the headers in
between. `near` and `far` hold the plugin's fields and the entries of the result vectors it uses,
which keep their values from packet to packet and last as long as the entry of the dispatcher;
`shared` says where other measures keep it. The clocks are `skew` apart. `trips`, `pure`, `forward` and
`mixed` are history: how long the packets were under way, and whether they were sent while
this measure and its counterpart were there.

Both measures pass their values through `MonMeasure::every`, which hands on the mean of
`tx_every` of them and writes it over the value of the last. `Rtt` keeps the mean as sum and
number; in `SeqWin`, where values are between 0 and 1 and only compared with 0 and 1, `every` keeps
which values were summed and `PART` stands for those in between.

### AltoClient

The database, `queryState`, the thread's progress and the lists of the caller. A reply is
a document given as a sequence of nodes in document order (`Document` is what libxml2 makes of any
text); `Walk` is one turn of the loop of `alto_parse_from_XML` over libxml2's pointers, which the
recursion of that operator repeats; `get_alto_rating` is the matching loop, which
tries the own mask twice and then shorter ones down to 2. `LongestMatch` is the reference
definition: the longest of these prefixes that the reply rates, with the rating of the group which
names it first. It is promised for replies with white space around every element (`Indented`) in
which prefixes are empty elements of groups (`Grouped`): in another one the walk passes elements by.

### Node and MCNode

The parts that share no state are checked in one configuration. `Node` EXTENDS `MLStart`
and INSTANCEs the others. `PartsSpec` puts them side by side: each takes its own steps in any
interleaving. In `NodeSpec`, which TLC checks, `part` names the part that takes steps and the others
stay as they were initialised. Since none reads or writes a variable of another,
every behaviour of all of them is to each part one of these behaviours with stuttering,
so invariants, action and liveness properties of a part are checked as if alone. The theorems of
`Node_proofs` are about `PartsSpec`, and `NodeImplementsParts` says that they are about `NodeSpec` too.
`MCNode` gives the values of the constants.

### Proof modules

`MLConn_proofs`, `TxPath_proofs`, `MLData_proofs`, `MonRemote_proofs`, `ResultBuffer_proofs`,
`Clients_proofs` and `Node_proofs`, each of which EXTENDS the module it proves about; `Clients_proofs`
EXTENDS `RepClient` and INSTANCEs `AltoClient`. The last
one INSTANCEs the three before it, and has the proofs on the start-up too, since `Node` EXTENDS `MLStart`.
`DataLemmas` holds what the others need of data: induction on the naturals, the value of a recursive
function, of a fold over a sequence, sums, quotients, remainders and products.

## Runs

Each passing run gives every property it checks a mutant, a plausible bug of the
code under which the property fails in the same run.

| Run | Instance | Checks |
|---|---|---|
| `MLConnOpen` | 2 nodes, 2 slots, 3 opens that cross, wire of 2, `MAX_TRIALS` 2, a close | `TypeOK`, `RemoteIdKnown`, `Retrying`, `OneSlotPerPeer`, `CallbackOwed`, `ImplementsService` |
| `MLConnResolve` | 1 slot, peers behind one NAT, a path narrower than the first estimate, a duplicate, a close, timers fair | `OpenResolved` |
| `MLConnSync` | 3 nodes, two opens, two losses, data; round trips below the timeout, timers and delivery fair | `DataFromPeer`, `AnswerFromPeer`, `OpenSucceeds` |
| `MLConnStaleData` | 3 nodes, a duplicate, no restriction on the timers | `DataFromPeer`: **violated** |
| `TxPath` | 4 packets of 2 sizes, 3 rates, 4 ticks a second, one change, the drain timer fair | `TypeOK`, `DrainPlanned`, `SizesConsistent`, `InOrder`, `RateRespected`, `QueuedIsSent` |
| `MLData` | a message of 3 units in fragments of 3, 2 and 1, one of each fault, 2 slots, any order | `TypeOK`, `MissingCovered`, `WithinBuffer`, `OneSlotPerMessage`, `DeliveredOnce`, `SlotsReclaimed` |
| `MLDataSync` | 4 messages of 4, 3, 2 and 1 packets on 2 connections, in order, one loss, round trips below the timeouts | `CompleteMeansArrived`, `Repaired` |
| `MLDataDuplicate` | 5 fragments, one lost, any order | `CompleteMeansArrived`: **violated** |
| `Node` | start-up with IPv4 and IPv6 interfaces, with and without NAT, STUN or not; 2 periodic structs, nesting of 2; 1 connection with intervals 0, 5, 9; 3 nodes with 2 plugins, 2 handles and 2 activations; 4 samples into windows of 1 to 3; packets 18 to 22, and late ones before them, modulo 19 through a window of 3, means of 2; 2 measures of a round trip time, one packet there and 2 back, a clock ahead by 1, means of 2; 3 records and a query with one of each fault; 2 lists and 2 replies of 3-bit addresses | `NodeTypeOK`, `OneTimeout`, `PublishedMatches`, `OneEvent`, `KeptAlive`, `RunningIsListed`, `CounterpartsAgree`, `SamplesOfStream`, `Stats`, `Measured`, `AnsweredOnce`, `SuccessMeansConfirmedInTime`, `Rated`, `ReadyStays`, `CounterpartStops`, `CallsEnd` |
| `RepClientLate` | 3 records, a batch sent before the last was answered | `SuccessMeansConfirmed`: **violated** |
| `MonReuse` | the measurements of `Node` | `Reusable`: **violated** |
| `InviteMatches` | the start-up of `Node` | `InviteMatches`: **violated** |

### Why the bounds are enough

- *Handshake.* Two nodes that open to each other meet every case of the three
  messages, since each handler looks at one entry only; a third node is needed
  where a slot changes its peer (`MLConnSync`, `MLConnStaleData`). Two requests
  from one node let one be queued behind the other. `MAX_TRIALS` 2 (3 in the
  code) separates the first send, the last and the next estimate. With a wire of
  2, a late packet of an old exchange coexists with a new one; more packets are
  lost, which UDP may do at any time.
- *Data.* Three units let a fragment be first, last or single, open a gap and
  close it from either side; sizes 3, 2 and 1 let the message be refused once or twice, and
  leave larger fragments in the RTX queue. That a message is refused after fragments of it went
  out takes 4 units and is beyond the run, not beyond the proofs, which hold for any sizes.
  One fault of each kind suffices to combine a loss with a repeated or a late packet.
  In `MLDataSync` the message of one packet shows that `Repaired` needs its condition:
  without it, the loss of that packet is a counterexample.
- *Path.* Packets of lengths 1 and 3 and a queue bound of 4 fill the queue; rates
  that do not divide the ticks exercise the rounding; `MaxGap` is beyond the time
  in which any bucket runs empty.
- *Repository.* A buffer of 2 with 3 records overflows; two batches overlap.
- *Start-up.* One server change and one rebinding let a late answer of the old
  server or mapping meet the new one; the set of STUN messages repeats any of them
  any number of times, and the retries are not bounded at all.
- *Measurements.* Two activations and one packet or refusal of three nodes make an INIT,
  a DEINIT, their answers and results of two uses of one measure cross; a second handle lets another
  measure take a place. More handles add measures that do not meet.
- *Statistics.* Windows of 1, 2 and 3 shrink and grow around a position in the middle;
  3 different values order every way; 4 samples publish twice at a rate of 2.
- *Sequence numbers.* The numbers start at 18, or up to 4 before it with late packets, and wrap at
  19, so that the last packets and the places they are judged by are on different sides of the wrap
  or both behind it; delays of 3 packets reach the window of 3, which does not divide 19. A mean
  of 2 values (10 in the code) is of one alone first, then of equal and of different ones.
- *Round trip time.* A reported time less the time under way is linear in where the clock ticks
  fall, and the cases of stale values depend on the order of the steps only, so one tick, which
  may fall between any two of them, shows a difference; two packets back carry a reply twice or out of order.
- *ALTO.* Addresses of 3 bits have prefixes of every length the matching treats
  differently (own mask, 2 and above, below 2); two replies have the two layouts.

### Fairness

libevent fires an armed timer, so the timer callbacks are weakly fair: an
assumption on the loop being run. `DeliveringSpec` adds that the network
delivers what it does not lose, and is used only for what the code promises of
a working network (`OpenSucceeds`, `Repaired`, `SlotsReclaimed`). Faults are
never fair. In `MLData` and `MLConn` timers are otherwise untimed: they may fire
at any point, which over-approximates every choice of timeout.
`RttBelowTimeout` is the one assumption on time: a timer waits until the packets
it is about are no longer on the wire, which is what the values of the timeouts
in the code are chosen for. In `MLStart` the server's answer and its reception are
strongly fair: of messages sent for ever some get through; without that a lossy network keeps
a node asking. In `MonRemote` messages in transit are delivered, as the messaging layer
delivers what it does not lose, and calls of the user are not fair. In `AltoClient` the thread
is scheduled and its HTTP request ends. In `RepClient` the HTTP client reports an answer or
a failure of every request; libevent times silent connections out.

## Proofs

For every value of the constants, from the named assumptions of the modules only:

- `MLConn_proofs`, for every number of nodes, slots, requests, trials, faults and packets:
  `TypeCorrect`, `RemoteIdsKnown`, `AlwaysRetrying`, `OneConnectionPerPeer`,
  `CallbacksOwed`, the five invariants of `MLConnOpen`, and `HandshakeImplementsService`,
  `Spec => ImplementsService`; and, while no slot is used for one peer after another,
  `DataFromPeers` and `AnswersFromPeer`;
- `TxPath_proofs`, for any packets, rates, limits and clock: `TypeCorrect`, `SizesConsistentHolds`,
  `RateRespectedHolds`, `DrainPlannedHolds` and `InOrderHolds`, all invariants of the run;
- `MLData_proofs`, for any messages, fragment sizes, tables and network: `TypeCorrect`,
  `OneSlotPerMessageHolds`, `WithinBufferHolds`, `MissingCoveredHolds` and `DeliveredOnceHolds`;
  and, while no packet brings bytes its slot has already, `CompleteMeansArrivedHolds`;
- `Clients_proofs`, for any calls, delays, buffer size and faults of the repository client:
  `TypeCorrect`; and of both clients what `Node_proofs` takes from it;
- `MonRemote_proofs`, for any nodes, users, plugins, message types and handles: `TypeCorrect`,
  `RunningIsListedHolds`, `CounterpartsAgreeHold`, `SamplesOfStreamHolds` and, of it, the part that
  is about reported results and does not depend on the users, `ReportedOfStreamHolds`;
- `ResultBuffer_proofs`, for any integer samples, window sizes and publishing rate: `StatsHold`, of
  which `Node_proofs` makes the theorem on `Stats`;
- `Node_proofs`, for any addresses, byte order and faults: `OneTimeoutHolds`,
  `ReadyStaysHolds` and `PublishedMatchesHolds`; and for the parts of a node side by side: `NodeImplementsParts`,
  `OneEventHolds`, `KeptAliveHolds`, `AnsweredOnceHolds`, `SuccessMeansConfirmedHolds`,
  `RunningIsListedHolds`, `CounterpartsAgreeHold`, `SamplesOfStreamHolds`, `StatsHold`,
  `MeasuredHolds` and `RatedHolds`; and `NodeTypesHold`, the types of all parts.

*The handshake.* The properties are not inductive one by one. That a CONNECT on the
wire never carries the id -1 needs that an entry which is not INVITE knows its
peer's id; that a callback is owed exactly while it is listed needs that there
is one entry per peer, or the search would find another list. The inductive
invariant is therefore their conjunction with the fact about ids. Its
preservation is proved once for what a handler can do to *one* slot, not for
each handler again: `TableStep` says that slot `s` of node `n` goes from one
entry to another and that the requests follow, and `StepOK` is the condition
under which such a change keeps the invariant. Each branch of each handler is
then shown to be a `TableStep` of one of a few kinds (`Answered`, `Queued`,
`Taken`, `Opened`, `Invited`, `Kept`, `CameUp`, `Removed`), with the lemmas
`SlotUpdate` and `SendUpdate` for what happens to table and wire. The refinement
uses the same kinds: `Opened` and `Queued` map to `Ask`, `CameUp` to `ComeUp`,
`Removed` to `Fail` or `Close`, `Invited` to `Invited`, and `Kept` leaves the
link as it was.

`DataFromPeer` and `AnswerFromPeer` are not invariants: `MLConnStaleData` breaks the first. What they
need is shown to be one thing only, `Owned(owner)`: that slot `s` of node `n` holds connections to
`owner[n][s]` or none, at all times. Timers, duplicates, losses, failures and closes may be as they
like. The invariant says that every id noted by a connection, and every id in a packet, is that of
a slot used for the other side (`NotedIds`, `CarriedIds`). It holds in `MLConnSync`, where fewer packets are lost
than there are trials, so that no connection is given up and no slot changes its peer.

*Start-up.* `OneTimeout` is inductive with the fact that nothing is pending before the
socket is open; `ReadyStays` needs it nowhere, only that every handler that clears the flag
tests it. `PublishedMatches` follows the external address through its conversions: the server
encodes it, the parser reads the answer, the ID is printed, read back and converted for a
connection message. What the parser makes of the answer is found by evaluating its loop on the two
attributes of the answer, for any address (the offsets are numbers). `IdInv` is the invariant:
families are as they were stored (`IdTypes`), nothing is published before the ID is ready
(`OnlyWhenReady`), and while NAT and server stay as they were (`Undisturbed`) answers under way, the
ID and every published text agree (`Steady`). That the text has the internal port twice is why the
property leaves out the external port.

*The transmission path.* `DrainPlanned` and `InOrder`
rest on one invariant, `Fated`: the queue is in the order of submission and holds exactly the packets
marked as queued, packets not submitted are new, and what was sent is older than what waits. The sizes
are sums over queues, folds, whose value after an append and a removal is found by induction
(`DataLemmas`). `RateRespected` compares two buckets that lose different fractions: in the
invariant (`Bucket`) the exact one, with what it has leaked since the code's last leaked, is at most at
the level of the code's and what is left of the running second. It needs that the bound on the
time between packets is not below a second.

*Data.* `OneSlotPerMessage` needs only that an entry keeps its message while
its slot is taken (`ChangeSlot`), and that a slot is taken for a message when no slot has it.
`WithinBuffer` needs that a fragment on the wire or in the RTX queue lies within its message
(`Fragment`), also after the message was cut anew. `MissingCovered` is an
invariant of each entry alone: gaps lie below `expectedOffset`, and what a fragment takes from a
gap is what it writes. `DeliveredOnce` needs that a message handed up is known to a slot that is
complete, or that nothing of it is left, neither packet nor NACK nor slot (`Done`): that is what a
late packet breaks. `CompleteMeansArrived` is not an invariant either (`MLDataDuplicate`);
its theorem has the hypothesis `FreshArrivals`, that no packet received brings bytes its slot has
already. Then `arrivedBytes` is the number of bytes written (`Counted`), whatever is lost, re-cut or
out of order, and whichever packets NACKs bring again. The run
`MLDataSync` satisfies it: nothing is duplicated, and timers wait until the wire is silent, so a NACK asks only
for what was lost. That a retransmission ends, and sends fragments of the message the NACK names
only, is shown by induction over its recursive function. `SizesAssumption` says that there is a largest
fragment and that none is empty.

*The repository client.* `AnsweredOnce` needs to know where a call is: at most once in the publish
buffer, in transit, in a request of its own or among the callbacks that ran (`Once`, `Apart`, `Singles`,
`Called`). What a batch request says it is about does not matter, as the answer goes to the records in
transit; that is why the property holds also where `SuccessMeansConfirmed` does not.
`SuccessMeansConfirmedInTime` needs in addition that, while batches do not overlap, the batch on its way
is about the records in transit.

*The ALTO client.* `Rated` joins an algorithm with a thread. The algorithm is taken in four steps.
What a pointer of libxml2 is, for any document (`ChildrenIs`, `NextIs`), gives where one turn of the
walk goes: in an indented document to a node after this one with nothing but text in between, or to
the end after the last element (`WalkIs`). So the loop ends, its recursion has a value (`ReadExists`,
by the rank of a node in the document), and by induction from the end what is read from a node on rates an
address as the first group from there on that names it (`ReadAs`). The loop over the masks, the
own one twice, ends with the longest prefix that is rated (`LoopFinds`, `LongestFirst`). The
thread's invariant (`ThreadInv`) is that there is a thread exactly while the state is not READY, that
it works on the database of its list, and that the elements before its index have been written
(`RatedBelow`). `AltoClientAssumption` says that replies are documents.

*The measurements.* A handle is given out once, and the plugin and the side of its measure never
change (`Follows`), so that what a message or a counterpart says of a handle stays true until the measure is
gone and for ever after (`Owns`, `Made`). `NodeOK` is `RunningIsListed` for one node, with the fact
that a measure on the list of a plugin is of this plugin and side; each of
`createMeasure`, `activateMeasure`, `stopMeasure`, `deactivateMeasure` and `destroyMeasure` keeps it, and
every handler is composed of these. It rests on two facts about the whole: answers are about measures with a
counterpart, whose status they may set (`MessagesOK`), and a measure that runs without one is one its user
activated (`UsersOK`), so that it is not activated twice. `ReportedOfStream` needs that the results
under way name a measure of their plugin, which a counterpart does that runs (`Counterparts`); stream and status
are compared on arrival. What a node measures itself is of the stream as long as a measure with a
counterpart is listed for nothing but what it is aimed at (`Tidy`), and that rests on the answers it
gets being those it waits for: as long as nothing was careless, at most one message about the measure is in
transit, and its status names the phase of that exchange (`Exchange`, `Careful`). A late answer
then never restarts or stops another activation, and a measure that was told to end has left its list when
the answer arrives. Handlers that touch no measure with a counterpart (`Keeps`) and messages that only
answer the one they were read for (`AnswerGoesOn`) need no more than these two lemmas. An earlier form of
`SamplesOfStream`, which excused careless calls only, was no invariant for two users, though no run met
that: a measure aimed anew keeps the handle of its old counterpart, its `DEINIT` ends a measure
of the *other* node's user who has the same handle (`measure_dispatcher.cpp:457` does not ask whose it is), and
the answers leave that one on two lists. A scripted behaviour of 28 steps with three nodes confirmed it;
hence `Misnames`.

*Losses and round trips.* `WindowTracks` gives the window its meaning: behind the numbers modulo
2^32 there are a first packet `q` and, for every place, a packet `w[i]` that arrived and that
no packet of the same place which arrived overtakes. From that, `Compared` says what a difference of
numbers means, with the wrap and with late packets: the distance from `w[i]`, or at least the threshold.
The rest is that a verdict of loss stays among the values of the next mean (`MissedCounted`). The
theorem has the hypothesis `NumbersSuffice`: a measure sees less than one round of the numbers
(4294967296 packets less the delays) from where it starts, which may be just before the wrap. Within
that round the place of a packet is its distance from `q` modulo the window, whether or not the window
divides the range: nothing is assumed of that, and the default window of 5 is covered. Without
the hypothesis a place could stay empty for a whole round, and a packet of the next one would look like
the next packet; and a window that does not divide the range would shift. The run `Node` satisfies it. For the round trip time, what is noted of a packet is how long it was under
way and how far the clocks are apart (`FarTimes`), a reply is the time of its packet less the way
of the one it answers (`PacketsToNear`), and both sums stay equal (`NearSums`), while all of it is of this
measure.

*The results.* `Stats` compares what the code keeps with definitions on the whole history of
samples. The invariant `KeptResults` says what makes this so step by step. `KeptStats`: the average
and the variance satisfy the recurrences `NextMean` and `NextVariance`, identities of fractions over the
sums of the samples and of their squares (`SumOf`, which `SumAppend` and `SumTail` update by an
element). `KeptWindow`: the circular buffer `Holds` the newest `n_samples` samples, counted back from
`pos`, and its sum is theirs; `SampleHeld` is the step that overwrites the oldest sample, `ResizedHolds`
the resize that copies the newest ones, sample by sample, into a buffer of another size. The
variance of the window is a loop back from the last sample, whose value is that of a fold.

*The node.* `OneEvent` and `KeptAlive` are inductive with the types of structs and counts. The theorems
on the client and the measurements are those of their modules, once the operators of
the instances are seen to be the same.

*The types of the node.* `NodeTypesHold` is `NodeTypeOK` for any values of the constants. Three parts need more
than their types. An external address is one because the answers under way are those of a
server that saw an address (`StunMessages`), which the parser reads back (`AnswerParsed`), also
after the mapping or the server changed; and what is published is one because the internal address of a
node that is ready is that of an interface: the text of another would carry the port -1. No mean is of more than
`tx_every` round trips because the sums count one packet less than `rx_cnt` (`RttBounds`): `every()` drops the
one it hands a mean on with. And a time noted of a packet is not after now, whatever is late or repeated.

*Only model-checked.* All liveness properties and what depends on fairness (out of
the prover's reach).

## What the runs show of the code

- Nothing but a slot number ties a packet to a connection. When a connection
  failed, or was closed, on one side and its slot was opened towards another
  peer, late **data** of the old peer is attributed to the new one
  (`MLConnStaleData`, `ml.c:1033`). In the same way a late **CONNECT** of
  the old peer would complete the new connection (`ml.c:824`) and leave an MTU
  estimate its own INVITE never proved, against the comment at `ml.c:829`.
- `arrivedBytes` counts a repeated fragment again: a message with a hole can be
  delivered as complete (`MLDataDuplicate`, `ml.c:1114`).
- One batch of records can be in transit at a time, and the timer does not wait
  for it (`RepClientLate`, `publish.c:214`).
- A measure that was deactivated and is activated again is destroyed when the answer
  to the deactivation arrives (`MonReuse`, `measure_dispatcher.cpp:358`), against
  `mon.h:462`. If its place was taken, or nothing is listed there, the answer unlists
  the other measure or erases `end()` of the map.
- The external family in a connection message is converted from the internal one that
  was just converted (`InviteMatches`, `ml.c:668` and `709`): behind a NAT the
  socket ID a node presents is not the one it handed out.

Read on the way, stated in comments of the modules and in the hazards, and not
checked by a run of its own:

- partial messages are not handed up after the timeout, as `ml.h:436` says: the
  call is commented out (`ml.c:991`);
- a message of one packet that is lost is not repaired: its slot and its timers come with its first
  fragment (`ml.c:1053`), so `Repaired` speaks of messages of more than one packet;
- a message that the kernel refuses after fragments of it went out is sent again from its start
  (`ml.c:537`), and the bytes that arrive twice are counted twice: it is handed up as complete with a
  hole, by no fault of the network. A run with 4 units in fragments of 2, then 1, shows it;
  it breaks `CompleteMeansArrived` as a repeated packet does in `MLDataDuplicate`;
- NACK timers outlive their connection and dereference it (`ml.c:292`);
- a full `recvdatabuf` writes at index -1 (`ml.c:1056`);
- setting the rate to 0 leaves packets queueing while the queue is not empty,
  where `ml.h:551` says all packets are passed (`rateLimiter.c:104`);
- a record too long for a batch is skipped and reported as published
  (`publish.c:202`); `repClose` leaves the publishing timer pending on the freed
  client; the callbacks read `cbarg` from memory just freed (`publish.c:106`,
  `176`), and `repListMeasurementNames` never stores it;
- a server not reached is reported with 0, success, by the batch callback (`publish.c:176`), and
  with -1 by the callback for one record (`publish.c:103`);
- the text of a socket ID has the internal port twice (`ml.c:2398`), so IDs that differ in the
  external port compare equal, and an IPv6 external address after `:` cannot be read back;
- `mlCompareAddr` joins `strcmp` results with `&` (`ml.c:245`): addresses whose differences
  share no bit compare equal;
- a repeated STUN answer calls the application again (`ml.c:933`), without a test for NULL,
  and the status 2 of a retry is not documented (`ml.h:246`);
- an answer without MAPPED-ADDRESS sets the external address to 0.0.0.0;
- opening with interval -1 and then with 5 starts no keep-alive (`ml.c:1986`); disabling and
  enabling before the old timer fires starts a second chain;
- a periodic event stopped after it was freed writes freed memory (`common.c:75`), as does one
  scheduled with frequency 0;
- a measure activated again before the end of its last exchange was answered is stopped by the answer
  but stays listed (`measure_dispatcher.cpp:358`), and deactivating it does nothing then (line 659). Activated
  for another stream it is on two lists and samples packets of both: hence the exception in
  `SamplesOfStream`, which takes a third activation to be met and so is beyond the run `Node`. A
  `DEINIT` with a handle learnt from another node does the same to a measure of the receiver's user;
- `deinit` of a measure before its INIT is answered names no counterpart, which then measures on
  (`measure_dispatcher.cpp:441`);
- statistics that start as zero keep 0 as minimum or maximum (`result_buffer.cpp:138`); the
  news is used up by a publication that fails; each publication by time schedules another one, and
  so does every sample (`result_buffer.cpp:63`);
- windows of sequence numbers that do not divide 2^32, the default of 5 among them, shift once a
  measure has seen a full round of numbers since its first packet (`seqwin_measure.cpp:69`); after an outage of the overflow threshold a place is never filled again;
- the mean that `every` leaves in R_LOSS (`mon_measure.cpp:131`) is read by the loss burst as a
  loss of a packet that arrived, and summed again for packets that bring no verdict;
- a packet without a monitoring header is measured with the times of the one before
  (`measure_dispatcher.cpp:745`), and the first ones after a new set-up of a round trip time may
  carry a reply to the measure before;
- replies of the ALTO server without white space lose elements (`ALTOclient.c:943`); the mask of
  an entry is ignored (`ALTOclient.c:783`), a prefix of 1 is never tried; a synchronous
  call or a stop during a query frees what the thread uses;
- the lengths `stunEncodeMessage` writes for an error code and for unknown attributes do not match
  what the parser expects; the client sends neither.

## Not modelled

- Within the modelled parts: addresses and their formats, headers for
  monitoring, log output, FEC, the ICMP error queue (only as `EMSGSIZE`), the
  unused `delay` of a connection, timer values (see *Fairness*), the encoding of
  records, and calls made from within a callback.
- Undefined behaviour ends a behaviour of the model where it is noted at the
  action: no free receive slot, a NACK on a freed connection, a batch timer on a
  freed client.
- The state left out of the parts of `MCNode`: parameters of measures and the out-of-band
  timers that run them, and with them round trip times out of band; the values of results;
  the fields of the STUN test client; message integrity; the percentiles of a result buffer.
- The composition of `MLConn` and `MLData`: messages of a connection whose slot and
  sequence numbers were used before (`ml.c:2020`). Together they have more states than can be
  enumerated; `MLConnStaleData` shows the mix-up for one packet.
- FEC codec and STUN server: third-party code without state of this system, the first off
  in the default build. The plugins for hop counts, capacity, clock drift, forecasts and
  bulk transfer: floating-point estimators. Socket wrappers, logging, the Wireshark dissector,
  registrations and getters of the messaging layer, configuration of the monitoring layer:
  no state a property could be about.

## Next

1. Abstract specifications: a message channel for `MLData` (each message delivered at most once
   and whole), a FIFO with loss at the tail for `TxPath`; what a user sees of a measure.
