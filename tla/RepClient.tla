------------------------------ MODULE RepClient ------------------------------
(***************************************************************************)
(* One open client of the measurement repository (rep/publish.c,           *)
(* rep/repoclient.c, rep/getpeers.c, rep/getmeasurements.c, rep/utils.c).  *)
(*                                                                         *)
(* Queries, and records published without a delay, are HTTP requests of    *)
(* their own.  With a publish_delay the records are collected and a timer  *)
(* sends them as one request, whose answer goes to every record in         *)
(* transit.  libevent sends the requests of a connection one by one and    *)
(* calls back in that order.  What a record or an answer says, and the     *)
(* user's cbarg, are left out.                                             *)
(***************************************************************************)
EXTENDS Integers, Sequences, SequencesExt

CONSTANTS
  Publishes,            \* the records handed to repPublish
  Queries,              \* the other calls
  Huge,                 \* records of REPO_RECORD_LEN bytes and more
  Delays,               \* the publish_delay arguments of repOpen
  PUBLISH_BUFFER_SIZE,
  MaxFaults             \* bound on each kind of fault, see FaultKinds

Calls == Publishes \cup Queries

\* "late": the timer fires with a batch unanswered.  "nosend": the request
\* cannot be made.  "gone": libevent calls back with a NULL request.
\* "unreached": it calls back without a response, so response_code is 0.
FaultKinds == {"late", "nosend", "gone", "unreached", "refuse", "close"}

CallsAssumption ==
  /\ Publishes \cap Queries = {}
  /\ Huge \subseteq Publishes
  /\ Delays \subseteq Nat
  /\ PUBLISH_BUFFER_SIZE \in Nat \ {0}
  /\ MaxFaults \in [FaultKinds -> Nat]

VARIABLES
  publish_delay,
  publish_buffer,
  in_transit,
  timer,        \* deferred_publish_cb is pending
  evhttp_conn,  \* the requests of the HTTP connection
  open,
  calls,        \* calls[c]: what repPublish, or a query, returned
  upcalls,      \* history: the callbacks, with the result they are told
  confirmed,    \* history: the records the server answered HTTP_OK for
  faults

vars == <<publish_delay, publish_buffer, in_transit, timer, evhttp_conn, open,
          calls, upcalls, confirmed, faults>>

Callbacks == {"_batch_publish_callback", "_publish_callback", "query_callback"}
Request == [callback : Callbacks, calls : Seq(Calls)]
Upcall == [call : Calls, result : {"success", "failure"}]
HTTP_OK == 200

TypeOK ==
  /\ publish_delay \in Delays
  /\ publish_buffer \in Seq(Publishes) /\ Len(publish_buffer) <= PUBLISH_BUFFER_SIZE
  /\ in_transit \in Seq(Publishes)
  /\ timer \in BOOLEAN /\ open \in BOOLEAN
  /\ evhttp_conn \in Seq(Request)
  /\ calls \in [Calls -> {"idle", "accepted", "overflow"}]
  /\ upcalls \in Seq(Upcall)
  /\ confirmed \subseteq Publishes
  /\ faults \in [FaultKinds -> Nat]

Fault(k) ==
  /\ faults[k] < MaxFaults[k]
  /\ faults' = [faults EXCEPT ![k] = @ + 1]

-----------------------------------------------------------------------------
(* Requests.                                                                *)

\* make_request, make_post_request: a failure is logged and nothing else.
Make(callback, cs) ==
  \/ /\ evhttp_conn' = Append(evhttp_conn, [callback |-> callback, calls |-> cs])
     /\ UNCHANGED faults
  \/ /\ Fault("nosend")
     /\ UNCHANGED evhttp_conn

\* Mutation of repPublish: one record too many is let in.
repPublishOneMore(c) ==
  /\ open
  /\ calls[c] = "idle"
  /\ \/ /\ publish_delay # 0
        /\ Len(publish_buffer) <= PUBLISH_BUFFER_SIZE
        /\ calls' = [calls EXCEPT ![c] = "accepted"]
        /\ publish_buffer' = Append(publish_buffer, c)
        /\ UNCHANGED <<evhttp_conn, faults>>
     \/ /\ publish_delay = 0
        /\ calls' = [calls EXCEPT ![c] = "accepted"]
        /\ Make("_publish_callback", <<c>>)
        /\ UNCHANGED publish_buffer
  /\ UNCHANGED <<publish_delay, in_transit, timer, open, upcalls, confirmed>>

\* A full buffer: the function returns without having kept the record.
repPublish(c) ==
  /\ open
  /\ calls[c] = "idle"
  /\ \/ /\ publish_delay # 0
        /\ Len(publish_buffer) < PUBLISH_BUFFER_SIZE
        /\ calls' = [calls EXCEPT ![c] = "accepted"]
        /\ publish_buffer' = Append(publish_buffer, c)
        /\ UNCHANGED <<evhttp_conn, faults>>
     \/ /\ publish_delay # 0
        /\ Len(publish_buffer) >= PUBLISH_BUFFER_SIZE
        /\ calls' = [calls EXCEPT ![c] = "overflow"]
        /\ UNCHANGED <<publish_buffer, evhttp_conn, faults>>
     \/ /\ publish_delay = 0
        /\ calls' = [calls EXCEPT ![c] = "accepted"]
        /\ Make("_publish_callback", <<c>>)
        /\ UNCHANGED publish_buffer
  /\ UNCHANGED <<publish_delay, in_transit, timer, open, upcalls, confirmed>>

\* repListMeasurementNames, repGetPeers, repGetMeasurements.
query(c) ==
  /\ open
  /\ calls[c] = "idle"
  /\ calls' = [calls EXCEPT ![c] = "accepted"]
  /\ Make("query_callback", <<c>>)
  /\ UNCHANGED <<publish_delay, publish_buffer, in_transit, timer, open, upcalls, confirmed>>

BatchOutstanding ==
  \E i \in 1 .. Len(evhttp_conn) : evhttp_conn[i].callback = "_batch_publish_callback"

\* What the timer does with the records collected: they replace those in
\* transit, whether or not these were answered and the request was made.
\* Huge ones are left out of the request, and kept with the others.  (One
\* fault a step: a request that cannot be made is never also late.)
SendBatch ==
  \/ /\ publish_buffer = <<>>
     /\ UNCHANGED <<publish_buffer, in_transit, evhttp_conn, faults>>
  \/ /\ publish_buffer # <<>>
     /\ in_transit' = publish_buffer
     /\ publish_buffer' = <<>>
     /\ \/ /\ ~ BatchOutstanding
           /\ Make("_batch_publish_callback", publish_buffer)
        \/ /\ BatchOutstanding
           /\ Fault("late")
           /\ evhttp_conn' = Append(evhttp_conn, [callback |-> "_batch_publish_callback",
                                                  calls |-> publish_buffer])

\* Mutation of deferred_publish_cb: armed again only after a batch.
deferred_publish_cbOnce ==
  /\ open
  /\ timer
  /\ SendBatch
  /\ timer' = (publish_buffer # <<>>)
  /\ UNCHANGED <<publish_delay, open, calls, upcalls, confirmed>>

\* The timer is armed again at the end.  repClose leaves it armed; what the
\* callback does with the freed client is undefined, and no step here.
deferred_publish_cb ==
  /\ open
  /\ timer
  /\ SendBatch
  /\ timer' = (publish_delay # 0)
  /\ UNCHANGED <<publish_delay, open, calls, upcalls, confirmed>>

-----------------------------------------------------------------------------
(* Answers.                                                                 *)

\* The response codes the server and the network give, 0 without a response.
Codes == {HTTP_OK, 500, 0}

Answered(code) ==
  CASE code = HTTP_OK -> UNCHANGED faults
    [] code = 500 -> Fault("refuse")
    [] code = 0 -> Fault("unreached")

Confirm(code, records) ==
  confirmed' = IF code = HTTP_OK THEN confirmed \cup records ELSE confirmed

Tell(cs, result) == upcalls' = upcalls \o [i \in 1 .. Len(cs) |-> [call |-> cs[i], result |-> result]]

\* Mutation of BatchResult: the response is not looked at.
BatchResultAlways(code) == "success"

\* Result 0 is success, and so is response code 0.
BatchResult(code) == IF code \in {HTTP_OK, 0} THEN "success" ELSE "failure"

\* Mutation of _batch_publish_callback: the records stay in transit.
_batch_publish_callbackKeeps(code) ==
  /\ evhttp_conn # <<>> /\ Head(evhttp_conn).callback = "_batch_publish_callback"
  /\ Answered(code)
  /\ Confirm(code, ToSet(Head(evhttp_conn).calls) \ Huge)
  /\ Tell(in_transit, BatchResult(code))
  /\ evhttp_conn' = Tail(evhttp_conn)
  /\ UNCHANGED <<publish_delay, publish_buffer, in_transit, timer, open, calls>>

_batch_publish_callback(code) ==
  /\ evhttp_conn # <<>> /\ Head(evhttp_conn).callback = "_batch_publish_callback"
  /\ Answered(code)
  /\ Confirm(code, ToSet(Head(evhttp_conn).calls) \ Huge)
  /\ Tell(in_transit, BatchResult(code))
  /\ in_transit' = <<>>
  /\ evhttp_conn' = Tail(evhttp_conn)
  /\ UNCHANGED <<publish_delay, publish_buffer, timer, open, calls>>

\* _publish_callback, _stringlist_callback, _getMeasurements_callback: a
\* missing response code becomes -1, or no rows.
SingleResult(code) == IF code = HTTP_OK THEN "success" ELSE "failure"

single_callback(code) ==
  /\ evhttp_conn # <<>> /\ Head(evhttp_conn).callback # "_batch_publish_callback"
  /\ Answered(code)
  /\ Confirm(code, ToSet(Head(evhttp_conn).calls) \cap Publishes)
  /\ Tell(Head(evhttp_conn).calls, SingleResult(code))
  /\ evhttp_conn' = Tail(evhttp_conn)
  /\ UNCHANGED <<publish_delay, publish_buffer, in_transit, timer, open, calls>>

\* Every callback returns at once when it is given no request.
callback_gone ==
  /\ evhttp_conn # <<>>
  /\ Fault("gone")
  /\ evhttp_conn' = Tail(evhttp_conn)
  /\ UNCHANGED <<publish_delay, publish_buffer, in_transit, timer, open, calls, upcalls, confirmed>>

\* Freeing the HTTP connection drops its requests without calling back.
repClose ==
  /\ Fault("close")
  /\ open
  /\ open' = FALSE
  /\ evhttp_conn' = <<>>
  /\ publish_buffer' = <<>>
  /\ in_transit' = <<>>
  /\ UNCHANGED <<publish_delay, timer, calls, upcalls, confirmed>>

-----------------------------------------------------------------------------

\* After repInit and repOpen.
Init ==
  /\ publish_delay \in Delays
  /\ publish_buffer = <<>> /\ in_transit = <<>>
  /\ timer = (publish_delay # 0)
  /\ evhttp_conn = <<>>
  /\ open = TRUE
  /\ calls = [c \in Calls |-> "idle"]
  /\ upcalls = <<>>
  /\ confirmed = {}
  /\ faults = [k \in FaultKinds |-> 0]

Answer == \E code \in Codes : _batch_publish_callback(code) \/ single_callback(code)

Next ==
  \/ \E c \in Publishes : repPublish(c)
  \/ \E c \in Queries : query(c)
  \/ deferred_publish_cb
  \/ Answer
  \/ callback_gone
  \/ repClose

Spec == Init /\ [][Next]_vars

\* libevent fires the timer and reports an answer or a failure to each request
\* that was made: evhttp times a silent connection out.
Fairness == WF_vars(deferred_publish_cb) /\ WF_vars(Answer)

-----------------------------------------------------------------------------
(* Properties.                                                              *)

\* The callback of a call runs once: also with several batches on their way,
\* no answer finds records an earlier answer has already reported and freed.
AnsweredOnce ==
  \A i, j \in 1 .. Len(upcalls) : upcalls[i].call = upcalls[j].call => i = j

\* "result code, 0 on success" (include/repoclient.h): a record reported as
\* published was confirmed by the server.
SuccessMeansConfirmed ==
  \A i \in 1 .. Len(upcalls) :
    upcalls[i].result = "success" /\ upcalls[i].call \in Publishes
      => upcalls[i].call \in confirmed

\* It holds but for huge records when each batch is answered before the next
\* one leaves, and with a response: the records in transit are then those the
\* answer is about, although a batch may have failed before.
SuccessMeansConfirmedInTime ==
  faults["late"] = 0 /\ faults["unreached"] = 0 =>
    \A i \in 1 .. Len(upcalls) :
      upcalls[i].result = "success" /\ upcalls[i].call \in Publishes
        => upcalls[i].call \in confirmed \cup Huge

Told(c) == \E i \in 1 .. Len(upcalls) : upcalls[i].call = c

\* Every accepted call is answered, for records by way of the buffer, the
\* timer, the request and the records in transit: unless a request fails
\* without an answer, batches overlap or the client is closed.
EveryCallAnswered ==
  []<>(\A c \in Calls :
         calls[c] = "accepted"
           => \/ Told(c)
              \/ \E k \in {"late", "nosend", "gone", "close"} : faults[k] > 0)
=============================================================================
