--------------------------- MODULE Clients_proofs ---------------------------
(***************************************************************************)
(* The invariants of RepClient for any calls, delays, buffer size and      *)
(* faults, and of AltoClient for any lists and any documents of the        *)
(* server.                                                                 *)
(*                                                                         *)
(* AnsweredOnce: a call that was made is in one place at most: in the      *)
(* publish buffer, in transit, in a request of its own, or among the       *)
(* callbacks that ran.  A batch request does not count: what it answers    *)
(* are the records in transit when the answer arrives.                     *)
(* SuccessMeansConfirmedInTime: while batches do not overlap, these are    *)
(* the records of the request.                                             *)
(* Rated: the walk over a reply goes from each node to the first one after *)
(* it that is not white space, so what it reads from there on gives an     *)
(* address the rating of the first group that names it; the loop over the  *)
(* masks ends with the longest one; the thread has written the elements    *)
(* before its index, and all of them when it signals READY.                *)
(***************************************************************************)
EXTENDS RepClient, DataLemmas

IsSingle(r) == r.callback # "_batch_publish_callback"

\* One place at most within a sequence of calls; none is still to be made.
Once(s) ==
  /\ \A i \in 1 .. Len(s) : s[i] \in Calls /\ calls[s[i]] # "idle"
  /\ \A i, j \in 1 .. Len(s) : s[i] = s[j] => i = j
Apart(s, t) == \A i \in 1 .. Len(s), j \in 1 .. Len(t) : s[i] # t[j]

Sequences ==
  /\ publish_buffer \in Seq(Calls) /\ in_transit \in Seq(Calls)
  /\ evhttp_conn \in Seq(Request)
  /\ upcalls \in Seq(Upcall)
  /\ calls \in [Calls -> {"idle", "accepted", "overflow"}]

\* The requests of one call.
Singles ==
  /\ \A i \in 1 .. Len(evhttp_conn) : IsSingle(evhttp_conn[i]) =>
       /\ Len(evhttp_conn[i].calls) = 1
       /\ calls[evhttp_conn[i].calls[1]] # "idle"
       /\ \A k \in 1 .. Len(publish_buffer) : publish_buffer[k] # evhttp_conn[i].calls[1]
       /\ \A k \in 1 .. Len(in_transit) : in_transit[k] # evhttp_conn[i].calls[1]
       /\ \A k \in 1 .. Len(upcalls) : upcalls[k].call # evhttp_conn[i].calls[1]
  /\ \A i, j \in 1 .. Len(evhttp_conn) :
       /\ IsSingle(evhttp_conn[i]) /\ IsSingle(evhttp_conn[j])
       /\ evhttp_conn[i].calls[1] = evhttp_conn[j].calls[1]
       => i = j

\* The calls called back are made, and not collected any more.
Called ==
  \A k \in 1 .. Len(upcalls) :
    /\ calls[upcalls[k].call] # "idle"
    /\ \A i \in 1 .. Len(publish_buffer) : publish_buffer[i] # upcalls[k].call
    /\ \A i \in 1 .. Len(in_transit) : in_transit[i] # upcalls[k].call

IInv ==
  /\ Sequences
  /\ Once(publish_buffer) /\ Once(in_transit) /\ Apart(publish_buffer, in_transit)
  /\ Singles
  /\ Called
  /\ AnsweredOnce

\* rep/publish.c: no call was made at first.
LEMMA InitIInv == Init => IInv
<1> SUFFICES ASSUME Init PROVE IInv
    OBVIOUS
<1>1. /\ publish_buffer = <<>> /\ in_transit = <<>> /\ evhttp_conn = <<>> /\ upcalls = <<>>
      /\ calls = [c \in Calls |-> "idle"]
      BY DEF Init
<1>2. QED
      BY <1>1 DEF IInv, Sequences, Once, Apart, Singles, Called, AnsweredOnce

\* Telling appends: the callbacks that ran, then those of the answer.
LEMMA Concat ==
  ASSUME NEW S, NEW s \in Seq(S), NEW t \in Seq(S)
  PROVE  /\ s \o t \in Seq(S) /\ Len(s \o t) = Len(s) + Len(t)
         /\ \A i \in 1 .. Len(s) : (s \o t)[i] = s[i]
         /\ \A i \in 1 .. Len(t) : (s \o t)[Len(s) + i] = t[i]
OBVIOUS

\* rep: a request of one call is about a call that was made.
LEMMA SinglesMade ==
  ASSUME IInv, NEW i \in 1 .. Len(evhttp_conn), IsSingle(evhttp_conn[i])
  PROVE  evhttp_conn[i].calls[1] \in Calls /\ calls[evhttp_conn[i].calls[1]] # "idle"
<1>1. evhttp_conn[i] \in Request
      BY DEF IInv, Sequences
<1>2. evhttp_conn[i].calls \in Seq(Calls)
      BY <1>1 DEF Request
<1>3. Len(evhttp_conn[i].calls) = 1 /\ calls[evhttp_conn[i].calls[1]] # "idle"
      BY DEF IInv, Singles
<1>4. QED
      BY <1>2, <1>3

\* rep: a callback that ran is about a call that was made.
LEMMA UpcallsMade ==
  ASSUME IInv, NEW k \in 1 .. Len(upcalls)
  PROVE  upcalls[k].call \in Calls /\ calls[upcalls[k].call] # "idle"
<1>1. upcalls[k] \in Upcall
      BY DEF IInv, Sequences
<1>2. QED
      BY <1>1 DEF IInv, Called, Upcall

\* rep/repoclient.c: a call of its own request, or of none when it cannot be made.
LEMMA MakeIInv ==
  ASSUME IInv, NEW c \in Calls, calls[c] = "idle",
         calls' = [calls EXCEPT ![c] = "accepted"],
         NEW callback \in Callbacks \ {"_batch_publish_callback"},
         Make(callback, <<c>>),
         UNCHANGED <<publish_buffer, in_transit, upcalls>>
  PROVE  IInv'
<1> DEFINE r == [callback |-> callback, calls |-> <<c>>]
<1>1. calls' \in [Calls -> {"idle", "accepted", "overflow"}] /\ calls'[c] # "idle"
      BY DEF IInv, Sequences
<1>2. \A d \in Calls : calls[d] # "idle" => calls'[d] # "idle" /\ d # c
      BY DEF IInv, Sequences
<1>3. r \in Request /\ IsSingle(r) /\ Len(r.calls) = 1 /\ r.calls[1] = c
      BY DEF Request, IsSingle
<1>4. /\ \A i \in 1 .. Len(publish_buffer) : publish_buffer[i] # c
      /\ \A i \in 1 .. Len(in_transit) : in_transit[i] # c
      /\ \A i \in 1 .. Len(upcalls) : upcalls[i].call # c
      BY <1>2 DEF IInv, Sequences, Once, Called, Upcall
<1>5. Once(publish_buffer)' /\ Once(in_transit)' /\ Apart(publish_buffer, in_transit)'
      BY <1>2 DEF IInv, Once, Apart
<1>6. Called'
      BY <1>2 DEF IInv, Sequences, Called, Upcall
<1>7. AnsweredOnce'
      BY DEF IInv, AnsweredOnce
<1> HIDE DEF r
<1>8. CASE evhttp_conn' = evhttp_conn
  <2>1. Sequences'
        BY <1>1, <1>8 DEF IInv, Sequences
  <2>2. Singles'
        BY <1>2, <1>8 DEF IInv, Sequences, Singles, Request
  <2>3. QED
        BY <2>1, <2>2, <1>5, <1>6, <1>7 DEF IInv
<1>9. CASE evhttp_conn' = Append(evhttp_conn, r)
  <2>1. Sequences'
        BY <1>1, <1>3, <1>9 DEF IInv, Sequences
  <2>2. /\ Len(evhttp_conn') = Len(evhttp_conn) + 1 /\ Len(evhttp_conn) \in Nat
        /\ \A i \in 1 .. Len(evhttp_conn) : evhttp_conn'[i] = evhttp_conn[i]
        /\ evhttp_conn'[Len(evhttp_conn) + 1] = r
        BY <1>3, <1>9 DEF IInv, Sequences
  <2>3. \A i \in 1 .. Len(evhttp_conn) : IsSingle(evhttp_conn[i]) =>
          /\ evhttp_conn[i].calls[1] \in Calls
          /\ calls[evhttp_conn[i].calls[1]] # "idle"
        BY SinglesMade
  <2>4. Singles'
        BY <1>1, <1>2, <1>3, <1>4, <2>2, <2>3 DEF IInv, Singles
  <2>5. QED
        BY <2>1, <2>4, <1>5, <1>6, <1>7 DEF IInv
<1>10. QED
      BY <1>8, <1>9 DEF Make, r

\* rep/publish.c: repPublish keeps a record, drops it, or makes its request.
LEMMA PublishIInv == ASSUME IInv, NEW c \in Publishes, repPublish(c) PROVE IInv'
<1>1. c \in Calls /\ calls[c] = "idle" /\ UNCHANGED <<in_transit, upcalls>>
      BY DEF Calls, repPublish
<1>2. CASE /\ calls' = [calls EXCEPT ![c] = "accepted"]
           /\ publish_buffer' = Append(publish_buffer, c)
           /\ UNCHANGED evhttp_conn
  <2>1. calls' \in [Calls -> {"idle", "accepted", "overflow"}] /\ calls'[c] # "idle"
        BY <1>1, <1>2 DEF IInv, Sequences
  <2>2. \A d \in Calls : calls[d] # "idle" => calls'[d] # "idle" /\ d # c
        BY <1>1, <1>2 DEF IInv, Sequences
  <2>3. /\ Len(publish_buffer') = Len(publish_buffer) + 1 /\ Len(publish_buffer) \in Nat
        /\ \A i \in 1 .. Len(publish_buffer) : publish_buffer'[i] = publish_buffer[i]
        /\ publish_buffer'[Len(publish_buffer) + 1] = c
        BY <1>1, <1>2 DEF IInv, Sequences
  <2>4. Sequences'
        BY <1>1, <1>2, <2>1 DEF IInv, Sequences
  <2>5. Once(publish_buffer)'
        BY <1>1, <2>1, <2>2, <2>3 DEF IInv, Once
  <2>6. Once(in_transit)' /\ Apart(publish_buffer, in_transit)'
        BY <1>1, <2>2, <2>3 DEF IInv, Once, Apart
  <2>7. \A i \in 1 .. Len(evhttp_conn) : IsSingle(evhttp_conn[i]) =>
          /\ evhttp_conn[i].calls[1] \in Calls
          /\ calls[evhttp_conn[i].calls[1]] # "idle"
        BY SinglesMade
  <2>8. Singles'
        BY <1>1, <1>2, <2>2, <2>3, <2>7 DEF IInv, Singles
  <2>9. Called'
        BY <1>1, <2>2, <2>3, UpcallsMade DEF IInv, Called
  <2>10. AnsweredOnce'
        BY <1>1 DEF IInv, AnsweredOnce
  <2>11. QED
        BY <2>4, <2>5, <2>6, <2>8, <2>9, <2>10 DEF IInv
<1>3. CASE /\ calls' = [calls EXCEPT ![c] = "overflow"]
           /\ UNCHANGED <<publish_buffer, evhttp_conn>>
  <2>1. /\ calls' \in [Calls -> {"idle", "accepted", "overflow"}]
        /\ \A d \in Calls : calls[d] # "idle" => calls'[d] # "idle"
        BY <1>1, <1>3 DEF IInv, Sequences
  <2>2. Sequences'
        BY <1>1, <1>3, <2>1 DEF IInv, Sequences
  <2>3. Once(publish_buffer)' /\ Once(in_transit)' /\ Apart(publish_buffer, in_transit)'
        BY <1>1, <1>3, <2>1 DEF IInv, Once, Apart
  <2>4. Singles'
        BY <1>1, <1>3, <2>1, SinglesMade DEF IInv, Singles
  <2>5. Called' /\ AnsweredOnce'
        BY <1>1, <1>3, <2>1 DEF IInv, Sequences, Called, Upcall, AnsweredOnce
  <2>6. QED
        BY <2>2, <2>3, <2>4, <2>5 DEF IInv
<1>4. CASE /\ calls' = [calls EXCEPT ![c] = "accepted"]
           /\ Make("_publish_callback", <<c>>)
           /\ UNCHANGED publish_buffer
  <2>1. "_publish_callback" \in Callbacks \ {"_batch_publish_callback"}
        BY DEF Callbacks
  <2>2. QED
        BY <1>1, <1>4, <2>1, MakeIInv
<1>5. QED
      BY <1>2, <1>3, <1>4 DEF repPublish

\* rep/getpeers.c, rep/getmeasurements.c: a query makes its request.
LEMMA QueryIInv == ASSUME IInv, NEW c \in Queries, query(c) PROVE IInv'
<1>1. "query_callback" \in Callbacks \ {"_batch_publish_callback"} /\ c \in Calls
      BY DEF Callbacks, Calls
<1>2. QED
      BY <1>1, MakeIInv DEF query

\* rep/publish.c: the records collected replace those in transit; a batch request
\* is no single one.
LEMMA DeferredIInv == ASSUME IInv, deferred_publish_cb PROVE IInv'
<1> DEFINE r == [callback |-> "_batch_publish_callback", calls |-> publish_buffer]
<1>1. UNCHANGED <<calls, upcalls>>
      BY DEF deferred_publish_cb
<1>2. CASE UNCHANGED <<publish_buffer, in_transit, evhttp_conn>>
      BY <1>1, <1>2 DEF IInv, Sequences, Once, Apart, Singles, Called, AnsweredOnce
<1>3. CASE /\ in_transit' = publish_buffer /\ publish_buffer' = <<>>
           /\ evhttp_conn' \in {evhttp_conn, Append(evhttp_conn, r)}
  <2>1. r \in Request /\ ~IsSingle(r)
        BY DEF IInv, Sequences, Request, Callbacks, IsSingle
  <2> HIDE DEF r
  <2>2. evhttp_conn \in Seq(Request)
        BY DEF IInv, Sequences
  <2>3. Once(publish_buffer)' /\ Once(in_transit)' /\ Apart(publish_buffer, in_transit)'
        BY <1>1, <1>3 DEF IInv, Once, Apart
  <2>4. /\ evhttp_conn' \in Seq(Request)
        /\ \A i \in 1 .. Len(evhttp_conn') : IsSingle(evhttp_conn'[i]) =>
             i \in 1 .. Len(evhttp_conn) /\ evhttp_conn'[i] = evhttp_conn[i]
    <3>1. CASE evhttp_conn' = evhttp_conn
          BY <2>2, <3>1
    <3>2. CASE evhttp_conn' = Append(evhttp_conn, r)
      <4>1. /\ evhttp_conn' \in Seq(Request)
            /\ Len(evhttp_conn') = Len(evhttp_conn) + 1 /\ Len(evhttp_conn) \in Nat
            /\ \A i \in 1 .. Len(evhttp_conn) : evhttp_conn'[i] = evhttp_conn[i]
            /\ evhttp_conn'[Len(evhttp_conn) + 1] = r
            BY <2>1, <2>2, <3>2
      <4>2. QED
            BY <2>1, <4>1
    <3>3. QED
          BY <1>3, <3>1, <3>2
  <2>5. Singles'
        BY <1>1, <1>3, <2>4 DEF IInv, Singles
  <2>6. Called' /\ AnsweredOnce'
        BY <1>1, <1>3 DEF IInv, Called, AnsweredOnce
  <2>7. Sequences'
        BY <1>1, <1>3, <2>4 DEF IInv, Sequences
  <2>8. QED
        BY <2>3, <2>5, <2>6, <2>7 DEF IInv
<1>4. QED
      BY <1>2, <1>3 DEF deferred_publish_cb, SendBatch, Make

\* rep: the first request is answered or gone; the other ones move up.
LEMMA TailSingles ==
  ASSUME IInv, evhttp_conn # <<>>, evhttp_conn' = Tail(evhttp_conn)
  PROVE  /\ evhttp_conn' \in Seq(Request)
         /\ Len(evhttp_conn') = Len(evhttp_conn) - 1 /\ Len(evhttp_conn) \in Nat \ {0}
         /\ \A i \in 1 .. Len(evhttp_conn') : evhttp_conn'[i] = evhttp_conn[i + 1]
      BY DEF IInv, Sequences

\* rep/publish.c: all the records in transit are told, and none is in transit.
LEMMA BatchIInv ==
  ASSUME IInv, NEW code \in Codes, _batch_publish_callback(code)
  PROVE  IInv'
<1> DEFINE told == [i \in 1 .. Len(in_transit) |->
                      [call |-> in_transit[i], result |-> BatchResult(code)]]
<1>1. /\ evhttp_conn # <<>> /\ evhttp_conn' = Tail(evhttp_conn)
      /\ upcalls' = upcalls \o told /\ in_transit' = <<>>
      /\ UNCHANGED <<publish_buffer, calls>>
      BY DEF _batch_publish_callback, Tell
<1>2. BatchResult(code) \in {"success", "failure"}
      BY DEF BatchResult
<1>3. PICK t \in Seq(Upcall) :
        /\ upcalls' = upcalls \o t /\ Len(t) = Len(in_transit)
        /\ \A i \in 1 .. Len(in_transit) : t[i].call = in_transit[i]
  <2>1. /\ told \in Seq(Upcall) /\ Len(told) = Len(in_transit)
        /\ \A i \in 1 .. Len(in_transit) : told[i].call = in_transit[i]
        BY <1>2 DEF IInv, Sequences, Upcall
  <2> HIDE DEF told
  <2>2. QED
        BY <1>1, <2>1
<1> HIDE DEF told
<1>4. /\ upcalls' \in Seq(Upcall) /\ Len(upcalls') = Len(upcalls) + Len(in_transit)
      /\ Len(upcalls) \in Nat /\ Len(in_transit) \in Nat
      /\ \A i \in 1 .. Len(upcalls) : upcalls'[i] = upcalls[i]
      /\ \A i \in Len(upcalls) + 1 .. Len(upcalls') : upcalls'[i] = t[i - Len(upcalls)]
  <2>1. upcalls \in Seq(Upcall) /\ in_transit \in Seq(Calls)
        BY DEF IInv, Sequences
  <2>2. Len(upcalls) \in Nat /\ Len(in_transit) \in Nat
        BY <2>1
  <2>3. /\ upcalls \o t \in Seq(Upcall) /\ Len(upcalls \o t) = Len(upcalls) + Len(t)
        /\ \A i \in 1 .. Len(upcalls) : (upcalls \o t)[i] = upcalls[i]
        /\ \A i \in 1 .. Len(t) : (upcalls \o t)[Len(upcalls) + i] = t[i]
        BY <2>1, Concat
  <2>4. \A i \in Len(upcalls) + 1 .. Len(upcalls') :
          i - Len(upcalls) \in 1 .. Len(t) /\ i = Len(upcalls) + (i - Len(upcalls))
        BY <1>1, <2>2, <2>3, <1>3
  <2>5. QED
        BY <1>1, <1>3, <2>2, <2>3, <2>4
<1>5. \A i \in 1 .. Len(upcalls') :
        \/ i \in 1 .. Len(upcalls) /\ upcalls'[i].call = upcalls[i].call
        \/ /\ i - Len(upcalls) \in 1 .. Len(in_transit)
           /\ upcalls'[i].call = in_transit[i - Len(upcalls)]
      BY <1>3, <1>4
<1>6. Sequences'
      BY <1>1, <1>4, TailSingles DEF IInv, Sequences
<1>7. Once(publish_buffer)' /\ Once(in_transit)' /\ Apart(publish_buffer, in_transit)'
      BY <1>1 DEF IInv, Once, Apart
<1>8. Singles'
  <2>1. \A i \in 1 .. Len(evhttp_conn') :
          i + 1 \in 1 .. Len(evhttp_conn) /\ evhttp_conn'[i] = evhttp_conn[i + 1]
        BY <1>1, TailSingles
  <2>2. ASSUME NEW i \in 1 .. Len(evhttp_conn'), IsSingle(evhttp_conn'[i])
        PROVE  /\ Len(evhttp_conn'[i].calls) = 1
               /\ calls'[evhttp_conn'[i].calls[1]] # "idle"
               /\ \A k \in 1 .. Len(publish_buffer') : publish_buffer'[k] # evhttp_conn'[i].calls[1]
               /\ \A k \in 1 .. Len(in_transit') : in_transit'[k] # evhttp_conn'[i].calls[1]
               /\ \A k \in 1 .. Len(upcalls') : upcalls'[k].call # evhttp_conn'[i].calls[1]
    <3> DEFINE d == evhttp_conn[i + 1].calls
    <3>1. /\ Len(d) = 1 /\ calls[d[1]] # "idle"
          /\ \A k \in 1 .. Len(publish_buffer) : publish_buffer[k] # d[1]
          /\ \A k \in 1 .. Len(in_transit) : in_transit[k] # d[1]
          /\ \A k \in 1 .. Len(upcalls) : upcalls[k].call # d[1]
          BY <2>1, <2>2 DEF IInv, Singles
    <3>3. \A k \in 1 .. Len(upcalls') : upcalls'[k].call # d[1]
          BY <1>5, <3>1
    <3>4. QED
          BY <1>1, <2>1, <3>1, <3>3
  <2>3. ASSUME NEW i \in 1 .. Len(evhttp_conn'), NEW j \in 1 .. Len(evhttp_conn'),
               IsSingle(evhttp_conn'[i]), IsSingle(evhttp_conn'[j]),
               evhttp_conn'[i].calls[1] = evhttp_conn'[j].calls[1]
        PROVE  i = j
    <3>1. \A k, l \in 1 .. Len(evhttp_conn) :
            /\ IsSingle(evhttp_conn[k]) /\ IsSingle(evhttp_conn[l])
            /\ evhttp_conn[k].calls[1] = evhttp_conn[l].calls[1]
            => k = l
          BY DEF IInv, Singles
    <3>2. /\ i + 1 \in 1 .. Len(evhttp_conn) /\ j + 1 \in 1 .. Len(evhttp_conn)
          /\ IsSingle(evhttp_conn[i + 1]) /\ IsSingle(evhttp_conn[j + 1])
          /\ evhttp_conn[i + 1].calls[1] = evhttp_conn[j + 1].calls[1]
          BY <2>1, <2>3
    <3>3. i + 1 = j + 1
          BY <3>1, <3>2
    <3>4. QED
          BY <3>3
  <2>4. QED
        BY <2>2, <2>3 DEF Singles
<1>9. Called'
  <2> SUFFICES ASSUME NEW k \in 1 .. Len(upcalls')
               PROVE  /\ calls[upcalls'[k].call] # "idle"
                      /\ \A i \in 1 .. Len(publish_buffer) : publish_buffer[i] # upcalls'[k].call
      BY <1>1 DEF Called
  <2>1. CASE k \in 1 .. Len(upcalls) /\ upcalls'[k].call = upcalls[k].call
        BY <2>1 DEF IInv, Called
  <2>2. CASE /\ k - Len(upcalls) \in 1 .. Len(in_transit)
             /\ upcalls'[k].call = in_transit[k - Len(upcalls)]
        BY <2>2 DEF IInv, Once, Apart
  <2>3. QED
        BY <1>5, <2>1, <2>2
<1>10. AnsweredOnce'
  <2> SUFFICES ASSUME NEW i \in 1 .. Len(upcalls'), NEW j \in 1 .. Len(upcalls'),
                      upcalls'[i].call = upcalls'[j].call
               PROVE  i = j
      BY DEF AnsweredOnce
  <2>1. CASE i \in 1 .. Len(upcalls) /\ j \in 1 .. Len(upcalls)
        BY <1>4, <2>1 DEF IInv, AnsweredOnce
  <2>2. CASE i \notin 1 .. Len(upcalls) /\ j \notin 1 .. Len(upcalls)
    <3>1. /\ i - Len(upcalls) \in 1 .. Len(in_transit) /\ j - Len(upcalls) \in 1 .. Len(in_transit)
          /\ in_transit[i - Len(upcalls)] = in_transit[j - Len(upcalls)]
          BY <1>5, <2>2
    <3>2. i - Len(upcalls) = j - Len(upcalls)
          BY <3>1 DEF IInv, Once
    <3>3. QED
          BY <1>4, <3>2
  <2>3. \A k \in 1 .. Len(upcalls), l \in 1 .. Len(in_transit) : upcalls[k].call # in_transit[l]
        BY DEF IInv, Called
  <2>4. QED
        BY <1>5, <2>1, <2>2, <2>3
<1>11. QED
      BY <1>6, <1>7, <1>8, <1>9, <1>10 DEF IInv

\* rep/publish.c, rep/utils.c: the call of the request answered is t.
LEMMA SingleIInv == ASSUME IInv, NEW code \in Codes, single_callback(code) PROVE IInv'
<1> DEFINE cs == Head(evhttp_conn).calls
           told == [i \in 1 .. Len(cs) |-> [call |-> cs[i], result |-> SingleResult(code)]]
           u == [call |-> cs[1], result |-> SingleResult(code)]
<1>1. /\ evhttp_conn # <<>> /\ evhttp_conn' = Tail(evhttp_conn)
      /\ IsSingle(Head(evhttp_conn))
      /\ upcalls' = upcalls \o told
      /\ UNCHANGED <<publish_buffer, in_transit, calls>>
      BY DEF single_callback, Tell, IsSingle
<1>2. SingleResult(code) \in {"success", "failure"}
      BY DEF SingleResult
<1>3. /\ 1 \in 1 .. Len(evhttp_conn) /\ Head(evhttp_conn) = evhttp_conn[1]
      /\ evhttp_conn[1] \in Request
      BY <1>1 DEF IInv, Sequences
<1>4. /\ Len(cs) = 1 /\ cs[1] \in Calls /\ calls[cs[1]] # "idle"
      /\ \A k \in 1 .. Len(publish_buffer) : publish_buffer[k] # cs[1]
      /\ \A k \in 1 .. Len(in_transit) : in_transit[k] # cs[1]
      /\ \A k \in 1 .. Len(upcalls) : upcalls[k].call # cs[1]
  <2>1. evhttp_conn[1].calls \in Seq(Calls)
        BY <1>3 DEF Request
  <2>2. QED
        BY <1>1, <1>3, <2>1 DEF IInv, Singles
<1>5. u \in Upcall /\ u.call = cs[1]
      BY <1>2, <1>4 DEF Upcall
<1>6. PICK t \in Seq(Upcall) : upcalls' = upcalls \o t /\ Len(t) = 1 /\ t[1] = u
  <2>1. told \in Seq(Upcall) /\ Len(told) = 1 /\ told[1] = u
        BY <1>4, <1>5
  <2> HIDE DEF told
  <2>2. QED
        BY <1>1, <2>1
<1>7. \A i \in 2 .. Len(evhttp_conn) : IsSingle(evhttp_conn[i]) => evhttp_conn[i].calls[1] # cs[1]
  <2>1. \A i \in 1 .. Len(evhttp_conn) :
          IsSingle(evhttp_conn[i]) /\ IsSingle(evhttp_conn[1])
          /\ evhttp_conn[i].calls[1] = evhttp_conn[1].calls[1] => i = 1
        BY <1>3 DEF IInv, Singles
  <2>2. \A i \in 2 .. Len(evhttp_conn) : i \in 1 .. Len(evhttp_conn) /\ i # 1
        OBVIOUS
  <2>3. QED
        BY <1>1, <1>3, <2>1, <2>2
<1> HIDE DEF told, u, cs
<1>8. /\ upcalls' \in Seq(Upcall) /\ Len(upcalls') = Len(upcalls) + 1 /\ Len(upcalls) \in Nat
      /\ \A i \in 1 .. Len(upcalls) : upcalls'[i] = upcalls[i]
      /\ upcalls'[Len(upcalls) + 1].call = cs[1]
  <2>1. upcalls \in Seq(Upcall) /\ Len(upcalls) \in Nat
        BY DEF IInv, Sequences
  <2>2. /\ upcalls \o t \in Seq(Upcall) /\ Len(upcalls \o t) = Len(upcalls) + Len(t)
        /\ \A i \in 1 .. Len(upcalls) : (upcalls \o t)[i] = upcalls[i]
        /\ \A i \in 1 .. Len(t) : (upcalls \o t)[Len(upcalls) + i] = t[i]
        BY <2>1, Concat
  <2>3. QED
        BY <1>1, <1>5, <1>6, <2>1, <2>2
<1>9. Sequences'
      BY <1>1, <1>8, TailSingles DEF IInv, Sequences
<1>10. Once(publish_buffer)' /\ Once(in_transit)' /\ Apart(publish_buffer, in_transit)'
      BY <1>1 DEF IInv, Once, Apart
<1>11. Singles'
  <2>1. \A i \in 1 .. Len(evhttp_conn') :
          i + 1 \in 1 .. Len(evhttp_conn) /\ evhttp_conn'[i] = evhttp_conn[i + 1]
        BY <1>1, TailSingles
  <2>2. ASSUME NEW i \in 1 .. Len(evhttp_conn'), IsSingle(evhttp_conn'[i])
        PROVE  /\ Len(evhttp_conn'[i].calls) = 1
               /\ calls'[evhttp_conn'[i].calls[1]] # "idle"
               /\ \A k \in 1 .. Len(publish_buffer') : publish_buffer'[k] # evhttp_conn'[i].calls[1]
               /\ \A k \in 1 .. Len(in_transit') : in_transit'[k] # evhttp_conn'[i].calls[1]
               /\ \A k \in 1 .. Len(upcalls') : upcalls'[k].call # evhttp_conn'[i].calls[1]
    <3> DEFINE d == evhttp_conn[i + 1].calls
    <3>1. /\ Len(d) = 1 /\ calls[d[1]] # "idle"
          /\ \A k \in 1 .. Len(publish_buffer) : publish_buffer[k] # d[1]
          /\ \A k \in 1 .. Len(in_transit) : in_transit[k] # d[1]
          /\ \A k \in 1 .. Len(upcalls) : upcalls[k].call # d[1]
          BY <2>1, <2>2 DEF IInv, Singles
    <3>2. d[1] # cs[1]
          BY <1>7, <2>1, <2>2, TailSingles, <1>1
    <3>3. \A k \in 1 .. Len(upcalls') : upcalls'[k].call # d[1]
          BY <1>8, <3>1, <3>2
    <3>4. QED
          BY <1>1, <2>1, <3>1, <3>3
  <2>3. ASSUME NEW i \in 1 .. Len(evhttp_conn'), NEW j \in 1 .. Len(evhttp_conn'),
               IsSingle(evhttp_conn'[i]), IsSingle(evhttp_conn'[j]),
               evhttp_conn'[i].calls[1] = evhttp_conn'[j].calls[1]
        PROVE  i = j
    <3>1. \A k, l \in 1 .. Len(evhttp_conn) :
            /\ IsSingle(evhttp_conn[k]) /\ IsSingle(evhttp_conn[l])
            /\ evhttp_conn[k].calls[1] = evhttp_conn[l].calls[1]
            => k = l
          BY DEF IInv, Singles
    <3>2. /\ i + 1 \in 1 .. Len(evhttp_conn) /\ j + 1 \in 1 .. Len(evhttp_conn)
          /\ IsSingle(evhttp_conn[i + 1]) /\ IsSingle(evhttp_conn[j + 1])
          /\ evhttp_conn[i + 1].calls[1] = evhttp_conn[j + 1].calls[1]
          BY <2>1, <2>3
    <3>3. i + 1 = j + 1
          BY <3>1, <3>2
    <3>4. QED
          BY <3>3
  <2>4. QED
        BY <2>2, <2>3 DEF Singles
<1>12. Called'
  <2> SUFFICES ASSUME NEW k \in 1 .. Len(upcalls')
               PROVE  /\ calls[upcalls'[k].call] # "idle"
                      /\ \A i \in 1 .. Len(publish_buffer) : publish_buffer[i] # upcalls'[k].call
                      /\ \A i \in 1 .. Len(in_transit) : in_transit[i] # upcalls'[k].call
      BY <1>1 DEF Called
  <2>1. CASE k \in 1 .. Len(upcalls)
        BY <1>8, <2>1 DEF IInv, Called
  <2>2. CASE k = Len(upcalls) + 1
        BY <1>4, <1>8, <2>2
  <2>3. QED
        BY <1>8, <2>1, <2>2
<1>13. AnsweredOnce'
      BY <1>4, <1>8 DEF IInv, AnsweredOnce
<1>14. QED
      BY <1>9, <1>10, <1>11, <1>12, <1>13 DEF IInv

\* rep: IInv is inductive.
LEMMA NextIInv == IInv /\ [Next]_vars => IInv'
<1> SUFFICES ASSUME IInv, [Next]_vars PROVE IInv'
    OBVIOUS
<1>1. ASSUME NEW c \in Publishes, repPublish(c) PROVE IInv'
      BY <1>1, PublishIInv
<1>2. ASSUME NEW c \in Queries, query(c) PROVE IInv'
      BY <1>2, QueryIInv
<1>3. CASE deferred_publish_cb
      BY <1>3, DeferredIInv
<1>4. CASE Answer
      BY <1>4, BatchIInv, SingleIInv DEF Answer
<1>5. CASE callback_gone
  <2>1. /\ evhttp_conn # <<>> /\ evhttp_conn' = Tail(evhttp_conn)
        /\ UNCHANGED <<publish_buffer, in_transit, calls, upcalls>>
        BY <1>5 DEF callback_gone
  <2>2. Sequences'
        BY <2>1, TailSingles DEF IInv, Sequences
  <2>3. Once(publish_buffer)' /\ Once(in_transit)' /\ Apart(publish_buffer, in_transit)'
        BY <2>1 DEF IInv, Once, Apart
  <2>4. Singles'
        BY <2>1, TailSingles DEF IInv, Singles
  <2>5. Called' /\ AnsweredOnce'
        BY <2>1 DEF IInv, Called, AnsweredOnce
  <2>6. QED
        BY <2>2, <2>3, <2>4, <2>5 DEF IInv
<1>6. CASE repClose
  <2>1. /\ evhttp_conn' = <<>> /\ publish_buffer' = <<>> /\ in_transit' = <<>>
        /\ UNCHANGED <<calls, upcalls>>
        BY <1>6 DEF repClose
  <2>2. QED
        BY <2>1 DEF IInv, Sequences, Once, Apart, Singles, Called, AnsweredOnce
<1>7. CASE UNCHANGED vars
      BY <1>7 DEF vars, IInv, Sequences, Once, Apart, Singles, Called, AnsweredOnce
<1>8. QED
      BY <1>1, <1>2, <1>3, <1>4, <1>5, <1>6, <1>7 DEF Next

\* rep/publish.c, rep/utils.c: whatever batches overlap, whatever is refused, lost
\* or closed, the callback of a call runs once.
THEOREM AnsweredOnceHolds == Spec => []AnsweredOnce
<1>1. IInv => AnsweredOnce
      BY DEF IInv
<1>2. QED
      BY InitIInv, NextIInv, <1>1, PTL DEF Spec

-----------------------------------------------------------------------------
(* Types.                                                                   *)

\* rep: what a call or a fault does to the counters and the requests.
LEMMA FaultTypes ==
  ASSUME TypeOK, NEW k \in FaultKinds, Fault(k)
  PROVE  /\ faults' \in [FaultKinds -> Nat]
         /\ faults'[k] > 0
         /\ \A l \in FaultKinds : faults'[l] = 0 => faults[l] = 0
BY DEF TypeOK, Fault

\* rep/publish.c: a request that is made joins the queue.
LEMMA MakeTypes ==
  ASSUME TypeOK, NEW callback \in Callbacks, NEW cs \in Seq(Calls), Make(callback, cs)
  PROVE  /\ evhttp_conn' \in Seq(Request)
         /\ faults' \in [FaultKinds -> Nat]
         /\ \A l \in FaultKinds : faults'[l] = 0 => faults[l] = 0
<1> DEFINE r == [callback |-> callback, calls |-> cs]
<1>1. CASE evhttp_conn' = Append(evhttp_conn, r) /\ UNCHANGED faults
  <2>1. r \in Request
        BY DEF Request
  <2> HIDE DEF r
  <2>2. evhttp_conn' \in Seq(Request)
        BY <1>1, <2>1 DEF TypeOK
  <2>3. QED
        BY <1>1, <2>2 DEF TypeOK
<1>2. CASE Fault("nosend") /\ UNCHANGED evhttp_conn
      BY <1>2, FaultTypes DEF TypeOK, FaultKinds
<1>3. QED
  <2>1. "nosend" \in FaultKinds
        BY DEF FaultKinds
  <2>2. QED
        BY <1>1, <1>2 DEF Make

\* rep: the answer to a request is told to calls cs.
LEMMA ToldTypes ==
  ASSUME TypeOK, NEW C, C \subseteq Calls, NEW cs \in Seq(C),
         NEW result \in {"success", "failure"}, Tell(cs, result)
  PROVE  /\ upcalls' \in Seq(Upcall)
         /\ \A i \in 1 .. Len(upcalls') :
              \/ i \in 1 .. Len(upcalls) /\ upcalls'[i] = upcalls[i]
              \/ \E k \in 1 .. Len(cs) : upcalls'[i] = [call |-> cs[k], result |-> result]
<1> DEFINE told == [i \in 1 .. Len(cs) |-> [call |-> cs[i], result |-> result]]
<1>1. told \in Seq(Upcall) /\ Len(told) = Len(cs) /\ Len(cs) \in Nat
      BY DEF Upcall
<1>2. \A k \in 1 .. Len(told) : told[k] = [call |-> cs[k], result |-> result]
      BY <1>1
<1>3. upcalls' = upcalls \o told /\ upcalls \in Seq(Upcall) /\ Len(upcalls) \in Nat
      BY DEF Tell, TypeOK
<1> HIDE DEF told
<1>4. /\ upcalls \o told \in Seq(Upcall) /\ Len(upcalls \o told) = Len(upcalls) + Len(told)
      /\ \A i \in 1 .. Len(upcalls) : (upcalls \o told)[i] = upcalls[i]
      /\ \A i \in 1 .. Len(told) : (upcalls \o told)[Len(upcalls) + i] = told[i]
  <2>1. upcalls \in Seq(Upcall) /\ told \in Seq(Upcall)
        BY <1>1, <1>3
  <2>2. QED
        BY ONLY <2>1, Concat
<1>5. \A i \in 1 .. Len(upcalls') :
        \/ i \in 1 .. Len(upcalls)
        \/ i - Len(upcalls) \in 1 .. Len(told) /\ i = Len(upcalls) + (i - Len(upcalls))
      BY <1>1, <1>3, <1>4
<1>6. QED
      BY <1>1, <1>2, <1>3, <1>4, <1>5

\* rep: an answer counts as a fault unless it is HTTP_OK.
LEMMA AnsweredTypes ==
  ASSUME TypeOK, NEW code \in Codes, Answered(code)
  PROVE  /\ faults' \in [FaultKinds -> Nat]
         /\ code = 0 => faults'["unreached"] > 0
         /\ \A l \in FaultKinds : faults'[l] = 0 => faults[l] = 0
<1>1. "refuse" \in FaultKinds /\ "unreached" \in FaultKinds
      BY DEF FaultKinds
<1>2. CASE code = HTTP_OK
      BY <1>2 DEF Answered, TypeOK, HTTP_OK
<1>3. CASE code = 500
      BY <1>1, <1>3, FaultTypes DEF Answered, HTTP_OK
<1>4. CASE code = 0
      BY <1>1, <1>4, FaultTypes DEF Answered, HTTP_OK
<1>5. QED
      BY <1>2, <1>3, <1>4 DEF Codes

\* rep: the first request, and the ones behind it.
LEMMA FirstRequest ==
  ASSUME TypeOK, evhttp_conn # <<>>
  PROVE  /\ Head(evhttp_conn) \in Request /\ Head(evhttp_conn) = evhttp_conn[1]
         /\ Tail(evhttp_conn) \in Seq(Request)
         /\ Len(evhttp_conn) \in Nat \ {0} /\ Len(Tail(evhttp_conn)) = Len(evhttp_conn) - 1
         /\ \A i \in 1 .. Len(Tail(evhttp_conn)) : Tail(evhttp_conn)[i] = evhttp_conn[i + 1]
BY DEF TypeOK

IsBatch(i) == evhttp_conn[i].callback = "_batch_publish_callback"

\* A batch is about records, no queries.
Types ==
  /\ TypeOK
  /\ \A i \in 1 .. Len(evhttp_conn) : IsBatch(i) => evhttp_conn[i].calls \in Seq(Publishes)

\* rep: a request that joins the queue.
LEMMA AppendRequest ==
  ASSUME TypeOK, NEW r \in Request, evhttp_conn' = Append(evhttp_conn, r)
  PROVE  /\ evhttp_conn' \in Seq(Request)
         /\ Len(evhttp_conn') = Len(evhttp_conn) + 1 /\ Len(evhttp_conn) \in Nat
         /\ \A i \in 1 .. Len(evhttp_conn) : evhttp_conn'[i] = evhttp_conn[i]
         /\ evhttp_conn'[Len(evhttp_conn) + 1] = r
BY DEF TypeOK

\* rep: batches are made of records by the timer alone, and move up in the queue.
LEMMA NextRecords ==
  ASSUME Types, Next
  PROVE  \A i \in 1 .. Len(evhttp_conn') : IsBatch(i)' => evhttp_conn'[i].calls \in Seq(Publishes)
<1>1. ASSUME NEW callback \in Callbacks, NEW cs \in Seq(Calls),
             evhttp_conn' = Append(evhttp_conn, [callback |-> callback, calls |-> cs]),
             callback = "_batch_publish_callback" => cs \in Seq(Publishes)
      PROVE  \A i \in 1 .. Len(evhttp_conn') :
               IsBatch(i)' => evhttp_conn'[i].calls \in Seq(Publishes)
  <2> DEFINE r == [callback |-> callback, calls |-> cs]
  <2>1. r \in Request /\ r.callback = callback /\ r.calls = cs
        BY DEF Request
  <2> HIDE DEF r
  <2>2. /\ Len(evhttp_conn') = Len(evhttp_conn) + 1 /\ Len(evhttp_conn) \in Nat
        /\ \A i \in 1 .. Len(evhttp_conn) : evhttp_conn'[i] = evhttp_conn[i]
        /\ evhttp_conn'[Len(evhttp_conn) + 1] = r
        BY <1>1, <2>1, AppendRequest DEF Types, r
  <2>3. QED
        BY <1>1, <2>1, <2>2 DEF Types, IsBatch
<1>2. CASE UNCHANGED evhttp_conn
      BY <1>2 DEF Types, IsBatch
<1>3. CASE evhttp_conn # <<>> /\ evhttp_conn' = Tail(evhttp_conn)
  <2>1. \A i \in 1 .. Len(evhttp_conn') :
          i + 1 \in 1 .. Len(evhttp_conn) /\ evhttp_conn'[i] = evhttp_conn[i + 1]
        BY <1>3, FirstRequest DEF Types
  <2>2. QED
        BY <2>1 DEF Types, IsBatch
<1>4. CASE evhttp_conn' = <<>>
      BY <1>4
<1>5. \A c \in Publishes : repPublish(c) =>
        \/ UNCHANGED evhttp_conn
        \/ evhttp_conn' = Append(evhttp_conn, [callback |-> "_publish_callback", calls |-> <<c>>])
      BY DEF repPublish, Make
<1>6. \A c \in Queries : query(c) =>
        \/ UNCHANGED evhttp_conn
        \/ evhttp_conn' = Append(evhttp_conn, [callback |-> "query_callback", calls |-> <<c>>])
      BY DEF query, Make
<1>7. deferred_publish_cb =>
        \/ UNCHANGED evhttp_conn
        \/ evhttp_conn' = Append(evhttp_conn, [callback |-> "_batch_publish_callback",
                                               calls |-> publish_buffer])
      BY DEF deferred_publish_cb, SendBatch, Make
<1>8. Answer \/ callback_gone => evhttp_conn # <<>> /\ evhttp_conn' = Tail(evhttp_conn)
      BY DEF Answer, _batch_publish_callback, single_callback, callback_gone
<1>9. repClose => evhttp_conn' = <<>>
      BY DEF repClose
<1>10. /\ Callbacks = {"_batch_publish_callback", "_publish_callback", "query_callback"}
       /\ \A c \in Publishes \cup Queries : <<c>> \in Seq(Calls)
       /\ publish_buffer \in Seq(Publishes) /\ publish_buffer \in Seq(Calls)
      BY DEF Callbacks, Calls, Types, TypeOK
<1>11. ASSUME NEW c \in Publishes, repPublish(c)
       PROVE  \A i \in 1 .. Len(evhttp_conn') :
                IsBatch(i)' => evhttp_conn'[i].calls \in Seq(Publishes)
      BY <1>1, <1>2, <1>5, <1>10, <1>11
<1>12. ASSUME NEW c \in Queries, query(c)
       PROVE  \A i \in 1 .. Len(evhttp_conn') :
                IsBatch(i)' => evhttp_conn'[i].calls \in Seq(Publishes)
      BY <1>1, <1>2, <1>6, <1>10, <1>12
<1>13. CASE deferred_publish_cb
      BY <1>1, <1>2, <1>7, <1>10, <1>13
<1>14. QED
      BY <1>3, <1>4, <1>8, <1>9, <1>11, <1>12, <1>13 DEF Next

\* rep: every call and callback keeps the types.
LEMMA NextTypeOK ==
  ASSUME CallsAssumption, Types, [Next]_vars
  PROVE  TypeOK'
<1> USE DEF Types
<1>1. ASSUME NEW c \in Publishes, repPublish(c) PROVE TypeOK'
  <2>1. c \in Calls /\ <<c>> \in Seq(Calls) /\ "_publish_callback" \in Callbacks
        BY DEF Calls, Callbacks
  <2>2. calls' \in [Calls -> {"idle", "accepted", "overflow"}]
        BY <1>1, <2>1 DEF repPublish, TypeOK
  <2>3. CASE Make("_publish_callback", <<c>>) /\ UNCHANGED publish_buffer
        BY <1>1, <2>1, <2>2, <2>3, MakeTypes DEF repPublish, TypeOK
  <2>4. CASE UNCHANGED <<publish_buffer, evhttp_conn, faults>>
        BY <1>1, <2>2, <2>4 DEF repPublish, TypeOK
  <2>5. CASE /\ Len(publish_buffer) < PUBLISH_BUFFER_SIZE
             /\ publish_buffer' = Append(publish_buffer, c)
             /\ UNCHANGED <<evhttp_conn, faults>>
    <3>1. /\ publish_buffer' \in Seq(Publishes)
          /\ Len(publish_buffer') = Len(publish_buffer) + 1 /\ Len(publish_buffer) \in Nat
          BY <2>5 DEF TypeOK
    <3>2. Len(publish_buffer') <= PUBLISH_BUFFER_SIZE
          BY <2>5, <3>1 DEF CallsAssumption
    <3>3. QED
          BY <1>1, <2>2, <2>5, <3>1, <3>2 DEF repPublish, TypeOK
  <2>6. QED
        BY <1>1, <2>3, <2>4, <2>5 DEF repPublish
<1>2. ASSUME NEW c \in Queries, query(c) PROVE TypeOK'
  <2>1. c \in Calls /\ <<c>> \in Seq(Calls) /\ "query_callback" \in Callbacks
        BY DEF Calls, Callbacks
  <2>2. calls' \in [Calls -> {"idle", "accepted", "overflow"}]
        BY <1>2, <2>1 DEF query, TypeOK
  <2>3. QED
        BY <1>2, <2>1, <2>2, MakeTypes DEF query, TypeOK
<1>3. CASE deferred_publish_cb
  <2>1. /\ timer' \in BOOLEAN
        /\ UNCHANGED <<publish_delay, open, calls, upcalls, confirmed>>
        BY <1>3 DEF deferred_publish_cb
  <2>2. CASE UNCHANGED <<publish_buffer, in_transit, evhttp_conn, faults>>
        BY <2>1, <2>2 DEF TypeOK
  <2>3. CASE in_transit' = publish_buffer /\ publish_buffer' = <<>>
    <3>1. /\ in_transit' \in Seq(Publishes)
          /\ publish_buffer' \in Seq(Publishes) /\ Len(publish_buffer') = 0
          /\ publish_buffer \in Seq(Calls) /\ "_batch_publish_callback" \in Callbacks
          BY <2>3 DEF TypeOK, Calls, Callbacks
    <3>2. CASE Make("_batch_publish_callback", publish_buffer)
          BY <2>1, <3>1, <3>2, MakeTypes DEF TypeOK, CallsAssumption
    <3>3. CASE /\ Fault("late")
               /\ evhttp_conn' = Append(evhttp_conn, [callback |-> "_batch_publish_callback",
                                                      calls |-> publish_buffer])
      <4>1. "late" \in FaultKinds
            BY DEF FaultKinds
      <4>2. [callback |-> "_batch_publish_callback", calls |-> publish_buffer] \in Request
            BY <3>1 DEF Request
      <4>3. evhttp_conn' \in Seq(Request)
            BY <3>3, <4>2 DEF TypeOK
      <4>4. QED
            BY <2>1, <3>1, <3>3, <4>1, <4>3, FaultTypes DEF TypeOK, CallsAssumption
    <3>4. QED
          BY <1>3, <2>2, <3>2, <3>3 DEF deferred_publish_cb, SendBatch
  <2>4. QED
        BY <1>3, <2>2, <2>3 DEF deferred_publish_cb, SendBatch
<1>4. ASSUME NEW code \in Codes, _batch_publish_callback(code) PROVE TypeOK'
  <2>1. BatchResult(code) \in {"success", "failure"} /\ Publishes \subseteq Calls
        BY DEF BatchResult, Calls
  <2>2. /\ Answered(code) /\ Tell(in_transit, BatchResult(code)) /\ evhttp_conn # <<>>
        /\ in_transit' = <<>> /\ evhttp_conn' = Tail(evhttp_conn)
        /\ Confirm(code, ToSet(Head(evhttp_conn).calls) \ Huge)
        /\ Head(evhttp_conn).callback = "_batch_publish_callback"
        /\ UNCHANGED <<publish_delay, publish_buffer, timer, open, calls>>
        BY <1>4 DEF _batch_publish_callback
  <2>3. upcalls' \in Seq(Upcall)
        BY <2>1, <2>2, ToldTypes DEF TypeOK
  <2>4. faults' \in [FaultKinds -> Nat]
        BY <2>2, AnsweredTypes
  <2>5. Head(evhttp_conn).calls \in Seq(Publishes)
        BY <2>2, FirstRequest DEF IsBatch
  <2>6. confirmed' \subseteq Publishes
    <3>1. ToSet(Head(evhttp_conn).calls) \subseteq Publishes
          BY <2>5 DEF ToSet
    <3>2. QED
          BY <2>2, <3>1 DEF Confirm, TypeOK
  <2>7. evhttp_conn' \in Seq(Request) /\ <<>> \in Seq(Publishes)
        BY <2>2, FirstRequest
  <2>8. QED
        BY <2>2, <2>3, <2>4, <2>6, <2>7 DEF TypeOK
<1>5. ASSUME NEW code \in Codes, single_callback(code) PROVE TypeOK'
  <2>1. SingleResult(code) \in {"success", "failure"}
        BY DEF SingleResult
  <2>2. /\ Answered(code) /\ Tell(Head(evhttp_conn).calls, SingleResult(code))
        /\ evhttp_conn # <<>> /\ evhttp_conn' = Tail(evhttp_conn)
        /\ Confirm(code, ToSet(Head(evhttp_conn).calls) \cap Publishes)
        /\ UNCHANGED <<publish_delay, publish_buffer, in_transit, timer, open, calls>>
        BY <1>5 DEF single_callback
  <2>3. Head(evhttp_conn).calls \in Seq(Calls)
        BY <2>2, FirstRequest DEF Request
  <2>4. upcalls' \in Seq(Upcall)
        BY <2>1, <2>2, <2>3, ToldTypes
  <2>5. faults' \in [FaultKinds -> Nat]
        BY <2>2, AnsweredTypes
  <2>6. confirmed' \subseteq Publishes
        BY <2>2 DEF Confirm, TypeOK
  <2>7. QED
        BY <2>2, <2>4, <2>5, <2>6, FirstRequest DEF TypeOK
<1>6. CASE callback_gone
  <2>1. "gone" \in FaultKinds
        BY DEF FaultKinds
  <2>2. QED
        BY <1>6, <2>1, FaultTypes, FirstRequest DEF callback_gone, TypeOK
<1>7. CASE repClose
  <2>1. "close" \in FaultKinds
        BY DEF FaultKinds
  <2>2. faults' \in [FaultKinds -> Nat]
        BY <1>7, <2>1, FaultTypes DEF repClose
  <2>3. /\ publish_buffer' \in Seq(Publishes) /\ Len(publish_buffer') <= PUBLISH_BUFFER_SIZE
        /\ in_transit' \in Seq(Publishes) /\ evhttp_conn' \in Seq(Request)
        BY <1>7 DEF repClose, CallsAssumption
  <2>4. QED
        BY <1>7, <2>2, <2>3 DEF repClose, TypeOK
<1>8. CASE UNCHANGED vars
      BY <1>8 DEF vars, TypeOK
<1>9. QED
      BY <1>1, <1>2, <1>3, <1>4, <1>5, <1>6, <1>7, <1>8 DEF Next, Answer

\* rep: Types is inductive.
LEMMA NextTypes ==
  ASSUME CallsAssumption, Types, [Next]_vars
  PROVE  Types'
<1>1. TypeOK'
      BY NextTypeOK
<1>2. CASE Next
      BY <1>1, <1>2, NextRecords DEF Types
<1>3. CASE UNCHANGED vars
      BY <1>1, <1>3 DEF vars, Types, IsBatch
<1>4. QED
      BY <1>2, <1>3

\* rep: the types hold for all calls, faults and answers; the publish buffer stays
\* within its size.
THEOREM TypeCorrect == ASSUME CallsAssumption PROVE Spec => []TypeOK
<1>1. Init => Types
      BY CallsAssumption DEF Init, Types, TypeOK, CallsAssumption
<1>2. Types /\ [Next]_vars => Types'
      BY CallsAssumption, NextTypes
<1>3. Types => TypeOK
      BY DEF Types
<1>4. QED
      BY <1>1, <1>2, <1>3, PTL DEF Spec

-----------------------------------------------------------------------------
(* What success means.                                                      *)

\* While every batch is answered before the next one leaves: there is one batch
\* request at most, and it is about the records in transit.
BatchesInTime ==
  faults["late"] = 0 =>
    \A i \in 1 .. Len(evhttp_conn) : IsBatch(i) =>
      /\ evhttp_conn[i].calls = in_transit
      /\ \A j \in 1 .. Len(evhttp_conn) : IsBatch(j) => i = j

TimeInv == Types /\ BatchesInTime /\ SuccessMeansConfirmedInTime

\* rep/publish.c: a request that is no batch changes nothing for the batches.
LEMMA MakeSingle ==
  ASSUME TimeInv, NEW callback \in Callbacks \ {"_batch_publish_callback"}, NEW cs \in Seq(Calls),
         Make(callback, cs), UNCHANGED <<in_transit, upcalls, confirmed>>
  PROVE  BatchesInTime' /\ SuccessMeansConfirmedInTime'
<1> DEFINE r == [callback |-> callback, calls |-> cs]
<1>1. \A l \in FaultKinds : faults'[l] = 0 => faults[l] = 0
      BY MakeTypes DEF TimeInv, Types
<1>2. "late" \in FaultKinds /\ "unreached" \in FaultKinds
      BY DEF FaultKinds
<1>3. \A i \in 1 .. Len(evhttp_conn') :
        evhttp_conn'[i].callback = "_batch_publish_callback"
          => i \in 1 .. Len(evhttp_conn) /\ evhttp_conn'[i] = evhttp_conn[i]
  <2>1. CASE UNCHANGED evhttp_conn
        BY <2>1
  <2>2. CASE evhttp_conn' = Append(evhttp_conn, r)
    <3>1. r.callback # "_batch_publish_callback"
          OBVIOUS
    <3> HIDE DEF r
    <3>2. /\ Len(evhttp_conn') = Len(evhttp_conn) + 1 /\ Len(evhttp_conn) \in Nat
          /\ \A i \in 1 .. Len(evhttp_conn) : evhttp_conn'[i] = evhttp_conn[i]
          /\ evhttp_conn'[Len(evhttp_conn) + 1] = r
          BY <2>2 DEF TimeInv, Types, TypeOK
    <3>3. QED
          BY <3>1, <3>2
  <2>3. QED
        BY <2>1, <2>2 DEF Make
<1>4. BatchesInTime'
      BY <1>1, <1>2, <1>3 DEF TimeInv, Types, BatchesInTime, IsBatch
<1>5. SuccessMeansConfirmedInTime'
      BY <1>1, <1>2 DEF TimeInv, Types, SuccessMeansConfirmedInTime
<1>6. QED
      BY <1>4, <1>5

\* rep: the first request leaves the queue.
LEMMA TailBatches ==
  ASSUME TimeInv, evhttp_conn # <<>>, evhttp_conn' = Tail(evhttp_conn),
         faults'["late"] = 0 => faults["late"] = 0,
         \/ UNCHANGED in_transit
         \/ IsBatch(1)
  PROVE  BatchesInTime'
<1> SUFFICES ASSUME faults'["late"] = 0,
                    NEW i \in 1 .. Len(evhttp_conn'), IsBatch(i)'
             PROVE  /\ evhttp_conn'[i].calls = in_transit'
                    /\ \A j \in 1 .. Len(evhttp_conn') : IsBatch(j)' => i = j
    BY DEF BatchesInTime
<1>1. \A j \in 1 .. Len(evhttp_conn') :
        /\ j + 1 \in 1 .. Len(evhttp_conn) /\ evhttp_conn'[j] = evhttp_conn[j + 1]
        /\ j + 1 # 1
      BY FirstRequest DEF TimeInv, Types
<1>2. \A k, l \in 1 .. Len(evhttp_conn) : IsBatch(k) /\ IsBatch(l) => k = l
      BY DEF TimeInv, Types, BatchesInTime
<1>3. IsBatch(i + 1) /\ evhttp_conn[i + 1].calls = in_transit
      BY <1>1 DEF TimeInv, Types, BatchesInTime, IsBatch
<1>4. UNCHANGED in_transit
  <2>1. 1 \in 1 .. Len(evhttp_conn)
        BY FirstRequest DEF TimeInv, Types
  <2>2. QED
        BY <1>1, <1>2, <1>3, <2>1
<1>5. ASSUME NEW j \in 1 .. Len(evhttp_conn'), IsBatch(j)' PROVE i = j
  <2>1. IsBatch(j + 1)
        BY <1>1, <1>5 DEF IsBatch
  <2>2. i + 1 = j + 1
        BY <1>1, <1>2, <1>3, <2>1
  <2>3. QED
        BY <2>2
<1>6. QED
      BY <1>1, <1>3, <1>4, <1>5

\* rep: TimeInv is inductive.
LEMMA NextTimeInv ==
  ASSUME CallsAssumption, TimeInv, [Next]_vars
  PROVE  TimeInv'
<1>1. Types'
      BY NextTypes DEF TimeInv
<1> USE DEF Types
<1>2. "late" \in FaultKinds /\ "unreached" \in FaultKinds
      BY DEF FaultKinds
<1> SUFFICES BatchesInTime' /\ SuccessMeansConfirmedInTime'
    BY <1>1 DEF TimeInv
<1>3. ASSUME NEW c \in Publishes, repPublish(c)
      PROVE  BatchesInTime' /\ SuccessMeansConfirmedInTime'
  <2>1. CASE UNCHANGED <<evhttp_conn, faults>>
        BY <1>3, <2>1 DEF repPublish, TimeInv, BatchesInTime, IsBatch, SuccessMeansConfirmedInTime
  <2>2. CASE Make("_publish_callback", <<c>>)
    <3>1. <<c>> \in Seq(Calls) /\ "_publish_callback" \in Callbacks \ {"_batch_publish_callback"}
          BY DEF Calls, Callbacks
    <3>2. QED
          BY <1>3, <2>2, <3>1, MakeSingle DEF repPublish
  <2>3. QED
        BY <1>3, <2>1, <2>2 DEF repPublish
<1>4. ASSUME NEW c \in Queries, query(c)
      PROVE  BatchesInTime' /\ SuccessMeansConfirmedInTime'
  <2>1. <<c>> \in Seq(Calls) /\ "query_callback" \in Callbacks \ {"_batch_publish_callback"}
        BY DEF Calls, Callbacks
  <2>2. QED
        BY <1>4, <2>1, MakeSingle DEF query
<1>5. CASE deferred_publish_cb
  <2> DEFINE r == [callback |-> "_batch_publish_callback", calls |-> publish_buffer]
  <2>1. UNCHANGED <<upcalls, confirmed>>
        BY <1>5 DEF deferred_publish_cb
  <2>2. CASE UNCHANGED <<in_transit, evhttp_conn, faults>>
        BY <2>1, <2>2 DEF TimeInv, BatchesInTime, IsBatch, SuccessMeansConfirmedInTime
  <2>3. CASE /\ in_transit' = publish_buffer /\ ~ BatchOutstanding
             /\ Make("_batch_publish_callback", publish_buffer)
    <3>1. \A l \in FaultKinds : faults'[l] = 0 => faults[l] = 0
      <4>1. publish_buffer \in Seq(Calls) /\ "_batch_publish_callback" \in Callbacks
            BY DEF TimeInv, TypeOK, Calls, Callbacks
      <4>2. QED
            BY <2>3, <4>1, MakeTypes DEF TimeInv
    <3>2. SuccessMeansConfirmedInTime'
          BY <1>2, <2>1, <3>1 DEF TimeInv, SuccessMeansConfirmedInTime
    <3>3. \A i \in 1 .. Len(evhttp_conn) : ~ IsBatch(i)
          BY <2>3 DEF BatchOutstanding, IsBatch
    <3>4. CASE UNCHANGED evhttp_conn
          BY <3>2, <3>3, <3>4 DEF BatchesInTime, IsBatch
    <3>5. CASE evhttp_conn' = Append(evhttp_conn, r)
      <4>1. r.calls = in_transit'
            BY <2>3
      <4> HIDE DEF r
      <4>2. /\ Len(evhttp_conn') = Len(evhttp_conn) + 1 /\ Len(evhttp_conn) \in Nat
            /\ \A i \in 1 .. Len(evhttp_conn) : evhttp_conn'[i] = evhttp_conn[i]
            /\ evhttp_conn'[Len(evhttp_conn) + 1] = r
            BY <3>5 DEF TimeInv, TypeOK
      <4>3. \A i \in 1 .. Len(evhttp_conn') : IsBatch(i)' => i = Len(evhttp_conn) + 1
            BY <3>3, <4>2 DEF IsBatch
      <4>4. BatchesInTime'
            BY <4>1, <4>2, <4>3 DEF BatchesInTime
      <4>5. QED
            BY <3>2, <4>4
    <3>6. QED
          BY <2>3, <3>4, <3>5 DEF Make
  <2>4. CASE Fault("late")
    <3>1. faults'["late"] # 0
          BY <1>2, <2>4, FaultTypes DEF TimeInv
    <3>2. QED
          BY <3>1 DEF BatchesInTime, SuccessMeansConfirmedInTime
  <2>5. QED
        BY <1>5, <2>2, <2>3, <2>4 DEF deferred_publish_cb, SendBatch
<1>6. ASSUME NEW code \in Codes, _batch_publish_callback(code)
      PROVE  BatchesInTime' /\ SuccessMeansConfirmedInTime'
  <2>1. BatchResult(code) \in {"success", "failure"} /\ Publishes \subseteq Calls
        BY DEF BatchResult, Calls
  <2>2. /\ Answered(code) /\ Tell(in_transit, BatchResult(code)) /\ evhttp_conn # <<>>
        /\ evhttp_conn' = Tail(evhttp_conn)
        /\ Confirm(code, ToSet(Head(evhttp_conn).calls) \ Huge)
        /\ Head(evhttp_conn).callback = "_batch_publish_callback"
        BY <1>6 DEF _batch_publish_callback
  <2>3. /\ \A l \in FaultKinds : faults'[l] = 0 => faults[l] = 0
        /\ code = 0 => faults'["unreached"] > 0
        BY <2>2, AnsweredTypes DEF TimeInv
  <2>4. 1 \in 1 .. Len(evhttp_conn) /\ IsBatch(1) /\ Head(evhttp_conn) = evhttp_conn[1]
        BY <2>2, FirstRequest DEF TimeInv, IsBatch
  <2>5. BatchesInTime'
        BY <1>2, <2>2, <2>3, <2>4, TailBatches
  <2>6. ASSUME faults'["late"] = 0, faults'["unreached"] = 0,
               NEW i \in 1 .. Len(upcalls'), upcalls'[i].result = "success",
               upcalls'[i].call \in Publishes
        PROVE  upcalls'[i].call \in confirmed' \cup Huge
    <3>1. faults["late"] = 0 /\ faults["unreached"] = 0 /\ code # 0
          BY <1>2, <2>3, <2>6
    <3>2. confirmed \subseteq confirmed'
          BY <2>2 DEF Confirm
    <3>3. CASE i \in 1 .. Len(upcalls) /\ upcalls'[i] = upcalls[i]
          BY <2>6, <3>1, <3>2, <3>3 DEF TimeInv, SuccessMeansConfirmedInTime
    <3>4. ASSUME NEW k \in 1 .. Len(in_transit),
                 upcalls'[i] = [call |-> in_transit[k], result |-> BatchResult(code)]
          PROVE  upcalls'[i].call \in confirmed' \cup Huge
      <4>1. code = HTTP_OK
            BY <2>6, <3>1, <3>4 DEF BatchResult
      <4>2. Head(evhttp_conn).calls = in_transit
            BY <2>4, <3>1 DEF TimeInv, BatchesInTime
      <4>3. in_transit[k] \in ToSet(Head(evhttp_conn).calls)
        <5>1. in_transit \in Seq(Publishes)
              BY DEF TimeInv, TypeOK
        <5>2. QED
              BY <4>2, <5>1 DEF ToSet
      <4>4. in_transit[k] \in confirmed' \cup Huge
            BY <2>2, <4>1, <4>3 DEF Confirm
      <4>5. QED
            BY <3>4, <4>4
    <3>5. \A j \in 1 .. Len(upcalls') :
            \/ j \in 1 .. Len(upcalls) /\ upcalls'[j] = upcalls[j]
            \/ \E k \in 1 .. Len(in_transit) :
                 upcalls'[j] = [call |-> in_transit[k], result |-> BatchResult(code)]
          BY <2>1, <2>2, ToldTypes DEF TimeInv, TypeOK
    <3>6. QED
          BY <3>3, <3>4, <3>5
  <2>7. QED
        BY <2>5, <2>6 DEF SuccessMeansConfirmedInTime
<1>7. ASSUME NEW code \in Codes, single_callback(code)
      PROVE  BatchesInTime' /\ SuccessMeansConfirmedInTime'
  <2> DEFINE cs == Head(evhttp_conn).calls
  <2>1. SingleResult(code) \in {"success", "failure"}
        BY DEF SingleResult
  <2>2. /\ Answered(code) /\ Tell(cs, SingleResult(code)) /\ evhttp_conn # <<>>
        /\ evhttp_conn' = Tail(evhttp_conn)
        /\ Confirm(code, ToSet(cs) \cap Publishes)
        /\ UNCHANGED in_transit
        BY <1>7 DEF single_callback
  <2>3. \A l \in FaultKinds : faults'[l] = 0 => faults[l] = 0
        BY <2>2, AnsweredTypes DEF TimeInv
  <2>4. cs \in Seq(Calls)
        BY <2>2, FirstRequest DEF TimeInv, Request
  <2>5. BatchesInTime'
        BY <1>2, <2>2, <2>3, TailBatches
  <2> HIDE DEF cs
  <2>6. ASSUME faults'["late"] = 0, faults'["unreached"] = 0,
               NEW i \in 1 .. Len(upcalls'), upcalls'[i].result = "success",
               upcalls'[i].call \in Publishes
        PROVE  upcalls'[i].call \in confirmed' \cup Huge
    <3>1. faults["late"] = 0 /\ faults["unreached"] = 0
          BY <1>2, <2>3, <2>6
    <3>2. confirmed \subseteq confirmed'
          BY <2>2 DEF Confirm
    <3>3. CASE i \in 1 .. Len(upcalls) /\ upcalls'[i] = upcalls[i]
          BY <2>6, <3>1, <3>2, <3>3 DEF TimeInv, SuccessMeansConfirmedInTime
    <3>4. ASSUME NEW k \in 1 .. Len(cs),
                 upcalls'[i] = [call |-> cs[k], result |-> SingleResult(code)]
          PROVE  upcalls'[i].call \in confirmed' \cup Huge
      <4>1. code = HTTP_OK
            BY <2>6, <3>4 DEF SingleResult
      <4>2. cs[k] \in ToSet(cs)
            BY <2>4 DEF ToSet
      <4>3. cs[k] \in Publishes => cs[k] \in confirmed'
            BY <2>2, <4>1, <4>2 DEF Confirm
      <4>4. QED
            BY <2>6, <3>4, <4>3
    <3>5. \A j \in 1 .. Len(upcalls') :
            \/ j \in 1 .. Len(upcalls) /\ upcalls'[j] = upcalls[j]
            \/ \E k \in 1 .. Len(cs) :
                 upcalls'[j] = [call |-> cs[k], result |-> SingleResult(code)]
          BY <2>1, <2>2, <2>4, ToldTypes DEF TimeInv
    <3>6. QED
          BY <3>3, <3>4, <3>5
  <2>7. QED
        BY <2>5, <2>6 DEF SuccessMeansConfirmedInTime
<1>8. CASE callback_gone
  <2>1. \A l \in FaultKinds : faults'[l] = 0 => faults[l] = 0
    <3>1. "gone" \in FaultKinds
          BY DEF FaultKinds
    <3>2. QED
          BY <1>8, <3>1, FaultTypes DEF callback_gone, TimeInv
  <2>2. BatchesInTime'
        BY <1>2, <1>8, <2>1, TailBatches DEF callback_gone
  <2>3. QED
        BY <1>2, <1>8, <2>1, <2>2 DEF callback_gone, TimeInv, SuccessMeansConfirmedInTime
<1>9. CASE repClose
  <2>1. \A l \in FaultKinds : faults'[l] = 0 => faults[l] = 0
    <3>1. "close" \in FaultKinds
          BY DEF FaultKinds
    <3>2. QED
          BY <1>9, <3>1, FaultTypes DEF repClose, TimeInv
  <2>2. QED
        BY <1>2, <1>9, <2>1 DEF repClose, TimeInv, BatchesInTime, SuccessMeansConfirmedInTime
<1>10. CASE UNCHANGED vars
      BY <1>10 DEF vars, TimeInv, BatchesInTime, IsBatch, SuccessMeansConfirmedInTime
<1>11. QED
      BY <1>3, <1>4, <1>5, <1>6, <1>7, <1>8, <1>9, <1>10 DEF Next, Answer

\* rep/publish.c: when batches do not overlap and answers have a response, a record
\* reported as published was confirmed, whatever else fails before or after it.
THEOREM SuccessMeansConfirmedHolds ==
  ASSUME CallsAssumption
  PROVE  Spec => []SuccessMeansConfirmedInTime
<1>1. Init => TimeInv
      BY CallsAssumption DEF Init, TimeInv, Types, TypeOK, CallsAssumption, BatchesInTime,
                             SuccessMeansConfirmedInTime
<1>2. TimeInv /\ [Next]_vars => TimeInv'
      BY CallsAssumption, NextTimeInv
<1>3. TimeInv => SuccessMeansConfirmedInTime
      BY DEF TimeInv
<1>4. QED
      BY <1>1, <1>2, <1>3, PTL DEF Spec

-----------------------------------------------------------------------------
(* The ALTO client.  First libxml2's pointers and one turn of the walk over  *)
(* them, then the database the whole walk reads, the loop over the masks,    *)
(* and last the thread.                                                      *)

CONSTANTS Width, Lists, Replies, NULL
VARIABLES ALTO_DB_req, queryState, threadArgs, thread, count, rating, answered

A == INSTANCE AltoClient

\* A set of numbers has one least element, and Min is it.
LEMMA MinOf ==
  ASSUME NEW T, T \subseteq Nat, T # {}
  PROVE  Min(T) \in T /\ \A y \in T : Min(T) <= y
<1>1. \E x \in T : \A y \in T : x <= y
      BY LeastNumber
<1>2. QED
      BY <1>1 DEF Min

\* The number p is 0 for an empty set, otherwise the least element.
Points(p, C) == IF C = {} THEN p = 0 ELSE p \in C /\ \A y \in C : p <= y

\* A pointer to the first node of a set, NULL when there is none.
LEMMA PointerOf ==
  ASSUME NEW L \in Nat, NEW C \in SUBSET (1 .. L)
  PROVE  Points(Min(C \cup {L + 1}) % (L + 1), C)
<1> DEFINE T == C \cup {L + 1}
           p == Min(T)
<1>1. /\ T \subseteq Nat /\ T # {} /\ L + 1 \in T
      /\ \A x \in T : x \in C \/ x = L + 1
      /\ \A x \in C : x \in T /\ x \in Nat /\ x <= L
      OBVIOUS
<1> HIDE DEF T
<1>2. p \in T /\ \A y \in T : p <= y
      BY <1>1, MinOf
<1> HIDE DEF p
<1>3. CASE C = {}
  <2>1. p = L + 1
        BY <1>1, <1>2, <1>3
  <2>2. (L + 1) % (L + 1) = 0
        OBVIOUS
  <2>3. QED
        BY <1>3, <2>1, <2>2 DEF Points, p, T
<1>4. CASE C # {}
  <2>1. p \in C /\ \A y \in C : p <= y
    <3>1. PICK x : x \in C
          BY <1>4
    <3>2. x \in T /\ x \in Nat /\ x <= L /\ p <= x
          BY <1>1, <1>2, <3>1
    <3>3. p # L + 1
          BY <3>2
    <3>4. QED
          BY <1>1, <1>2, <3>3
  <2>2. p \in Nat /\ p < L + 1
        BY <1>1, <2>1
  <2>3. p % (L + 1) = p
        BY ONLY <2>2, L \in Nat
  <2>4. QED
        BY <1>4, <2>1, <2>3 DEF Points, p, T
<1>5. QED
      BY <1>3, <1>4

\* The nodes of a document are numbered from the root, parents first.
LEMMA DocumentNodes ==
  ASSUME NEW d, A!Document(d)
  PROVE  /\ Len(d) \in Nat \ {0} /\ DOMAIN d = 1 .. Len(d)
         /\ \A c \in 1 .. Len(d) : /\ d[c] \in A!XmlNode
                                   /\ d[c].parent \in Nat /\ d[c].parent < c
                                   /\ d[c].parent = 0 <=> c = 1
<1>1. d \in Seq(A!XmlNode) /\ d # <<>>
      BY DEF A!Document
<1>2. Len(d) \in Nat \ {0} /\ DOMAIN d = 1 .. Len(d)
      BY <1>1
<1>3. ASSUME NEW c \in 1 .. Len(d)
      PROVE  /\ d[c] \in A!XmlNode /\ d[c].parent \in Nat /\ d[c].parent < c
             /\ d[c].parent = 0 <=> c = 1
  <2>1. d[c].parent \in IF c = 1 THEN {0} ELSE 1 .. c - 1
        BY <1>2 DEF A!Document
  <2>2. c \in Nat
        OBVIOUS
  <2>3. d[c] \in A!XmlNode
        BY <1>1, <1>2
  <2>4. QED
        BY <2>1, <2>2, <2>3
<1>4. QED
      BY <1>2, <1>3

\* A node that is followed by one outside its element has no further children.
LEMMA Closed ==
  ASSUME NEW d, A!Document(d), NEW n \in 1 .. Len(d), NEW m \in 1 .. Len(d),
         NEW s \in 1 .. Len(d), n < m, m < s, d[m].parent < n
  PROVE  d[s].parent # n
BY DocumentNodes DEF A!Document

\* libxml2: the first child of a node is the node after it.
LEMMA ChildrenIs ==
  ASSUME NEW d, A!Document(d), NEW n \in 1 .. Len(d)
  PROVE  \/ A!children(d, n) = 0 /\ \A c \in 1 .. Len(d) : d[c].parent # n
         \/ A!children(d, n) = n + 1 /\ n + 1 \in 1 .. Len(d) /\ d[n + 1].parent = n
<1> DEFINE L == Len(d)
           C == {c \in DOMAIN d : d[c].parent = n}
           c == A!children(d, n)
<1>1. /\ L \in Nat /\ DOMAIN d = 1 .. L /\ n \in Nat /\ n <= L
      /\ \A m \in 1 .. L : d[m].parent \in Nat /\ d[m].parent < m
      BY DocumentNodes
<1>2. C \in SUBSET (1 .. L) /\ c = Min(C \cup {L + 1}) % (L + 1)
      BY <1>1 DEF A!Min, Min, A!children
<1>3. Points(c, C)
  <2> HIDE DEF C, c, L
  <2>1. QED
        BY <1>1, <1>2, PointerOf
<1> HIDE DEF c
<1>4. CASE C = {}
      BY <1>1, <1>3, <1>4 DEF Points, c
<1>5. CASE C # {}
  <2>1. c \in 1 .. L /\ d[c].parent = n /\ c > n
        BY <1>1, <1>3, <1>5 DEF Points
  <2>2. ASSUME n + 1 < c PROVE FALSE
    <3>1. n + 1 \in 1 .. L
          BY <1>1, <2>1, <2>2
    <3>2. d[n + 1].parent # n
          BY <1>1, <1>3, <1>5, <2>1, <2>2, <3>1 DEF Points
    <3>3. d[n + 1].parent < n /\ n < n + 1
          BY <1>1, <3>1, <3>2
    <3>4. QED
          BY <2>1, <2>2, <3>1, <3>3, Closed
  <2>3. c = n + 1
        BY <1>1, <2>1, <2>2
  <2>4. QED
        BY <2>1, <2>3 DEF c
<1>6. QED
      BY <1>4, <1>5

\* s is the sibling after n in document d.
Sibling(d, n, s) ==
  /\ s \in 1 .. Len(d) /\ n < s /\ d[s].parent = d[n].parent
  /\ \A m \in 1 .. Len(d) : n < m /\ d[m].parent = d[n].parent => s <= m

\* n is the last node of its element.
LastChild(d, n) == \A s \in 1 .. Len(d) : n < s => d[s].parent # d[n].parent

\* libxml2: the pointer to the next node is to the sibling after, or NULL.
LEMMA NextIs ==
  ASSUME NEW d, A!Document(d), NEW n \in 1 .. Len(d)
  PROVE  \/ A!next(d, n) = 0 /\ LastChild(d, n)
         \/ A!next(d, n) # 0 /\ Sibling(d, n, A!next(d, n))
<1> DEFINE L == Len(d)
           C == {s \in DOMAIN d : s > n /\ d[s].parent = d[n].parent}
           p == A!next(d, n)
<1>1. L \in Nat /\ DOMAIN d = 1 .. L /\ n \in Nat /\ n # 0
      BY DocumentNodes
<1>2. C \in SUBSET (1 .. L) /\ p = Min(C \cup {L + 1}) % (L + 1)
      BY <1>1 DEF A!Min, Min, A!next
<1>3. Points(p, C)
  <2> HIDE DEF C, p, L
  <2>1. QED
        BY <1>1, <1>2, PointerOf
<1> HIDE DEF p
<1>4. CASE C = {}
      BY <1>1, <1>3, <1>4 DEF Points, LastChild, p
<1>5. CASE C # {}
  <2>1. p \in C /\ \A y \in C : p <= y
        BY <1>3, <1>5 DEF Points
  <2>2. p # 0 /\ Sibling(d, n, p)
        BY <1>1, <2>1 DEF Sibling
  <2>3. QED
        BY <2>2 DEF p
<1>6. QED
      BY <1>4, <1>5

\* In a document the node after a node without children is its sibling, or follows the
\* element it is the last of.
LEMMA NodeAfter ==
  ASSUME NEW d, A!Document(d), NEW n \in 1 .. Len(d), NEW s,
         \A c \in 1 .. Len(d) : d[c].parent # n,
         \/ Sibling(d, n, s)
         \/ LastChild(d, n) /\ n # 1 /\ Sibling(d, d[n].parent, s)
  PROVE  s = n + 1 /\ s \in 1 .. Len(d)
<1> DEFINE L == Len(d)
           p == d[n].parent
           j == n + 1
           q == d[j].parent
<1>1. /\ L \in Nat /\ n \in Nat /\ n <= L /\ p \in Nat /\ p < n
      /\ \A m \in 1 .. L : m \in Nat /\ d[m].parent \in Nat /\ d[m].parent < m
      BY DocumentNodes
<1>2. n # 1 => p \in 1 .. L
      BY <1>1, DocumentNodes
<1>3. s \in 1 .. L /\ n < s
  <2>1. CASE Sibling(d, n, s)
        BY <2>1 DEF Sibling
  <2>2. CASE LastChild(d, n) /\ n # 1 /\ Sibling(d, p, s)
    <3>1. s \in 1 .. L /\ p < s /\ d[s].parent = d[p].parent
          BY <2>2 DEF Sibling
    <3>2. d[p].parent < p /\ p \in 1 .. L
          BY <1>1, <1>2, <2>2
    <3>3. ~ (s < n)
          BY <3>1, <3>2, Closed
    <3>4. s # n
          BY <1>1, <3>1, <3>2
    <3>5. QED
          BY <1>1, <3>1, <3>3, <3>4
  <2>3. QED
        BY <2>1, <2>2
<1>4. SUFFICES ASSUME j < s PROVE FALSE
      BY <1>1, <1>3
<1>5. j \in 1 .. L /\ n < j /\ j \in Nat
      BY <1>1, <1>3, <1>4
<1>6. q \in Nat /\ q < n /\ q # 0
  <2>1. q \in Nat /\ q < j /\ q # n /\ j # 1
        BY <1>1, <1>5
  <2>2. q # 0
        BY <1>5, <2>1, DocumentNodes
  <2>3. QED
        BY <1>1, <2>1, <2>2
<1>7. q \in 1 .. L
      BY <1>1, <1>6
\* The node after n has no parent that was opened in the element of n: they are closed.
<1>8. ~ (p < q)
      BY <1>5, <1>6, <1>7, Closed
<1>9. CASE Sibling(d, n, s)
  <2>1. d[s].parent = p /\ q # p
        BY <1>4, <1>5, <1>9, <1>1, <1>3 DEF Sibling
  <2>2. q < p /\ p \in 1 .. L
        BY <1>1, <1>6, <1>8, <2>1
  <2>3. p < j
        BY <1>1
  <2>4. QED
        BY <1>3, <1>4, <1>5, <2>1, <2>2, <2>3, Closed
<1>10. CASE LastChild(d, n) /\ n # 1 /\ Sibling(d, p, s)
  <2> DEFINE o == d[p].parent
  <2>1. q # p
        BY <1>5, <1>10 DEF LastChild
  <2>2. q < p /\ p \in 1 .. L /\ p < j
        BY <1>1, <1>2, <1>6, <1>8, <1>10, <2>1
  <2>3. o \in Nat /\ o < p /\ d[s].parent = o
        BY <1>1, <1>2, <1>10 DEF Sibling
  <2>4. q # o
        BY <1>4, <1>5, <1>10, <1>1, <1>3, <2>2 DEF Sibling
  <2>5. CASE q < o
    <3>1. o \in 1 .. L /\ o < j
          BY <1>1, <1>5, <1>6, <2>2, <2>3, <2>5
    <3>2. QED
          BY <1>3, <1>4, <1>5, <2>3, <2>5, <3>1, Closed
  <2>6. CASE o < q
        BY <1>5, <1>7, <2>2, <2>6, Closed
  <2>7. QED
        BY <1>6, <2>3, <2>4, <2>5, <2>6
<1>11. QED
       BY <1>9, <1>10

\* The last node of the root, if it has no children, is the last one.
LEMMA LastNode ==
  ASSUME NEW d, A!Document(d), NEW n \in 1 .. Len(d),
         \A c \in 1 .. Len(d) : d[c].parent # n,
         n # 1 => d[n].parent = 1 /\ LastChild(d, n)
  PROVE  n = Len(d)
<1> DEFINE L == Len(d)
           j == n + 1
           q == d[j].parent
<1>1. /\ L \in Nat /\ n \in Nat /\ n <= L
      /\ \A m \in 1 .. L : d[m].parent \in Nat /\ d[m].parent < m
      BY DocumentNodes
<1>2. SUFFICES ASSUME n < L PROVE FALSE
      BY <1>1
<1>3. j \in 1 .. L /\ n < j /\ j # 1
      BY <1>1, <1>2
<1>4. q \in Nat /\ q # n /\ q < j /\ q # 0
      BY <1>1, <1>3, DocumentNodes
<1>5. q < n /\ q \in 1 .. L /\ n # 1
      BY <1>1, <1>4
<1>6. q # 1
      BY <1>3, <1>5 DEF LastChild
<1>7. d[n].parent < q
      BY <1>4, <1>5, <1>6
<1>8. QED
      BY <1>3, <1>5, <1>7, Closed

\* Where a step of the walk is left of and what it passes: nothing, or text.
Childless(d, n) == \A c \in 1 .. Len(d) : d[c].parent # n

\* ALTOclient/ALTOclient.c: what each of the three tests does to the node n the one
\* before found.
LEMMA DownIs ==
  ASSUME NEW d, A!Document(d), NEW n \in 1 .. Len(d)
  PROVE  \/ A!Down(d, n) = n /\ Childless(d, n)
         \/ A!Down(d, n) = n + 1 /\ n + 1 \in 1 .. Len(d) /\ d[n + 1].parent = n
            /\ A!children(d, n) = n + 1
<1>1. n \in Nat /\ n + 1 # 0
      BY DocumentNodes
<1>2. QED
      BY <1>1, ChildrenIs DEF A!Down, Childless

LEMMA RightIs ==
  ASSUME NEW d, A!Document(d), NEW n \in 1 .. Len(d)
  PROVE  \/ A!Right(d, n) = n /\ (~ Childless(d, n) \/ A!next(d, n) = 0)
         \/ A!Right(d, n) = n + 1 /\ n + 1 \in 1 .. Len(d)
<1>1. n \in Nat /\ n + 1 # 0
      BY DocumentNodes
<1>2. A!children(d, n) = 0 <=> Childless(d, n)
      BY <1>1, ChildrenIs DEF Childless
<1>3. CASE Childless(d, n) /\ A!next(d, n) # 0
  <2>1. A!Right(d, n) = A!next(d, n)
        BY <1>2, <1>3 DEF A!Right
  <2>2. Sibling(d, n, A!next(d, n))
        BY <1>3, NextIs
  <2>3. QED
        BY <1>3, <2>1, <2>2, NodeAfter DEF Childless
<1>4. CASE ~ (Childless(d, n) /\ A!next(d, n) # 0)
      BY <1>2, <1>4 DEF A!Right
<1>5. QED
      BY <1>3, <1>4

LEMMA UpIs ==
  ASSUME NEW d, A!Document(d), NEW n \in 1 .. Len(d)
  PROVE  \/ A!Up(d, n) = n /\ ~ (Childless(d, n) /\ A!next(d, n) = 0)
         \/ /\ Childless(d, n) /\ A!next(d, n) = 0
            /\ \/ A!Up(d, n) = n + 1 /\ n + 1 \in 1 .. Len(d)
               \/ A!Up(d, n) = 0 /\ (A!Indented(d) => n = Len(d))
<1> DEFINE p == d[n].parent
<1>1. n \in Nat /\ n + 1 # 0 /\ p \in Nat /\ (p = 0 <=> n = 1) /\ p < n
      BY DocumentNodes
<1>2. A!children(d, n) = 0 <=> Childless(d, n)
      BY <1>1, ChildrenIs DEF Childless
<1>3. CASE Childless(d, n) /\ A!next(d, n) = 0
  <2>1. A!Up(d, n) = A!next(d, p)
        BY <1>2, <1>3 DEF A!Up
  <2>2. LastChild(d, n)
        BY <1>3, NextIs
  <2>3. CASE n = 1
    <3>1. A!Up(d, n) = 0
          BY <1>1, <2>1, <2>3 DEF A!Min, Min, A!next
    <3>2. n = Len(d)
      <4>1. \A k \in 1 .. Len(d) : d[k].parent # n
            BY <1>3 DEF Childless
      <4>2. QED
            BY <2>3, <4>1, LastNode
    <3>3. QED
          BY <1>3, <3>1, <3>2
  <2>4. CASE n # 1 /\ A!next(d, p) # 0
    <3>1. p \in 1 .. Len(d)
          BY <1>1, <2>4, DocumentNodes
    <3>2. Sibling(d, p, A!next(d, p))
          BY <2>4, <3>1, NextIs
    <3>3. A!next(d, p) = n + 1 /\ A!next(d, p) \in 1 .. Len(d)
      <4>1. \A k \in 1 .. Len(d) : d[k].parent # n
            BY <1>3 DEF Childless
      <4>2. QED
            BY <2>2, <2>4, <3>2, <4>1, NodeAfter
    <3>4. QED
          BY <1>3, <2>1, <3>3
  <2>5. CASE n # 1 /\ A!next(d, p) = 0
    <3>1. p \in 1 .. Len(d) /\ DOMAIN d = 1 .. Len(d)
          BY <1>1, <2>5, DocumentNodes
    <3>2. d[p].name # "text"
          BY <2>5, <3>1, DocumentNodes DEF A!Document
    <3>3. ASSUME A!Indented(d) PROVE n = Len(d)
      <4>1. d[p].parent = 0
            BY <2>5, <3>1, <3>2, <3>3 DEF A!Indented
      <4>2. p = 1
            BY <3>1, <4>1, DocumentNodes
      <4>3. QED
            BY <1>3, <2>2, <4>2, LastNode DEF Childless
    <3>4. QED
          BY <1>3, <2>1, <2>5, <3>3
  <2>6. QED
        BY <2>3, <2>4, <2>5
<1>4. CASE ~ (Childless(d, n) /\ A!next(d, n) = 0)
      BY <1>2, <1>4 DEF A!Up
<1>5. QED
      BY <1>3, <1>4

\* The walk goes from node n to node m, or ends (0), and passes nothing but text.
OnlyText(d, n, m) ==
  \A k \in 1 .. Len(d) : n < k /\ (m = 0 \/ k < m) => d[k].name = "text"

\* ALTOclient/ALTOclient.c: a turn of the walk goes on in the document, and in an indented
\* one loses no element.
LEMMA WalkIs ==
  ASSUME NEW d, A!Document(d), NEW n \in 1 .. Len(d)
  PROVE  /\ \/ A!Walk(d, n) = 0
            \/ A!Walk(d, n) \in 1 .. Len(d) /\ n < A!Walk(d, n)
         /\ A!Indented(d) => OnlyText(d, n, A!Walk(d, n))
<1> DEFINE L == Len(d)
           a == A!Down(d, n)
           b == A!Right(d, a)
           c == A!Up(d, b)
<1>1. A!Walk(d, n) = c /\ n \in Nat /\ L \in Nat
      BY DocumentNodes DEF A!Walk
<1>2. /\ a \in 1 .. L
      /\ \/ a = n /\ Childless(d, n)
         \/ a = n + 1 /\ d[a].parent = n /\ A!children(d, n) = a
      BY DownIs
<1> HIDE DEF a
<1>3. /\ b \in 1 .. L
      /\ \/ b = a /\ (~ Childless(d, a) \/ A!next(d, a) = 0)
         \/ b = a + 1
      BY <1>2, RightIs
<1> HIDE DEF b
<1>4. \/ c = b /\ ~ (Childless(d, b) /\ A!next(d, b) = 0)
      \/ /\ Childless(d, b) /\ A!next(d, b) = 0
         /\ \/ c = b + 1 /\ c \in 1 .. L
            \/ c = 0 /\ (A!Indented(d) => b = L)
      BY <1>3, UpIs
<1> HIDE DEF c
<1>5. c = 0 \/ (c \in 1 .. L /\ n < c)
      BY <1>1, <1>2, <1>3, <1>4
<1>6. ASSUME A!Indented(d) PROVE OnlyText(d, n, c)
  <2>1. ASSUME a # n PROVE d[a].name = "text"
    <3>1. a \in DOMAIN d /\ d[a].parent # 0 /\ A!children(d, d[a].parent) = a
          BY <1>1, <1>2, <2>1, DocumentNodes
    <3>2. QED
          BY <1>6, <3>1 DEF A!Indented
  <2>2. ASSUME b # n, c # b PROVE d[b].name = "text"
    <3>1. b \in DOMAIN d /\ d[b].parent # 0
      <4>1. b # 1
            BY <1>1, <1>2, <1>3, <2>2
      <4>2. QED
            BY <1>3, <4>1, DocumentNodes
    <3>2. A!next(d, b) = 0
          BY <1>4, <2>2
    <3>3. QED
          BY <1>6, <3>1, <3>2 DEF A!Indented
  <2>3. SUFFICES ASSUME NEW k \in 1 .. L, n < k, c = 0 \/ k < c
                 PROVE  d[k].name = "text"
        BY DEF OnlyText
  <2>4. (k = a /\ a # n) \/ (k = b /\ b # n /\ c # b)
        BY <1>1, <1>2, <1>3, <1>4, <1>6, <2>3
  <2>5. QED
        BY <2>1, <2>2, <2>4
<1>7. QED
      BY <1>1, <1>5, <1>6

-----------------------------------------------------------------------------
(* What is read from a reply.                                               *)

\* The ratings an address may get.
GroupRatings(d) == {0} \cup {d[m].rating : m \in DOMAIN d}

\* The database element of a prefix.
PrefixOf(d, n, r) == [host |-> d[n].host, mask |-> d[n].mask, rating |-> r]

\* What the walk reads from node n on after a group with rating r.
ReadFrom(d, n, r, f) ==
  IF n = 0 THEN <<>>
  ELSE IF d[n].name = "cnd_hla" THEN f[A!Walk(d, n)][d[n].rating]
  ELSE IF d[n].name = "ipprefix" THEN <<PrefixOf(d, n, r)>> \o f[A!Walk(d, n)][r]
  ELSE f[A!Walk(d, n)][r]

\* f is the result of the walk from each node with each rating.
Reads(f, d) ==
  \A n \in 0 .. Len(d), r \in GroupRatings(d) :
    f[n][r] \in A!DB /\ f[n][r] = ReadFrom(d, n, r, f)

\* ALTOclient/ALTOclient.c: the loop of alto_parse_from_XML ends, and its result is what
\* the recursion says.
LEMMA ReadExists ==
  ASSUME NEW d, A!Document(d)
  PROVE  /\ A!alto_parse_from_XML(d) \in A!DB
         /\ \E f : Reads(f, d) /\ A!alto_parse_from_XML(d) = f[1][0]
<1> DEFINE L == Len(d)
           X == 0 .. L
           Rs == GroupRatings(d)
           V == [Rs -> A!DB]
           value(n, g) == [r \in Rs |-> ReadFrom(d, n, r, g)]
           iter == CHOOSE f : f = [n \in X |-> value(n, f)]
           rank == [n \in X |-> IF n = 0 THEN 0 ELSE L + 1 - n]
           step == [n \in X |-> [g \in [X -> V] |-> value(n, g)]]
<1>1. /\ L \in Nat /\ rank \in [X -> 0 .. L] /\ <<>> \in A!DB
      /\ Rs \subseteq Int /\ 0 \in Rs
      /\ \A n \in 1 .. L : /\ d[n].rating \in Rs
                           /\ d[n].host \in Nat /\ d[n].mask \in Nat
  <2>1. L \in Nat /\ DOMAIN d = 1 .. L
        BY DocumentNodes
  <2>2. \A n \in 1 .. L : d[n].rating \in Int /\ d[n].host \in Nat /\ d[n].mask \in Nat
        BY DocumentNodes DEF A!XmlNode
  <2>3. Rs \subseteq Int /\ 0 \in Rs /\ \A n \in 1 .. L : d[n].rating \in Rs
        BY <2>1, <2>2 DEF GroupRatings
  <2> HIDE DEF Rs, L
  <2>4. rank \in [X -> 0 .. L]
        BY <2>1
  <2>5. QED
        BY <2>1, <2>2, <2>3, <2>4 DEF A!DB
<1> HIDE DEF L, Rs
<1>2. ASSUME NEW n \in X, n # 0
      PROVE  A!Walk(d, n) \in X /\ rank[A!Walk(d, n)] < rank[n]
  <2>1. n \in 1 .. L /\ n \in Nat
        BY <1>1, <1>2
  <2>2. A!Walk(d, n) = 0 \/ (A!Walk(d, n) \in 1 .. L /\ n < A!Walk(d, n))
        BY <2>1, WalkIs DEF L
  <2>3. QED
        BY <1>1, <1>2, <2>1, <2>2
<1>3. ASSUME NEW n \in X, NEW g, n # 0 => g[A!Walk(d, n)] \in V, NEW r \in Rs
      PROVE  ReadFrom(d, n, r, g) \in A!DB
  <2>1. CASE n = 0
        BY <1>1, <2>1 DEF ReadFrom
  <2>2. CASE n # 0
    <3>1. n \in 1 .. L
          BY <1>1, <2>2
    <3>2. d[n].rating \in Rs /\ g[A!Walk(d, n)] \in V
          BY <1>1, <1>3, <2>2, <3>1
    <3>3. g[A!Walk(d, n)][d[n].rating] \in A!DB /\ g[A!Walk(d, n)][r] \in A!DB
          BY <3>2
    <3>4. <<PrefixOf(d, n, r)>> \o g[A!Walk(d, n)][r] \in A!DB
      <4>1. PrefixOf(d, n, r) \in [host : Nat, mask : Nat, rating : Int]
            BY <1>1, <3>1 DEF PrefixOf
      <4> DEFINE t == g[A!Walk(d, n)][r]
                 e == PrefixOf(d, n, r)
      <4> HIDE DEF t, e
      <4>2. <<e>> \o t \in A!DB
            BY <3>3, <4>1 DEF A!DB, t, e
      <4>3. QED
            BY <4>2 DEF t, e
    <3>5. QED
          BY <2>2, <3>3, <3>4 DEF ReadFrom
  <2>3. QED
        BY <2>1, <2>2
<1>4. step \in [X -> [[X -> V] -> V]]
      BY <1>2, <1>3
<1>5. FromLower(X, V, rank, step)
  <2> SUFFICES ASSUME NEW n \in X, NEW g \in [X -> V], NEW h \in [X -> V],
                      \A m \in X : rank[m] < rank[n] => g[m] = h[m]
               PROVE  value(n, g) = value(n, h)
      BY DEF FromLower
  <2>1. n # 0 => g[A!Walk(d, n)] = h[A!Walk(d, n)]
        BY <1>2
  <2>2. \A r \in Rs : ReadFrom(d, n, r, g) = ReadFrom(d, n, r, h)
        BY <2>1 DEF ReadFrom
  <2>3. QED
        BY <2>2
<1>6. PICK f \in [X -> V] : Solves(f, X, step)
  <2>1. [r \in Rs |-> <<>>] \in V
        BY <1>1
  <2> HIDE DEF rank, step, X, V
  <2>2. QED
        BY <1>1, <1>4, <1>5, <2>1, Recursion
<1>7. f = [n \in X |-> value(n, f)]
  <2>1. \A n \in X : f[n] = value(n, f)
        BY <1>6 DEF Solves
  <2> HIDE DEF value
  <2>2. QED
        BY <2>1
<1>8. iter = [n \in X |-> value(n, iter)]
      BY <1>7
<1>9. A!alto_parse_from_XML(d) = iter[1][0]
      BY Zenon DEF A!alto_parse_from_XML, L, Rs, GroupRatings, PrefixOf, ReadFrom
<1> HIDE DEF iter
<1>10. \A n \in X : iter[n] = value(n, iter)
       BY <1>8
<1> DEFINE S == {k \in Nat : \A n \in X : rank[n] < k => iter[n] \in V}
<1>11. 0 \in S
       BY <1>1
<1>12. ASSUME NEW k \in Nat, k \in S
       PROVE  k + 1 \in S
  <2>1. SUFFICES ASSUME NEW n \in X, rank[n] < k + 1 PROVE iter[n] \in V
        OBVIOUS
  <2>2. n # 0 => iter[A!Walk(d, n)] \in V
    <3>1. \A m \in X : rank[m] \in Nat
          BY <1>1
    <3>2. n # 0 => A!Walk(d, n) \in X /\ rank[A!Walk(d, n)] < rank[n]
          BY <1>2
    <3>3. n # 0 => rank[A!Walk(d, n)] < k
      <4>1. \A i, j \in Nat : i < j /\ j < k + 1 => i < k
            OBVIOUS
      <4>2. QED
            BY <2>1, <3>1, <3>2, <4>1
    <3>4. QED
          BY <1>12, <3>2, <3>3
  <2>3. value(n, iter) \in V
        BY <1>3, <2>2
  <2>4. QED
        BY <1>10, <2>3
<1>13. L + 1 \in S
  <2> HIDE DEF S
  <2>1. QED
        BY <1>1, <1>11, <1>12, Induction
<1>14. \A n \in X : iter[n] \in V
  <2>1. \A n \in X : rank[n] < L + 1
        BY <1>1
  <2>2. QED
        BY <1>13, <2>1
<1>15. Reads(iter, d)
  <2>1. ASSUME NEW n \in X, NEW r \in Rs
        PROVE  iter[n][r] \in A!DB /\ iter[n][r] = ReadFrom(d, n, r, iter)
        BY <1>10, <1>14
  <2>2. QED
        BY <2>1 DEF Reads, L, Rs
<1>16. iter[1][0] \in A!DB
  <2>1. 1 \in X
        BY DocumentNodes DEF L
  <2>2. QED
        BY <1>1, <1>14, <2>1
<1>17. QED
       BY <1>9, <1>15, <1>16

Element == [host : Nat, mask : Nat, rating : Int]

\* The indices of the elements with an address.
NamedIn(db, addr) == {i \in DOMAIN db : db[i].host = addr}

\* ALTOclient/ALTOclient.c: the first element with the address is the one that counts.
LEMMA AskEmpty == \A addr : A!ask_helper_func(addr, <<>>) = 0
BY DEF A!Min, Min, A!ask_helper_func

LEMMA AskFirst ==
  ASSUME NEW e \in Element, NEW t \in A!DB, NEW addr
  PROVE  A!ask_helper_func(addr, <<e>> \o t)
           = IF e.host = addr THEN e.rating ELSE A!ask_helper_func(addr, t)
<1> DEFINE s == <<e>> \o t
           n == Len(t)
           I == NamedIn(s, addr)
           J == NamedIn(t, addr)
<1>1. t \in Seq(Element) /\ n \in Nat /\ DOMAIN t = 1 .. n
      BY DEF A!DB, Element
<1>2. /\ s \in Seq(Element) /\ Len(s) = n + 1
      /\ s[1] = e /\ \A i \in 1 .. n : s[i + 1] = t[i]
  <2>1. <<e>> \in Seq(Element) /\ Len(<<e>>) = 1 /\ <<e>>[1] = e
        OBVIOUS
  <2> DEFINE q == <<e>>
  <2> HIDE DEF q
  <2>2. /\ q \o t \in Seq(Element) /\ Len(q \o t) = Len(q) + n
        /\ \A i \in 1 .. Len(q) + n : (q \o t)[i] = IF i <= Len(q) THEN q[i] ELSE t[i - Len(q)]
        BY <1>1, <2>1, ConcatProperties DEF q
  <2>3. Len(q) = 1 /\ q[1] = e
        BY <2>1 DEF q
  <2>4. 1 \in 1 .. 1 + n /\ \A i \in 1 .. n : /\ i + 1 \in 1 .. 1 + n
                                             /\ ~ (i + 1 <= 1) /\ i + 1 - 1 = i
        BY <1>1
  <2>5. /\ (q \o t) \in Seq(Element) /\ Len(q \o t) = n + 1
        /\ (q \o t)[1] = e /\ \A i \in 1 .. n : (q \o t)[i + 1] = t[i]
        BY <1>1, <2>2, <2>3, <2>4
  <2>6. QED
        BY <2>5 DEF q
<1>3. /\ A!ask_helper_func(addr, s) = IF I = {} THEN 0 ELSE s[Min(I)].rating
      /\ A!ask_helper_func(addr, t) = IF J = {} THEN 0 ELSE t[Min(J)].rating
      BY Zenon DEF A!Min, Min, A!ask_helper_func, NamedIn
<1> HIDE DEF s, n
<1>4. /\ DOMAIN s = 1 .. n + 1
      /\ \A i \in I : i \in 1 .. n + 1 /\ s[i].host = addr
      /\ \A i \in 1 .. n + 1 : s[i].host = addr => i \in I
      /\ \A i \in J : i \in 1 .. n /\ t[i].host = addr
      /\ \A i \in 1 .. n : t[i].host = addr => i \in J
      BY <1>1, <1>2 DEF NamedIn
<1> HIDE DEF I, J
<1>5. I \subseteq Nat /\ J \subseteq Nat
      BY <1>1, <1>4
<1>6. CASE e.host = addr
  <2>1. 1 \in I
        BY <1>1, <1>2, <1>4, <1>6
  <2>2. Min(I) \in I /\ Min(I) <= 1
        BY <1>5, <2>1, MinOf
  <2>3. Min(I) = 1
        BY <1>4, <2>2
  <2>4. QED
        BY <1>2, <1>3, <1>6, <2>1, <2>3 DEF s
<1>7. CASE e.host # addr
  <2>1. \A i \in 1 .. n : i \in J <=> i + 1 \in I
        BY <1>1, <1>2, <1>4
  <2>2. 1 \notin I
        BY <1>2, <1>4, <1>7
  <2>3. ASSUME NEW i \in I PROVE i - 1 \in J /\ i - 1 + 1 = i
    <3>1. i \in 1 .. n + 1 /\ i # 1
          BY <1>4, <2>2
    <3>2. i - 1 \in 1 .. n /\ i - 1 + 1 = i
          BY <1>1, <3>1
    <3>3. QED
          BY <2>1, <3>2
  <2>4. CASE J = {}
    <3>1. I = {}
          BY <2>3, <2>4
    <3>2. QED
          BY <1>3, <1>7, <2>4, <3>1 DEF s
  <2>5. CASE J # {}
    <3> DEFINE j == Min(J)
               i == Min(I)
    <3>1. j \in J /\ \A y \in J : j <= y
          BY <1>5, <2>5, MinOf
    <3> HIDE DEF j
    <3>2. j + 1 \in I /\ j \in 1 .. n
          BY <1>4, <2>1, <3>1
    <3>3. i \in I /\ \A y \in I : i <= y
          BY <1>5, <3>2, MinOf
    <3> HIDE DEF i
    <3>4. i <= j + 1 /\ j <= i - 1
          BY <2>3, <3>1, <3>2, <3>3
    <3>5. i = j + 1
      <4>1. i \in Nat /\ j \in Nat
            BY <1>5, <3>1, <3>3
      <4>2. QED
            BY <3>4, <4>1
    <3>6. s[i].rating = t[j].rating
          BY <1>2, <3>2, <3>5
    <3>7. QED
          BY <1>3, <1>7, <2>5, <3>2, <3>6 DEF s, i, j
  <2>6. QED
        BY <2>4, <2>5
<1>8. QED
      BY <1>6, <1>7

\* In a grouped document nothing of another group is between a group and its prefixes.
LEMMA InGroup ==
  ASSUME NEW d, A!Document(d), A!Grouped(d), NEW n \in 1 .. Len(d), d[n].name = "ipprefix"
  PROVE  /\ d[n].parent \in 1 .. Len(d) /\ d[n].parent < n
         /\ d[d[n].parent].name = "cnd_hla"
         /\ \A m \in 1 .. Len(d) : d[n].parent < m /\ m < n => d[m].name # "cnd_hla"
<1> DEFINE L == Len(d)
           g == d[n].parent
           Bad == {m \in 1 .. L : g < m /\ m < n /\ d[m].name \notin {"ipprefix", "text"}}
<1>1. /\ L \in Nat /\ DOMAIN d = 1 .. L /\ n \in Nat /\ n <= L
      /\ \A m \in 1 .. L : m \in Nat /\ d[m].parent \in Nat /\ d[m].parent < m
      BY DocumentNodes
<1>2. g # 0 /\ d[g].name = "cnd_hla"
      BY <1>1 DEF A!Grouped
<1>3. g \in 1 .. L /\ g < n
      BY <1>1, <1>2
<1>4. ASSUME Bad # {} PROVE FALSE
  <2>1. PICK m \in Bad : \A k \in Bad : m <= k
        BY <1>1, <1>4, LeastNumber
  <2> DEFINE p == d[m].parent
  <2>2. m \in 1 .. L /\ g < m /\ m < n /\ p \in Nat /\ p < m
        BY <1>1, <2>1
  <2>3. ~ (p < g)
        BY <1>3, <2>2, Closed
  <2>4. p \in 1 .. L /\ p \in DOMAIN d /\ m \in DOMAIN d /\ p # 0
        BY <1>1, <1>3, <2>2, <2>3
  <2>5. CASE p = g
        BY <1>2, <2>1, <2>4, <2>5 DEF A!Grouped
  <2>6. CASE g < p
    <3>1. d[p].name \in {"ipprefix", "text"}
      <4>1. p \notin Bad
            BY <2>1, <2>2, <2>4
      <4>2. QED
            BY <1>1, <2>2, <2>4, <2>6, <4>1
    <3>2. d[p].name # "ipprefix"
          BY <2>4 DEF A!Grouped
    <3>3. m # 1
          BY <1>3, <2>2
    <3>4. d[p].name # "text"
          BY <2>4, <3>3 DEF A!Document
    <3>5. QED
          BY <3>1, <3>2, <3>4
  <2>7. QED
        BY <1>1, <1>3, <2>2, <2>3, <2>5, <2>6
<1>5. QED
      BY <1>2, <1>3, <1>4

\* The prefixes with an address from node n on, and the rating of the first one.
PrefixesFrom(d, n, addr) ==
  {k \in n .. Len(d) : d[k].name = "ipprefix" /\ d[k].host = addr}

RatingFrom(d, n, addr) ==
  LET named == PrefixesFrom(d, n, addr)
  IN  IF named = {} THEN 0 ELSE d[d[Min(named)].parent].rating

\* From node n on, r is the rating of each prefix before the next group.
Current(d, n, r) ==
  \A k \in n .. Len(d) :
    d[k].name = "ipprefix" /\ (\A m \in n .. k - 1 : d[m].name # "cnd_hla")
      => d[d[k].parent].rating = r

\* The walk brings the rating of a group to its prefixes.
LEMMA CurrentNext ==
  ASSUME NEW d, A!Document(d), A!Grouped(d), NEW n \in 1 .. Len(d), NEW r, Current(d, n, r),
         NEW m \in 1 .. Len(d), n < m, OnlyText(d, n, m)
  PROVE  Current(d, m, IF d[n].name = "cnd_hla" THEN d[n].rating ELSE r)
<1>1. /\ Len(d) \in Nat /\ n \in Nat /\ m \in Nat
      BY DocumentNodes
<1>2. SUFFICES ASSUME NEW k \in m .. Len(d), d[k].name = "ipprefix",
                      \A i \in m .. k - 1 : d[i].name # "cnd_hla"
               PROVE  d[d[k].parent].rating = IF d[n].name = "cnd_hla" THEN d[n].rating ELSE r
      BY DEF Current
<1>3. k \in 1 .. Len(d) /\ k \in n .. Len(d) /\ k \in Nat /\ n < k
      BY <1>1
<1>4. \A i \in n .. k - 1 : i # n => d[i].name # "cnd_hla"
  <2>1. SUFFICES ASSUME NEW i \in n .. k - 1, i # n PROVE d[i].name # "cnd_hla"
        OBVIOUS
  <2>2. CASE i < m
    <3>1. i \in 1 .. Len(d) /\ n < i
          BY <1>1, <1>3, <2>1
    <3>2. QED
          BY <2>2, <3>1 DEF OnlyText
  <2>3. CASE m <= i
        BY <1>1, <1>2, <1>3, <2>3
  <2>4. QED
        BY <1>1, <1>3, <2>2, <2>3
<1>5. CASE d[n].name = "cnd_hla"
  <2> DEFINE g == d[k].parent
  <2>1. /\ g \in 1 .. Len(d) /\ g < k /\ d[g].name = "cnd_hla"
        /\ \A i \in 1 .. Len(d) : g < i /\ i < k => d[i].name # "cnd_hla"
        BY <1>2, <1>3, InGroup
  <2>2. ~ (n < g)
        BY <1>1, <1>3, <1>4, <2>1
  <2>3. ~ (g < n)
        BY <1>3, <1>5, <2>1
  <2>4. g = n
        BY <1>1, <2>1, <2>2, <2>3
  <2>5. QED
        BY <1>5, <2>4
<1>6. CASE d[n].name # "cnd_hla"
      BY <1>2, <1>3, <1>4, <1>6 DEF Current
<1>7. QED
      BY <1>5, <1>6

\* What is read from node n on.
ReadsRight(d, f, n, addr) ==
  \A r \in GroupRatings(d) :
    Current(d, n, r) => A!ask_helper_func(addr, f[n][r]) = RatingFrom(d, n, addr)

\* Text names no address.
LEMMA RatingNext ==
  ASSUME NEW d, A!Document(d), NEW n \in 1 .. Len(d), NEW m \in {0} \cup 1 .. Len(d),
         m # 0 => n < m, OnlyText(d, n, m), NEW addr
  PROVE  LET first == d[n].name = "ipprefix" /\ d[n].host = addr IN
         RatingFrom(d, n, addr) = IF first THEN d[d[n].parent].rating
                                  ELSE IF m = 0 THEN 0 ELSE RatingFrom(d, m, addr)
<1> DEFINE first == d[n].name = "ipprefix" /\ d[n].host = addr
           N == PrefixesFrom(d, n, addr)
<1>1. Len(d) \in Nat /\ n \in Nat /\ m \in Nat
      BY DocumentNodes
<1>2. ASSUME NEW k \in n .. Len(d), k # n, m = 0 \/ k < m
      PROVE  d[k].name # "ipprefix"
  <2>1. k \in 1 .. Len(d) /\ n < k
        BY <1>1, <1>2
  <2>2. QED
        BY <1>2, <2>1 DEF OnlyText
<1>3. RatingFrom(d, n, addr) = IF N = {} THEN 0 ELSE d[d[Min(N)].parent].rating
      BY DEF RatingFrom
<1>4. CASE first
  <2>1. n \in N /\ N \subseteq Nat /\ \A k \in N : n <= k
        BY <1>1, <1>4 DEF PrefixesFrom
  <2> HIDE DEF N
  <2>2. Min(N) \in N /\ Min(N) <= n
        BY <2>1, MinOf
  <2>3. Min(N) \in Nat /\ n <= Min(N)
        BY <2>1, <2>2
  <2>4. Min(N) = n
        BY ONLY <1>1, <2>2, <2>3
  <2>5. QED
        BY <1>3, <1>4, <2>1, <2>4
<1>5. CASE ~ first /\ m = 0
  <2>1. N = {}
        BY <1>2, <1>5 DEF PrefixesFrom
  <2>2. QED
        BY <1>3, <1>5, <2>1
<1>6. CASE ~ first /\ m # 0
  <2>1. ASSUME NEW k \in N PROVE k \in PrefixesFrom(d, m, addr)
        BY <1>1, <1>2, <1>6 DEF PrefixesFrom
  <2>2. ASSUME NEW k \in PrefixesFrom(d, m, addr) PROVE k \in N
        BY <1>1, <1>6 DEF PrefixesFrom
  <2>3. N = PrefixesFrom(d, m, addr)
        BY <2>1, <2>2
  <2>4. QED
        BY <1>6, <2>3 DEF RatingFrom
<1>7. QED
      BY <1>4, <1>5, <1>6

\* ALTOclient/ALTOclient.c: the database read from an indented reply gives each address the
\* rating of the group that names it first.
LEMMA ReadAs ==
  ASSUME NEW d, A!Document(d), A!Indented(d), A!Grouped(d), NEW addr
  PROVE  A!ask_helper_func(addr, A!alto_parse_from_XML(d)) = A!GroupRating(d, addr)
<1> DEFINE L == Len(d)
<1>1. PICK f : Reads(f, d) /\ A!alto_parse_from_XML(d) = f[1][0]
      BY ReadExists
<1>2. L \in Nat /\ L # 0 /\ DOMAIN d = 1 .. L
      BY DocumentNodes
<1> DEFINE S == {k \in Nat : \A n \in 1 .. L : L - n < k => ReadsRight(d, f, n, addr)}
<1>3. 0 \in S
  <2>1. \A n \in 1 .. L : ~ (L - n < 0)
        BY <1>2
  <2>2. QED
        BY <2>1
<1>4. ASSUME NEW j \in Nat, j \in S PROVE j + 1 \in S
  <2>1. SUFFICES ASSUME NEW n \in 1 .. L, L - n < j + 1,
                        NEW r \in GroupRatings(d), Current(d, n, r)
                 PROVE  A!ask_helper_func(addr, f[n][r]) = RatingFrom(d, n, addr)
        BY DEF ReadsRight
  <2> DEFINE m == A!Walk(d, n)
             q == IF d[n].name = "cnd_hla" THEN d[n].rating ELSE r
             e == PrefixOf(d, n, r)
  <2>2. /\ m \in {0} \cup 1 .. L /\ (m # 0 => n < m)
        /\ OnlyText(d, n, m)
        BY WalkIs
  <2> HIDE DEF m
  <2>3. q \in GroupRatings(d) /\ n \in 0 .. L /\ n # 0
        BY <1>2 DEF GroupRatings
  <2>4. m # 0 => Current(d, m, q)
        BY <2>1, <2>2, CurrentNext
  <2> HIDE DEF q
  <2>5. /\ f[m][q] \in A!DB
        /\ A!ask_helper_func(addr, f[m][q]) = IF m = 0 THEN 0 ELSE RatingFrom(d, m, addr)
    <3>1. m \in 0 .. L
          BY <1>2, <2>2
    <3>2. f[m][q] \in A!DB /\ f[m][q] = ReadFrom(d, m, q, f)
          BY <1>1, <2>3, <3>1 DEF Reads
    <3>3. CASE m = 0
          BY <3>2, <3>3, AskEmpty DEF ReadFrom
    <3>4. CASE m # 0
      <4>1. m \in 1 .. L /\ L - m < j
            BY <1>2, <2>1, <2>2, <3>4
      <4>2. ReadsRight(d, f, m, addr)
            BY <1>4, <4>1
      <4>3. QED
            BY <2>3, <2>4, <3>2, <3>4, <4>2 DEF ReadsRight
    <3>5. QED
          BY <3>3, <3>4
  <2>6. f[n][r] = ReadFrom(d, n, r, f)
        BY <1>1, <2>3 DEF Reads
  <2>7. CASE d[n].name = "ipprefix"
    <3>1. q = r /\ f[n][r] = <<e>> \o f[m][q]
          BY <2>3, <2>6, <2>7 DEF ReadFrom, m, q
    <3>2. e \in Element /\ e.host = d[n].host /\ e.rating = r
      <4>1. d[n] \in A!XmlNode /\ GroupRatings(d) \subseteq Int
            BY DocumentNodes DEF GroupRatings, A!XmlNode
      <4>2. QED
            BY <4>1 DEF PrefixOf, Element, A!XmlNode
    <3> HIDE DEF e
    <3>3. A!ask_helper_func(addr, f[n][r])
            = IF e.host = addr THEN e.rating ELSE A!ask_helper_func(addr, f[m][q])
          BY <2>5, <3>1, <3>2, AskFirst
    <3>4. d[d[n].parent].rating = r
          BY <1>2, <2>1, <2>7 DEF Current
    <3>5. QED
          BY <2>2, <2>5, <2>7, <3>2, <3>3, <3>4, RatingNext
  <2>8. CASE d[n].name # "ipprefix"
    <3>1. f[n][r] = f[m][q]
          BY <2>3, <2>6, <2>8 DEF ReadFrom, m, q
    <3>2. QED
          BY <2>2, <2>5, <2>8, <3>1, RatingNext
  <2>9. QED
        BY <2>7, <2>8
<1>5. L + 1 \in S
  <2> HIDE DEF S, L
  <2>1. QED
        BY <1>2, <1>3, <1>4, Induction
<1>6. ReadsRight(d, f, 1, addr)
      BY <1>2, <1>5
<1>7. Current(d, 1, 0)
  <2>1. ASSUME NEW k \in 1 .. L, d[k].name = "ipprefix"
        PROVE  \E i \in 1 .. k - 1 : d[i].name = "cnd_hla"
        BY <1>2, <2>1, InGroup
  <2>2. QED
        BY <2>1 DEF Current
<1>8. 0 \in GroupRatings(d)
      BY DEF GroupRatings
<1>9. PrefixesFrom(d, 1, addr) = {n \in DOMAIN d : d[n].name = "ipprefix" /\ d[n].host = addr}
      BY <1>2 DEF PrefixesFrom
<1>10. RatingFrom(d, 1, addr) = A!GroupRating(d, addr)
  <2>1. A!Min(PrefixesFrom(d, 1, addr)) = Min(PrefixesFrom(d, 1, addr))
        BY DEF A!Min, Min
  <2>2. QED
        BY <1>9, <2>1, Zenon DEF RatingFrom, A!GroupRating
<1>11. QED
       BY <1>1, <1>6, <1>7, <1>8, <1>10 DEF ReadsRight

-----------------------------------------------------------------------------
(* The longest prefix.                                                      *)

\* ALTOclient/ALTOclient.c: ratings are numbers.
LEMMA AskType ==
  ASSUME NEW db \in A!DB, NEW addr
  PROVE  A!ask_helper_func(addr, db) \in Int
<1> DEFINE I == NamedIn(db, addr)
<1>1. db \in Seq(Element) /\ Len(db) \in Nat /\ DOMAIN db = 1 .. Len(db)
      BY DEF A!DB, Element
<1>2. I \subseteq Nat /\ \A i \in I : i \in 1 .. Len(db)
      BY <1>1 DEF NamedIn
<1>3. A!ask_helper_func(addr, db) = IF I = {} THEN 0 ELSE db[Min(I)].rating
      BY DEF A!Min, Min, A!ask_helper_func, NamedIn
<1> HIDE DEF I
<1>4. CASE I = {}
      BY <1>3, <1>4
<1>5. CASE I # {}
  <2>1. Min(I) \in 1 .. Len(db)
        BY <1>2, <1>5, MinOf
  <2>2. db[Min(I)] \in Element
        BY <1>1, <2>1
  <2>3. QED
        BY <1>3, <1>5, <2>2 DEF Element
<1>6. QED
      BY <1>4, <1>5

\* The rating of the largest of the numbers s, 0 without one.
RatingOfMax(g, s) == IF s = {} THEN 0 ELSE g[Max(s)]

\* Those of the numbers s which have a rating.
RatedOf(g, s) == {p \in s : g[p] # 0}

\* One turn of the loop over the masks.
Turn(g, m, h, i) ==
  IF i = 0 THEN 0
  ELSE LET check == g[IF i = m THEN i ELSE i + 1]
       IN  IF check = 0 THEN h[i - 1] ELSE check

\* The largest of the numbers below k + 1 is k, when it is one of them.
LEMMA LargestLast ==
  ASSUME NEW g, NEW k \in Nat \ {0}, NEW s \in SUBSET (1 .. k), g[k] # 0 => k \in s
  PROVE  RatingOfMax(g, RatedOf(g, s))
           = IF g[k] # 0 THEN g[k] ELSE RatingOfMax(g, RatedOf(g, s \ {k}))
<1> DEFINE T == RatedOf(g, s)
<1>1. T \in SUBSET (1 .. k) /\ k \in Nat
      BY DEF RatedOf
<1>2. CASE g[k] # 0
  <2>1. k \in T
        BY <1>2 DEF RatedOf
  <2> HIDE DEF T
  <2>2. Max(T) \in T /\ \A x \in T : x <= Max(T)
        BY <1>1, <2>1, MaxOfSubset
  <2>3. Max(T) \in 1 .. k /\ k <= Max(T)
        BY <1>1, <2>1, <2>2
  <2>4. Max(T) = k
        BY ONLY <1>1, <2>3
  <2>5. QED
        BY <1>2, <2>1, <2>4 DEF RatingOfMax, T
<1>3. CASE g[k] = 0
  <2>1. RatedOf(g, s \ {k}) = T
        BY <1>3 DEF RatedOf
  <2>2. QED
        BY <1>3, <2>1
<1>4. QED
      BY <1>2, <1>3

\* The loop finds the rating of the largest mask that has one.
LEMMA LoopFinds ==
  ASSUME NEW m \in Nat, NEW g, NEW try, \A i \in 0 .. m : try[i] = Turn(g, m, try, i)
  PROVE  try[m] = RatingOfMax(g, RatedOf(g, (2 .. m) \cup ({m} \ {0})))
<1> DEFINE Found(i) == try[i] = RatingOfMax(g, RatedOf(g, 2 .. i + 1))
           S == {i \in Nat : i < m => Found(i)}
<1>1. try[0] = 0
      BY DEF Turn
<1>2. 0 \in S
  <2>1. RatedOf(g, 2 .. 0 + 1) = {}
        BY DEF RatedOf
  <2>2. QED
        BY <1>1, <2>1 DEF RatingOfMax
<1>3. ASSUME NEW i \in Nat, i \in S PROVE i + 1 \in S
  <2>1. SUFFICES ASSUME i + 1 < m PROVE Found(i + 1)
        OBVIOUS
  <2>2. Found(i) /\ i + 1 \in 0 .. m /\ i + 1 # m /\ i + 1 # 0 /\ (i + 1) - 1 = i
        BY <1>3, <2>1
  <2>3. try[i + 1] = IF g[(i + 1) + 1] = 0 THEN try[i] ELSE g[(i + 1) + 1]
        BY <2>2 DEF Turn
  <2> DEFINE k == (i + 1) + 1
  <2>4. /\ k \in Nat \ {0} /\ k \in 2 .. k /\ 2 .. k \in SUBSET (1 .. k)
        /\ (2 .. k) \ {k} = 2 .. i + 1
        OBVIOUS
  <2> HIDE DEF k
  <2>5. RatingOfMax(g, RatedOf(g, 2 .. k))
          = IF g[k] # 0 THEN g[k] ELSE RatingOfMax(g, RatedOf(g, (2 .. k) \ {k}))
        BY <2>4, LargestLast
  <2>6. QED
        BY <2>2, <2>3, <2>4, <2>5 DEF k
<1>4. ASSUME NEW i \in Nat PROVE i \in S
  <2> HIDE DEF S
  <2>1. QED
        BY <1>2, <1>3, Induction
<1>5. CASE m = 0
  <2>1. RatedOf(g, (2 .. m) \cup ({m} \ {0})) = {}
        BY <1>5 DEF RatedOf
  <2>2. QED
        BY <1>1, <1>5, <2>1 DEF RatingOfMax
<1>6. CASE m # 0
  <2> DEFINE s == (2 .. m) \cup ({m} \ {0})
  <2>1. /\ m \in Nat \ {0} /\ m - 1 \in Nat /\ m - 1 < m
        /\ (m - 1) + 1 = m
        BY <1>6
  <2>2. try[m] = IF g[m] = 0 THEN try[m - 1] ELSE g[m]
        BY <1>6 DEF Turn
  <2>3. Found(m - 1)
        BY <1>4, <2>1
  <2>4. m \in s /\ s \in SUBSET (1 .. m) /\ (\A x : x \in s \ {m} <=> x \in (2 .. m) \ {m})
        BY <2>1
  <2>5. g[m] = 0 => RatedOf(g, s \ {m}) = RatedOf(g, 2 .. m)
        BY <2>4 DEF RatedOf
  <2> HIDE DEF s
  <2>6. RatingOfMax(g, RatedOf(g, s))
          = IF g[m] # 0 THEN g[m] ELSE RatingOfMax(g, RatedOf(g, s \ {m}))
        BY <2>1, <2>4, LargestLast
  <2>7. QED
        BY <2>1, <2>2, <2>3, <2>5, <2>6 DEF s
<1>7. QED
      BY <1>5, <1>6

\* The rating the database gives the address with its first p bits.
AskedWith(e, db, p) == A!ask_helper_func(A!compute_subnet(e.host, p), db)

\* ALTOclient/ALTOclient.c: the loop of get_alto_rating over the masks ends with a rating.
LEMMA RatingLoop ==
  ASSUME NEW db \in A!DB, NEW e, e.mask \in Nat
  PROVE  /\ A!get_alto_rating(e, db) \in Int
         /\ \E try : /\ A!get_alto_rating(e, db) = try[e.mask]
                     /\ \A i \in 0 .. e.mask :
                          try[i] = Turn([p \in 0 .. e.mask |-> AskedWith(e, db, p)],
                                        e.mask, try, i)
<1> DEFINE m == e.mask
           X == 0 .. m
           g == [p \in X |-> AskedWith(e, db, p)]
           value(i, h) == IF i = 0 THEN 0
                          ELSE LET mask == IF i = m THEN i ELSE i + 1
                                   check == AskedWith(e, db, mask)
                               IN  IF check = 0 THEN h[i - 1] ELSE check
           iter == CHOOSE h : h = [i \in X |-> value(i, h)]
           rank == [i \in X |-> i]
           step == [i \in X |-> [h \in [X -> Int] |-> value(i, h)]]
<1>1. m \in Nat /\ rank \in [X -> 0 .. m] /\ \A p : AskedWith(e, db, p) \in Int
      BY AskType DEF AskedWith
<1> HIDE DEF m
<1>2. step \in [X -> [[X -> Int] -> Int]]
  <2>1. ASSUME NEW i \in X, NEW h \in [X -> Int] PROVE value(i, h) \in Int
    <3>1. i # 0 => i - 1 \in X
          BY <1>1
    <3>2. i # 0 => h[i - 1] \in Int
          BY <3>1
    <3>3. QED
          BY <1>1, <3>2
  <2> HIDE DEF value
  <2>2. QED
        BY <2>1
<1>3. FromLower(X, Int, rank, step)
  <2> SUFFICES ASSUME NEW i \in X, NEW h \in [X -> Int], NEW j \in [X -> Int],
                      \A k \in X : rank[k] < rank[i] => h[k] = j[k]
               PROVE  value(i, h) = value(i, j)
      BY DEF FromLower
  <2>1. i # 0 => i - 1 \in X /\ rank[i - 1] < rank[i]
        BY <1>1
  <2>2. i # 0 => h[i - 1] = j[i - 1]
        BY <2>1
  <2>3. QED
        BY <2>2
<1>4. PICK h \in [X -> Int] : Solves(h, X, step)
  <2>1. 0 \in Int
        OBVIOUS
  <2> HIDE DEF rank, step, X
  <2>2. QED
        BY <1>1, <1>2, <1>3, <2>1, Recursion
<1>5. h = [i \in X |-> value(i, h)]
  <2>1. \A i \in X : h[i] = value(i, h)
        BY <1>4 DEF Solves
  <2> HIDE DEF value
  <2>2. QED
        BY <2>1
<1>6. iter = [i \in X |-> value(i, iter)]
      BY <1>5
<1>7. A!get_alto_rating(e, db) = iter[m]
      BY Zenon DEF A!get_alto_rating, AskedWith, m
<1> HIDE DEF iter
<1>8. \A i \in X : iter[i] = value(i, iter)
      BY <1>6
<1>9. ASSUME NEW i \in X PROVE iter[i] = Turn(g, m, iter, i)
  <2>1. i # 0 => (IF i = m THEN i ELSE i + 1) \in X
        BY <1>1
  <2>2. QED
        BY <1>8, <2>1 DEF Turn
<1> DEFINE S == {k \in Nat : k \in X => iter[k] \in Int}
<1>10. 0 \in S
       BY <1>8
<1>11. ASSUME NEW k \in Nat, k \in S PROVE k + 1 \in S
  <2>1. SUFFICES ASSUME k + 1 \in X PROVE iter[k + 1] \in Int
        OBVIOUS
  <2>2. k \in X /\ k + 1 # 0 /\ (k + 1) - 1 = k
        BY <1>1, <2>1
  <2>3. iter[k] \in Int /\ iter[k + 1] = value(k + 1, iter)
        BY <1>8, <1>11, <2>1, <2>2
  <2>4. QED
        BY <1>1, <2>2, <2>3
<1>12. m \in S
  <2> HIDE DEF S
  <2>1. QED
        BY <1>1, <1>10, <1>11, Induction
<1>13. iter[m] \in Int
       BY <1>1, <1>12
<1>14. QED
       BY <1>7, <1>9, <1>13 DEF m

\* ALTOclient/ALTOclient.c: get_alto_rating asks for the longest prefix first.
LEMMA LongestFirst ==
  ASSUME NEW d, A!Document(d), A!Indented(d), A!Grouped(d), NEW e, e.mask \in Nat
  PROVE  A!get_alto_rating(e, A!alto_parse_from_XML(d)) = A!LongestMatch(e, d)
<1> DEFINE m == e.mask
           db == A!alto_parse_from_XML(d)
           g == [p \in 0 .. m |-> AskedWith(e, db, p)]
           Given(p) == A!GroupRating(d, A!compute_subnet(e.host, p))
           s == (2 .. m) \cup ({m} \ {0})
           found == {p \in s : Given(p) # 0}
<1>1. db \in A!DB
      BY ReadExists
<1>2. \A p : AskedWith(e, db, p) = Given(p)
      BY ReadAs DEF AskedWith
<1> HIDE DEF db
<1>3. PICK try : /\ A!get_alto_rating(e, db) = try[m]
                 /\ \A i \in 0 .. m : try[i] = Turn(g, m, try, i)
      BY <1>1, RatingLoop
<1> HIDE DEF g
<1>4. try[m] = RatingOfMax(g, RatedOf(g, s))
      BY <1>3, LoopFinds
<1>5. \A p \in s : p \in 1 .. m /\ g[p] = Given(p)
      BY <1>2 DEF g
<1> HIDE DEF Given
<1>6. RatedOf(g, s) = found
      BY <1>5 DEF RatedOf
<1>7. found # {} => Max(found) \in found
  <2>1. found \in SUBSET (1 .. m)
        BY <1>5
  <2>2. QED
        BY <2>1, MaxOfSubset
<1>8. found # {} => g[Max(found)] = Given(Max(found))
      BY <1>5, <1>7
<1>9. A!LongestMatch(e, d) = IF found = {} THEN 0 ELSE Given(Max(found))
      BY Zenon DEF A!LongestMatch, Given, A!Max, Max
<1> HIDE DEF found
<1>10. QED
       BY <1>3, <1>4, <1>6, <1>8, <1>9 DEF RatingOfMax, db

-----------------------------------------------------------------------------
(* A list and its ratings.                                                  *)

\* ALTOclient/ALTOclient.c: an address named once has the rating of its element.
LEMMA AskOnce ==
  ASSUME NEW db \in A!DB, NEW i \in DOMAIN db, NEW addr, db[i].host = addr,
         \A j \in DOMAIN db : db[j].host = addr => j = i
  PROVE  A!ask_helper_func(addr, db) = db[i].rating
<1>1. NamedIn(db, addr) = {i}
      BY DEF NamedIn
<1>2. i \in Nat
      BY DEF A!DB
<1>3. Min({i}) = i
      BY <1>2, MinOf
<1>4. QED
      BY <1>1, <1>3 DEF A!Min, Min, A!ask_helper_func, NamedIn

\* A database is given by its elements.
LEMMA IsDatabase ==
  ASSUME NEW n \in Nat, NEW db \in [1 .. n -> Element]
  PROVE  db \in A!DB /\ DOMAIN db = 1 .. n
<1>1. A!DB = Seq(Element)
      BY DEF A!DB, Element
<1>2. db \in Seq(Element)
      OBVIOUS
<1>3. QED
      BY <1>1, <1>2

\* What an update makes of the element of a list.
RatedElement(e, reply, result) ==
  /\ result.host = e.host
  /\ reply = NULL => result.rating = 0
  /\ reply # NULL /\ A!Indented(reply) /\ A!Grouped(reply) =>
       result.rating = A!LongestMatch(e, reply)

\* ALTOclient/ALTOclient.c: the databases of a list, before and after an update: the hosts
\* of the list, with no rating and with those of the reply.
LEMMA ListDatabase ==
  ASSUME A!AltoClientAssumption, NEW l \in DOMAIN Lists, NEW reply \in A!Outcomes
  PROVE  LET req == A!alto_parse_from_list(l)
             db == A!Updated(req, reply)
         IN  /\ req \in A!DB /\ db \in A!DB
             /\ DOMAIN db = DOMAIN Lists[l]
             /\ \A i \in DOMAIN Lists[l] :
                  RatedElement(Lists[l][i], reply, db[i])
<1> DEFINE list == Lists[l]
           req == A!alto_parse_from_list(l)
           db == A!Updated(req, reply)
           n == Len(list)
           Good == /\ db \in [1 .. n -> Element]
                   /\ \A i \in 1 .. n : RatedElement(list[i], reply, db[i])
<1>1. /\ list \in Seq(A!Elements) /\ n \in Nat /\ DOMAIN list = 1 .. n
      /\ \A i \in 1 .. n : list[i] \in A!Elements
      BY DEF A!AltoClientAssumption
<1>2. \A i \in 1 .. n : list[i].host \in Nat /\ list[i].mask \in Nat
  <2>1. \A x \in A!Elements : x.host \in Nat /\ x.mask \in Nat
        BY DEF A!Elements
  <2>2. QED
        BY <1>1, <2>1
<1> HIDE DEF n
<1>3. /\ req = [i \in 1 .. n |-> [host |-> list[i].host, mask |-> list[i].mask, rating |-> 0]]
      /\ req \in [1 .. n -> Element]
      BY <1>1, <1>2 DEF A!alto_parse_from_list, Element
<1> HIDE DEF list, req
<1>4. req \in A!DB
      BY <1>1, <1>3, IsDatabase
<1>5. ASSUME reply = NULL PROVE Good
  <2>1. db = req
        BY <1>5 DEF A!Updated
  <2> HIDE DEF db
  <2>2. QED
        BY <1>3, <1>5, <2>1 DEF RatedElement
<1>6. ASSUME reply # NULL PROVE Good
  <2> DEFINE res == A!alto_parse_from_XML(reply)
  <2>1. A!Document(reply)
        BY <1>6 DEF A!AltoClientAssumption, A!Outcomes
  <2>2. res \in A!DB
        BY <2>1, ReadExists
  <2>3. db = [i \in 1 .. n |-> [req[i] EXCEPT !.rating = A!get_alto_rating(req[i], res)]]
        BY <1>3, <1>6 DEF A!Updated, A!alto_do_the_magic
  <2>4. ASSUME NEW i \in 1 .. n
        PROVE  /\ db[i] \in Element /\ db[i].host = list[i].host
               /\ A!Indented(reply) /\ A!Grouped(reply) =>
                    db[i].rating = A!LongestMatch(list[i], reply)
    <3>1. req[i] \in Element /\ req[i].host = list[i].host /\ req[i].mask = list[i].mask
          BY <1>3
    <3>2. A!get_alto_rating(req[i], res) \in Int
          BY <2>2, <3>1, RatingLoop DEF Element
    <3> HIDE DEF res
    <3>3. /\ db[i] = [req[i] EXCEPT !.rating = A!get_alto_rating(req[i], res)]
          BY <2>3
    <3>4. /\ db[i] \in Element /\ db[i].host = req[i].host
          /\ db[i].rating = A!get_alto_rating(req[i], res)
          BY <3>1, <3>2, <3>3 DEF Element
    <3>5. A!LongestMatch(req[i], reply) = A!LongestMatch(list[i], reply)
          BY <3>1 DEF A!LongestMatch
    <3>6. ASSUME A!Indented(reply), A!Grouped(reply)
          PROVE  A!get_alto_rating(req[i], res) = A!LongestMatch(req[i], reply)
          BY <2>1, <3>1, <3>6, LongestFirst DEF Element, res
    <3>7. QED
          BY <3>1, <3>4, <3>5, <3>6
  <2> HIDE DEF db
  <2>5. db \in [1 .. n -> Element]
        BY <2>3, <2>4 DEF db
  <2>6. QED
        BY <1>6, <2>4, <2>5 DEF RatedElement
<1> HIDE DEF db
<1>7. db \in A!DB /\ DOMAIN db = 1 .. n /\ \A i \in 1 .. n : RatedElement(list[i], reply, db[i])
      BY <1>1, <1>5, <1>6, IsDatabase
<1>8. QED
      BY <1>1, <1>4, <1>7 DEF db, req, list

-----------------------------------------------------------------------------
(* The thread.                                                              *)

\* The rating element i of list l gets when the server answers reply.
RatingBy(l, i, reply) ==
  A!get_ALTO_rating_for_host(Lists[l][i].host, A!Updated(A!alto_parse_from_list(l), reply))

\* The elements of list l below index n have the ratings of the reply.
RatedBelow(l, n, reply) ==
  \A i \in DOMAIN Lists[l] : i < n => rating[l][i] = RatingBy(l, i, reply)

\* What the thread has done so far: queryState says READY when there is none.
ThreadInv ==
  /\ queryState = "READY" <=> thread = "none"
  /\ answered.list # NULL => answered.reply \in A!Outcomes
  /\ thread = "update" => ALTO_DB_req = A!alto_parse_from_list(threadArgs)
  /\ thread = "write" =>
       /\ answered.list = threadArgs /\ answered.reply \in A!Outcomes
       /\ ALTO_DB_req = A!Updated(A!alto_parse_from_list(threadArgs), answered.reply)
       /\ RatedBelow(threadArgs, count, answered.reply)
  /\ thread = "none" /\ answered.list # NULL =>
       RatedBelow(answered.list, Len(Lists[answered.list]) + 1, answered.reply)

AltoInv == A!TypeOK /\ ThreadInv

LEMMA RatingType ==
  ASSUME A!AltoClientAssumption, NEW db \in A!DB, NEW host
  PROVE  A!get_ALTO_rating_for_host(host, db) \in Int
BY AskType DEF A!get_ALTO_rating_for_host

\* ALTOclient/ALTOclient.c: a list whose ratings are those of the reply is rated.
LEMMA AllRated ==
  ASSUME A!AltoClientAssumption, NEW l \in DOMAIN Lists, NEW reply \in A!Outcomes,
         RatedBelow(l, Len(Lists[l]) + 1, reply)
  PROVE  LET list == Lists[l]
             Alone(i) == \A j \in DOMAIN list : list[j].host = list[i].host => j = i
         IN  \A i \in DOMAIN list :
               Alone(i) /\ list[i].host # 0 =>
                 IF reply = NULL THEN rating[l][i] = 0
                 ELSE A!Indented(reply) /\ A!Grouped(reply) =>
                        rating[l][i] = A!LongestMatch(list[i], reply)
<1> DEFINE list == Lists[l]
           db == A!Updated(A!alto_parse_from_list(l), reply)
<1>1. /\ db \in A!DB /\ DOMAIN db = DOMAIN list
      /\ \A i \in DOMAIN list : RatedElement(list[i], reply, db[i])
      BY ListDatabase
<1>2. DOMAIN list = 1 .. Len(list) /\ Len(list) \in Nat
      BY DEF A!AltoClientAssumption
<1>3. ASSUME NEW i \in DOMAIN list, list[i].host # 0,
             \A j \in DOMAIN list : list[j].host = list[i].host => j = i
      PROVE  IF reply = NULL THEN rating[l][i] = 0
             ELSE A!Indented(reply) /\ A!Grouped(reply) =>
                    rating[l][i] = A!LongestMatch(list[i], reply)
  <2>1. rating[l][i] = A!get_ALTO_rating_for_host(list[i].host, db)
    <3>1. i < Len(list) + 1
          BY <1>2
    <3>2. QED
          BY <3>1 DEF RatedBelow, RatingBy
  <2> HIDE DEF db
  <2>2. \A j \in DOMAIN db : db[j].host = list[j].host
        BY <1>1 DEF RatedElement
  <2>3. A!ask_helper_func(list[i].host, db) = db[i].rating
        BY <1>1, <1>3, <2>2, AskOnce
  <2>4. rating[l][i] = db[i].rating
        BY <1>3, <2>1, <2>3 DEF A!get_ALTO_rating_for_host
  <2>5. RatedElement(list[i], reply, db[i])
        BY <1>1
  <2>6. QED
        BY <2>4, <2>5 DEF RatedElement
<1>4. QED
      BY <1>3

\* ALTOclient/ALTOclient.c: without a query nothing has been answered.
LEMMA AltoInit == A!AltoClientAssumption /\ A!Init => AltoInv
<1> SUFFICES ASSUME A!AltoClientAssumption, A!Init PROVE AltoInv
    OBVIOUS
<1>1. (CHOOSE l \in DOMAIN Lists : TRUE) \in DOMAIN Lists
      BY DEF A!AltoClientAssumption
<1>2. ASSUME NEW l \in DOMAIN Lists
      PROVE  rating[l] \in Seq(Int) /\ Len(rating[l]) = Len(Lists[l])
  <2>1. rating[l] = [i \in DOMAIN Lists[l] |-> 0]
        BY DEF A!Init, A!Unrated
  <2>2. DOMAIN Lists[l] = 1 .. Len(Lists[l]) /\ Len(Lists[l]) \in Nat
        BY DEF A!AltoClientAssumption
  <2>3. QED
        BY <2>1, <2>2
<1>3. rating \in [DOMAIN Lists -> Seq(Int)]
  <2>1. rating = [l \in DOMAIN Lists |-> [i \in DOMAIN Lists[l] |-> 0]]
        BY DEF A!Init, A!Unrated
  <2>2. QED
        BY <1>2, <2>1
<1>4. A!TypeOK
      BY <1>1, <1>2, <1>3 DEF A!TypeOK, A!Init
<1>5. ThreadInv
      BY DEF ThreadInv, A!Init
<1>6. QED
      BY <1>4, <1>5 DEF AltoInv

\* ALTOclient/ALTOclient.c: the calls that change only the database asked for.
LEMMA AltoDatabase ==
  ASSUME AltoInv, ALTO_DB_req' = NULL \/ ALTO_DB_req' \in A!DB, thread \notin {"update", "write"},
         threadArgs' \in DOMAIN Lists, thread' \in {"none", "update"},
         thread' = "update" => ALTO_DB_req' = A!alto_parse_from_list(threadArgs'),
         queryState' = IF thread' = "none" THEN "READY" ELSE "INPROGRESS",
         UNCHANGED <<count, rating, answered>>
  PROVE  AltoInv'
<1>1. A!TypeOK'
      BY DEF AltoInv, A!TypeOK
<1>2. thread = "none"
      BY DEF AltoInv, A!TypeOK
<1>3. ThreadInv'
      BY <1>2 DEF AltoInv, ThreadInv, RatedBelow
<1>4. QED
      BY <1>1, <1>3 DEF AltoInv

\* ALTOclient/ALTOclient.c: AltoInv is inductive.
LEMMA AltoNext == A!AltoClientAssumption /\ AltoInv /\ [A!Next]_(A!vars) => AltoInv'
<1> SUFFICES ASSUME A!AltoClientAssumption, AltoInv, [A!Next]_(A!vars) PROVE AltoInv'
    OBVIOUS
<1>1. CASE A!start_ALTO_client
  <2>1. thread = "none" /\ queryState = "READY"
    <3>1. ALTO_DB_req \notin A!DB
          BY <1>1 DEF A!AltoClientAssumption, A!start_ALTO_client
    <3>2. /\ A!alto_parse_from_list(threadArgs) \in A!DB
          /\ answered.reply \in A!Outcomes =>
               A!Updated(A!alto_parse_from_list(threadArgs), answered.reply) \in A!DB
      <4>1. threadArgs \in DOMAIN Lists /\ NULL \in A!Outcomes
            BY DEF AltoInv, A!TypeOK, A!Outcomes
      <4>2. QED
            BY <4>1, ListDatabase
    <3>3. QED
          BY <3>1, <3>2 DEF AltoInv, A!TypeOK, ThreadInv
  <2>2. ALTO_DB_req' \in A!DB
        BY <1>1 DEF A!start_ALTO_client, A!DB
  <2>3. QED
        BY <1>1, <2>1, <2>2, AltoDatabase DEF A!start_ALTO_client, AltoInv, A!TypeOK
<1>2. CASE A!stop_ALTO_client
      BY <1>2, AltoDatabase DEF A!stop_ALTO_client, AltoInv, A!TypeOK, ThreadInv
<1>3. ASSUME NEW l \in DOMAIN Lists, NEW reply \in A!Outcomes,
             A!get_ALTO_guidance_for_list(l, reply)
      PROVE  AltoInv'
  <2> DEFINE db == A!Updated(A!alto_parse_from_list(l), reply)
             n == Len(Lists[l])
             ratings == [i \in DOMAIN Lists[l] |->
                           A!get_ALTO_rating_for_host(Lists[l][i].host, db)]
  <2>1. /\ ALTO_DB_req' = db /\ rating' = [rating EXCEPT ![l] = ratings]
        /\ answered' = [list |-> l, reply |-> reply]
        /\ queryState = "READY" /\ UNCHANGED <<queryState, threadArgs, thread, count>>
        BY <1>3 DEF A!get_ALTO_guidance_for_list
  <2>2. db \in A!DB
        BY ListDatabase
  <2>3. thread = "none"
        BY <2>1 DEF AltoInv, ThreadInv
  <2>4. DOMAIN Lists[l] = 1 .. n /\ n \in Nat
        BY DEF A!AltoClientAssumption
  <2>5. ratings \in Seq(Int) /\ Len(ratings) = n
    <3>1. \A i \in 1 .. n : A!get_ALTO_rating_for_host(Lists[l][i].host, db) \in Int
          BY <2>2, RatingType
    <3> HIDE DEF db
    <3>2. QED
          BY <2>4, <3>1
  <2>6. A!TypeOK'
    <3> HIDE DEF db, ratings
    <3>1. QED
          BY <2>1, <2>2, <2>5 DEF AltoInv, A!TypeOK
  <2>7. rating'[l] = ratings
        BY <2>1 DEF AltoInv, A!TypeOK
  <2>8. RatedBelow(l, n + 1, reply)'
        BY <2>7 DEF RatedBelow, RatingBy
  <2>9. ThreadInv'
        BY <2>1, <2>3, <2>8 DEF ThreadInv
  <2>10. QED
         BY <2>6, <2>9 DEF AltoInv
<1>4. ASSUME NEW l \in DOMAIN Lists, A!ALTO_query_exec(l)
      PROVE  AltoInv'
  <2>1. A!alto_parse_from_list(l) \in A!DB
    <3>1. NULL \in A!Outcomes
          BY DEF A!Outcomes
    <3>2. QED
          BY <3>1, ListDatabase
  <2>2. /\ ALTO_DB_req' = A!alto_parse_from_list(l) /\ threadArgs' = l
        /\ queryState # "INPROGRESS" /\ (A!ThreadCreated \/ A!ThreadFailed)
        /\ UNCHANGED <<count, rating, answered>>
        BY <1>4 DEF A!ALTO_query_exec
  <2>3. thread = "none"
        BY <2>2 DEF AltoInv, ThreadInv, A!TypeOK
  <2>4. \/ thread' = "none" /\ queryState' = "READY"
        \/ thread' = "update" /\ queryState' = "INPROGRESS"
        BY <2>2, <2>3 DEF A!ThreadCreated, A!ThreadFailed
  <2>5. QED
        BY <2>1, <2>2, <2>3, <2>4, AltoDatabase
<1>5. ASSUME NEW reply \in A!Outcomes, A!do_ALTO_update(reply)
      PROVE  AltoInv'
  <2>1. /\ thread = "update" /\ ALTO_DB_req' = A!Updated(ALTO_DB_req, reply)
        /\ thread' = "write" /\ count' = 1
        /\ answered' = [list |-> threadArgs, reply |-> reply]
        /\ UNCHANGED <<queryState, threadArgs, rating>>
        BY <1>5 DEF A!do_ALTO_update
  <2>2. threadArgs \in DOMAIN Lists /\ ALTO_DB_req = A!alto_parse_from_list(threadArgs)
        BY <2>1 DEF AltoInv, A!TypeOK, ThreadInv
  <2>3. ALTO_DB_req' \in A!DB
        BY <2>1, <2>2, ListDatabase
  <2>4. A!TypeOK'
        BY <2>1, <2>2, <2>3 DEF AltoInv, A!TypeOK
  <2>5. RatedBelow(threadArgs, 1, reply)'
    <3>1. \A i \in DOMAIN Lists[threadArgs] : ~ (i < 1)
          BY <2>2 DEF A!AltoClientAssumption
    <3>2. QED
          BY <2>1, <3>1 DEF RatedBelow
  <2>6. ThreadInv'
        BY <2>1, <2>2, <2>5 DEF AltoInv, ThreadInv
  <2>7. QED
        BY <2>4, <2>6 DEF AltoInv
<1>6. CASE A!WriteBack
  <2> DEFINE l == threadArgs
             r == A!get_ALTO_rating_for_host(Lists[l][count].host, ALTO_DB_req)
             n == Len(Lists[l])
  <2>1. /\ thread = "write" /\ count <= n
        /\ rating' = [rating EXCEPT ![l] = [rating[l] EXCEPT ![count] = r]]
        /\ count' = count + 1
        /\ UNCHANGED <<ALTO_DB_req, queryState, threadArgs, thread, answered>>
        BY <1>6 DEF A!WriteBack
  <2>2. /\ l \in DOMAIN Lists /\ count \in Nat
        /\ rating \in [DOMAIN Lists -> Seq(Int)] /\ Len(rating[l]) = n
        /\ DOMAIN Lists[l] = 1 .. n /\ n \in Nat
        BY DEF AltoInv, A!TypeOK, A!AltoClientAssumption
  <2>3. /\ answered.list = l /\ answered.reply \in A!Outcomes
        /\ ALTO_DB_req = A!Updated(A!alto_parse_from_list(l), answered.reply)
        /\ RatedBelow(l, count, answered.reply)
        BY <2>1 DEF AltoInv, ThreadInv
  <2>4. ALTO_DB_req \in A!DB
        BY <2>2, <2>3, ListDatabase
  <2>5. r \in Int
        BY <2>4, RatingType
  <2>6. rating[l] \in Seq(Int) /\ DOMAIN rating[l] = 1 .. n
        BY <2>2
  <2>7. rating'[l] = [rating[l] EXCEPT ![count] = r]
        BY <2>1, <2>2
  <2>8. r = RatingBy(l, count, answered.reply)
        BY <2>3 DEF RatingBy
  <2> HIDE DEF r, n
  <2>9. rating'[l] \in Seq(Int) /\ Len(rating'[l]) = n
    <3> DEFINE s == rating[l]
               t == rating'[l]
    <3>1. s \in Seq(Int) /\ Len(s) = n /\ n \in Nat /\ t = [s EXCEPT ![count] = r]
          BY <2>2, <2>6, <2>7
    <3> HIDE DEF s, t
    <3>2. QED
      <4> HIDE DEF l
      <4>1. s \in [1 .. n -> Int]
            BY ONLY <3>1
      <4>2. t \in [1 .. n -> Int]
            BY ONLY <2>5, <3>1, <4>1
      <4>3. t \in Seq(Int) /\ Len(t) = n
            BY ONLY <3>1, <4>2
      <4>4. QED
            BY <4>3 DEF t
  <2>10. A!TypeOK'
    <3>1. \A k \in DOMAIN Lists : k # l => rating'[k] = rating[k]
          BY <2>1, <2>2
    <3>2. rating' \in [DOMAIN Lists -> Seq(Int)]
          BY <2>1, <2>2, <2>7, <2>9
    <3>3. \A k \in DOMAIN Lists : Len(rating'[k]) = Len(Lists[k])
          BY <2>9, <3>1 DEF AltoInv, A!TypeOK, n
    <3>4. QED
          BY <2>1, <2>2, <3>2, <3>3 DEF AltoInv, A!TypeOK
  <2>11. RatedBelow(threadArgs, count, answered.reply)'
    <3>1. SUFFICES ASSUME NEW i \in 1 .. n, i < count + 1
                   PROVE  rating'[l][i] = RatingBy(l, i, answered.reply)
          BY <2>1, <2>2 DEF RatedBelow, RatingBy, l
    <3>2. CASE i = count
          BY <2>6, <2>7, <2>8, <3>2
    <3>3. CASE i # count
      <4>1. i < count
            BY <2>2, <3>1, <3>3
      <4>2. rating'[l][i] = rating[l][i]
            BY <2>6, <2>7, <3>3
      <4>3. QED
            BY <2>2, <2>3, <4>1, <4>2 DEF RatedBelow
    <3>4. QED
          BY <3>2, <3>3
  <2>12. ThreadInv'
         BY <2>1, <2>3, <2>11 DEF AltoInv, ThreadInv
  <2>13. QED
         BY <2>10, <2>12 DEF AltoInv
<1>7. CASE A!SignalReady
  <2>1. /\ thread = "write" /\ count > Len(Lists[threadArgs])
        /\ queryState' = "READY" /\ thread' = "none"
        /\ UNCHANGED <<ALTO_DB_req, threadArgs, count, rating, answered>>
        BY <1>7 DEF A!SignalReady
  <2>2. A!TypeOK'
        BY <2>1 DEF AltoInv, A!TypeOK
  <2>3. /\ threadArgs \in DOMAIN Lists /\ count \in Nat
        /\ answered.list = threadArgs /\ RatedBelow(threadArgs, count, answered.reply)
        BY <2>1 DEF AltoInv, A!TypeOK, ThreadInv
  <2>4. RatedBelow(threadArgs, Len(Lists[threadArgs]) + 1, answered.reply)
    <3>1. DOMAIN Lists[threadArgs] = 1 .. Len(Lists[threadArgs])
          /\ Len(Lists[threadArgs]) \in Nat
          BY <2>3 DEF A!AltoClientAssumption
    <3>2. \A i \in DOMAIN Lists[threadArgs] : i < count
          BY <2>1, <2>3, <3>1
    <3>3. QED
          BY <2>3, <3>2 DEF RatedBelow
  <2>5. ThreadInv'
        BY <2>1, <2>3, <2>4 DEF AltoInv, ThreadInv, RatedBelow
  <2>6. QED
        BY <2>2, <2>5 DEF AltoInv
<1>8. CASE UNCHANGED A!vars
      BY <1>8 DEF A!vars, AltoInv, A!TypeOK, ThreadInv, RatedBelow
<1>9. QED
      BY <1>1, <1>2, <1>3, <1>4, <1>5, <1>6, <1>7, <1>8 DEF A!Next

\* ALTOclient/ALTOclient.c: the client's state is well typed, and what it shows as ready
\* is rated.
LEMMA AltoCorrect == ASSUME A!AltoClientAssumption PROVE A!Spec => []A!TypeOK /\ []A!Rated
<1>1. A!Init => AltoInv
      BY AltoInit
<1>2. AltoInv /\ [A!Next]_(A!vars) => AltoInv'
      BY AltoNext
<1>3. ASSUME AltoInv PROVE A!Rated
  <2>1. SUFFICES ASSUME queryState = "READY", answered.list # NULL PROVE A!Rated
        BY DEF A!Rated
  <2>2. /\ answered.list \in DOMAIN Lists /\ answered.reply \in A!Outcomes
        /\ RatedBelow(answered.list, Len(Lists[answered.list]) + 1, answered.reply)
        BY <1>3, <2>1 DEF AltoInv, A!TypeOK, ThreadInv
  <2>3. QED
        BY <2>1, <2>2, AllRated DEF A!Rated
<1>4. AltoInv => A!TypeOK
      BY DEF AltoInv
<1>5. QED
      BY <1>1, <1>2, <1>3, <1>4, PTL DEF A!Spec

=============================================================================
