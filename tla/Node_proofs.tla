---------------------------- MODULE Node_proofs -----------------------------
(***************************************************************************)
(* Properties of the parts of a node, for any values of their constants    *)
(* and any interleaving of their steps; and that the behaviours in which   *)
(* one part takes steps, those TLC checks, are behaviours of the           *)
(* composition.                                                            *)
(***************************************************************************)
EXTENDS Node, DataLemmas

-----------------------------------------------------------------------------
(* The steps of a node are steps of its parts.                              *)

\* Every step of a node is a step of each part, or leaves the part as it is.
LEMMA NodeStep ==
  ASSUME NodeNext
  PROVE  /\ Next \/ UNCHANGED vars
         /\ P!Next \/ UNCHANGED periodicVars
         /\ K!Next \/ UNCHANGED keepaliveVars
         /\ M!Next \/ UNCHANGED monitoringVars
         /\ B!Next \/ UNCHANGED resultsVars
         /\ S!Next \/ UNCHANGED seqwinVars
         /\ T!Next \/ UNCHANGED rttVars
         /\ R!Next \/ UNCHANGED repositoryVars
         /\ A!Next \/ UNCHANGED altoVars
<1>1. Next \/ UNCHANGED vars
      BY DEF NodeNext, Takes, Next
<1>2. P!Next \/ UNCHANGED periodicVars
      BY DEF NodeNext, Takes, P!Next
<1>3. K!Next \/ UNCHANGED keepaliveVars
      BY DEF NodeNext, Takes, K!Next
<1>4. M!Next \/ UNCHANGED monitoringVars
      BY DEF NodeNext, Takes, M!Next, M!BagToSet
<1>5. B!Next \/ UNCHANGED resultsVars
      BY DEF NodeNext, Takes, B!Next
<1>6. S!Next \/ UNCHANGED seqwinVars
      BY DEF NodeNext, Takes, S!Next
<1>7. T!Next \/ UNCHANGED rttVars
      BY DEF NodeNext, Takes, T!Next
<1>8. R!Next \/ UNCHANGED repositoryVars
      BY DEF NodeNext, Takes, R!Next
<1>9. A!Next \/ UNCHANGED altoVars
      BY DEF NodeNext, Takes, A!Next
<1>10. QED
      BY <1>1, <1>2, <1>3, <1>4, <1>5, <1>6, <1>7, <1>8, <1>9

\* A behaviour in which one part takes steps is one of the parts side by side.
THEOREM NodeImplementsParts == NodeSpec => PartsSpec
<1>1. NodeInit => /\ Init /\ P!Init /\ K!Init /\ M!Init /\ B!Init
                  /\ S!Init /\ T!Init /\ R!Init /\ A!Init
      BY DEF NodeInit
<1>2. [NodeNext]_NodeVars => /\ [Next]_vars /\ [P!Next]_(P!vars) /\ [K!Next]_(K!vars)
                             /\ [M!Next]_(M!vars) /\ [B!Next]_(B!vars)
                             /\ [S!Next]_(S!vars) /\ [T!Next]_(T!rttVars)
                             /\ [R!Next]_(R!vars) /\ [A!Next]_(A!vars)
  <2> SUFFICES ASSUME [NodeNext]_NodeVars
               PROVE  /\ Next \/ UNCHANGED vars
                      /\ P!Next \/ UNCHANGED periodicVars
                      /\ K!Next \/ UNCHANGED keepaliveVars
                      /\ M!Next \/ UNCHANGED monitoringVars
                      /\ B!Next \/ UNCHANGED resultsVars
                      /\ S!Next \/ UNCHANGED seqwinVars
                      /\ T!Next \/ UNCHANGED rttVars
                      /\ R!Next \/ UNCHANGED repositoryVars
                      /\ A!Next \/ UNCHANGED altoVars
      BY DEF P!vars, periodicVars, K!vars, keepaliveVars, M!vars, monitoringVars,
             B!vars, B!buffer, resultsVars, S!vars, seqwinVars, T!rttVars, rttVars,
             R!vars, repositoryVars, A!vars, altoVars
  <2>1. CASE UNCHANGED NodeVars
        BY <2>1 DEF NodeVars
  <2>2. CASE NodeNext
        BY <2>2, NodeStep
  <2>3. QED
        BY <2>1, <2>2
<1>3. QED
      BY <1>1, <1>2, PTL DEF NodeSpec, PartsSpec, Spec, P!Spec, K!Spec, M!Spec, B!Spec,
                             S!Spec, T!Spec, R!Spec, A!Spec

-----------------------------------------------------------------------------
(* Start-up.                                                                *)

StartTypes ==
  /\ socketfd \in {"none", "failed", "open"}
  /\ NAT_traversal \in BOOLEAN
  /\ timeouts \in Nat

\* Without a socket nothing is asked and nothing can come back.
NothingBefore ==
  socketfd # "open" => timeouts = 0 /\ ~NAT_traversal

StartInv == StartTypes /\ NothingBefore /\ OneTimeout

\* ml/ml.c: before mlInit there is no timeout.
LEMMA StartInit == Init => StartInv
<1> SUFFICES ASSUME Init PROVE StartInv
    OBVIOUS
<1>1. socketfd = "none" /\ NAT_traversal = FALSE /\ timeouts = 0
      BY DEF Init
<1>2. QED
      BY <1>1 DEF StartInv, StartTypes, NothingBefore, OneTimeout

\* ml/ml.c: mlInit leaves one timeout behind with a STUN server, none without.
LEMMA mlStartInit ==
  ASSUME NEW internal, NEW stun \in BOOLEAN, StartInv, mlInit(internal, stun)
  PROVE  StartInv'
<1> USE DEF StartInv, StartTypes, NothingBefore, OneTimeout
<1>1. CASE socketfd' = "failed"
      BY <1>1 DEF mlInit
<1>2. CASE socketfd' = "open"
  <2> DEFINE id == [Unset EXCEPT !.internal = internal]
  <2>1. CASE stun /\ StunAsked(id, 0)
    <3>1. timeouts' = 1 /\ NAT_traversal' = FALSE
          BY <2>1 DEF StunAsked
    <3>2. QED
          BY <1>2, <3>1
  <2>2. CASE ~stun /\ StunSkipped(id, 0)
        BY <1>2, <2>2 DEF mlInit, StunSkipped
  <2>3. QED
        BY <1>2, <2>1, <2>2 DEF mlInit
<1>3. QED
      BY <1>1, <1>2 DEF mlInit

\* ml/ml.c: a timeout is followed by another one exactly while nothing was answered.
LEMMA TimeoutStart == StartInv /\ nat_traversal_timeout => StartInv'
<1> SUFFICES ASSUME StartInv, nat_traversal_timeout PROVE StartInv'
    OBVIOUS
<1> USE DEF StartInv, StartTypes, NothingBefore, OneTimeout, nat_traversal_timeout
<1>1. CASE NAT_traversal
      BY <1>1
<1>2. CASE ~NAT_traversal /\ StunAsked(local_socketID, timeouts - 1)
  <2>1. timeouts' = timeouts /\ NAT_traversal' = FALSE
        BY <1>2 DEF StunAsked
  <2>2. QED
        BY <1>2, <2>1
<1>3. CASE ~NAT_traversal /\ StunSkipped(local_socketID, timeouts - 1)
  <2>1. timeouts' = timeouts - 1 /\ NAT_traversal' = TRUE
        BY <1>3 DEF StunSkipped
  <2>2. QED
        BY <1>3, <2>1
<1>4. QED
      BY <1>1, <1>2, <1>3

\* ml/ml.c: StartInv is inductive.
LEMMA StartNext == StartInv /\ [Next]_vars => StartInv'
<1> SUFFICES ASSUME StartInv, [Next]_vars PROVE StartInv'
    OBVIOUS
<1> USE DEF StartInv, StartTypes, NothingBefore, OneTimeout
<1>1. ASSUME NEW internal \in Internals, NEW stun \in BOOLEAN, mlInit(internal, stun)
      PROVE  StartInv'
      BY <1>1, mlStartInit
<1>2. CASE nat_traversal_timeout
      BY <1>2, TimeoutStart
<1>3. ASSUME NEW m \in stunWire, recv_stun_msg(m)
      PROVE  StartInv'
      BY <1>3 DEF recv_stun_msg
<1>4. ASSUME NEW m \in stunWire, Served(m)
      PROVE  StartInv'
      BY <1>4 DEF Served
<1>5. ASSUME NEW m \in stunWire, Lose(m)
      PROVE  StartInv'
      BY <1>5 DEF Lose
<1>6. CASE mlGetLocalSocketID
      BY <1>6 DEF mlGetLocalSocketID
<1>7. ASSUME NEW defined \in BOOLEAN, mlSetStunServer(defined)
      PROVE  StartInv'
      BY <1>7 DEF mlSetStunServer
<1>8. ASSUME NEW mapping \in Mappings, Rebind(mapping)
      PROVE  StartInv'
      BY <1>8 DEF Rebind
<1>9. CASE UNCHANGED vars
      BY <1>9 DEF vars
<1>10. QED
      BY <1>1, <1>2, <1>3, <1>4, <1>5, <1>6, <1>7, <1>8, <1>9 DEF Next

\* ml/ml.c: the retries neither die out nor multiply.
THEOREM OneTimeoutHolds == Spec => []OneTimeout
<1>1. StartInv => OneTimeout
      BY DEF StartInv
<1>2. QED
      BY StartInit, StartNext, <1>1, PTL DEF Spec

\* ml/ml.c: only mlInit and an unanswered timeout take the socket ID back.
LEMMA ReadyStep == StartInv /\ [Next]_vars => [NAT_traversal => NAT_traversal']_vars
<1> SUFFICES ASSUME StartInv, [Next]_vars, NAT_traversal PROVE NAT_traversal' \/ UNCHANGED vars
    OBVIOUS
<1> USE DEF StartInv, NothingBefore
<1>1. ASSUME NEW internal \in Internals, NEW stun \in BOOLEAN, mlInit(internal, stun)
      PROVE  NAT_traversal'
      BY <1>1 DEF mlInit
<1>2. CASE nat_traversal_timeout
      BY <1>2 DEF nat_traversal_timeout
<1>3. ASSUME NEW m \in stunWire, recv_stun_msg(m)
      PROVE  NAT_traversal'
      BY <1>3 DEF recv_stun_msg
<1>4. ASSUME NEW m \in stunWire, Served(m) \/ Lose(m)
      PROVE  NAT_traversal'
      BY Zenon, <1>4 DEF Served, Lose
<1>5. CASE mlGetLocalSocketID
      BY <1>5 DEF mlGetLocalSocketID
<1>6. ASSUME NEW defined \in BOOLEAN, mlSetStunServer(defined)
      PROVE  NAT_traversal'
      BY <1>6 DEF mlSetStunServer
<1>7. ASSUME NEW mapping \in Mappings, Rebind(mapping)
      PROVE  NAT_traversal'
      BY <1>7 DEF Rebind
<1>8. QED
      BY <1>1, <1>2, <1>3, <1>4, <1>5, <1>6, <1>7 DEF Next

\* ml/ml.c: a socket ID that is ready stays ready.
THEOREM ReadyStaysHolds == Spec => ReadyStays
<1>1. StartInv /\ [Next]_vars => [NAT_traversal => NAT_traversal']_vars
      BY ReadyStep
<1>2. QED
      BY StartInit, StartNext, <1>1, PTL DEF Spec, ReadyStays

-----------------------------------------------------------------------------
(* What the parser makes of the server's answer.                            *)

Attrs == Seq([type : Nat, units : Seq(Nat)])
Parses == [good : BOOLEAN, attrs : Attrs]

\* The parse of the body from unit i on, in terms of that from later units.
ParsesFrom(from, body) ==
  LET end == Len(body) IN
  \A i \in 1 .. end + 1 :
    from[i] =
      IF i = end + 1 THEN [good |-> TRUE, attrs |-> <<>>]
      ELSE LET len == IF i < end THEN body[i + 1] ELSE 0
               next == i + 2 + len \div 2
           IN IF /\ next <= end + 1
                 /\ Accepted(body[i], len, IF len > 0 THEN body[i + 2] ELSE 0)
                 /\ from[next].good
              THEN [good |-> TRUE,
                    attrs |-> <<[type |-> body[i], units |-> SubSeq(body, i + 2, next - 1)]>>
                              \o from[next].attrs]
              ELSE [good |-> FALSE, attrs |-> <<>>]

\* ml/util/stun.c: the loop of stunParseMessage over the attributes ends, and its
\* result is what the recursion says.
LEMMA ParseExists ==
  ASSUME NEW m, m.body \in Seq(Nat)
  PROVE  \E f : /\ ParsesFrom(f, m.body)
                /\ m.length = 2 * Len(m.body) => stunParseMessage(m) = f[1]
<1> DEFINE body == m.body
           end == Len(body)
           X == 1 .. end + 1
           bad == [good |-> FALSE, attrs |-> <<>>]
           len(i) == IF i < end THEN body[i + 1] ELSE 0
           next(i) == i + 2 + len(i) \div 2
           ok(i) == Accepted(body[i], len(i), IF len(i) > 0 THEN body[i + 2] ELSE 0)
           attr(i) == [type |-> body[i], units |-> SubSeq(body, i + 2, next(i) - 1)]
           value(i, g) ==
             IF i = end + 1 THEN [good |-> TRUE, attrs |-> <<>>]
             ELSE IF /\ next(i) <= end + 1
                     /\ ok(i)
                     /\ g[next(i)].good
                  THEN [good |-> TRUE, attrs |-> <<attr(i)>> \o g[next(i)].attrs]
                  ELSE bad
           iter == CHOOSE f : f = [i \in X |-> value(i, f)]
           rank == [i \in X |-> end + 1 - i]
           step == [i \in X |-> [g \in [X -> Parses] |-> value(i, g)]]
<1>1. /\ body \in Seq(Nat) /\ end \in Nat
      /\ rank \in [X -> 0 .. end] /\ bad \in Parses
  <2>1. <<>> \in Attrs
        BY DEF Attrs
  <2>2. QED
        BY <2>1 DEF Parses
<1> HIDE DEF body
<1>2. ASSUME NEW i \in X, i # end + 1
      PROVE  /\ len(i) \in Nat /\ next(i) \in Nat /\ next(i) > i /\ body[i] \in Nat
             /\ next(i) <= end + 1 => next(i) \in X /\ rank[next(i)] < rank[i]
             /\ next(i) <= end + 1 => attr(i) \in [type : Nat, units : Seq(Nat)]
  <2>1. i \in Nat /\ 1 <= i /\ i <= end
        BY <1>1, <1>2
  <2>2. len(i) \in Nat /\ body[i] \in Nat
        BY <1>1, <2>1
  <2> HIDE DEF len
  <2>3. len(i) \div 2 \in Nat
    <3>1. \A x \in Nat : x \div 2 \in Nat
          OBVIOUS
    <3>2. QED
          BY ONLY <2>2, <3>1
  <2>4. next(i) \in Nat /\ next(i) >= i + 2
        BY <2>1, <2>3
  <2> HIDE DEF next
  <2>5. ASSUME next(i) <= end + 1
        PROVE  next(i) \in X /\ rank[next(i)] < rank[i]
        BY <1>1, <2>1, <2>4, <2>5
  <2>6. ASSUME next(i) <= end + 1
        PROVE  SubSeq(body, i + 2, next(i) - 1) \in Seq(Nat)
        BY <1>1, <2>1, <2>4, <2>6
  <2>7. QED
        BY <2>1, <2>2, <2>4, <2>5, <2>6
<1>3. ASSUME NEW i \in X, NEW g \in [X -> Parses]
      PROVE  value(i, g) \in Parses
  <2> HIDE DEF next, ok, attr, bad
  <2>1. CASE i = end + 1
    <3>1. <<>> \in Attrs
          BY DEF Attrs
    <3>2. QED
          BY <2>1, <3>1 DEF Parses
  <2>2. CASE i # end + 1 /\ next(i) <= end + 1 /\ ok(i) /\ g[next(i)].good
    <3>1. next(i) \in X /\ attr(i) \in [type : Nat, units : Seq(Nat)]
          BY <1>2, <2>2
    <3>2. g[next(i)].attrs \in Attrs
          BY <3>1 DEF Parses
    <3>3. <<attr(i)>> \o g[next(i)].attrs \in Attrs
          BY <3>1, <3>2 DEF Attrs
    <3>4. QED
          BY <2>2, <3>3 DEF Parses
  <2>3. QED
        BY <1>1, <2>1, <2>2
<1>4. step \in [X -> [[X -> Parses] -> Parses]]
      BY <1>3
<1>5. FromLower(X, Parses, rank, step)
  <2> SUFFICES ASSUME NEW i \in X, NEW g \in [X -> Parses], NEW h \in [X -> Parses],
                      \A j \in X : rank[j] < rank[i] => g[j] = h[j]
               PROVE  value(i, g) = value(i, h)
      BY ZenonT(40) DEF FromLower
  <2>1. i # end + 1 /\ next(i) <= end + 1 => g[next(i)] = h[next(i)]
        BY <1>2
  <2> HIDE DEF next, ok, attr
  <2>2. QED
        BY <2>1
<1>6. PICK f \in [X -> Parses] : Solves(f, X, step)
  <2> HIDE DEF rank, step, X, bad
  <2>1. QED
        BY <1>1, <1>4, <1>5, Recursion
<1>7. f = [i \in X |-> value(i, f)]
  <2>1. \A i \in X : f[i] = value(i, f)
        BY <1>6 DEF Solves
  <2> HIDE DEF value
  <2>2. QED
        BY <2>1
<1>8. iter = [i \in X |-> value(i, iter)]
      BY Zenon, <1>7
<1>9. m.length = 2 * end => stunParseMessage(m) = iter[1]
      BY Zenon DEF stunParseMessage, body
<1> HIDE DEF iter
<1>10. ParsesFrom(iter, body)
       BY <1>8, Zenon DEF ParsesFrom
<1>11. QED
       BY <1>9, <1>10 DEF body

\* The units of an encoded address attribute.
Encoded(t, ip, port) == <<t, 8, IPv4Family, port, ip \div 65536, ip % 65536>>

\* An encoded address attribute is at the units after i.
AddressAt(body, i, t, ip, port) == \A k \in 1 .. 6 : body[i + k] = Encoded(t, ip, port)[k]

\* The units of an encoded address.
LEMMA EncodedAddress ==
  ASSUME NEW t \in {MappedAddress, SourceAddress, ChangedAddress}, NEW ip \in Nat, NEW port \in Nat
  PROVE  LET e == EncodedAttr(AddressAttr(t, ip, port)) IN
         e \in Seq(Nat) /\ Len(e) = 6 /\ AddressAt(e, 0, t, ip, port)
<1> DEFINE a == AddressAttr(t, ip, port)
           h == ip \div 65536
           l == ip % 65536
<1>1. h \in Nat /\ l \in Nat
      OBVIOUS
<1>2. t \in Nat /\ t # XorOnly /\ t \in Addresses
      BY DEF MappedAddress, SourceAddress, ChangedAddress, XorOnly, Addresses
<1> HIDE DEF h, l
<1>3. a.type = t /\ a.units = <<IPv4Family, port>> \o <<h, l>>
      BY DEF AddressAttr, Words, h, l
<1>4. Length(a) = 8
  <2>1. t \notin {ChangeRequest, MessageIntegrity, ErrorCode, UnknownAttribute}
        BY DEF MappedAddress, SourceAddress, ChangedAddress, ChangeRequest, MessageIntegrity,
               ErrorCode, UnknownAttribute
  <2> HIDE DEF a
  <2>2. QED
        BY <1>2, <1>3, <2>1 DEF Length
<1> HIDE DEF a
<1>5. EncodedAttr(a) = <<t, 8>> \o (<<IPv4Family, port>> \o <<h, l>>)
      BY <1>2, <1>3, <1>4 DEF EncodedAttr
<1>6. /\ <<t, 8>> \in Seq(Nat) /\ <<IPv4Family, port>> \in Seq(Nat) /\ <<h, l>> \in Seq(Nat)
      /\ Len(<<t, 8>>) = 2 /\ Len(<<IPv4Family, port>>) = 2 /\ Len(<<h, l>>) = 2
      BY <1>1, <1>2 DEF IPv4Family
<1> DEFINE u == <<IPv4Family, port>> \o <<h, l>>
<1> HIDE DEF u
<1>7. /\ u \in Seq(Nat) /\ Len(u) = 4
      /\ u[1] = IPv4Family /\ u[2] = port /\ u[3] = h /\ u[4] = l
  <2> DEFINE x == <<IPv4Family, port>>
             y == <<h, l>>
  <2>1. /\ x \in Seq(Nat) /\ Len(x) = 2 /\ x[1] = IPv4Family /\ x[2] = port
        /\ y \in Seq(Nat) /\ Len(y) = 2 /\ y[1] = h /\ y[2] = l
        BY <1>6
  <2>2. u = x \o y
        BY DEF u
  <2> HIDE DEF x, y
  <2>3. /\ u \in Seq(Nat) /\ Len(u) = 2 + 2
        /\ \A i \in 1 .. 2 : u[i] = x[i]
        /\ \A i \in 1 .. 2 : u[2 + i] = y[i]
    <3>1. x \in Seq(Nat) /\ y \in Seq(Nat) /\ Len(x) = 2 /\ Len(y) = 2
          BY ONLY <2>1
    <3>2. Joined(u, x, y)
          BY ONLY <2>2, <3>1, TwoParts
    <3>3. QED
          BY ONLY <3>1, <3>2 DEF Joined
  <2>4. u[1] = x[1] /\ u[2] = x[2] /\ u[2 + 1] = y[1] /\ u[2 + 2] = y[2]
        BY ONLY <2>3
  <2>5. QED
        BY ONLY <2>1, <2>3, <2>4
<1> DEFINE e == EncodedAttr(a)
<1>8. /\ e \in Seq(Nat) /\ Len(e) = 6
      /\ e[1] = t /\ e[2] = 8
      /\ e[3] = u[1] /\ e[4] = u[2] /\ e[5] = u[3] /\ e[6] = u[4]
  <2> DEFINE v == <<t, 8>>
  <2>1. v \in Seq(Nat) /\ Len(v) = 2 /\ v[1] = t /\ v[2] = 8
        BY <1>6
  <2>2. e = v \o u
        BY <1>5 DEF u
  <2> HIDE DEF v, e
  <2>3. /\ e \in Seq(Nat) /\ Len(e) = 2 + 4
        /\ \A i \in 1 .. 2 : e[i] = v[i]
        /\ \A i \in 1 .. 4 : e[2 + i] = u[i]
    <3>1. v \in Seq(Nat) /\ u \in Seq(Nat) /\ Len(v) = 2 /\ Len(u) = 4
          BY ONLY <1>7, <2>1
    <3>2. Joined(e, v, u)
          BY ONLY <2>2, <3>1, TwoParts
    <3>3. QED
          BY ONLY <3>1, <3>2 DEF Joined
  <2>4. /\ e[1] = v[1] /\ e[2] = v[2]
        /\ e[2 + 1] = u[1] /\ e[2 + 2] = u[2] /\ e[2 + 3] = u[3] /\ e[2 + 4] = u[4]
        BY ONLY <2>3
  <2>5. QED
        BY ONLY <2>1, <2>3, <2>4
<1> HIDE DEF e, u
<1>9. AddressAt(e, 0, t, ip, port)
  <2> DEFINE c == Encoded(t, ip, port)
  <2>1. c[1] = t /\ c[2] = 8 /\ c[3] = IPv4Family /\ c[4] = port /\ c[5] = h /\ c[6] = l
        BY DEF Encoded, h, l
  <2> HIDE DEF c
  <2>2. e[1] = c[1] /\ e[2] = c[2] /\ e[3] = c[3] /\ e[4] = c[4] /\ e[5] = c[5] /\ e[6] = c[6]
        BY <1>7, <1>8, <2>1
  <2>3. \A k \in 1 .. 6 : k = 1 \/ k = 2 \/ k = 3 \/ k = 4 \/ k = 5 \/ k = 6
        OBVIOUS
  <2>4. \A k \in 1 .. 6 : 0 + k = k
        OBVIOUS
  <2>5. \A k \in 1 .. 6 : e[k] = c[k]
        BY ONLY <2>2, <2>3, Zenon
  <2>6. QED
        BY <2>4, <2>5 DEF AddressAt, c
<1>10. QED
       BY <1>8, <1>9 DEF e, a

\* The answer of a server that sees the address ip and port.
Answer(ip, port) ==
  stunEncodeMessage(BindResponseMsg,
    <<AddressAttr(MappedAddress, ip, port), AddressAttr(SourceAddress, 9, 3478),
      AddressAttr(ChangedAddress, 9, 3479)>>)

\* m is the answer: three address attributes, 36 bytes in all.
AnswerIs(m, ip, port) ==
  /\ m.type = BindResponseMsg /\ m.body \in Seq(Nat)
  /\ Len(m.body) = 18 /\ m.length = 2 * Len(m.body)
  /\ AddressAt(m.body, 0, MappedAddress, ip, port)
  /\ AddressAt(m.body, 6, SourceAddress, 9, 3478)
  /\ AddressAt(m.body, 12, ChangedAddress, 9, 3479)

\* The body of the answer holds the three attributes.
LEMMA AnswerBody ==
  ASSUME NEW ip \in Nat, NEW port \in Nat
  PROVE  AnswerIs(Answer(ip, port), ip, port)
<1> DEFINE e1 == EncodedAttr(AddressAttr(MappedAddress, ip, port))
           e2 == EncodedAttr(AddressAttr(SourceAddress, 9, 3478))
           e3 == EncodedAttr(AddressAttr(ChangedAddress, 9, 3479))
           attrs == <<AddressAttr(MappedAddress, ip, port), AddressAttr(SourceAddress, 9, 3478),
                      AddressAttr(ChangedAddress, 9, 3479)>>
           s == [i \in DOMAIN attrs |-> EncodedAttr(attrs[i])]
           body == FlattenSeq(s)
<1>1. /\ e1 \in Seq(Nat) /\ Len(e1) = 6 /\ AddressAt(e1, 0, MappedAddress, ip, port)
      /\ e2 \in Seq(Nat) /\ Len(e2) = 6 /\ AddressAt(e2, 0, SourceAddress, 9, 3478)
      /\ e3 \in Seq(Nat) /\ Len(e3) = 6 /\ AddressAt(e3, 0, ChangedAddress, 9, 3479)
      BY EncodedAddress
<1>2. /\ DOMAIN attrs = 1 .. 3 /\ EncodedAttr(attrs[1]) = e1 /\ EncodedAttr(attrs[2]) = e2
      /\ EncodedAttr(attrs[3]) = e3
      OBVIOUS
<1> HIDE DEF e1, e2, e3, attrs
<1>3. s \in Seq(Seq(Nat)) /\ Len(s) = 3 /\ s[1] = e1 /\ s[2] = e2 /\ s[3] = e3
  <2>1. s = [i \in 1 .. 3 |-> EncodedAttr(attrs[i])]
        BY <1>2
  <2>2. s[1] = e1 /\ s[2] = e2 /\ s[3] = e3
        BY <1>2
  <2>3. s \in [1 .. 3 -> Seq(Nat)]
    <3>1. \A i \in 1 .. 3 : i = 1 \/ i = 2 \/ i = 3
          OBVIOUS
    <3>2. \A i \in 1 .. 3 : EncodedAttr(attrs[i]) \in Seq(Nat)
          BY <1>1, <1>2, <3>1
    <3>3. QED
          BY <2>1, <3>2
  <2> HIDE DEF s
  <2>4. s \in Seq(Seq(Nat)) /\ Len(s) = 3
    <3>1. DOMAIN s = 1 .. 3 /\ 3 \in Nat
          BY ONLY <2>3
    <3>2. s \in Seq(Seq(Nat))
      <4>1. [1 .. 3 -> Seq(Nat)] \in {[1 .. n -> Seq(Nat)] : n \in Nat}
            BY ONLY <3>1
      <4>2. s \in UNION {[1 .. n -> Seq(Nat)] : n \in Nat}
            BY ONLY <2>3, <4>1
      <4>3. QED
            BY ONLY <4>2, SeqDef, Zenon
    <3>3. QED
          BY ONLY <3>1, <3>2, LenProperties
  <2>5. QED
        BY ONLY <2>2, <2>4
<1> HIDE DEF s
<1>4. body = (e1 \o e2) \o e3
      BY <1>3, FlattenThree
<1> DEFINE f == e1 \o e2
<1>5. Joined(f, e1, e2)
      BY <1>1, TwoParts
<1> HIDE DEF f, body
<1>6. Joined(body, f, e3)
  <2>1. f \in Seq(Nat)
        BY <1>5 DEF Joined
  <2>2. Joined(f \o e3, f, e3)
        BY <1>1, <2>1, TwoParts
  <2>3. QED
        BY <1>4, <2>2 DEF f
<1>7. /\ body \in Seq(Nat) /\ Len(f) = 6 + 6 /\ Len(body) = 6 + 6 + 6
      /\ \A i \in 1 .. 6 : f[i] = e1[i] /\ f[6 + i] = e2[i]
      /\ \A i \in 1 .. 12 : body[i] = f[i]
      /\ \A i \in 1 .. 6 : body[12 + i] = e3[i]
      BY <1>1, <1>5, <1>6 DEF Joined
<1>8. ASSUME NEW i \in 1 .. 6
      PROVE  body[0 + i] = e1[0 + i] /\ body[6 + i] = e2[0 + i] /\ body[12 + i] = e3[0 + i]
  <2>1. i \in 1 .. 12 /\ 6 + i \in 1 .. 12 /\ 0 + i = i
        OBVIOUS
  <2>2. QED
        BY <1>7, <2>1
<1>9. /\ AddressAt(body, 0, MappedAddress, ip, port)
      /\ AddressAt(body, 6, SourceAddress, 9, 3478)
      /\ AddressAt(body, 12, ChangedAddress, 9, 3479)
  <2>1. AddressAt(body, 0, MappedAddress, ip, port)
    <3>1. \A k \in 1 .. 6 : e1[0 + k] = Encoded(MappedAddress, ip, port)[k]
          BY ONLY <1>1, Zenon DEF AddressAt
    <3>2. \A k \in 1 .. 6 : body[0 + k] = e1[0 + k]
          BY ONLY <1>8
    <3>3. QED
          BY ONLY <3>1, <3>2, Zenon DEF AddressAt
  <2>2. AddressAt(body, 6, SourceAddress, 9, 3478)
        BY ONLY <1>1, <1>8 DEF AddressAt
  <2>3. AddressAt(body, 12, ChangedAddress, 9, 3479)
        BY ONLY SMTT(20), <1>1, <1>8 DEF AddressAt
  <2>4. QED
        BY <2>1, <2>2, <2>3
<1>10. Answer(ip, port) = [type |-> BindResponseMsg, length |-> 2 * Len(body), body |-> body]
       BY Zenon DEF Answer, stunEncodeMessage, body, s, attrs
<1> DEFINE m == Answer(ip, port)
<1>11. m.type = BindResponseMsg /\ m.body = body /\ m.length = 2 * Len(body)
       BY <1>10
<1> HIDE DEF m
<1>12. body \in Seq(Nat) /\ Len(body) = 18
       BY <1>7
<1>13. AnswerIs(m, ip, port)
  <2>1. /\ m.type = BindResponseMsg /\ m.body \in Seq(Nat)
        /\ Len(m.body) = 18 /\ m.length = 2 * Len(m.body)
        BY ONLY <1>11, <1>12
  <2>2. /\ AddressAt(m.body, 0, MappedAddress, ip, port)
        /\ AddressAt(m.body, 6, SourceAddress, 9, 3478)
        /\ AddressAt(m.body, 12, ChangedAddress, 9, 3479)
        BY ONLY <1>9, <1>11
  <2>3. QED
        BY ONLY <2>1, <2>2 DEF AnswerIs
<1>14. QED
       BY <1>13 DEF m

\* The result from unit i + 1 on has the attribute there and what follows it.
ParsedAt(f, body, i, t) ==
  f[i + 1] = [good |-> TRUE,
              attrs |-> <<[type |-> t, units |-> SubSeq(body, i + 3, i + 6)]>> \o f[i + 7].attrs]

\* The parser takes the address attribute after unit i when it takes what follows.
LEMMA AddressParsed ==
  ASSUME NEW body, NEW f, ParsesFrom(f, body), Len(body) = 18,
         NEW i \in {0, 6, 12}, NEW t \in Addresses, NEW ip \in Nat, NEW port \in Nat,
         AddressAt(body, i, t, ip, port), f[i + 7].good
  PROVE  ParsedAt(f, body, i, t)
<1> DEFINE c == Encoded(t, ip, port)
           k == i + 1
<1>1. /\ k \in 1 .. 18 + 1 /\ k # 18 + 1 /\ k < 18 /\ k + 1 = i + 2 /\ k + 2 = i + 3
      /\ k + 2 + 8 \div 2 = i + 7 /\ i + 7 <= 18 + 1 /\ 8 > 0 /\ (i + 7) - 1 = i + 6
      OBVIOUS
<1>2. /\ body[i + 1] = c[1] /\ body[i + 2] = c[2] /\ body[i + 3] = c[3]
      BY DEF AddressAt
<1>3. c[1] = t /\ c[2] = 8 /\ c[3] = IPv4Family
      BY DEF Encoded
<1> HIDE DEF c
<1>4. body[k] = t /\ body[k + 1] = 8 /\ body[k + 2] = IPv4Family
      BY <1>1, <1>2, <1>3
<1>5. Accepted(t, 8, IPv4Family)
      BY SMTT(20) DEF Accepted, Addresses, MappedAddress, ResponseAddress, SourceAddress,
             ChangedAddress,
             ReflectedFrom, XorMappedAddress, SecondaryAddress, ChangeRequest, MessageIntegrity,
             ErrorCode, UnknownAttribute, XorOnly, Strings, Username, Password, ServerName,
             IPv4Family
<1> HIDE DEF k
<1>6. f[k] = IF k = 18 + 1 THEN [good |-> TRUE, attrs |-> <<>>]
             ELSE LET len == IF k < 18 THEN body[k + 1] ELSE 0
                      next == k + 2 + len \div 2
                  IN IF /\ next <= 18 + 1
                        /\ Accepted(body[k], len, IF len > 0 THEN body[k + 2] ELSE 0)
                        /\ f[next].good
                     THEN [good |-> TRUE,
                           attrs |-> <<[type |-> body[k], units |-> SubSeq(body, k + 2, next - 1)]>>
                                     \o f[next].attrs]
                     ELSE [good |-> FALSE, attrs |-> <<>>]
      BY ZenonT(20), <1>1 DEF ParsesFrom
<1> DEFINE len == IF k < 18 THEN body[k + 1] ELSE 0
           next == k + 2 + len \div 2
<1>7. len = 8 /\ (IF len > 0 THEN body[k + 2] ELSE 0) = IPv4Family
      BY <1>1, <1>4
<1>8. next = i + 7
      BY <1>1, <1>7
<1>9. f[k] = IF /\ next <= 18 + 1
                /\ Accepted(body[k], len, IF len > 0 THEN body[k + 2] ELSE 0)
                /\ f[next].good
             THEN [good |-> TRUE,
                   attrs |-> <<[type |-> body[k], units |-> SubSeq(body, k + 2, next - 1)]>>
                             \o f[next].attrs]
             ELSE [good |-> FALSE, attrs |-> <<>>]
      BY ONLY <1>1, <1>6
<1> HIDE DEF len, next
<1>10. /\ next <= 18 + 1
       /\ Accepted(body[k], len, IF len > 0 THEN body[k + 2] ELSE 0)
       /\ f[next].good
  <2>1. next <= 18 + 1
        BY <1>1, <1>8
  <2>2. Accepted(body[k], len, IF len > 0 THEN body[k + 2] ELSE 0)
        BY ONLY <1>4, <1>5, <1>7, Zenon
  <2>3. QED
        BY <1>8, <2>1, <2>2
<1>11. f[k] = [good |-> TRUE,
               attrs |-> <<[type |-> body[k], units |-> SubSeq(body, k + 2, next - 1)]>>
                         \o f[next].attrs]
       BY ONLY <1>9, <1>10
<1>12. next - 1 = i + 6
       BY <1>1, <1>8
<1>13. QED
       BY ONLY <1>1, <1>4, <1>8, <1>11, <1>12, Zenon DEF k, ParsedAt

\* ml/util/stun.c: the client reads the mapped address the server wrote.
LEMMA AnswerParsed ==
  ASSUME NEW ip \in Nat, NEW port \in Nat
  PROVE  LET parsed == stunParseMessage(Answer(ip, port)) IN
         /\ parsed.good
         /\ FieldOf(parsed.attrs, MappedAddress) = [port |-> port, addr |-> ip]
<1> DEFINE m == Answer(ip, port)
           body == m.body
<1>1. /\ body \in Seq(Nat) /\ Len(body) = 18 /\ m.length = 2 * Len(body)
      /\ AddressAt(body, 0, MappedAddress, ip, port)
      /\ AddressAt(body, 6, SourceAddress, 9, 3478)
      /\ AddressAt(body, 12, ChangedAddress, 9, 3479)
      BY AnswerBody DEF AnswerIs
<1> HIDE DEF m
<1>2. PICK f : ParsesFrom(f, body) /\ stunParseMessage(m) = f[1]
  <2>1. m.body \in Seq(Nat) /\ m.length = 2 * Len(m.body)
        BY <1>1
  <2>2. \E f : ParsesFrom(f, m.body) /\ stunParseMessage(m) = f[1]
        BY <2>1, ParseExists
  <2>3. QED
        BY <2>2
<1> HIDE DEF body
<1> DEFINE a1 == [type |-> MappedAddress, units |-> SubSeq(body, 0 + 3, 0 + 6)]
           a2 == [type |-> SourceAddress, units |-> SubSeq(body, 6 + 3, 6 + 6)]
           a3 == [type |-> ChangedAddress, units |-> SubSeq(body, 12 + 3, 12 + 6)]
<1>3. MappedAddress \in Addresses /\ SourceAddress \in Addresses /\ ChangedAddress \in Addresses
      BY DEF Addresses
<1>4. f[19] = [good |-> TRUE, attrs |-> <<>>]
  <2>1. 19 \in 1 .. Len(body) + 1 /\ 19 = Len(body) + 1
        BY <1>1
  <2>2. QED
        BY ONLY <1>2, <2>1 DEF ParsesFrom
<1>5. f[13] = [good |-> TRUE, attrs |-> <<a3>> \o <<>>]
  <2>1. f[12 + 7].good
    <3>1. 12 + 7 = 19
          OBVIOUS
    <3>2. QED
          BY <1>4, <3>1
  <2>2. 12 \in {0, 6, 12} /\ 9 \in Nat /\ 3479 \in Nat
        OBVIOUS
  <2>3. ParsedAt(f, body, 12, ChangedAddress)
        BY ONLY <1>1, <1>2, <1>3, <2>1, <2>2, AddressParsed
  <2>4. f[12 + 1] = [good |-> TRUE, attrs |-> <<a3>> \o f[12 + 7].attrs]
        BY ONLY <2>3, Zenon DEF a3, ParsedAt
  <2> HIDE DEF a1, a2, a3
  <2>5. f[12 + 7].attrs = <<>>
    <3>1. 12 + 7 = 19
          OBVIOUS
    <3>2. QED
          BY <1>4, <3>1
  <2>6. f[12 + 1] = f[13]
        OBVIOUS
  <2>7. QED
        BY ONLY <2>4, <2>5, <2>6, Zenon
<1>6. f[7] = [good |-> TRUE, attrs |-> <<a2>> \o (<<a3>> \o <<>>)]
  <2>1. f[6 + 7].good
    <3>1. 6 + 7 = 13
          OBVIOUS
    <3>2. QED
          BY <1>5, <3>1
  <2>2. 6 \in {0, 6, 12} /\ 9 \in Nat /\ 3478 \in Nat
        OBVIOUS
  <2>3. ParsedAt(f, body, 6, SourceAddress)
        BY ONLY <1>1, <1>2, <1>3, <2>1, <2>2, AddressParsed
  <2>4. f[6 + 1] = [good |-> TRUE, attrs |-> <<a2>> \o f[6 + 7].attrs]
        BY ONLY <2>3, Zenon DEF a2, ParsedAt
  <2> HIDE DEF a1, a2, a3
  <2>5. f[6 + 7].attrs = <<a3>> \o <<>>
    <3>1. 6 + 7 = 13
          OBVIOUS
    <3>2. QED
          BY <1>5, <3>1
  <2>6. f[6 + 1] = f[7]
        OBVIOUS
  <2>7. QED
        BY ONLY <2>4, <2>5, <2>6, Zenon
<1>7. f[1] = [good |-> TRUE, attrs |-> <<a1>> \o (<<a2>> \o (<<a3>> \o <<>>))]
  <2>1. f[0 + 7].good
    <3>1. 0 + 7 = 7
          OBVIOUS
    <3>2. QED
          BY <1>6, <3>1
  <2>2. 0 \in {0, 6, 12} /\ ip \in Nat /\ port \in Nat
        OBVIOUS
  <2>3. ParsedAt(f, body, 0, MappedAddress)
        BY ONLY <1>1, <1>2, <1>3, <2>1, <2>2, AddressParsed
  <2>4. f[0 + 1] = [good |-> TRUE, attrs |-> <<a1>> \o f[0 + 7].attrs]
        BY ONLY <2>3, Zenon DEF a1, ParsedAt
  <2> HIDE DEF a1, a2, a3
  <2>5. f[0 + 7].attrs = <<a2>> \o (<<a3>> \o <<>>)
    <3>1. 0 + 7 = 7
          OBVIOUS
    <3>2. QED
          BY <1>6, <3>1
  <2>6. f[0 + 1] = f[1]
        OBVIOUS
  <2>7. QED
        BY ONLY <2>4, <2>5, <2>6, Zenon
<1> DEFINE attrs == <<a1>> \o (<<a2>> \o (<<a3>> \o <<>>))
<1>8. /\ DOMAIN attrs = 1 .. 3 /\ attrs[1] = a1 /\ attrs[2] = a2 /\ attrs[3] = a3
  <2> HIDE DEF a1, a2, a3
  <2>1. QED
        OBVIOUS
<1>9. a1.units[2] = port /\ a1.units[3] = ip \div 65536 /\ a1.units[4] = ip % 65536
  <2> DEFINE c == Encoded(MappedAddress, ip, port)
  <2>1. c[4] = port /\ c[5] = ip \div 65536 /\ c[6] = ip % 65536
        BY DEF Encoded
  <2> HIDE DEF c
  <2>2. body[0 + 4] = c[4] /\ body[0 + 5] = c[5] /\ body[0 + 6] = c[6]
        BY <1>1 DEF AddressAt, c
  <2>3. a1.units[2] = body[4] /\ a1.units[3] = body[5] /\ a1.units[4] = body[6]
        BY <1>1
  <2>4. QED
        BY <2>1, <2>2, <2>3
<1> DEFINE found == {i \in DOMAIN attrs : attrs[i].type = MappedAddress}
<1>10. found = {1}
  <2>1. a1.type = MappedAddress /\ a2.type # MappedAddress /\ a3.type # MappedAddress
        BY DEF MappedAddress, SourceAddress, ChangedAddress
  <2> HIDE DEF a1, a2, a3, attrs
  <2>2. QED
        BY <1>8, <2>1
<1>11. Max(found) = 1
  <2>1. found \in SUBSET (1 .. 3) /\ found # {} /\ 3 \in Nat
        BY <1>10
  <2>2. Max(found) \in found
        BY ONLY <2>1, MaxOfSubset
  <2>3. QED
        BY <1>10, <2>2
<1>12. 65536 * (ip \div 65536) + (ip % 65536) = ip
       OBVIOUS
<1> HIDE DEF a1, a2, a3, attrs, found
<1>13. FieldOf(attrs, MappedAddress)
         = [port |-> a1.units[2], addr |-> 65536 * a1.units[3] + a1.units[4]]
       BY <1>8, <1>10, <1>11 DEF FieldOf, found
<1>14. stunParseMessage(m).good /\ stunParseMessage(m).attrs = attrs
       BY <1>2, <1>7 DEF attrs
<1>15. QED
       BY <1>9, <1>12, <1>13, <1>14 DEF m

-----------------------------------------------------------------------------
(* What is handed out.                                                      *)

\* The address a STUN server sees the node at, and what the node makes of it.
Seen == IF nat = NoAddress THEN local_socketID.internal ELSE nat
Reflexive == [family |-> "v4", ip |-> Seen.ip, port |-> Seen.port]

\* The external address of the node once it is known.
Known == IF stun_server THEN Reflexive ELSE local_socketID.internal

\* The socket ID another node makes of the text of id.
ReadBack(id) == mlStringToSocketID(mlSocketIDToString(id))

IdTypes ==
  /\ nat \in Mappings \cup {NoAddress}
  /\ faults \in [FaultKinds -> Nat]
  /\ stun_server \in BOOLEAN
  /\ local_socketID = [internal |-> local_socketID.internal, external |-> local_socketID.external]
  /\ socketfd = "open" => local_socketID.internal \in Internals

OnlyWhenReady ==
  /\ socketfd # "open" => stunWire = {} /\ published = {}
  /\ published # {} => NAT_traversal

\* What holds while neither the mapping nor the server changed.
Steady ==
  /\ socketfd = "open" /\ stun_server => nat # NoAddress \/ local_socketID.internal.family = "v4"
  /\ stunWire \subseteq {stunBuildReqSimple, Answer(Seen.ip, Seen.port)}
  /\ stunWire # {} => stun_server
  /\ NAT_traversal => local_socketID.external = Known
  /\ published \subseteq {ReadBack(local_socketID)}

IdInv == StartInv /\ IdTypes /\ OnlyWhenReady /\ (Undisturbed => Steady)

\* ml/ml.c: nothing is handed out before mlInit.
LEMMA IdInit == Init => IdInv
<1> SUFFICES ASSUME Init PROVE IdInv
    OBVIOUS
<1>1. StartInv
      BY StartInit
<1>2. IdTypes
      BY DEF IdTypes, Init, Unset
<1>3. OnlyWhenReady /\ Steady
      BY DEF OnlyWhenReady, Steady, Init
<1>4. QED
      BY <1>1, <1>2, <1>3 DEF IdInv

\* ml/ml.c: mlInit sets the internal address, and without a server the external one.
LEMMA IdMlInit ==
  ASSUME MLStartAssumption, NEW internal \in Internals, NEW stun \in BOOLEAN, IdInv, StartInv',
         mlInit(internal, stun)
  PROVE  IdInv'
<1> USE DEF IdInv, IdTypes, OnlyWhenReady
<1>1. /\ socketfd = "none" /\ stunWire = {} /\ published' = {} /\ nat' = nat /\ faults' = faults
      /\ stun_server' = stun /\ NAT_traversal = FALSE
      BY DEF mlInit, StartInv, NothingBefore
<1>2. CASE socketfd' = "failed"
  <2>1. /\ local_socketID' = [internal |-> internal, external |-> NoAddress]
        /\ stunWire' = {} /\ NAT_traversal' = FALSE
        BY <1>1, <1>2 DEF mlInit, Unset
  <2>2. Steady'
        BY <1>1, <1>2, <2>1 DEF Steady
  <2>3. QED
        BY <1>1, <1>2, <2>1, <2>2
<1>3. CASE socketfd' = "open" /\ stun
  <2>1. /\ local_socketID' = [internal |-> internal, external |-> NoAddress]
        /\ stunWire' = {stunBuildReqSimple} /\ NAT_traversal' = FALSE
        BY <1>1, <1>3 DEF mlInit, StunAsked, Unset
  <2>2. nat # NoAddress \/ internal.family = "v4"
        BY <1>3 DEF mlInit
  <2>3. Steady'
        BY <1>1, <1>3, <2>1, <2>2 DEF Steady
  <2>4. QED
        BY <1>1, <1>3, <2>1, <2>3
<1>4. CASE socketfd' = "open" /\ ~stun
  <2>1. /\ local_socketID' = [internal |-> internal, external |-> internal]
        /\ stunWire' = {} /\ NAT_traversal' = TRUE
        BY <1>1, <1>4 DEF mlInit, StunSkipped, Unset
  <2>2. Steady'
        BY <1>1, <1>4, <2>1 DEF Steady, Known
  <2>3. QED
        BY <1>1, <1>4, <2>1, <2>2
<1>5. QED
      BY <1>2, <1>3, <1>4 DEF mlInit

\* ml/ml.c: a timeout asks again, or finds that there is no server.
LEMMA IdTimeout ==
  ASSUME IdInv, StartInv', nat_traversal_timeout
  PROVE  IdInv'
<1> USE DEF IdInv, IdTypes, OnlyWhenReady
<1>1. /\ socketfd' = socketfd /\ stun_server' = stun_server /\ nat' = nat
      /\ published' = published /\ faults' = faults /\ timeouts > 0
      BY DEF nat_traversal_timeout
<1>2. socketfd = "open"
      BY <1>1 DEF StartInv, StartTypes, NothingBefore
<1>3. Undisturbed' = Undisturbed
      BY <1>1 DEF Undisturbed
<1>4. CASE ~NAT_traversal /\ stun_server /\ StunAsked(local_socketID, timeouts - 1)
  <2>1. /\ local_socketID' = local_socketID /\ NAT_traversal' = FALSE
        /\ stunWire' = stunWire \cup {stunBuildReqSimple} /\ published = {}
        BY <1>4 DEF StunAsked
  <2>2. Undisturbed => Steady'
        BY <1>1, <1>4, <2>1 DEF Steady, Seen
  <2>3. QED
        BY <1>1, <1>2, <1>3, <2>1, <2>2
<1>5. CASE ~NAT_traversal /\ ~stun_server /\ StunSkipped(local_socketID, timeouts - 1)
  <2>1. /\ local_socketID' = [internal |-> local_socketID.internal,
                              external |-> local_socketID.internal]
        /\ NAT_traversal' = TRUE /\ stunWire' = stunWire /\ published = {}
        BY <1>5 DEF StunSkipped
  <2>2. Undisturbed => Steady'
        BY <1>1, <1>5, <2>1 DEF Steady, Seen, Known
  <2>3. QED
        BY <1>1, <1>2, <1>3, <2>1, <2>2
<1>6. CASE NAT_traversal /\ UNCHANGED <<local_socketID, NAT_traversal, told, stunWire>>
  <2>1. Undisturbed => Steady'
        BY <1>1, <1>6 DEF Steady, Seen, Known, Reflexive
  <2>2. QED
        BY <1>1, <1>2, <1>3, <1>6, <2>1
<1>7. QED
      BY <1>4, <1>5, <1>6 DEF nat_traversal_timeout

\* The address a server sees is one of an interface or of the NAT.
LEMMA SeenTypes ==
  ASSUME MLStartAssumption, IdInv, socketfd = "open"
  PROVE  Seen.ip \in Nat /\ Seen.port \in Nat
<1>1. CASE nat = NoAddress
      BY <1>1 DEF IdInv, IdTypes, Seen, MLStartAssumption
<1>2. CASE nat # NoAddress
      BY <1>2 DEF IdInv, IdTypes, Seen, MLStartAssumption
<1>3. QED
      BY <1>1, <1>2

\* ml/ml.c: every answer under way tells the same external address.
LEMMA IdReceived ==
  ASSUME MLStartAssumption, NEW m \in stunWire, IdInv, StartInv', recv_stun_msg(m)
  PROVE  IdInv'
<1> USE DEF IdInv, IdTypes, OnlyWhenReady
<1> DEFINE field == FieldOf(stunParseMessage(m).attrs, MappedAddress)
           external == init_sockaddr([family |-> "v4", ip |-> field.addr], field.port)
<1>1. /\ socketfd' = socketfd /\ stun_server' = stun_server /\ nat' = nat
      /\ published' = published /\ faults' = faults /\ socketfd = "open"
      /\ m.type = BindResponseMsg /\ NAT_traversal' = TRUE
      /\ stunWire' \subseteq stunWire
      BY DEF recv_stun_msg
<1>2. local_socketID' = [internal |-> local_socketID.internal, external |-> external]
      BY DEF recv_stun_msg
<1>3. ASSUME Steady
      PROVE  external = Reflexive
  <2>1. stunBuildReqSimple.type = BindRequestMsg
        BY DEF stunBuildReqSimple, stunEncodeMessage
  <2>2. m = Answer(Seen.ip, Seen.port)
        BY <1>1, <1>3, <2>1 DEF Steady, BindRequestMsg, BindResponseMsg
  <2>3. Seen.ip \in Nat /\ Seen.port \in Nat
        BY <1>1, SeenTypes
  <2>4. field = [port |-> Seen.port, addr |-> Seen.ip]
        BY <2>2, <2>3, AnswerParsed
  <2> HIDE DEF field
  <2>5. QED
        BY <2>4 DEF Reflexive, init_sockaddr
<1>4. Undisturbed' = Undisturbed
      BY <1>1 DEF Undisturbed
<1> HIDE DEF external, field
<1>5. ASSUME Steady
      PROVE  Steady'
  <2>1. stun_server
        BY <1>5 DEF Steady
  <2>2. Seen' = Seen /\ Known = Reflexive /\ Known' = Reflexive
        BY <1>1, <1>2, <2>1 DEF Seen, Known, Reflexive
  <2>3. external = Known
        BY <1>3, <1>5, <2>2
  <2>4. published \subseteq {ReadBack(local_socketID')}
    <3>1. CASE NAT_traversal
          BY <1>2, <1>5, <2>3, <3>1 DEF Steady
    <3>2. CASE ~NAT_traversal
          BY <3>2
    <3>3. QED
          BY <3>1, <3>2
  <2>5. QED
        BY <1>1, <1>2, <1>5, <2>2, <2>3, <2>4 DEF Steady
<1>6. QED
      BY <1>1, <1>2, <1>4, <1>5

\* ml/util/stun.c: a server answers with the address it sees.
LEMMA IdServed ==
  ASSUME NEW m \in stunWire, IdInv, StartInv', Served(m)
  PROVE  IdInv'
<1> USE DEF IdInv, IdTypes, OnlyWhenReady
<1>1. UNCHANGED <<socketfd, local_socketID, stun_server, NAT_traversal, nat, published,
                      faults>>
      BY DEF Served
<1>2. stunWire' \subseteq stunWire \cup {Answer(Seen.ip, Seen.port)}
      BY DEF Served, Answer, Seen
<1>3. Undisturbed' = Undisturbed /\ (Steady => Steady')
      BY <1>1, <1>2 DEF Undisturbed, Steady, Seen, Known, Reflexive
<1>4. QED
      BY <1>1, <1>3

\* ml/ml.c: other nodes are told the socket ID that is ready.
LEMMA IdPublished ==
  ASSUME IdInv, StartInv', mlGetLocalSocketID
  PROVE  IdInv'
<1> USE DEF IdInv, IdTypes, OnlyWhenReady
<1>1. /\ UNCHANGED <<socketfd, local_socketID, stun_server, NAT_traversal, nat, stunWire, faults>>
      /\ published' = published \cup {ReadBack(local_socketID)} /\ NAT_traversal
      BY DEF mlGetLocalSocketID, ReadBack
<1>2. socketfd = "open"
      BY <1>1 DEF StartInv, NothingBefore
<1>3. Undisturbed' = Undisturbed /\ (Steady => Steady')
      BY <1>1 DEF Undisturbed, Steady, Seen, Known, Reflexive
<1>4. QED
      BY <1>1, <1>2, <1>3

\* A change of the server or of the mapping is noted.
LEMMA IdDisturbed ==
  ASSUME MLStartAssumption, IdInv, StartInv',
         \/ \E defined \in BOOLEAN : mlSetStunServer(defined)
         \/ \E mapping \in Mappings : Rebind(mapping)
  PROVE  IdInv'
<1> USE DEF IdInv, IdTypes, OnlyWhenReady
<1>1. UNCHANGED <<socketfd, local_socketID, NAT_traversal, stunWire, published>>
      BY DEF mlSetStunServer, Rebind
<1>2. nat' \in Mappings \cup {NoAddress} /\ stun_server' \in BOOLEAN
      BY DEF mlSetStunServer, Rebind
<1>3. PICK k \in FaultKinds : faults' = [faults EXCEPT ![k] = @ + 1]
      BY DEF mlSetStunServer, Rebind, FaultKinds
<1>4. faults' \in [FaultKinds -> Nat] /\ faults'[k] # 0
      BY <1>3
<1>5. QED
      BY <1>1, <1>2, <1>4 DEF Undisturbed

\* ml/ml.c: IdInv is inductive.
LEMMA IdNext == MLStartAssumption /\ IdInv /\ [Next]_vars => IdInv'
<1> SUFFICES ASSUME MLStartAssumption, IdInv, [Next]_vars PROVE IdInv'
    OBVIOUS
<1>1. StartInv'
      BY StartNext DEF IdInv
<1>2. ASSUME NEW internal \in Internals, NEW stun \in BOOLEAN, mlInit(internal, stun)
      PROVE  IdInv'
      BY <1>1, <1>2, IdMlInit
<1>3. CASE nat_traversal_timeout
      BY <1>1, <1>3, IdTimeout
<1>4. ASSUME NEW m \in stunWire, recv_stun_msg(m)
      PROVE  IdInv'
      BY <1>1, <1>4, IdReceived
<1>5. ASSUME NEW m \in stunWire, Served(m)
      PROVE  IdInv'
      BY <1>1, <1>5, IdServed
<1>6. ASSUME NEW m \in stunWire, Lose(m)
      PROVE  IdInv'
  <2>1. /\ UNCHANGED <<socketfd, local_socketID, stun_server, NAT_traversal, nat, published,
                      faults>>
        /\ stunWire' \subseteq stunWire
        BY <1>6 DEF Lose
  <2>2. Undisturbed' = Undisturbed /\ (Steady => Steady')
        BY <2>1 DEF Undisturbed, Steady, Seen, Known, Reflexive
  <2>3. QED
        BY <1>1, <2>1, <2>2 DEF IdInv, IdTypes, OnlyWhenReady
<1>7. CASE mlGetLocalSocketID
      BY <1>1, <1>7, IdPublished
<1>8. CASE \/ \E defined \in BOOLEAN : mlSetStunServer(defined)
           \/ \E mapping \in Mappings : Rebind(mapping)
      BY <1>1, <1>8, IdDisturbed
<1>9. CASE UNCHANGED vars
  <2>1. Undisturbed' = Undisturbed /\ (Steady => Steady')
        BY SMTT(20), <1>9 DEF vars, Undisturbed, Steady, Seen, Known, Reflexive
  <2>2. QED
        BY <1>1, <1>9, <2>1 DEF vars, IdInv, IdTypes, OnlyWhenReady
<1>10. QED
       BY <1>2, <1>3, <1>4, <1>5, <1>6, <1>7, <1>8, <1>9 DEF Next

\* An address of an interface.
Interfaces == [family : {"v4", "v6"}, ip : Nat, port : Nat]

\* ml/ml.c: the text read back is that of the socket ID, which the external port is
\* not part of.
LEMMA TextReadBack ==
  ASSUME NEW i \in Interfaces, NEW e \in Interfaces, e = i \/ e.family = "v4"
  PROVE  LET id == [internal |-> i, external |-> e] IN
         mlCompareSocketIDs(ReadBack(id), id)
  BY ZenonT(40) DEF Interfaces, mlCompareSocketIDs, ReadBack, mlStringToSocketID,
         mlSocketIDToString,
         init_sockaddr, get_sockaddr_port, get_sockaddr_ip, NoIp, NoAddress

\* ml/ml.c: in a connection message the socket ID of a node without a NAT has the text
\* it has on the node, although its external family is converted once too often.
LEMMA MessageText ==
  ASSUME MLStartAssumption, NEW i \in Interfaces
  PROVE  LET id == [internal |-> i, external |-> i] IN
         mlSocketIDToString(InConnMsg(id)) = mlSocketIDToString(id)
<1> DEFINE id == [internal |-> i, external |-> i]
           received == InConnMsg(id)
           f == i.family
<1>1. /\ i = [family |-> f, ip |-> i.ip, port |-> i.port]
      /\ f \in {"v4", "v6"} /\ LittleEndian \in BOOLEAN
      BY DEF Interfaces, MLStartAssumption
<1> HIDE DEF f
<1>2. Swapped(Swapped(f)) = f /\ Swapped(f) \in {f, "swapped v4", "swapped v6"}
  <2>1. CASE ~LittleEndian
        BY <2>1 DEF Swapped
  <2>2. CASE LittleEndian
    <3>1. Swapped("v4") = "swapped v4" /\ Swapped("v6") = "swapped v6"
          BY <2>2 DEF Swapped
    <3>2. Swapped("swapped v4") = "v4" /\ Swapped("swapped v6") = "v6"
          BY <2>2 DEF Swapped
    <3>3. QED
          BY Zenon, <1>1, <3>1, <3>2
  <2>3. QED
        BY <1>1, <2>1, <2>2
<1>3. /\ received.internal = [family |-> f, ip |-> i.ip, port |-> i.port]
      /\ received.external = [family |-> Swapped(f), ip |-> i.ip, port |-> i.port]
  <2> DEFINE once == Converted(id)
  <2>1. once = [internal |-> [family |-> Swapped(f), ip |-> i.ip, port |-> i.port],
                external |-> [family |-> f, ip |-> i.ip, port |-> i.port]]
    <3>1. id.internal = i /\ id.external = i
          OBVIOUS
    <3>2. once = [internal |-> [i EXCEPT !.family = Swapped(f)],
                  external |-> [i EXCEPT !.family = Swapped(Swapped(f))]]
          BY <3>1 DEF Converted, f
    <3>3. \A x : [i EXCEPT !.family = x] = [family |-> x, ip |-> i.ip, port |-> i.port]
          BY DEF Interfaces
    <3>4. QED
          BY ONLY <1>2, <3>2, <3>3, Zenon
  <2> HIDE DEF once
  <2>2. /\ Converted(once).internal = [once.internal EXCEPT !.family = f]
        /\ Converted(once).external = [once.external EXCEPT !.family = Swapped(f)]
        BY <1>2, <2>1 DEF Converted
  <2>3. QED
        BY <2>1, <2>2 DEF InConnMsg, once
<1> HIDE DEF received
<1>4. /\ get_sockaddr_ip(received.internal) = get_sockaddr_ip(i)
      /\ get_sockaddr_port(received.internal) = get_sockaddr_port(i)
      /\ get_sockaddr_ip(received.external) \in {get_sockaddr_ip(i), NoIp}
  <2>1. received.internal = i
        BY ONLY <1>1, <1>3
  <2>2. get_sockaddr_ip(received.external) \in {get_sockaddr_ip(i), NoIp}
    <3>1. CASE Swapped(f) = f
      <4>1. received.external = i
            BY ONLY <1>1, <1>3, <3>1
      <4>2. QED
            BY <4>1
    <3>2. CASE Swapped(f) \in {"swapped v4", "swapped v6"}
      <4>1. received.external.family \notin {"v4", "v6"}
        <5>1. received.external.family = Swapped(f)
              BY ONLY <1>3
        <5>2. QED
              BY ONLY <3>2, <5>1
      <4>2. QED
            BY <4>1 DEF get_sockaddr_ip
    <3>3. QED
          BY <1>2, <3>1, <3>2
  <2>3. QED
        BY <2>1, <2>2
<1>5. mlSocketIDToString(received) = mlSocketIDToString(id)
      BY <1>4 DEF mlSocketIDToString
<1>6. QED
      BY <1>5 DEF received

\* ml/ml.c: what other nodes were told compares equal to the socket ID of the node, and
\* without a NAT also to the one its connection messages arrive with.
THEOREM PublishedMatchesHolds == Spec => []PublishedMatches
<1> USE PartsAssumption
<1>1. ASSUME IdInv, Undisturbed, NEW told_id \in published
      PROVE  /\ mlCompareSocketIDs(told_id, local_socketID)
             /\ nat = NoAddress => mlCompareSocketIDs(told_id, InConnMsg(local_socketID))
  <2> DEFINE i == local_socketID.internal
             e == local_socketID.external
  <2>1. /\ socketfd = "open" /\ e = Known /\ told_id = ReadBack(local_socketID)
        /\ local_socketID = [internal |-> i, external |-> e]
        /\ i \in Interfaces
        BY <1>1 DEF IdInv, OnlyWhenReady, IdTypes, Steady, MLStartAssumption, Interfaces
  <2>2. e \in Interfaces /\ (e = i \/ e.family = "v4")
    <3>1. Seen.ip \in Nat /\ Seen.port \in Nat
          BY <1>1, <2>1, SeenTypes
    <3>2. QED
          BY <2>1, <3>1 DEF Known, Reflexive, Interfaces
  <2>3. nat = NoAddress => e = i
    <3>1. CASE stun_server /\ nat = NoAddress
      <4>1. i.family = "v4" /\ Seen = i
            BY <1>1, <2>1, <3>1 DEF IdInv, Steady, Seen
      <4>2. i = [family |-> i.family, ip |-> i.ip, port |-> i.port]
            BY <2>1 DEF Interfaces
      <4>3. e = [family |-> "v4", ip |-> i.ip, port |-> i.port]
            BY <2>1, <3>1, <4>1 DEF Known, Reflexive
      <4>4. QED
            BY <4>1, <4>2, <4>3
    <3>2. CASE ~stun_server
          BY <2>1, <3>2 DEF Known
    <3>3. QED
          BY <3>1, <3>2
  <2> HIDE DEF i, e
  <2>4. mlCompareSocketIDs(told_id, local_socketID)
        BY <2>1, <2>2, TextReadBack
  <2>5. ASSUME nat = NoAddress
        PROVE  mlCompareSocketIDs(told_id, InConnMsg(local_socketID))
    <3>1. local_socketID = [internal |-> i, external |-> i]
          BY <2>1, <2>3, <2>5
    <3>2. mlSocketIDToString(InConnMsg(local_socketID)) = mlSocketIDToString(local_socketID)
          BY <2>1, <3>1, MessageText
    <3>3. QED
          BY <2>4, <3>2 DEF mlCompareSocketIDs
  <2>6. QED
        BY <2>4, <2>5
<1>2. IdInv => PublishedMatches
      BY <1>1 DEF PublishedMatches, Matches
<1>3. IdInv /\ [Next]_vars => IdInv'
      BY IdNext
<1>4. QED
      BY IdInit, <1>2, <1>3, PTL DEF Spec

-----------------------------------------------------------------------------
(* The types of the start-up.                                               *)

\* A message under way is the request or an answer of the server.
StunMessages ==
  \A m \in stunWire : m = stunBuildReqSimple \/ \E ip, port \in Nat : m = Answer(ip, port)

IdKnown ==
  /\ local_socketID \in SocketID /\ told \in {-1, 0, 2}
  /\ published \subseteq SocketID
  /\ StunMessages

\* The type of a message under way.
LEMMA StunTypes ==
  ASSUME StunMessages, NEW m \in stunWire
  PROVE  m.type \in {BindRequestMsg, BindResponseMsg}
<1>1. stunBuildReqSimple.type = BindRequestMsg
      BY DEF stunBuildReqSimple, stunEncodeMessage
<1>2. \A ip, port : Answer(ip, port).type = BindResponseMsg
      BY DEF Answer, stunEncodeMessage
<1>3. QED
      BY <1>1, <1>2 DEF StunMessages

\* The addresses of the configuration are socket addresses.
LEMMA ConfiguredAddresses ==
  ASSUME MLStartAssumption
  PROVE  /\ Internals \subseteq Address /\ Mappings \subseteq Address /\ NoAddress \in Address
         /\ \A i \in Internals : i.family \in {"v4", "v6"}
BY DEF MLStartAssumption, Address, Families, NoAddress

\* ml/ml.c: the text of a socket ID whose internal address is of a known family is read
\* back as a socket ID.
LEMMA ReadBackTypes ==
  ASSUME NEW id \in SocketID, id.internal.family \in {"v4", "v6"}
  PROVE  ReadBack(id) \in SocketID
<1> DEFINE i == id.internal
           e == id.external
           text == mlSocketIDToString(id)
<1>1. i \in Address /\ e \in Address
      BY DEF SocketID
<1>2. i.port \in Nat /\ i.ip \in Nat /\ e.ip \in Nat
      BY <1>1 DEF Address
<1>3. get_sockaddr_ip(i) = [family |-> i.family, ip |-> i.ip] /\ get_sockaddr_port(i) = i.port
      BY DEF get_sockaddr_ip, get_sockaddr_port
<1>4. get_sockaddr_ip(e) \in [family : {"none", "v4", "v6"}, ip : Nat]
      BY <1>2 DEF get_sockaddr_ip, NoIp
<1>5. /\ text.internal[1] \in [family : {"none", "v4", "v6"}, ip : Nat]
      /\ text.external[1] \in [family : {"none", "v4", "v6"}, ip : Nat]
      /\ text.internal[2] = i.port /\ text.external[2] = i.port
      BY <1>2, <1>3, <1>4 DEF mlSocketIDToString
<1>6. \A ip \in [family : {"none", "v4", "v6"}, ip : Nat], port \in Nat :
        init_sockaddr(ip, port) \in Address /\ NoAddress \in Address
      BY DEF init_sockaddr, Address, Families, NoAddress
<1> HIDE DEF text
<1>7. QED
      BY <1>2, <1>5, <1>6 DEF ReadBack, mlStringToSocketID, SocketID, text, i

\* ml/ml.c: nothing is known at first.
LEMMA KnownInit == Init => IdKnown
BY DEF Init, IdKnown, StunMessages, Unset, SocketID, Address, Families, NoAddress

\* ml/ml.c: an address comes from an interface, from the NAT or out of the answer of a
\* server that saw one.
LEMMA KnownNext == MLStartAssumption /\ IdInv /\ IdKnown /\ [Next]_vars => IdKnown'
<1> SUFFICES ASSUME MLStartAssumption, IdInv, IdKnown, [Next]_vars PROVE IdKnown'
    OBVIOUS
<1> USE DEF IdKnown
<1>1. /\ Internals \subseteq Address /\ Mappings \subseteq Address /\ NoAddress \in Address
      /\ \A i \in Internals : i.family \in {"v4", "v6"}
      BY ConfiguredAddresses
<1>2. \A i, e \in Address : [internal |-> i, external |-> e] \in SocketID
      BY DEF SocketID
<1>3. \A id \in SocketID : /\ id.internal \in Address /\ id.external \in Address
                           /\ \A e \in Address : [id EXCEPT !.external = e] \in SocketID
      BY DEF SocketID
<1>4. \A W : /\ W = stunWire \cup {stunBuildReqSimple} /\ stunWire' = W => StunMessages'
             /\ W \subseteq stunWire /\ stunWire' = W => StunMessages'
      BY DEF StunMessages, Answer
<1> HIDE DEF SocketID, Address
<1>5. ASSUME NEW internal \in Internals, NEW stun \in BOOLEAN, mlInit(internal, stun)
      PROVE  IdKnown'
  <2> DEFINE id == [Unset EXCEPT !.internal = internal]
  <2>1. id = [internal |-> internal, external |-> NoAddress] /\ id \in SocketID
        BY <1>1, <1>2 DEF Unset
  <2>2. [id EXCEPT !.external = id.internal] \in SocketID
        BY <1>3, <2>1
  <2> HIDE DEF id
  <2>3. local_socketID' \in {id, [id EXCEPT !.external = id.internal]}
        BY <1>5 DEF mlInit, StunAsked, StunSkipped, id
  <2>4. told' \in {told, 0} /\ published' = published
        BY <1>5 DEF mlInit, StunAsked, StunSkipped
  <2>5. stunWire' \in {stunWire, stunWire \cup {stunBuildReqSimple}}
        BY <1>5 DEF mlInit, StunAsked, StunSkipped
  <2>6. QED
        BY <1>4, <2>1, <2>2, <2>3, <2>4, <2>5
<1>6. CASE nat_traversal_timeout
  <2>1. local_socketID' \in {local_socketID,
                             [local_socketID EXCEPT !.external = local_socketID.internal]}
        BY <1>6 DEF nat_traversal_timeout, StunAsked, StunSkipped
  <2>2. told' \in {told, 0, 2} /\ published' = published
        BY <1>6 DEF nat_traversal_timeout, StunAsked, StunSkipped
  <2>3. stunWire' \in {stunWire, stunWire \cup {stunBuildReqSimple}}
        BY <1>6 DEF nat_traversal_timeout, StunAsked, StunSkipped
  <2>4. QED
        BY <1>3, <1>4, <2>1, <2>2, <2>3
<1>7. ASSUME NEW m \in stunWire, recv_stun_msg(m)
      PROVE  IdKnown'
  <2> DEFINE field == FieldOf(stunParseMessage(m).attrs, MappedAddress)
             external == init_sockaddr([family |-> "v4", ip |-> field.addr], field.port)
  <2>1. /\ m.type = BindResponseMsg /\ published' = published /\ told' = 0
        /\ stunWire' \subseteq stunWire
        /\ local_socketID' = [local_socketID EXCEPT !.external = external]
        BY <1>7 DEF recv_stun_msg
  <2>2. stunBuildReqSimple.type = BindRequestMsg /\ BindRequestMsg # BindResponseMsg
        BY DEF stunBuildReqSimple, stunEncodeMessage, BindRequestMsg, BindResponseMsg
  <2>3. PICK ip \in Nat, port \in Nat : m = Answer(ip, port)
        BY <2>1, <2>2 DEF StunMessages
  <2>4. field = [port |-> port, addr |-> ip]
        BY <2>3, AnswerParsed
  <2> HIDE DEF field
  <2>5. external \in Address
        BY <2>4 DEF init_sockaddr, Address, Families
  <2> HIDE DEF external
  <2>6. QED
        BY <1>3, <1>4, <2>1, <2>5
<1>8. ASSUME NEW m \in stunWire, Served(m)
      PROVE  IdKnown'
  <2>1. /\ UNCHANGED <<local_socketID, told, published>>
        /\ stunWire' \subseteq stunWire \cup {Answer(Seen.ip, Seen.port)}
        BY <1>8 DEF Served, Answer, Seen
  <2>2. Seen \in Address
        BY <1>1, <1>3 DEF Seen, IdInv, IdTypes
  <2>3. Seen.ip \in Nat /\ Seen.port \in Nat
        BY <2>2 DEF Address
  <2>4. StunMessages'
    <3>1. \A x \in stunWire' : x \in stunWire \/ x = Answer(Seen.ip, Seen.port)
          BY <2>1
    <3>2. ASSUME NEW x \in stunWire'
          PROVE  x = stunBuildReqSimple \/ \E ip, port \in Nat : x = Answer(ip, port)
          BY Zenon, <2>3, <3>1, <3>2 DEF StunMessages
    <3>3. QED
          BY Zenon, <3>2 DEF StunMessages, Answer
  <2>5. QED
        BY <2>1, <2>4
<1>9. ASSUME NEW m \in stunWire, Lose(m)
      PROVE  IdKnown'
  <2>1. UNCHANGED <<local_socketID, told, published>> /\ stunWire' \subseteq stunWire
        BY <1>9 DEF Lose
  <2>2. QED
        BY <1>4, <2>1
<1>10. CASE mlGetLocalSocketID
  <2>1. /\ UNCHANGED <<local_socketID, told, stunWire>> /\ NAT_traversal
        /\ published' = published \cup {ReadBack(local_socketID)}
        BY <1>10 DEF mlGetLocalSocketID, ReadBack
  <2>2. local_socketID.internal.family \in {"v4", "v6"}
        BY <1>1, <2>1 DEF IdInv, StartInv, NothingBefore, IdTypes
  <2>3. ReadBack(local_socketID) \in SocketID
        BY <2>2, ReadBackTypes
  <2>4. QED
        BY <1>4, <2>1, <2>3
<1>11. CASE \/ \E defined \in BOOLEAN : mlSetStunServer(defined)
            \/ \E mapping \in Mappings : Rebind(mapping)
            \/ UNCHANGED vars
  <2>1. UNCHANGED <<local_socketID, told, stunWire, published>>
        BY <1>11 DEF mlSetStunServer, Rebind, vars
  <2>2. QED
        BY <1>4, <2>1
<1>12. QED
       BY <1>5, <1>6, <1>7, <1>8, <1>9, <1>10, <1>11 DEF Next

\* ml/ml.c: the state of the start-up is well typed, for any addresses and faults.
LEMMA StartTyped == Spec => []TypeOK
<1>1. IdInv /\ IdKnown => TypeOK
  <2>1. ASSUME IdKnown PROVE \A m \in stunWire : m.type \in {BindRequestMsg, BindResponseMsg}
        BY <2>1, StunTypes DEF IdKnown
  <2>2. QED
        BY <2>1 DEF IdInv, IdKnown, StartInv, StartTypes, IdTypes, TypeOK
<1>2. IdInv /\ IdKnown /\ [Next]_vars => IdInv' /\ IdKnown'
      BY PartsAssumption, IdNext, KnownNext
<1>3. QED
      BY IdInit, KnownInit, <1>1, <1>2, PTL DEF Spec

-----------------------------------------------------------------------------
(* Periodic callbacks.                                                      *)

\* The part of the types that steps on structs and events rest on, and the property.
PeriodicInv ==
  /\ periodic \in [PeriodicHandles -> P!Structs]
  /\ events \in [PeriodicHandles -> Nat]
  /\ P!OneEvent

\* common/common.c: no struct is allocated at first.
LEMMA PeriodicInit == P!Init => PeriodicInv
BY DEF P!Init, PeriodicInv, P!OneEvent, P!Structs

\* common/common.c: an event is added by an allocation and taken by a free, only.
LEMMA PeriodicNext == PeriodicInv /\ [P!Next]_(P!vars) => PeriodicInv'
<1> SUFFICES ASSUME PeriodicInv, [P!Next]_(P!vars) PROVE PeriodicInv'
    OBVIOUS
<1> USE DEF PeriodicInv, P!OneEvent, P!Structs
<1>1. ASSUME NEW h \in PeriodicHandles, NEW frequency \in {"live", "stopped"},
             P!napaSchedulePeriodic(h, frequency)
      PROVE  PeriodicInv'
      BY <1>1 DEF P!napaSchedulePeriodic
<1>2. ASSUME NEW h \in PeriodicHandles, P!napaStopPeriodic(h)
      PROVE  PeriodicInv'
      BY <1>2 DEF P!napaStopPeriodic
<1>3. ASSUME NEW h \in PeriodicHandles, P!schedule_periodic_callback(h)
      PROVE  PeriodicInv'
  <2>1. CASE P!Stopped(h)
        BY <1>3, <2>1 DEF P!schedule_periodic_callback, P!Stopped
  <2>2. CASE P!Call(h)
        BY <1>3, <2>2 DEF P!schedule_periodic_callback, P!Call
  <2>3. QED
        BY <1>3, <2>1, <2>2 DEF P!schedule_periodic_callback
<1>4. CASE P!Return
      BY <1>4 DEF P!Return
<1>5. CASE UNCHANGED P!vars
      BY <1>5 DEF P!vars
<1>6. QED
      BY <1>1, <1>2, <1>3, <1>4, <1>5 DEF P!Next

\* common/common.c: whatever callbacks schedule, stop and nest, an allocated struct
\* has one event and a freed one none.
THEOREM OneEventHolds == PartsSpec => []OneEvent
<1>1. PeriodicInv => OneEvent
      BY DEF PeriodicInv, OneEvent
<1>2. QED
      BY PeriodicInit, PeriodicNext, <1>1, PTL DEF PartsSpec, P!Spec

\* common/common.c: callbacks are those of structs that were scheduled.
LEMMA PeriodicTyped == P!Spec => []P!TypeOK
<1>1. P!Init => P!TypeOK
      BY PeriodicInit DEF P!Init, P!TypeOK, PeriodicInv
<1>2. PeriodicInv /\ P!TypeOK /\ [P!Next]_(P!vars) => P!TypeOK'
  <2> SUFFICES ASSUME PeriodicInv, P!TypeOK, [P!Next]_(P!vars) PROVE P!TypeOK'
      OBVIOUS
  <2>1. PeriodicInv'
        BY PeriodicNext
  <2>2. callbacks \in Seq(PeriodicHandles)
        BY DEF P!TypeOK
  <2>3. \/ UNCHANGED callbacks
        \/ \E h \in PeriodicHandles : callbacks' = Append(callbacks, h)
        \/ callbacks # <<>> /\ callbacks' = P!Front(callbacks)
        BY DEF P!Next, P!vars, P!napaSchedulePeriodic, P!napaStopPeriodic,
               P!schedule_periodic_callback, P!Stopped, P!Call, P!Return
  <2>4. callbacks' \in Seq(PeriodicHandles)
        BY <2>2, <2>3 DEF P!Front
  <2>5. QED
        BY <2>1, <2>4 DEF PeriodicInv, P!TypeOK, P!Structs
<1>3. QED
      BY PeriodicInit, PeriodicNext, <1>1, <1>2, PTL DEF P!Spec

-----------------------------------------------------------------------------
(* Keep-alives.                                                             *)

\* The part of the types that the timers rest on, and the property.
KeepaliveInv ==
  /\ keepalive \in [KeptPeers -> Nat \cup {K!NoConn}]
  /\ chains \in [KeptPeers -> Nat]
  /\ K!KeptAlive

\* ml/ml.c: there is no connection at first.
LEMMA KeepaliveInit == K!Init => KeepaliveInv
BY DEF K!Init, KeepaliveInv, K!KeptAlive, K!NoConn

\* ml/ml.c: an interval gets positive together with a timer, and a timer ends
\* only where the interval is not positive.
LEMMA KeepaliveNext == KeepaliveInv /\ [K!Next]_(K!vars) => KeepaliveInv'
<1> SUFFICES ASSUME KeepaliveInv, [K!Next]_(K!vars) PROVE KeepaliveInv'
    OBVIOUS
<1> USE PartsAssumption DEF KeepaliveInv, K!KeptAlive, K!NoConn, K!KeepaliveAssumption
<1>1. ASSUME NEW p \in KeptPeers, NEW interval \in Nat, K!Created(p, interval)
      PROVE  KeepaliveInv'
      BY <1>1 DEF K!Created, K!setupKeepalive
<1>2. ASSUME NEW p \in KeptPeers, NEW interval \in Nat, K!Reopened(p, interval)
      PROVE  KeepaliveInv'
  <2>1. CASE keepalive[p] = 0 /\ interval # 0
        BY <1>2, <2>1 DEF K!Reopened, K!setupKeepalive
  <2>2. CASE ~(keepalive[p] = 0 /\ interval # 0)
        BY <1>2, <2>2 DEF K!Reopened
  <2>3. QED
        BY <2>1, <2>2
<1>3. ASSUME NEW p \in KeptPeers, K!mlCloseConnection(p)
      PROVE  KeepaliveInv'
      BY <1>3 DEF K!mlCloseConnection
<1>4. ASSUME NEW p \in KeptPeers, NEW ready \in BOOLEAN, K!keepalive_fn(p, ready)
      PROVE  KeepaliveInv'
      BY <1>4 DEF K!keepalive_fn
<1>5. CASE UNCHANGED K!vars
      BY <1>5 DEF K!vars
<1>6. QED
      BY <1>1, <1>2, <1>3, <1>4, <1>5 DEF K!Next, K!mlOpenConnection, K!recv_conn_msg

\* ml/ml.c: whoever made the connection and however often its interval changed, a
\* connection with a positive interval has a timer.
THEOREM KeptAliveHolds == PartsSpec => []KeptAlive
<1>1. KeepaliveInv => KeptAlive
      BY DEF KeepaliveInv, KeptAlive
<1>2. QED
      BY KeepaliveInit, KeepaliveNext, <1>1, PTL DEF PartsSpec, K!Spec

\* ml/ml.c: the sequence number of the keep-alives is counted from 0 on.
LEMMA KeepaliveTyped == K!Spec => []K!TypeOK
<1>1. K!Init => K!TypeOK
      BY KeepaliveInit DEF K!Init, K!TypeOK, KeepaliveInv
<1>2. KeepaliveInv /\ K!TypeOK /\ [K!Next]_(K!vars) => K!TypeOK'
  <2> SUFFICES ASSUME KeepaliveInv, K!TypeOK, [K!Next]_(K!vars) PROVE K!TypeOK'
      OBVIOUS
  <2>1. KeepaliveInv'
        BY KeepaliveNext
  <2>2. \/ UNCHANGED keepalive_seq
        \/ \E p \in KeptPeers :
             \/ keepalive_seq' = [keepalive_seq EXCEPT ![p] = 0]
             \/ keepalive_seq' = [keepalive_seq EXCEPT ![p] = 1 - @]
        BY DEF K!Next, K!vars, K!mlOpenConnection, K!Created, K!Reopened, K!recv_conn_msg,
               K!mlCloseConnection, K!keepalive_fn
  <2>3. keepalive_seq' \in [KeptPeers -> {0, 1}]
        BY <2>2 DEF K!TypeOK
  <2>4. QED
        BY <2>1, <2>3 DEF KeepaliveInv, K!TypeOK, K!NoConn
<1>3. QED
      BY KeepaliveInit, KeepaliveNext, <1>1, <1>2, PTL DEF K!Spec

-----------------------------------------------------------------------------
(* Losses.                                                                  *)

\* The packets of a measure do not come round to the numbers of its first ones, from
\* which the places of the window are counted.  The window itself may be any.
NumbersSuffice == SeqPackets <= First + Modulus - 2 * Spread - WIN_SIZE

LossTypes ==
  /\ sent \in Nat /\ First <= sent /\ sent <= First + Modulus - 2 * Spread - WIN_SIZE
  /\ arrived \subseteq 0 .. sent - 1
  /\ pnum \in {0, 1} /\ (pnum = 0 => arrived = {})
  /\ initial_sn \in S!Numbers /\ sn_win \in [S!Places -> S!Numbers]
  /\ win_valid \in BOOLEAN /\ outage \in BOOLEAN

\* The first packet was q, and place i of the window holds the number of packet w[i], the
\* last one of those that belong there.
WindowIs(q, w) ==
  /\ initial_sn = q % Modulus
  /\ First <= q + Spread
  /\ \A i \in S!Places :
       /\ sn_win[i] = w[i] % Modulus
       /\ q <= w[i] /\ w[i] < sent
       /\ w[i] \in arrived \/ w[i] + Spread + WIN_SIZE < sent
       /\ ~win_valid => w[i] <= q + i
  /\ \A a \in arrived : q <= a => a <= w[(a - q) % WIN_SIZE]

WindowTracks ==
  pnum = 1 => \E q \in Nat : \E w \in [S!Places -> Nat] : WindowIs(q, w)

\* A loss not yet in a mean is among the values of the next one.
MissedCounted == verdicts.missed /\ every.meas_sum # {} => 1 \in every.meas_sum

LossInv ==
  /\ LossTypes
  /\ ~outage => WindowTracks /\ MissedCounted /\ S!LossIsLoss

\* What the arithmetic of a packet rests on.
LEMMA LossConstants ==
  /\ WIN_SIZE \in Nat \ {0} /\ Modulus \in Nat \ {0}
  /\ Spread \in Nat /\ First \in Nat /\ OVERFLOW_TH \in Nat
  /\ OVERFLOW_TH > WIN_SIZE + Spread /\ Modulus > OVERFLOW_TH + Spread + WIN_SIZE
  /\ NAN \notin Int /\ PART \notin Int \cup {NAN}
  /\ S!Places = 0 .. WIN_SIZE - 1 /\ S!Numbers = 0 .. Modulus - 1
BY PartsAssumption DEF S!SeqWinAssumption, S!Places, S!Numbers

\* monl/plugins/seqwin_measure: how a packet of number p % Modulus compares with the
\* window, when p is one of the last Spread packets.
LEMMA Compared ==
  ASSUME LossTypes, NEW q \in Nat, NEW w \in [S!Places -> Nat], WindowIs(q, w),
         NEW p \in 0 .. sent - 1, p + Spread >= sent
  PROVE  LET p_sn == p % Modulus
             i == S!Ind(p_sn)
         IN  /\ i \in S!Places
             /\ q <= p => /\ i = (p - q) % WIN_SIZE
                          /\ S!ValidNow(p_sn) <=> win_valid \/ p - q >= WIN_SIZE
             /\ p < q => S!ValidNow(p_sn)
             /\ w[i] <= p => S!Delta(p_sn) = p - w[i]
             /\ p < w[i] => /\ S!Delta(p_sn) >= Modulus - Spread - WIN_SIZE
                            /\ S!Delta(p_sn) >= OVERFLOW_TH
             /\ p - w[i] < Modulus - Spread - WIN_SIZE
<1> USE LossConstants DEF LossTypes
<1> DEFINE p_sn == p % Modulus
           minus == S!Minus(p_sn, initial_sn)
<1>1. p \in Nat /\ p < sent
      OBVIOUS
<1>2. \A i \in S!Places : /\ w[i] \in Nat /\ q <= w[i] /\ w[i] < sent
                          /\ sn_win[i] = w[i] % Modulus
      BY DEF WindowIs
<1>3. 0 \in S!Places
      OBVIOUS
<1>4. q < sent /\ First <= q + Spread
  <2>1. w[0] \in Nat /\ q <= w[0] /\ w[0] < sent
        BY <1>2, <1>3
  <2>2. First <= q + Spread
        BY DEF WindowIs
  <2>3. QED
        BY ONLY <2>1, <2>2, q \in Nat, sent \in Nat
<1>5. initial_sn = q % Modulus
      BY DEF WindowIs
<1>6. q <= p => minus = p - q
  <2> SUFFICES ASSUME q <= p PROVE minus = p - q
      OBVIOUS
  <2>1. p - q < Modulus
        BY <1>1, <1>4
  <2>2. QED
        BY Zenon, <1>1, <1>5, <2>1, RemainderAhead DEF S!Minus
<1>7. p < q => minus = Modulus - (q - p)
  <2> SUFFICES ASSUME p < q PROVE minus = Modulus - (q - p)
      OBVIOUS
  <2>1. q - p < Modulus
        BY <1>1, <1>4
  <2>2. QED
        BY <1>1, <1>5, <2>1, RemainderBehind DEF S!Minus
<1>8. minus \in Nat
      BY <1>1, <1>4, <1>6, <1>7
<1>9. S!Ind(p_sn) = minus % WIN_SIZE /\ (S!ValidNow(p_sn) <=> win_valid \/ minus >= WIN_SIZE)
      BY DEF S!Ind, S!ValidNow
<1> HIDE DEF minus
<1> DEFINE i == S!Ind(p_sn)
<1>10. i \in S!Places
      BY <1>8, <1>9, Quotients
<1>11. S!Delta(p_sn) = ((p % Modulus) - (w[i] % Modulus)) % Modulus
      BY <1>2, <1>10 DEF S!Delta, S!Minus
<1>12. w[i] \in Nat /\ q <= w[i] /\ w[i] < sent
      BY <1>2, <1>10
<1> HIDE DEF i, p_sn
<1>13. p - w[i] < Modulus - Spread - WIN_SIZE
      BY <1>1, <1>4, <1>12
<1>14. w[i] <= p => S!Delta(p_sn) = p - w[i]
  <2> SUFFICES ASSUME w[i] <= p PROVE S!Delta(p_sn) = p - w[i]
      OBVIOUS
  <2>1. p - w[i] < Modulus
        BY <1>12, <1>13, <1>1
  <2>2. QED
        BY <1>1, <1>11, <1>12, <2>1, RemainderAhead
<1>15. p < w[i] => S!Delta(p_sn) = Modulus - (w[i] - p) /\ w[i] - p < Spread
  <2> SUFFICES ASSUME p < w[i] 
               PROVE  S!Delta(p_sn) = Modulus - (w[i] - p) /\ w[i] - p < Spread
      OBVIOUS
  <2>1. w[i] - p < Spread
        BY <1>12, <1>1
  <2>2. w[i] - p < Modulus
        BY <1>12, <1>1, <2>1
  <2>3. QED
        BY <1>1, <1>11, <1>12, <2>1, <2>2, RemainderBehind
<1>16. p < q => minus >= WIN_SIZE
      BY <1>1, <1>4, <1>7
<1>17. p < w[i] => /\ S!Delta(p_sn) >= Modulus - Spread - WIN_SIZE
                   /\ S!Delta(p_sn) >= OVERFLOW_TH
  <2> SUFFICES ASSUME p < w[i]
               PROVE  /\ S!Delta(p_sn) >= Modulus - Spread - WIN_SIZE
                      /\ S!Delta(p_sn) >= OVERFLOW_TH
      OBVIOUS
  <2>1. S!Delta(p_sn) = Modulus - (w[i] - p) /\ w[i] - p < Spread
        BY <1>15
  <2>2. /\ Modulus - (w[i] - p) >= Modulus - Spread - WIN_SIZE
        /\ Modulus - (w[i] - p) >= OVERFLOW_TH
    <3>1. /\ WIN_SIZE \in Nat /\ Modulus \in Nat /\ Spread \in Nat /\ OVERFLOW_TH \in Nat
          /\ Modulus > OVERFLOW_TH + Spread + WIN_SIZE
          OBVIOUS
    <3>2. QED
          BY ONLY <1>1, <1>12, <2>1, <3>1
  <2>3. QED
        BY <2>1, <2>2
<1>18. QED
      BY <1>6, <1>9, <1>10, <1>13, <1>14, <1>16, <1>17 DEF i, p_sn

\* How far a number is ahead of the one in its place is a number.
LEMMA ComparedNumber ==
  ASSUME LossTypes, NEW p_sn \in Nat, S!Ind(p_sn) \in S!Places
  PROVE  S!Delta(p_sn) \in Nat
<1>1. sn_win[S!Ind(p_sn)] \in Int /\ Modulus \in Nat \ {0}
      BY LossConstants DEF LossTypes
<1>2. p_sn - sn_win[S!Ind(p_sn)] \in Int
      BY <1>1
<1> HIDE DEF S!Ind
<1>3. QED
      BY <1>1, <1>2 DEF S!Delta, S!Minus

\* The packets that arrived, once p does.
Arrived(p) == {a \in arrived \cup {p} : a + Spread + WIN_SIZE >= sent}

\* monl/plugins/seqwin_measure: the first packet fills the window.
LEMMA LossFirst ==
  ASSUME LossTypes, NEW p \in 0 .. sent - 1, p + Spread >= sent, S!FirstPacket(p % Modulus),
         arrived = {}, sent' = sent, arrived' = Arrived(p)
  PROVE  WindowTracks'
<1> USE LossConstants
<1> DEFINE w == [i \in S!Places |-> p]
<1>1. p \in Nat /\ p < sent /\ sent \in Nat /\ First <= p + Spread
      BY DEF LossTypes
<1>2. w \in [S!Places -> Nat] /\ \A i \in S!Places : w[i] = p
      BY <1>1
<1> HIDE DEF w
<1>3. p + Spread + WIN_SIZE >= sent
      BY <1>1
<1>4. arrived' = {p}
      BY <1>3 DEF Arrived
<1>5. /\ initial_sn' = p % Modulus /\ win_valid' = FALSE
      /\ \A i \in S!Places : sn_win'[i] = p % Modulus
      BY DEF S!FirstPacket
<1>6. \A i \in S!Places : p <= p + i
      BY <1>1
<1>7. (p - p) % WIN_SIZE \in S!Places
      BY <1>1
<1>8. WindowIs(p, w)'
      BY <1>1, <1>2, <1>4, <1>5, <1>6, <1>7 DEF WindowIs
<1>9. QED
      BY <1>1, <1>2, <1>8 DEF WindowTracks

\* monl/plugins/seqwin_measure: a packet gets into the window if it is not from before the
\* one in its place, as long as there is no outage.
LEMMA LossWindow ==
  ASSUME LossTypes, NEW q \in Nat, NEW w \in [S!Places -> Nat], WindowIs(q, w),
         NEW p \in 0 .. sent - 1, p + Spread >= sent, pnum # 0,
         S!Window(p % Modulus), ~S!Outage(p % Modulus),
         sent' = sent, arrived' = Arrived(p)
  PROVE  WindowTracks'
<1> DEFINE p_sn == p % Modulus
           i == S!Ind(p_sn)
<1>1. /\ WIN_SIZE \in Nat \ {0} /\ Modulus \in Nat /\ Spread \in Nat /\ OVERFLOW_TH \in Nat
      /\ S!Places = 0 .. WIN_SIZE - 1
      /\ p \in Nat /\ p < sent /\ sent \in Nat /\ p + Spread >= sent
      BY LossConstants DEF LossTypes
<1>2. /\ i \in S!Places
      /\ q <= p => /\ i = (p - q) % WIN_SIZE
                   /\ S!ValidNow(p_sn) <=> win_valid \/ p - q >= WIN_SIZE
      /\ p < q => S!ValidNow(p_sn)
      /\ w[i] <= p => S!Delta(p_sn) = p - w[i]
      /\ p < w[i] => S!Delta(p_sn) >= OVERFLOW_TH
      /\ p - w[i] < Modulus - Spread - WIN_SIZE
      BY Compared
<1>3. /\ win_valid' = S!ValidNow(p_sn)
      /\ initial_sn' = initial_sn
      /\ sn_win' = IF ~S!ValidNow(p_sn) \/ S!Delta(p_sn) < OVERFLOW_TH
                   THEN [sn_win EXCEPT ![i] = p_sn] ELSE sn_win
      BY DEF S!Window
<1>4. S!ValidNow(p_sn) => S!Delta(p_sn) \notin OVERFLOW_TH .. Modulus - 1 - Spread - WIN_SIZE
      BY DEF S!Outage
<1>5. sn_win \in [S!Places -> S!Numbers]
      BY DEF LossTypes
<1>6. /\ initial_sn = q % Modulus /\ First <= q + Spread
      /\ \A j \in S!Places :
           /\ sn_win[j] = w[j] % Modulus
           /\ q <= w[j] /\ w[j] < sent
           /\ w[j] \in arrived \/ w[j] + Spread + WIN_SIZE < sent
           /\ ~win_valid => w[j] <= q + j
      /\ \A a \in arrived : q <= a => a <= w[(a - q) % WIN_SIZE]
      BY DEF WindowIs
<1>7. w[i] \in Nat /\ q <= w[i]
      BY <1>2, <1>6
<1>8. \A a \in arrived : a \in Nat /\ a < sent
      BY DEF LossTypes
<1>9. p \in Arrived(p)
      BY <1>1 DEF Arrived
<1>10. \A j \in S!Places : w[j] \in Arrived(p) \/ w[j] + Spread + WIN_SIZE < sent
  <2> SUFFICES ASSUME NEW j \in S!Places, ~(w[j] + Spread + WIN_SIZE < sent)
               PROVE  w[j] \in Arrived(p)
      OBVIOUS
  <2>1. w[j] \in arrived /\ w[j] \in Nat
        BY <1>6
  <2>2. w[j] + Spread + WIN_SIZE >= sent
        BY <1>1, <2>1
  <2>3. QED
        BY <2>1, <2>2 DEF Arrived
<1>11. \A a \in Arrived(p) : a = p \/ a \in arrived
       BY DEF Arrived
<1>12. \A a \in Arrived(p) : q <= a => (a - q) % WIN_SIZE \in S!Places
  <2> SUFFICES ASSUME NEW a \in Arrived(p), q <= a PROVE (a - q) % WIN_SIZE \in S!Places
      OBVIOUS
  <2>1. a \in Nat
        BY <1>1, <1>8, <1>11
  <2>2. a - q \in Nat
        BY ONLY <2>1, q <= a, q \in Nat
  <2>3. QED
        BY ONLY <1>1, <2>2, Quotients
<1> HIDE DEF i, p_sn
<1>13. CASE q <= p /\ w[i] <= p
  <2>1. ~S!ValidNow(p_sn) \/ S!Delta(p_sn) < OVERFLOW_TH
    <3>1. S!Delta(p_sn) = p - w[i] /\ p - w[i] < Modulus - Spread - WIN_SIZE
          BY <1>2, <1>13
    <3>2. p - w[i] \notin OVERFLOW_TH .. Modulus - 1 - Spread - WIN_SIZE => p - w[i] < OVERFLOW_TH
          BY ONLY <1>1, <1>7, <3>1, <1>13
    <3>3. QED
          BY <1>4, <3>1, <3>2
  <2>2. sn_win' = [sn_win EXCEPT ![i] = p_sn]
        BY <1>3, <2>1
  <2>3. PICK v \in [S!Places -> Nat] : v[i] = p /\ \A j \in S!Places \ {i} : v[j] = w[j]
    <3>1. /\ [w EXCEPT ![i] = p] \in [S!Places -> Nat]
          /\ [w EXCEPT ![i] = p][i] = p
          /\ \A j \in S!Places \ {i} : [w EXCEPT ![i] = p][j] = w[j]
          BY <1>1, <1>2
    <3>2. QED
          BY <3>1
  <2>4. sn_win'[i] = p_sn /\ \A j \in S!Places \ {i} : sn_win'[j] = sn_win[j]
        BY <1>2, <1>5, <2>2
  <2>5. ~win_valid' => ~win_valid /\ p <= q + i
    <3>1. ~win_valid' => ~win_valid /\ i = (p - q) % WIN_SIZE /\ ~(p - q >= WIN_SIZE)
          BY <1>2, <1>3, <1>13
    <3>2. ~(p - q >= WIN_SIZE) => (p - q) % WIN_SIZE = p - q
      <4>1. p - q \in Nat
            BY ONLY <1>1, <1>13, q \in Nat
      <4>2. ~(p - q >= WIN_SIZE) => p - q < WIN_SIZE
            BY ONLY <1>1, <4>1
      <4>3. QED
            BY ONLY <1>1, <4>1, <4>2, SmallRemainders
    <3>3. QED
          BY <1>1, <1>13, <3>1, <3>2
  <2>6. \A j \in S!Places :
          /\ sn_win'[j] = v[j] % Modulus
          /\ q <= v[j] /\ v[j] < sent
          /\ v[j] \in Arrived(p) \/ v[j] + Spread + WIN_SIZE < sent
          /\ ~win_valid' => v[j] <= q + j
    <3> SUFFICES ASSUME NEW j \in S!Places
                 PROVE  /\ sn_win'[j] = v[j] % Modulus
                        /\ q <= v[j] /\ v[j] < sent
                        /\ v[j] \in Arrived(p) \/ v[j] + Spread + WIN_SIZE < sent
                        /\ ~win_valid' => v[j] <= q + j
        OBVIOUS
    <3>1. CASE j = i
          BY <1>1, <1>9, <1>13, <2>3, <2>4, <2>5, <3>1 DEF p_sn
    <3>2. CASE j # i
          BY <1>6, <1>10, <2>3, <2>4, <2>5, <3>2
    <3>3. QED
          BY <3>1, <3>2
  <2>7. \A a \in Arrived(p) : q <= a => a <= v[(a - q) % WIN_SIZE]
    <3> SUFFICES ASSUME NEW a \in Arrived(p), q <= a
                 PROVE  a <= v[(a - q) % WIN_SIZE]
        OBVIOUS
    <3>1. CASE a = p
      <4>1. (a - q) % WIN_SIZE = i
            BY ONLY <1>2, <1>13, <3>1
      <4>2. v[(a - q) % WIN_SIZE] = p
            BY ONLY <2>3, <4>1
      <4>3. QED
            BY ONLY <1>1, <3>1, <4>2
    <3>2. CASE a \in arrived
      <4>1. a <= w[(a - q) % WIN_SIZE] /\ (a - q) % WIN_SIZE \in S!Places /\ a \in Nat
            BY <1>6, <1>8, <1>12, <3>2
      <4>2. v[(a - q) % WIN_SIZE] = w[(a - q) % WIN_SIZE]
              \/ (v[(a - q) % WIN_SIZE] = p /\ (a - q) % WIN_SIZE = i)
            BY <2>3, <4>1
      <4>3. CASE v[(a - q) % WIN_SIZE] = w[(a - q) % WIN_SIZE]
            BY <4>1, <4>3
      <4>4. CASE v[(a - q) % WIN_SIZE] = p /\ (a - q) % WIN_SIZE = i
        <5>1. a <= w[i]
              BY <4>1, <4>4
        <5>2. a <= p
              BY ONLY <1>1, <1>7, <1>13, <4>1, <5>1
        <5>3. QED
              BY <4>4, <5>2
      <4>5. QED
            BY <4>2, <4>3, <4>4
    <3>3. QED
          BY <1>11, <3>1, <3>2
  <2>8. WindowIs(q, v)'
        BY <1>3, <1>6, <2>6, <2>7 DEF WindowIs
  <2>9. QED
        BY <2>3, <2>8 DEF WindowTracks
<1>14. CASE p < q \/ p < w[i]
  <2>1. p < w[i]
        BY ONLY <1>1, <1>7, <1>14, q \in Nat
  <2>2. S!ValidNow(p_sn)
    <3>1. CASE p < q
          BY <1>2, <3>1
    <3>2. CASE q <= p /\ ~S!ValidNow(p_sn)
      <4>1. i = (p - q) % WIN_SIZE /\ ~win_valid /\ ~(p - q >= WIN_SIZE)
            BY <1>2, <3>2
      <4>2. i = p - q
        <5>1. p - q \in Nat
              BY ONLY <1>1, <3>2, q \in Nat
        <5>2. p - q < WIN_SIZE
              BY ONLY <1>1, <4>1, <5>1
        <5>3. QED
              BY ONLY <1>1, <4>1, <5>1, <5>2, SmallRemainders
      <4>3. w[i] <= q + i
            BY <1>2, <1>6, <4>1
      <4>4. QED
            BY ONLY <1>1, <1>7, <2>1, <4>2, <4>3, q \in Nat
    <3>3. QED
          BY <1>1, <3>1, <3>2
  <2>3. sn_win' = sn_win /\ win_valid' = TRUE
    <3>1. S!Delta(p_sn) >= OVERFLOW_TH /\ S!Delta(p_sn) \in Int
      <4>1. p_sn \in Nat
            BY ONLY <1>1, LossConstants, Quotients DEF p_sn
      <4>2. S!Delta(p_sn) \in Nat
            BY <1>2, <4>1, ComparedNumber DEF i
      <4>3. QED
            BY <1>2, <2>1, <4>2
    <3>2. ~(S!Delta(p_sn) < OVERFLOW_TH)
          BY ONLY <1>1, <3>1
    <3>3. QED
          BY <1>3, <2>2, <3>2
  <2>4. \A a \in Arrived(p) : q <= a => a <= w[(a - q) % WIN_SIZE]
    <3> SUFFICES ASSUME NEW a \in Arrived(p), q <= a
                 PROVE  a <= w[(a - q) % WIN_SIZE]
        OBVIOUS
    <3>1. CASE a = p
      <4>1. (a - q) % WIN_SIZE = i
            BY ONLY <1>2, <1>14, <3>1, q <= a
      <4>2. QED
            BY ONLY <1>1, <1>7, <2>1, <3>1, <4>1
    <3>2. CASE a \in arrived
          BY <1>6, <3>2
    <3>3. QED
          BY <1>11, <3>1, <3>2
  <2>5. WindowIs(q, w)'
        BY <1>3, <1>6, <1>10, <2>3, <2>4 DEF WindowIs
  <2>6. QED
        BY <2>5 DEF WindowTracks
<1>15. QED
       BY <1>1, <1>7, <1>13, <1>14

\* monl/plugins/loss_measure: the verdict a packet brings is 0 or 1, as the packet a window
\* before it did or did not arrive.
LEMMA LossVerdict ==
  ASSUME LossTypes, NEW q \in Nat, NEW w \in [S!Places -> Nat], WindowIs(q, w),
         NEW p \in 0 .. sent - 1, p + Spread >= sent, pnum # 0,
         S!ValidNow(p % Modulus), S!Delta(p % Modulus) \in WIN_SIZE .. OVERFLOW_TH - 1
  PROVE  LET seqwin == S!SeqwinOf(p % Modulus)
         IN  /\ seqwin # NAN
             /\ S!LossOf(seqwin) = IF p - WIN_SIZE \in arrived THEN 0 ELSE 1
<1> DEFINE p_sn == p % Modulus
           i == S!Ind(p_sn)
           delta == S!Delta(p_sn)
<1>1. /\ WIN_SIZE \in Nat \ {0} /\ Modulus \in Nat /\ Spread \in Nat /\ OVERFLOW_TH \in Nat
      /\ Modulus > OVERFLOW_TH + Spread + WIN_SIZE
      /\ NAN \notin Int
      /\ p \in Nat /\ p < sent /\ sent \in Nat /\ p + Spread >= sent
      BY LossConstants DEF LossTypes
<1>2. /\ i \in S!Places
      /\ q <= p => i = (p - q) % WIN_SIZE
      /\ w[i] <= p => delta = p - w[i]
      /\ p < w[i] => delta >= OVERFLOW_TH
      BY Compared
<1>3. delta \in Nat /\ delta >= WIN_SIZE /\ delta < OVERFLOW_TH
      BY <1>1
<1>4. /\ q <= w[i] /\ w[i] \in Nat
      /\ w[i] \in arrived \/ w[i] + Spread + WIN_SIZE < sent
      /\ \A a \in arrived : q <= a => a <= w[(a - q) % WIN_SIZE]
      BY <1>2 DEF WindowIs
<1>5. S!SeqwinOf(p_sn) = delta
      BY <1>1, <1>3 DEF S!SeqwinOf
<1>6. S!LossOf(delta) = IF delta = WIN_SIZE THEN 0 ELSE 1
      BY <1>1, <1>3 DEF S!LossOf
<1> HIDE DEF delta, i, p_sn
<1>7. delta = p - w[i] /\ q <= p
      BY ONLY <1>1, <1>2, <1>3, <1>4, q \in Nat
<1>8. delta = WIN_SIZE => p - WIN_SIZE \in arrived
  <2> SUFFICES ASSUME delta = WIN_SIZE PROVE p - WIN_SIZE \in arrived
      OBVIOUS
  <2>1. w[i] = p - WIN_SIZE /\ ~(w[i] + Spread + WIN_SIZE < sent)
        BY ONLY <1>1, <1>4, <1>7, delta = WIN_SIZE
  <2>2. QED
        BY ONLY <1>4, <2>1
<1>9. p - WIN_SIZE \in arrived => delta = WIN_SIZE
  <2> SUFFICES ASSUME p - WIN_SIZE \in arrived PROVE delta = WIN_SIZE
      OBVIOUS
  <2>1. q <= p - WIN_SIZE
        BY ONLY <1>1, <1>3, <1>4, <1>7, q \in Nat
  <2>2. (p - WIN_SIZE) - q = (p - q) - WIN_SIZE /\ p - q \in Nat /\ WIN_SIZE <= p - q
        BY ONLY <1>1, <2>1, q \in Nat
  <2>3. ((p - WIN_SIZE) - q) % WIN_SIZE = i
        BY ONLY <1>1, <1>2, <1>7, <2>2, RemainderBelow
  <2>4. p - WIN_SIZE <= w[i]
        BY ONLY <1>4, <2>1, <2>3, p - WIN_SIZE \in arrived
  <2>5. QED
        BY ONLY <1>1, <1>3, <1>4, <1>7, <2>4
<1>10. /\ S!SeqwinOf(p_sn) # NAN
       /\ S!LossOf(S!SeqwinOf(p_sn)) = IF p - WIN_SIZE \in arrived THEN 0 ELSE 1
       BY <1>1, <1>3, <1>5, <1>6, <1>8, <1>9
<1>11. QED
       BY <1>10 DEF p_sn

\* monl/measure_plugin.cpp: a mean is 0 only if all of its values are.
LEMMA MeanIsZero ==
  ASSUME NEW values, S!Mean(values) = 0
  PROVE  values = {0}
<1>1. 0 # NAN /\ 0 # PART
      BY LossConstants
<1>2. values \in {{0}, {1}}
      BY <1>1 DEF S!Mean
<1>3. values # {1}
  <2> SUFFICES ASSUME values = {1} PROVE FALSE
      OBVIOUS
  <2>1. (CHOOSE v \in {1} : TRUE) \in {1}
        OBVIOUS
  <2>2. NAN \notin {1}
        BY LossConstants
  <2>3. S!Mean({1}) = CHOOSE v \in {1} : TRUE
        BY <2>2 DEF S!Mean
  <2>4. QED
        BY <2>1, <2>3
<1>4. QED
      BY <1>2, <1>3


\* monl/plugins/seqwin_measure, loss_measure: nothing arrived at first.
LEMMA LossInit == NumbersSuffice /\ S!Init => LossInv
<1> SUFFICES ASSUME NumbersSuffice, S!Init PROVE LossInv
    OBVIOUS
<1> USE LossConstants DEF S!Init
<1>1. First \in Nat /\ First <= First + Modulus - 2 * Spread - WIN_SIZE
      BY ONLY LossConstants
<1>2. LossTypes
  <2>1. sent \in Nat /\ First <= sent /\ sent <= First + Modulus - 2 * Spread - WIN_SIZE
        BY <1>1
  <2>2. arrived \subseteq 0 .. sent - 1 /\ pnum \in {0, 1} /\ (pnum = 0 => arrived = {})
        OBVIOUS
  <2>3. 0 \in S!Numbers
        OBVIOUS
  <2>4. sn_win \in [S!Places -> S!Numbers] /\ initial_sn \in S!Numbers
        BY <2>3
  <2>5. QED
        BY <2>1, <2>2, <2>4 DEF LossTypes
<1>3. WindowTracks /\ MissedCounted /\ S!LossIsLoss
      BY DEF WindowTracks, MissedCounted, S!LossIsLoss
<1>4. QED
      BY <1>2, <1>3 DEF LossInv

\* monl/plugins/seqwin_measure: a packet sent is not yet seen.
LEMMA LossSends == NumbersSuffice /\ LossInv /\ S!SendPacket => LossInv'
<1> SUFFICES ASSUME NumbersSuffice, LossInv, S!SendPacket PROVE LossInv'
    OBVIOUS
<1>1. /\ sent' = sent + 1 /\ sent < SeqPackets
      /\ UNCHANGED <<arrived, pnum, initial_sn, sn_win, win_valid, every, outage, judged,
                     verdicts>>
      BY DEF S!SendPacket
<1>2. LossTypes
      BY DEF LossInv
<1>3. sent \in Nat /\ First <= sent /\ SeqPackets \in Nat
      BY <1>2, PartsAssumption DEF LossTypes, S!SeqWinAssumption
<1>4. /\ sent + 1 \in Nat /\ First <= sent + 1
      /\ sent + 1 <= First + Modulus - 2 * Spread - WIN_SIZE
      BY ONLY <1>1, <1>3, NumbersSuffice, LossConstants DEF NumbersSuffice
<1>5. arrived \subseteq 0 .. (sent + 1) - 1
      BY <1>2, <1>3 DEF LossTypes
<1>6. LossTypes'
      BY <1>1, <1>2, <1>4, <1>5 DEF LossTypes, S!Numbers, S!Places
<1>7. WindowTracks => WindowTracks'
  <2> SUFFICES ASSUME WindowTracks, pnum' = 1 PROVE WindowTracks'
      BY DEF WindowTracks
  <2>1. PICK q \in Nat : \E w \in [S!Places -> Nat] : WindowIs(q, w)
        BY <1>1 DEF WindowTracks
  <2>2. PICK w \in [S!Places -> Nat] : WindowIs(q, w)
        BY <2>1
  <2>3. \A i \in S!Places : w[i] < sent => w[i] < sent + 1
        BY <1>3
  <2>4. \A i \in S!Places :
          w[i] + Spread + WIN_SIZE < sent => w[i] + Spread + WIN_SIZE < sent + 1
        BY <1>3, LossConstants
  <2>5. WindowIs(q, w)'
        BY <1>1, <2>2, <2>3, <2>4 DEF WindowIs, S!Places
  <2>6. QED
        BY <2>5 DEF WindowTracks, S!Places
<1>8. (MissedCounted => MissedCounted') /\ (S!LossIsLoss => S!LossIsLoss')
      BY <1>1 DEF MissedCounted, S!LossIsLoss
<1>9. QED
      BY <1>1, <1>6, <1>7, <1>8 DEF LossInv

\* monl/plugins/seqwin_measure: the window keeps its shape.
LEMMA LossTypesRx ==
  ASSUME LossTypes, NEW p \in 0 .. sent - 1, S!RxPkt(p)
  PROVE  LossTypes' /\ (outage' = FALSE => outage = FALSE /\ ~S!Outage(p % Modulus))
<1> USE LossConstants
<1>1. /\ sent' = sent /\ arrived' = Arrived(p)
      /\ outage' = (outage \/ S!Outage(p % Modulus))
      /\ S!FirstPacket(p % Modulus) \/ S!Window(p % Modulus)
      BY DEF S!RxPkt, Arrived
<1>2. arrived' \subseteq 0 .. sent' - 1
      BY <1>1 DEF LossTypes, Arrived
<1>3. outage' \in BOOLEAN /\ (outage' = FALSE => outage = FALSE /\ ~S!Outage(p % Modulus))
      BY <1>1 DEF LossTypes, S!Outage
<1>4. p % Modulus \in S!Numbers
  <2>1. p \in Nat
        BY DEF LossTypes
  <2>2. QED
        BY ONLY <2>1, Quotients, LossConstants
<1>5. /\ pnum' = 1
      /\ initial_sn' \in S!Numbers /\ sn_win' \in [S!Places -> S!Numbers]
      /\ win_valid' \in BOOLEAN
  <2>1. CASE S!FirstPacket(p % Modulus)
        BY <1>4, <2>1 DEF S!FirstPacket
  <2>2. CASE S!Window(p % Modulus)
    <3>1. S!ValidNow(p % Modulus) \in BOOLEAN
          BY DEF S!ValidNow, LossTypes
    <3>2. pnum' = 1 /\ initial_sn' = initial_sn
          BY <2>2 DEF S!Window, LossTypes
    <3>3. sn_win' \in {sn_win, [sn_win EXCEPT ![S!Ind(p % Modulus)] = p % Modulus]}
          BY <2>2 DEF S!Window
    <3>4. sn_win' \in [S!Places -> S!Numbers]
          BY <1>4, <3>3 DEF LossTypes
    <3>5. win_valid' \in BOOLEAN
          BY <2>2, <3>1 DEF S!Window
    <3>6. QED
          BY <3>2, <3>4, <3>5 DEF LossTypes
  <2>3. QED
        BY <1>1, <2>1, <2>2
<1>6. LossTypes'
      BY <1>1, <1>2, <1>3, <1>5 DEF LossTypes, S!Places, S!Numbers
<1>7. QED
      BY <1>3, <1>6

\* What a packet does to the verdicts, given what it is worth.
LEMMA LossRecorded ==
  ASSUME LossTypes, NEW p \in 0 .. sent - 1, S!RxPkt(p)
  PROVE  \E judges \in BOOLEAN, missed \in BOOLEAN :
           LET seqwin == S!SeqwinOf(p % Modulus)
               verdict == S!LossOf(seqwin)
           IN  /\ judges <=> /\ pnum # 0 /\ S!ValidNow(p % Modulus)
                             /\ S!Delta(p % Modulus) \in WIN_SIZE .. OVERFLOW_TH - 1
               /\ missed <=> judges /\ p - WIN_SIZE \notin arrived
               /\ judged' = IF judges THEN p ELSE NAN
               /\ every' = IF seqwin # NAN THEN S!Summed(verdict) ELSE every
               /\ verdicts'.verdict = IF judges THEN verdict ELSE NAN
               /\ verdicts'.mean = IF seqwin # NAN THEN S!MeanOf(verdict) ELSE NAN
               /\ verdicts'.missed <=> missed \/ (verdicts.missed /\ every.meas_sum # {})
<1> DEFINE judges == /\ pnum # 0 /\ S!ValidNow(p % Modulus)
                     /\ S!Delta(p % Modulus) \in WIN_SIZE .. OVERFLOW_TH - 1
           missed == judges /\ p - WIN_SIZE \notin arrived
<1>1. judges \in BOOLEAN /\ missed \in BOOLEAN
      OBVIOUS
<1>2. LET seqwin == S!SeqwinOf(p % Modulus)
          verdict == S!LossOf(seqwin)
      IN  /\ judged' = IF judges THEN p ELSE NAN
          /\ every' = IF seqwin # NAN THEN S!Summed(verdict) ELSE every
          /\ verdicts'.verdict = IF judges THEN verdict ELSE NAN
          /\ verdicts'.mean = IF seqwin # NAN THEN S!MeanOf(verdict) ELSE NAN
          /\ verdicts'.missed <=> missed \/ (verdicts.missed /\ every.meas_sum # {})
      BY Zenon DEF S!RxPkt
<1>3. QED
      BY Zenon, <1>1, <1>2

\* monl/plugins/seqwin_measure, loss_measure: a packet keeps what is known of the losses.
LEMMA LossRx == LossInv /\ (\E p \in 0 .. sent - 1 : S!RxPkt(p)) => LossInv'
<1> SUFFICES ASSUME LossInv, NEW p \in 0 .. sent - 1, S!RxPkt(p) PROVE LossInv'
    OBVIOUS
<1>1. LossTypes
      BY DEF LossInv
<1>2. LossTypes' /\ (outage' = FALSE => outage = FALSE /\ ~S!Outage(p % Modulus))
      BY Zenon, <1>1, LossTypesRx
<1> SUFFICES ASSUME outage' = FALSE PROVE WindowTracks' /\ MissedCounted' /\ S!LossIsLoss'
    BY Zenon, <1>2 DEF LossInv, LossTypes
<1>3. outage = FALSE /\ ~S!Outage(p % Modulus)
      BY <1>2
<1>4. WindowTracks /\ MissedCounted
      BY <1>3 DEF LossInv
<1>5. /\ p + Spread >= sent /\ sent' = sent /\ arrived' = Arrived(p)
      /\ S!FirstPacket(p % Modulus) \/ S!Window(p % Modulus)
      BY DEF S!RxPkt, Arrived
<1>6. WindowTracks'
  <2>1. CASE S!FirstPacket(p % Modulus)
        BY Zenon, <1>1, <1>5, <2>1, LossFirst DEF S!FirstPacket, LossTypes
  <2>2. CASE S!Window(p % Modulus)
    <3>1. pnum = 1 /\ pnum # 0
          BY <1>1, <2>2 DEF S!Window, LossTypes
    <3>2. PICK q \in Nat : \E w \in [S!Places -> Nat] : WindowIs(q, w)
          BY <1>4, <3>1 DEF WindowTracks
    <3>3. PICK w \in [S!Places -> Nat] : WindowIs(q, w)
          BY <3>2
    <3>4. QED
          BY <1>1, <1>3, <1>5, <2>2, <3>1, <3>3, LossWindow
  <2>3. QED
        BY <1>5, <2>1, <2>2
<1> DEFINE seqwin == S!SeqwinOf(p % Modulus)
           verdict == S!LossOf(seqwin)
<1>7. PICK judges \in BOOLEAN, missed \in BOOLEAN :
           /\ judges <=> /\ pnum # 0 /\ S!ValidNow(p % Modulus)
                         /\ S!Delta(p % Modulus) \in WIN_SIZE .. OVERFLOW_TH - 1
           /\ missed <=> judges /\ p - WIN_SIZE \notin arrived
           /\ judged' = IF judges THEN p ELSE NAN
           /\ every' = IF seqwin # NAN THEN S!Summed(verdict) ELSE every
           /\ verdicts'.verdict = IF judges THEN verdict ELSE NAN
           /\ verdicts'.mean = IF seqwin # NAN THEN S!MeanOf(verdict) ELSE NAN
           /\ verdicts'.missed <=> missed \/ (verdicts.missed /\ every.meas_sum # {})
      BY <1>1, LossRecorded
<1>8. judges => seqwin # NAN /\ verdict = IF p - WIN_SIZE \in arrived THEN 0 ELSE 1
  <2> SUFFICES ASSUME judges
               PROVE  seqwin # NAN /\ verdict = IF p - WIN_SIZE \in arrived THEN 0 ELSE 1
      OBVIOUS
  <2>1. /\ pnum # 0 /\ pnum = 1 /\ S!ValidNow(p % Modulus)
        /\ S!Delta(p % Modulus) \in WIN_SIZE .. OVERFLOW_TH - 1
        BY <1>1, <1>7 DEF LossTypes
  <2>2. PICK q \in Nat : \E w \in [S!Places -> Nat] : WindowIs(q, w)
        BY <1>4, <2>1 DEF WindowTracks
  <2>3. PICK w \in [S!Places -> Nat] : WindowIs(q, w)
        BY <2>2
  <2>4. QED
        BY <1>1, <1>5, <2>1, <2>3, LossVerdict
<1> HIDE DEF seqwin, verdict
<1>9. missed => seqwin # NAN /\ verdict = 1
      BY <1>7, <1>8
<1>10. MissedCounted'
  <2> SUFFICES ASSUME verdicts'.missed, every'.meas_sum # {} PROVE 1 \in every'.meas_sum
      BY DEF MissedCounted
  <2>1. missed \/ (verdicts.missed /\ every.meas_sum # {})
        BY <1>7
  <2>2. missed \/ 1 \in every.meas_sum
        BY <1>4, <2>1 DEF MissedCounted
  <2>3. CASE seqwin = NAN
        BY <1>7, <1>9, <2>2, <2>3
  <2>4. CASE seqwin # NAN
    <3>1. every'.meas_sum = every.meas_sum \cup {verdict}
          BY <1>7, <2>4 DEF S!Summed
    <3>2. QED
          BY <1>9, <2>2, <3>1
  <2>5. QED
        BY <2>3, <2>4
<1>11. verdicts'.mean = 0 => ~verdicts'.missed
  <2> SUFFICES ASSUME verdicts'.mean = 0, verdicts'.missed PROVE FALSE
      OBVIOUS
  <2>1. S!Mean(every.meas_sum \cup {verdict}) = 0
        BY <1>7, LossConstants DEF S!MeanOf
  <2>2. every.meas_sum \cup {verdict} = {0}
        BY <2>1, MeanIsZero
  <2>3. missed \/ 1 \in every.meas_sum
        BY <1>4, <1>7 DEF MissedCounted
  <2>4. QED
        BY <1>9, <2>2, <2>3
<1>12. judged' # NAN => (verdicts'.verdict = 1 <=> judged' - WIN_SIZE \notin arrived')
  <2> SUFFICES ASSUME judged' # NAN
               PROVE  verdicts'.verdict = 1 <=> judged' - WIN_SIZE \notin arrived'
      OBVIOUS
  <2>1. judges /\ judged' = p /\ verdicts'.verdict = verdict
        BY <1>7
  <2>2. p - WIN_SIZE \in Arrived(p) <=> p - WIN_SIZE \in arrived
    <3>1. p \in Nat /\ p - WIN_SIZE # p /\ (p - WIN_SIZE) + Spread + WIN_SIZE >= sent
          BY <1>1, <1>5, LossConstants DEF LossTypes
    <3>2. QED
          BY <3>1 DEF Arrived
  <2>3. QED
        BY <1>5, <1>8, <2>1, <2>2
<1>13. S!LossIsLoss'
       BY <1>11, <1>12 DEF S!LossIsLoss
<1>14. QED
       BY <1>6, <1>10, <1>13

\* monl/plugins/seqwin_measure, loss_measure: LossInv is inductive.
LEMMA LossNext ==
  NumbersSuffice /\ LossInv /\ [S!Next]_(S!vars) => LossInv'
<1> SUFFICES ASSUME NumbersSuffice, LossInv, UNCHANGED S!vars PROVE LossInv'
    BY LossSends, LossRx DEF S!Next
<1>1. QED
      BY ZenonT(20) DEF S!vars, LossInv, LossTypes, WindowTracks, WindowIs, MissedCounted,
             S!LossIsLoss,
             S!Places, S!Numbers

\* The rest of the types of the loss measure.
LossRest ==
  /\ repeats \in Nat /\ burst \in Nat
  /\ largest_sn \in S!Numbers
  /\ r.SEQWIN \in S!Numbers \cup {NAN} /\ r.LOSS \in S!Losses
  /\ r.LOSS_BURST \in Nat \cup {NAN}
  /\ every.rx_cnt \in 0 .. LossTxEvery - 1 /\ every.meas_sum \subseteq S!Losses
  /\ judged \in 0 .. sent - 1 \cup {NAN}
  /\ verdicts \in [verdict : S!Losses, mean : S!Losses, missed : BOOLEAN]

\* monl/plugins/loss_measure: a mean of verdicts is NAN, one of them or between them.
LEMMA MeanTypes ==
  ASSUME every.meas_sum \subseteq S!Losses, NEW loss \in S!Losses
  PROVE  S!MeanOf(loss) \in S!Losses
<1> DEFINE values == every.meas_sum \cup {loss}
<1>1. S!Mean(values) \in S!Losses
  <2>1. CASE values \in {{0}, {1}}
    <3>1. (CHOOSE v \in values : TRUE) \in {0, 1}
          BY <2>1
    <3>2. QED
          BY <2>1, <3>1 DEF S!Mean, S!Losses
  <2>2. CASE values \notin {{0}, {1}}
        BY <2>2 DEF S!Mean, S!Losses
  <2>3. QED
        BY <2>1, <2>2
<1>2. QED
      BY <1>1 DEF S!MeanOf, S!Losses

\* monl/plugins/seqwin_measure, loss_measure, loss_burst_measure: what a packet leaves in
\* the result vector and in the sums.
LEMMA LossVectorTypes ==
  ASSUME LossRest, sent \in Nat, sn_win \in [S!Places -> S!Numbers],
         initial_sn \in S!Numbers, NEW p \in 0 .. sent - 1, S!RxPkt(p)
  PROVE  LossRest'
<1> USE LossConstants
<1> DEFINE p_sn == p % Modulus
           seqwin == S!SeqwinOf(p_sn)
           verdict == S!LossOf(seqwin)
           averaged == seqwin # NAN
           mean == IF averaged THEN S!MeanOf(verdict) ELSE NAN
           loss == IF averaged /\ every.rx_cnt = 0 THEN mean ELSE verdict
           judges == pnum # 0 /\ S!ValidNow(p_sn) /\ S!Delta(p_sn) \in WIN_SIZE .. OVERFLOW_TH - 1
           missed == judges /\ p - WIN_SIZE \notin arrived
<1>1. /\ S!FirstPacket(p_sn) \/ S!Window(p_sn)
      /\ S!Burst(loss)
      /\ r' = [SEQWIN |-> seqwin, LOSS |-> loss,
               LOSS_BURST |-> IF loss = 0 THEN burst ELSE r.LOSS_BURST]
      /\ every' = IF averaged THEN S!Summed(verdict) ELSE every
      /\ judged' = IF judges THEN p ELSE NAN
      /\ verdicts' = [verdict |-> IF judges THEN verdict ELSE NAN, mean |-> mean,
                      missed |-> missed \/ (verdicts.missed /\ every.meas_sum # {})]
      /\ repeats' = repeats + (IF p \in arrived THEN 1 ELSE 0)
      /\ sent' = sent
      BY Zenon DEF S!RxPkt
<1>2. p_sn \in S!Numbers
  <2>1. p \in Nat
        OBVIOUS
  <2>2. QED
        BY ONLY <2>1, Quotients, LossConstants
<1> HIDE DEF p_sn
<1>3. \A a, b \in S!Numbers : S!Minus(a, b) \in S!Numbers
  <2>1. \A a, b \in S!Numbers : a - b \in Int
        OBVIOUS
  <2>2. \A x \in Int : x % Modulus \in 0 .. Modulus - 1
        BY ONLY LossConstants
  <2>3. QED
        BY <2>1, <2>2 DEF S!Minus
<1>4. S!Ind(p_sn) \in S!Places
  <2>1. S!Minus(p_sn, initial_sn) \in Nat
    <3>1. S!Minus(p_sn, initial_sn) \in S!Numbers
          BY Zenon, <1>2, <1>3
    <3>2. QED
          BY ONLY <3>1, LossConstants
  <2>2. QED
        BY ONLY <2>1, LossConstants, Quotients DEF S!Ind
<1>5. S!Delta(p_sn) \in S!Numbers
      BY <1>2, <1>3, <1>4 DEF S!Delta
<1>6. seqwin \in S!Numbers \cup {NAN}
      BY <1>5 DEF S!SeqwinOf, LossRest
<1> HIDE DEF seqwin
<1>7. verdict \in S!Losses
      BY DEF S!LossOf, LossRest, S!Losses
<1> HIDE DEF verdict
<1>8. mean \in S!Losses
      BY <1>7, MeanTypes DEF LossRest, S!Losses
<1> HIDE DEF mean
<1>9. loss \in S!Losses
      BY <1>7, <1>8
<1> HIDE DEF loss, judges, missed
<1>10. burst' \in Nat /\ repeats' \in Nat
       BY <1>1 DEF S!Burst, LossRest
<1>11. largest_sn' \in S!Numbers
       BY <1>1, <1>2 DEF S!FirstPacket, S!Window, LossRest
<1>12. /\ r'.SEQWIN \in S!Numbers \cup {NAN} /\ r'.LOSS \in S!Losses
       /\ r'.LOSS_BURST \in Nat \cup {NAN}
       BY <1>1, <1>6, <1>9 DEF LossRest
<1>13. every'.rx_cnt \in 0 .. LossTxEvery - 1 /\ every'.meas_sum \subseteq S!Losses
  <2>1. CASE ~averaged
        BY <1>1, <2>1 DEF LossRest
  <2>2. CASE averaged
    <3>1. /\ every'.rx_cnt = (every.rx_cnt + 1) % LossTxEvery
          /\ every'.meas_sum \subseteq every.meas_sum \cup {verdict}
          BY <1>1, <2>2 DEF S!Summed
    <3>2. LossTxEvery \in Nat \ {0}
          BY PartsAssumption DEF S!SeqWinAssumption
    <3>3. every.rx_cnt + 1 \in Nat
          BY DEF LossRest
    <3>4. (every.rx_cnt + 1) % LossTxEvery \in 0 .. LossTxEvery - 1
          BY ONLY <3>2, <3>3
    <3>5. QED
          BY <1>7, <3>1, <3>4 DEF LossRest
  <2>3. QED
        BY <2>1, <2>2
<1>14. judged' \in 0 .. sent' - 1 \cup {NAN}
       BY <1>1
<1>15. verdicts' \in [verdict : S!Losses, mean : S!Losses, missed : BOOLEAN]
  <2>1. (IF judges THEN verdict ELSE NAN) \in S!Losses
        BY <1>7 DEF S!Losses
  <2>2. (missed \/ (verdicts.missed /\ every.meas_sum # {})) \in BOOLEAN
        BY DEF missed, judges
  <2>3. QED
        BY <1>1, <1>8, <2>1, <2>2
<1>16. QED
       BY <1>10, <1>11, <1>12, <1>13, <1>14, <1>15 DEF LossRest, S!Numbers, S!Losses

\* monl/plugins/seqwin_measure, loss_measure: the window and the result vector are well
\* typed, for any numbers of packets.
LEMMA LossTyped == S!Spec => []S!TypeOK
<1> USE LossConstants
<1>1. S!TypeOK => LossRest
      BY DEF S!TypeOK, LossRest
<1>2. S!Init => S!TypeOK
  <2> SUFFICES ASSUME S!Init PROVE S!TypeOK
      OBVIOUS
  <2>1. 0 \in S!Numbers /\ NAN \in S!Losses /\ 0 \in 0 .. LossTxEvery - 1
        BY PartsAssumption DEF S!SeqWinAssumption, S!Losses
  <2>2. QED
        BY <2>1 DEF S!Init, S!TypeOK
<1>3. S!TypeOK /\ [S!Next]_(S!vars) => S!TypeOK'
  <2> SUFFICES ASSUME S!TypeOK, [S!Next]_(S!vars) PROVE S!TypeOK'
      OBVIOUS
  <2>1. CASE S!SendPacket
    <3>1. /\ sent' = sent + 1
          /\ UNCHANGED <<arrived, repeats, pnum, initial_sn, largest_sn, sn_win, win_valid, r,
                         burst, every, outage, judged, verdicts>>
          BY <2>1 DEF S!SendPacket
    <3>2. sent + 1 \in Nat /\ 0 .. sent - 1 \subseteq 0 .. (sent + 1) - 1
          BY DEF S!TypeOK
    <3>3. QED
          BY <3>1, <3>2 DEF S!TypeOK, S!Numbers, S!Places, S!Losses
  <2>2. ASSUME NEW p \in 0 .. sent - 1, S!RxPkt(p)
        PROVE  S!TypeOK'
    <3>1. LossRest'
          BY <1>1, <2>2, LossVectorTypes DEF S!TypeOK
    <3>2. /\ sent' = sent /\ arrived' \subseteq arrived \cup {p}
          /\ outage' = (outage \/ S!Outage(p % Modulus))
          /\ S!FirstPacket(p % Modulus) \/ S!Window(p % Modulus)
          BY <2>2 DEF S!RxPkt
    <3>3. p % Modulus \in S!Numbers
      <4>1. p \in Nat
            OBVIOUS
      <4>2. QED
            BY ONLY <4>1, Quotients, LossConstants
    <3>4. /\ pnum' \in {0, 1} /\ initial_sn' \in S!Numbers
          /\ sn_win' \in [S!Places -> S!Numbers] /\ win_valid' \in BOOLEAN
      <4>1. CASE S!FirstPacket(p % Modulus)
            BY <3>3, <4>1 DEF S!FirstPacket
      <4>2. CASE S!Window(p % Modulus)
        <5>1. sn_win' \in {sn_win, [sn_win EXCEPT ![S!Ind(p % Modulus)] = p % Modulus]}
              BY <4>2 DEF S!Window
        <5>2. win_valid' \in BOOLEAN /\ UNCHANGED <<pnum, initial_sn>>
              BY <4>2 DEF S!Window, S!ValidNow, S!TypeOK
        <5>3. QED
              BY <3>3, <5>1, <5>2 DEF S!TypeOK
      <4>3. QED
            BY <3>2, <4>1, <4>2
    <3>5. arrived' \subseteq 0 .. sent' - 1 /\ outage' \in BOOLEAN /\ sent' \in Nat
          BY <3>2 DEF S!TypeOK, S!Outage
    <3>6. QED
          BY <3>1, <3>4, <3>5 DEF S!TypeOK, LossRest, S!Numbers, S!Places, S!Losses
  <2>3. CASE UNCHANGED S!vars
        BY <2>3 DEF S!vars, S!TypeOK, S!Numbers, S!Places, S!Losses
  <2>4. QED
        BY <2>1, <2>2, <2>3 DEF S!Next
<1>4. QED
      BY <1>2, <1>3, PTL DEF S!Spec

-----------------------------------------------------------------------------
(* Round trip times.                                                        *)

\* What was summed up, and what the last packet left.
RttSums == [meas_sum : Int \cup {NAN}, meas_cnt : Int, trips : Int, pure : BOOLEAN]
RttSeen == [last_time_rx : Nat, last_time_rem_tx : Nat \cup {NAN}, forward : Nat,
            mixed : BOOLEAN]

RttNear == [status : {"NULL", "INITIALISING", "RUNNING"}, measure : Nat,
            R_REPLY_TIME : Int \cup {NAN}, rx_cnt : Int, sums : RttSums,
            sample : RttSums \cup {NAN}]
RttFar == [counterpart : Nat, R_SEND_TIME : Nat \cup {NAN}, R_REPLY_TIME : Int \cup {NAN},
           seen : RttSeen]
RttControls == [type : {"INIT", "RESPONSE", "DEINIT"}, of : Nat]

RttTypes ==
  /\ now \in Nat \ {0} /\ skew \in Nat
  /\ near \in RttNear
  /\ far \in RttFar
  /\ toFar \subseteq [sent : Nat, of : Nat, header : BOOLEAN]
  /\ toNear \subseteq [sent : Nat, of : Nat, header : BOOLEAN, reply : Int, forward : Nat,
                       mixed : BOOLEAN]
  /\ ctrl \subseteq RttControls

\* What the far node knows of the last packet it saw on behalf of its measure: the time
\* it notes as sent, moved on to its own clock by how long the packet was under way.
FarTimes ==
  ~far.seen.mixed /\ far.seen.last_time_rx # 0 =>
    /\ far.seen.last_time_rem_tx \in Nat
    /\ far.seen.last_time_rx = far.seen.last_time_rem_tx + skew + far.seen.forward

\* A packet of a measure has a header with the time it was sent at.
PacketsToFar == \A p \in toFar : p.sent \in 1 .. now /\ (p.of # 0 => p.header)

\* A packet of a counterpart has a header with the time it was sent at, less the time the
\* packet it answers was under way, unless it answers none.
PacketsToNear ==
  \A p \in toNear :
    /\ p.sent \in 1 .. now /\ (p.of # 0 => p.header)
    /\ p.of # 0 /\ ~p.mixed => p.reply = 0 \/ p.reply = p.sent - p.forward

\* What the near node summed up is what it should have, while all of it is its own.
NearSums ==
  /\ near.status # "NULL" => near.measure # 0
  /\ near.sums.pure /\ near.sums.meas_sum # NAN => near.sums.meas_sum = near.sums.trips
  /\ T!RttIsRoundTrip

RttInv ==
  /\ RttTypes
  /\ FarTimes
  /\ PacketsToFar
  /\ PacketsToNear
  /\ NearSums

\* monl/plugins/rtt_measure.cpp: nothing was sent or summed up at first.
LEMMA RttInit == T!Init => RttInv
<1> SUFFICES ASSUME T!Init PROVE RttInv
    OBVIOUS
<1> USE DEF T!Init, T!NoSum, T!Unseen
<1>1. RttTypes
      BY PartsAssumption DEF T!RttAssumption, RttTypes, RttNear, RttFar, RttControls,
                             RttSums, RttSeen
<1>2. FarTimes /\ PacketsToFar /\ PacketsToNear /\ NearSums
      BY DEF FarTimes, PacketsToFar, PacketsToNear, NearSums, T!RttIsRoundTrip
<1>3. QED
      BY <1>1, <1>2 DEF RttInv

\* What a control message carries.
LEMMA RttControl ==
  ASSUME RttTypes, NEW c \in ctrl
  PROVE  c \in RttControls
BY DEF RttTypes, RttNear, RttFar, RttControls

\* monl/plugins/rtt_measure.cpp: a measure starts from nothing, and so does its counterpart.
LEMMA RttSetUp ==
  ASSUME RttInv,
         T!activateMeasure \/ T!monDestroyMeasure \/ \E c \in ctrl : T!receiveCtrlMsg(c)
  PROVE  RttInv'
<1> USE DEF RttInv
<1>1. UNCHANGED <<now, skew, toFar, toNear>>
      BY DEF T!activateMeasure, T!monDestroyMeasure, T!receiveCtrlMsg
<1>2. PacketsToFar' /\ PacketsToNear'
      BY <1>1 DEF PacketsToFar, PacketsToNear
<1>3. CASE T!activateMeasure
  <2>1. near' \in RttNear
    <3>1. near' = [near EXCEPT !.status = "INITIALISING", !.measure = @ + 1]
          BY <1>3 DEF T!activateMeasure
    <3>2. near \in RttNear
          BY DEF RttTypes
    <3>3. /\ near.measure \in Nat /\ near.R_REPLY_TIME \in Int \cup {NAN}
          /\ near.rx_cnt \in Int /\ near.sums \in RttSums
          /\ near.sample \in RttSums \cup {NAN}
          BY ONLY <3>2 DEF RttNear
    <3> HIDE DEF RttInv
    <3>4. near.measure + 1 \in Nat /\ "INITIALISING" \in {"NULL", "INITIALISING", "RUNNING"}
          BY <3>3
    <3>5. QED
          BY ONLY <3>1, <3>2, <3>3, <3>4 DEF RttNear
  <2>2. ctrl' \subseteq RttControls
        BY <1>3 DEF T!activateMeasure, RttTypes, RttNear, RttControls
  <2>3. RttTypes'
        BY <1>1, <1>3, <2>1, <2>2 DEF T!activateMeasure, RttTypes, RttNear, RttFar,
                                      RttControls
  <2>4. far' = far /\ near'.status # "NULL" /\ near'.measure # 0
        /\ near'.sums = near.sums /\ near'.sample = near.sample
        BY <1>3 DEF T!activateMeasure, RttTypes, RttNear, RttFar, RttControls
  <2>5. QED
        BY <1>1, <1>2, <2>3, <2>4 DEF FarTimes, NearSums, T!RttIsRoundTrip
<1>4. CASE T!monDestroyMeasure
  <2>1. near' \in RttNear
    <3> DEFINE reply == IF "near" \in shared THEN near.R_REPLY_TIME ELSE NAN
    <3>1. near' = [near EXCEPT !.status = "NULL", !.rx_cnt = 0, !.sums = T!NoSum,
                               !.sample = NAN, !.R_REPLY_TIME = reply]
          BY <1>4 DEF T!monDestroyMeasure
    <3>2. near \in RttNear /\ T!NoSum \in RttSums
          BY DEF RttTypes, T!NoSum, RttSums
    <3>3. reply \in Int \cup {NAN} /\ near.measure \in Nat
          BY <3>2 DEF RttNear
    <3>4. near' = [status |-> "NULL", measure |-> near.measure, R_REPLY_TIME |-> reply,
                   rx_cnt |-> 0, sums |-> T!NoSum, sample |-> NAN]
          BY ONLY <3>1, <3>2 DEF RttNear
    <3> HIDE DEF reply
    <3>5. QED
          BY ONLY <3>2, <3>3, <3>4 DEF RttNear
  <2>2. ctrl' \subseteq RttControls
        BY <1>4 DEF T!monDestroyMeasure, RttTypes, RttNear, RttControls
  <2>3. RttTypes'
        BY <1>1, <1>4, <2>1, <2>2 DEF T!monDestroyMeasure, RttTypes, RttNear, RttFar,
                                      RttControls
  <2>4. far' = far /\ near'.status = "NULL" /\ near'.sums = T!NoSum /\ near'.sample = NAN
        BY <1>4 DEF T!monDestroyMeasure, RttTypes, RttNear, RttFar, RttControls
  <2>5. QED
        BY <1>1, <1>2, <2>3, <2>4 DEF FarTimes, NearSums, T!NoSum, T!RttIsRoundTrip
<1>5. ASSUME NEW c \in ctrl, T!receiveCtrlMsg(c)
      PROVE  RttInv'
  <2>1. CASE T!initRemoteMeasureRx(c)
    <3>1. /\ c.of \in Nat
          /\ far' = [T!Vacated(far) EXCEPT !.counterpart = c.of]
          /\ ctrl' = (ctrl \ {c}) \cup {[type |-> "RESPONSE", of |-> c.of]}
          BY <2>1, RttControl DEF T!initRemoteMeasureRx, T!Started, RttControls, RttInv
    <3>2. far' \in RttFar
          BY Zenon, <3>1 DEF T!Vacated, T!Unseen, RttTypes, RttNear, RttFar, RttControls, RttSeen
    <3>3. ctrl' \subseteq RttControls
          BY <3>1 DEF RttTypes, RttNear, RttFar, RttControls
    <3>4. near' = near
          BY <2>1 DEF T!initRemoteMeasureRx
    <3>5. RttTypes'
          BY <1>1, <3>2, <3>3, <3>4 DEF RttTypes, RttNear, RttFar, RttControls
    <3>6. near' = near /\ far'.seen = T!Unseen
          BY <2>1 DEF T!initRemoteMeasureRx, T!Started, T!Vacated
    <3>7. QED
          BY <1>1, <1>2, <3>5, <3>6 DEF FarTimes, NearSums, T!Unseen, T!RttIsRoundTrip
  <2>2. CASE T!deinitRemoteMeasureRx(c)
    <3>1. RttTypes'
          BY <1>1, <2>2, RttControl
             DEF T!deinitRemoteMeasureRx, T!Vacated, T!Unseen, RttTypes, RttNear, RttFar,
                 RttControls, RttSeen
    <3>2. near' = near /\ (far'.seen = T!Unseen \/ far'.seen = far.seen)
          BY <2>2 DEF T!deinitRemoteMeasureRx, T!Vacated
    <3>3. QED
          BY <1>1, <1>2, <3>1, <3>2 DEF FarTimes, NearSums, T!Unseen, T!RttIsRoundTrip
  <2>3. CASE T!remoteMeasureResponseRx(c)
    <3>1. RttTypes'
          BY <1>1, <2>3 DEF T!remoteMeasureResponseRx, RttTypes, RttNear, RttFar,
                            RttControls
    <3>2. /\ far' = far /\ near'.sums = near.sums /\ near'.sample = near.sample
          /\ near'.measure = near.measure /\ (near.status = "NULL" => near' = near)
          BY <2>3 DEF T!remoteMeasureResponseRx, RttTypes, RttNear, RttFar, RttControls
    <3>3. QED
          BY <1>1, <1>2, <3>1, <3>2 DEF FarTimes, NearSums, T!RttIsRoundTrip
  <2>4. QED
        BY <1>5, <2>1, <2>2, <2>3 DEF T!receiveCtrlMsg
<1>6. QED
      BY <1>3, <1>4, <1>5

\* monl/plugins/rtt_measure.cpp: the counterpart notes when a packet was sent and when it
\* came, the difference of which is how long it was under way and the clocks are apart.
LEMMA RttFarSees ==
  ASSUME RttInv, NEW p \in toFar, T!cbRxPktFar(p)
  PROVE  RttInv'
<1> USE DEF RttInv
<1> DEFINE f == IF T!FarEntry /\ p.header THEN [far EXCEPT !.R_SEND_TIME = p.sent] ELSE far
<1>1. UNCHANGED <<now, skew, near, toFar, toNear, ctrl>> /\ far' = T!RxPktFar(f, p)
      BY DEF T!cbRxPktFar
<1>2. PacketsToFar' /\ PacketsToNear' /\ NearSums'
      BY <1>1 DEF PacketsToFar, PacketsToNear, NearSums, T!RttIsRoundTrip
<1>3. p.sent \in 1 .. now /\ p.sent \in Nat
      BY DEF PacketsToFar, RttTypes, RttNear, RttFar, RttControls
<1>4. /\ f.counterpart = far.counterpart /\ f.seen = far.seen
      /\ f \in RttFar
      BY <1>3 DEF RttTypes, RttNear, RttFar, RttControls
<1>5. far.counterpart # 0 /\ p.of = far.counterpart => f.R_SEND_TIME = p.sent
      BY DEF PacketsToFar, T!FarEntry, RttTypes, RttNear, RttFar, RttControls
<1> HIDE DEF f
<1>6. CASE f.counterpart = 0
  <2>1. far' = f
        BY <1>1, <1>6 DEF T!RxPktFar
  <2>2. QED
        BY <1>1, <1>2, <1>4, <2>1 DEF RttTypes, RttNear, RttFar, RttControls, FarTimes
<1>7. CASE f.counterpart # 0
  <2> DEFINE g == [last_time_rx |-> now + skew, last_time_rem_tx |-> f.R_SEND_TIME,
                   forward |-> now - p.sent, mixed |-> p.of # f.counterpart]
  <2>1. far' = [f EXCEPT !.seen = g]
        BY <1>1, <1>7 DEF T!RxPktFar
  <2>2. g \in RttSeen
        BY <1>3, <1>4 DEF RttSeen, RttTypes, RttNear, RttFar, RttControls
  <2>3. far'.seen = g /\ RttTypes'
        BY <1>1, <1>4, <2>1, <2>2 DEF RttTypes, RttNear, RttFar, RttControls
  <2>4. FarTimes'
    <3> SUFFICES ASSUME ~far'.seen.mixed
                 PROVE  /\ far'.seen.last_time_rem_tx \in Nat
                        /\ far'.seen.last_time_rx
                             = far'.seen.last_time_rem_tx + skew + far'.seen.forward
        BY <1>1 DEF FarTimes
    <3>1. g.mixed = (p.of # f.counterpart)
          OBVIOUS
    <3>2. f.R_SEND_TIME = p.sent
      <4> HIDE DEF g
      <4>1. QED
            BY <1>4, <1>5, <1>7, <2>3, <3>1, Zenon
    <3>3. /\ far'.seen.last_time_rem_tx = p.sent /\ far'.seen.last_time_rx = now + skew
          /\ far'.seen.forward = now - p.sent
          BY <2>3, <3>2
    <3>4. now \in Nat /\ skew \in Nat
          BY DEF RttTypes, RttNear, RttFar, RttControls
    <3>5. QED
          BY <1>3, <3>3, <3>4
  <2>5. QED
        BY <1>1, <1>2, <2>3, <2>4
<1>8. QED
      BY <1>6, <1>7

\* monl/measure_dispatcher.cpp: a packet takes the time it is sent at along, and that of
\* the counterpart what there is to subtract from it.
LEMMA RttSends ==
  ASSUME RttInv, T!cbTxPktNear \/ T!cbTxPktFar
  PROVE  RttInv'
<1> USE DEF RttInv
<1>1. CASE T!cbTxPktNear
  <2> DEFINE p == [sent |-> now, header |-> T!NearEntry,
                   of |-> IF near.status = "NULL" THEN 0 ELSE near.measure]
  <2>1. UNCHANGED <<now, skew, near, far, toNear, ctrl>> /\ toFar' = toFar \cup {p}
        BY <1>1 DEF T!cbTxPktNear
  <2>2. p \in [sent : Nat, of : Nat, header : BOOLEAN]
        BY DEF RttTypes, RttNear, RttFar, RttControls, T!NearEntry
  <2>3. near.status # "NULL" => T!NearEntry
        BY DEF T!NearEntry
  <2>4. p.sent = now /\ p.header = T!NearEntry /\ (near.status = "NULL" => p.of = 0)
        OBVIOUS
  <2>5. p.sent \in 1 .. now /\ (p.of # 0 => p.header)
        BY ONLY <2>3, <2>4, RttTypes DEF RttTypes, RttNear, RttFar, RttControls
  <2> HIDE DEF p
  <2>6. RttTypes'
        BY <2>1, <2>2 DEF RttTypes, RttNear, RttFar, RttControls
  <2>7. QED
        BY <2>1, <2>5, <2>6
           DEF FarTimes, PacketsToFar, PacketsToNear, NearSums, T!RttIsRoundTrip
<1>2. CASE T!cbTxPktFar
  <2> DEFINE reply == IF far.counterpart = 0 THEN far.R_REPLY_TIME ELSE T!Reply(far)
             p == [sent |-> now, of |-> far.counterpart, header |-> T!FarEntry,
                   reply |-> IF reply = NAN THEN 0 ELSE reply,
                   forward |-> far.seen.forward, mixed |-> far.seen.mixed]
  <2>1. UNCHANGED <<now, skew, near, toFar, ctrl>>
        /\ far' = [far EXCEPT !.R_REPLY_TIME = reply] /\ toNear' = toNear \cup {p}
        BY <1>2 DEF T!cbTxPktFar
  <2>2. reply \in Int \cup {NAN}
        BY DEF RttTypes, RttNear, RttFar, RttControls, RttSeen, T!Reply
  <2>3. far.counterpart # 0 /\ ~far.seen.mixed /\ reply # NAN => reply = now - far.seen.forward
        BY DEF T!Reply, FarTimes, RttTypes, RttNear, RttFar, RttControls, RttSeen
  <2> HIDE DEF reply
  <2>4. p \in [sent : Nat, of : Nat, header : BOOLEAN, reply : Int, forward : Nat,
               mixed : BOOLEAN]
        BY <2>2 DEF RttTypes, RttNear, RttFar, RttControls, RttSeen, T!FarEntry
  <2>5. p.sent = now /\ (p.of # 0 => p.header)
        /\ (p.of # 0 /\ ~p.mixed => p.reply = 0 \/ p.reply = p.sent - p.forward)
        BY <2>3 DEF T!FarEntry
  <2> HIDE DEF p
  <2>6. far'.seen = far.seen /\ RttTypes'
        BY <2>1, <2>2, <2>4 DEF RttTypes, RttNear, RttFar, RttControls
  <2>7. PacketsToFar' /\ NearSums' /\ FarTimes'
        BY <2>1, <2>6 DEF PacketsToFar, NearSums, T!RttIsRoundTrip, FarTimes
  <2>8. PacketsToNear'
        BY <2>1, <2>5 DEF PacketsToNear, RttTypes, RttNear, RttFar, RttControls
  <2>9. QED
        BY <2>6, <2>7, <2>8
<1>3. QED
      BY <1>1, <1>2

\* monl/plugins/rtt_measure.cpp: now less the reply time is how long the packet and the
\* one it answers were under way.
LEMMA RttNearSees ==
  ASSUME RttInv, NEW p \in toNear, T!cbRxPktNear(p)
  PROVE  RttInv'
<1> USE DEF RttInv
<1> DEFINE n == IF T!NearEntry /\ p.header THEN [near EXCEPT !.R_REPLY_TIME = p.reply]
                ELSE near
           sums == T!Summed(n, p)
<1>1. UNCHANGED <<now, skew, far, toFar, toNear, ctrl>> /\ near' = T!RxPktNear(n, p)
      BY DEF T!cbRxPktNear
<1>2. PacketsToFar' /\ PacketsToNear' /\ FarTimes'
      BY <1>1 DEF PacketsToFar, PacketsToNear, FarTimes
<1>3. /\ p.sent \in 1 .. now /\ p.forward \in Nat /\ p.reply \in Int /\ p.mixed \in BOOLEAN
      /\ now \in Nat
      BY DEF PacketsToNear, RttTypes, RttNear, RttFar, RttControls
<1>4. /\ n \in RttNear
      /\ n.status = near.status /\ n.measure = near.measure /\ n.rx_cnt = near.rx_cnt
      /\ n.sums = near.sums /\ n.sample = near.sample
      BY <1>3 DEF RttTypes, RttNear, RttFar, RttControls
<1>5. near.status # "NULL" /\ p.of = near.measure => n.R_REPLY_TIME = p.reply
      BY DEF PacketsToNear, T!NearEntry, RttTypes, RttNear, RttFar, RttControls, NearSums
<1> HIDE DEF n
<1>6. CASE near' = n
  <2>1. RttTypes'
        BY <1>1, <1>4, <1>6 DEF RttTypes, RttNear, RttFar, RttControls
  <2>2. QED
        BY <1>1, <1>2, <1>4, <1>6, <2>1 DEF NearSums, T!RttIsRoundTrip
<1>7. CASE n.status = "RUNNING" /\ n.R_REPLY_TIME # 0
  <2>1. n.sums \in RttSums /\ n.R_REPLY_TIME \in Int \cup {NAN}
        BY <1>4 DEF RttNear
  <2>2. /\ sums \in RttSums
        /\ sums.trips = n.sums.trips + p.forward + now - p.sent
        /\ sums.pure = (n.sums.pure /\ p.of = n.measure /\ ~p.mixed)
        BY <1>3, <2>1 DEF T!Summed, RttSums
  <2>3. sums.meas_sum # NAN => /\ n.sums.meas_sum # NAN /\ n.R_REPLY_TIME # NAN
                               /\ sums.meas_sum = n.sums.meas_sum + (now - n.R_REPLY_TIME)
        BY DEF T!Summed
  <2>4. sums.pure => n.R_REPLY_TIME = p.sent - p.forward
        BY <1>4, <1>5, <1>7, <2>2 DEF PacketsToNear, NearSums
  <2>5. sums.pure /\ sums.meas_sum # NAN => sums.meas_sum = sums.trips
    <3> SUFFICES ASSUME sums.pure, sums.meas_sum # NAN PROVE sums.meas_sum = sums.trips
        OBVIOUS
    <3>1. n.sums.meas_sum = n.sums.trips
          BY Zenon, <1>4, <2>2, <2>3 DEF NearSums
    <3>2. n.sums.trips \in Int
          BY <2>1 DEF RttSums
    <3> HIDE DEF sums
    <3>3. QED
          BY <1>3, <2>2, <2>3, <2>4, <3>1, <3>2
  <2>6. PICK cnt \in Int :
          near' = [n EXCEPT !.rx_cnt = cnt,
                            !.sums = IF n.rx_cnt = 0 THEN T!NoSum ELSE sums,
                            !.sample = IF n.rx_cnt = 0 /\ sums.meas_sum # NAN /\ sums.pure
                                       THEN sums ELSE n.sample]
    <3>1. (n.rx_cnt + 1) % RttTxEvery \in Int
          BY <1>4, PartsAssumption DEF T!RttAssumption, RttNear
    <3>2. QED
          BY <1>1, <1>7, <3>1 DEF T!RxPktNear
  <2> HIDE DEF sums
  <2>7. T!NoSum \in RttSums
        BY DEF T!NoSum, RttSums
  <2>8. /\ near' \in RttNear
        /\ near'.status = n.status /\ near'.measure = n.measure
        /\ near'.sums = IF n.rx_cnt = 0 THEN T!NoSum ELSE sums
        /\ near'.sample \in {n.sample, sums}
        /\ near'.sample = n.sample \/ (sums.meas_sum # NAN /\ sums.pure)
        BY <1>4, <2>2, <2>6, <2>7 DEF RttNear
  <2>9. RttTypes'
        BY <1>1, <2>8 DEF RttTypes, RttNear, RttFar, RttControls
  <2>10. NearSums'
        BY <1>4, <2>5, <2>8 DEF NearSums, T!NoSum, T!RttIsRoundTrip
  <2>11. QED
        BY <1>2, <2>9, <2>10
<1>8. QED
      BY <1>1, <1>6, <1>7 DEF T!RxPktNear

\* monl/plugins/rtt_measure.cpp: RttInv is inductive.
LEMMA RttNext == RttInv /\ [T!Next]_(T!rttVars) => RttInv'
<1> SUFFICES ASSUME RttInv, [T!Next]_(T!rttVars) PROVE RttInv'
    OBVIOUS
<1>1. CASE T!Tick
  <2>1. UNCHANGED <<skew, near, far, toFar, toNear, ctrl>> /\ now' = now + 1
        BY <1>1 DEF T!Tick
  <2>2. QED
        BY <2>1 DEF RttInv, RttTypes, RttNear, RttFar, RttControls, FarTimes, PacketsToFar,
                    PacketsToNear, NearSums,
                    T!RttIsRoundTrip
<1>2. CASE UNCHANGED T!rttVars
      BY <1>2 DEF T!rttVars, RttInv, RttTypes, RttNear, RttFar, RttControls, FarTimes,
                  PacketsToFar, PacketsToNear, NearSums,
                  T!RttIsRoundTrip
<1>3. QED
      BY <1>1, <1>2, RttSetUp, RttSends, RttFarSees, RttNearSees DEF T!Next

\* monl/plugins: a packet is counted as lost exactly when it did not arrive, and a round
\* trip time is how long two packets were under way: for any window, delays and clocks,
\* as long as the packets of a measure do not come round to its first numbers.
THEOREM MeasuredHolds == NumbersSuffice => (PartsSpec => []Measured)
<1> SUFFICES ASSUME NumbersSuffice PROVE PartsSpec => []Measured
    OBVIOUS
<1>1. S!Init => LossInv
      BY LossInit
<1>2. LossInv /\ [S!Next]_(S!vars) => LossInv'
      BY LossNext
<1>3. LossInv => S!LossIsLoss
      BY DEF LossInv, LossTypes, S!LossIsLoss
<1>4. RttInv => T!RttIsRoundTrip
      BY DEF RttInv, NearSums
<1>5. QED
      BY <1>1, <1>2, <1>3, <1>4, RttInit, RttNext, PTL DEF PartsSpec, S!Spec, T!Spec, Measured

\* The values of a round trip stay in the bounds of the time and of tx_every.
RttBounds ==
  /\ now \in 1 .. MaxTime /\ skew \in Skews /\ shared \in Sharing
  /\ near.measure <= MaxMeasures
  /\ near.rx_cnt \in 0 .. RttTxEvery - 1
  /\ near.sums.meas_cnt \in 0 .. RttTxEvery - 1
  /\ near.rx_cnt > 0 => near.sums.meas_cnt = near.rx_cnt - 1
  /\ near.sample # NAN => near.sample.meas_cnt \in 0 .. RttTxEvery
  /\ far.counterpart <= MaxMeasures
  /\ far.R_SEND_TIME # NAN => far.R_SEND_TIME <= MaxTime
  /\ far.seen.last_time_rem_tx # NAN => far.seen.last_time_rem_tx <= MaxTime
  /\ far.seen.forward <= MaxTime
  /\ \A p \in toFar : p.of <= MaxMeasures
  /\ \A p \in toNear : p.of <= MaxMeasures /\ p.forward <= MaxTime
  /\ \A c \in ctrl : c.of <= MaxMeasures
  /\ packets \in [{"near", "far"} -> Nat]

\* What the times of a round trip rest on.
LEMMA RttConstants ==
  /\ RttTxEvery \in Nat \ {0} /\ MaxTime \in Nat \ {0} /\ MaxMeasures \in Nat
  /\ Skews \subseteq Nat /\ NAN \notin Int
BY PartsAssumption DEF T!RttAssumption, S!SeqWinAssumption

\* The types of the parts of a round trip, one by one.
LEMMA RttFields ==
  ASSUME RttTypes
  PROVE  /\ now \in Nat /\ skew \in Nat
         /\ near.measure \in Nat /\ near.rx_cnt \in Int
         /\ near.sums.meas_cnt \in Int
         /\ near.sample # NAN => near.sample \in RttSums
         /\ far.counterpart \in Nat /\ far.seen.forward \in Nat
         /\ far.R_SEND_TIME \in Nat \cup {NAN}
         /\ far.seen.last_time_rem_tx \in Nat \cup {NAN}
BY DEF RttTypes, RttNear, RttFar, RttSums, RttSeen

\* monl/plugins/rtt_measure.cpp: what is in its bounds is well typed.
LEMMA RttBounded == RttInv /\ RttBounds => T!TypeOK
<1> SUFFICES ASSUME RttInv, RttBounds PROVE T!TypeOK
    OBVIOUS
<1> USE RttConstants
<1>1. RttTypes /\ PacketsToFar /\ PacketsToNear
      BY DEF RttInv
<1>2. /\ \A x \in Nat : x <= MaxTime => x \in T!Times
      /\ \A x \in Nat : x <= MaxMeasures => x \in T!Measures
      /\ \A x \in 1 .. now : x \in T!Times
  <2>1. MaxTime <= MaxTime + MaxTime /\ now <= MaxTime
        BY DEF RttBounds
  <2>2. QED
        BY <2>1 DEF T!Times, T!Measures, RttBounds
<1>3. near.sums \in RttSums /\ near.sample \in RttSums \cup {NAN}
      BY <1>1 DEF RttTypes, RttNear
<1>4. near.sums \in T!Sums
  <2>1. near.sums.meas_cnt \in 0 .. RttTxEvery
        BY DEF RttBounds
  <2>2. QED
        BY <1>3, <2>1 DEF RttSums, T!Sums
<1>5. near.sample \in T!Sums \cup {NAN}
  <2>1. near.sample # NAN => near.sample.meas_cnt \in 0 .. RttTxEvery
        BY DEF RttBounds
  <2>2. QED
        BY <1>3, <2>1 DEF RttSums, T!Sums
<1>6. far.seen \in T!Seen
  <2>1. far.seen \in RttSeen
        BY <1>1 DEF RttTypes, RttFar
  <2>2. /\ far.seen.last_time_rem_tx \in T!Times \cup {NAN}
        /\ far.seen.forward \in T!Times
        BY <1>2, <2>1 DEF RttSeen, RttBounds
  <2>3. QED
        BY <2>1, <2>2 DEF RttSeen, T!Seen, T!Values
<1>7. ASSUME NEW p \in toFar PROVE p \in T!PacketToFar
  <2>1. p \in [sent : Nat, of : Nat, header : BOOLEAN]
        BY <1>1 DEF RttTypes
  <2>2. p.sent \in T!Times /\ p.of \in T!Measures
        BY <1>1, <1>2, <2>1 DEF PacketsToFar, RttBounds
  <2>3. QED
        BY <2>1, <2>2 DEF T!PacketToFar
<1>8. ASSUME NEW p \in toNear PROVE p \in T!PacketToNear
  <2>1. p \in [sent : Nat, of : Nat, header : BOOLEAN, reply : Int, forward : Nat,
               mixed : BOOLEAN]
        BY <1>1 DEF RttTypes
  <2>2. p.sent \in T!Times /\ p.of \in T!Measures /\ p.forward \in T!Times
        BY <1>1, <1>2, <2>1 DEF PacketsToNear, RttBounds
  <2>3. QED
        BY <2>1, <2>2 DEF T!PacketToNear
<1>9. ASSUME NEW c \in ctrl PROVE c \in T!Control
  <2>1. c \in RttControls
        BY <1>1 DEF RttTypes
  <2>2. c.of \in T!Measures
        BY <1>2, <2>1 DEF RttControls, RttBounds
  <2>3. QED
        BY <2>1, <2>2 DEF RttControls, T!Control
<1>10. /\ near.status \in {"NULL", "INITIALISING", "RUNNING"}
       /\ near.measure \in T!Measures /\ near.R_REPLY_TIME \in Int \cup {NAN}
       /\ far.counterpart \in T!Measures /\ far.R_REPLY_TIME \in Int \cup {NAN}
       /\ far.R_SEND_TIME \in T!Values
       BY <1>1, <1>2 DEF RttTypes, RttNear, RttFar, RttBounds, T!Values
<1>11. QED
       BY <1>4, <1>5, <1>6, <1>7, <1>8, <1>9, <1>10 DEF RttBounds, T!TypeOK

\* monl/plugins/rtt_measure.cpp: measures are set up and taken down within the bounds.
LEMMA RttSetUpBounds ==
  ASSUME RttInv, RttBounds,
         T!activateMeasure \/ T!monDestroyMeasure \/ \E c \in ctrl : T!receiveCtrlMsg(c)
  PROVE  RttBounds'
<1> USE RttConstants
<1>1. RttTypes
      BY DEF RttInv
<1>2. UNCHANGED <<now, skew, shared, toFar, toNear, packets>>
      BY DEF T!activateMeasure, T!monDestroyMeasure, T!receiveCtrlMsg
<1>3. near \in RttNear /\ far \in RttFar
      BY <1>1 DEF RttTypes
<1>4. CASE T!activateMeasure
  <2>1. /\ near' = [near EXCEPT !.status = "INITIALISING", !.measure = @ + 1]
        /\ ctrl' = ctrl \cup {[type |-> "INIT", of |-> near.measure + 1]}
        /\ near.measure < MaxMeasures /\ far' = far
        BY <1>4 DEF T!activateMeasure
  <2>2. /\ near'.measure = near.measure + 1 /\ near'.rx_cnt = near.rx_cnt
        /\ near'.sums = near.sums /\ near'.sample = near.sample
        BY <1>3, <2>1 DEF RttNear
  <2>3. near.measure \in Nat /\ near.measure + 1 <= MaxMeasures
        BY <1>3, <2>1 DEF RttNear
  <2>4. QED
        BY <1>2, <2>1, <2>2, <2>3 DEF RttBounds
<1>5. CASE T!monDestroyMeasure
  <2>1. /\ near' = [near EXCEPT !.status = "NULL", !.rx_cnt = 0, !.sums = T!NoSum, !.sample = NAN,
                          !.R_REPLY_TIME = IF "near" \in shared THEN @ ELSE NAN]
        /\ \A c \in ctrl' : c \in ctrl \/ c.of = near.measure
        /\ far' = far
        BY <1>5 DEF T!monDestroyMeasure
  <2>2. /\ near'.measure = near.measure /\ near'.rx_cnt = 0
        /\ near'.sums.meas_cnt = 0 /\ near'.sample = NAN
        BY <1>3, <2>1 DEF RttNear, T!NoSum
  <2>3. 0 \in 0 .. RttTxEvery - 1
        OBVIOUS
  <2>4. QED
        BY <1>2, <2>1, <2>2, <2>3 DEF RttBounds
<1>6. ASSUME NEW c \in ctrl, T!receiveCtrlMsg(c)
      PROVE  RttBounds'
  <2>1. c.of <= MaxMeasures /\ c.of \in Nat
        BY <1>1, RttControl DEF RttBounds, RttControls
  <2>2. \A x \in ctrl' : x \in ctrl \/ x.of = c.of
        BY <1>6 DEF T!receiveCtrlMsg, T!initRemoteMeasureRx, T!deinitRemoteMeasureRx,
                        T!remoteMeasureResponseRx
  <2>3. /\ near'.measure = near.measure /\ near'.rx_cnt = near.rx_cnt
        /\ near'.sums = near.sums /\ near'.sample = near.sample
        BY <1>3, <1>6 DEF RttNear, T!receiveCtrlMsg, T!initRemoteMeasureRx,
                          T!deinitRemoteMeasureRx, T!remoteMeasureResponseRx
  <2>4. /\ far'.counterpart \in {far.counterpart, 0, c.of}
        /\ far'.R_SEND_TIME \in {far.R_SEND_TIME, NAN}
        /\ far'.seen \in {far.seen, T!Unseen}
    <3>1. far' \in {far, T!Vacated(far), [T!Vacated(far) EXCEPT !.counterpart = c.of]}
          BY <1>6 DEF T!receiveCtrlMsg, T!initRemoteMeasureRx, T!deinitRemoteMeasureRx,
                      T!remoteMeasureResponseRx, T!Started
    <3>2. QED
          BY <3>1 DEF T!Vacated
  <2>5. /\ T!Unseen.last_time_rem_tx = 0 /\ T!Unseen.forward = 0
        /\ 0 <= MaxTime /\ 0 <= MaxMeasures
        BY DEF T!Unseen
  <2>6. QED
        BY <1>2, <2>1, <2>2, <2>3, <2>4, <2>5 DEF RttBounds
<1>7. QED
      BY <1>4, <1>5, <1>6

\* monl/measure_dispatcher.cpp: packets carry times up to now and measures there were.
LEMMA RttSendBounds ==
  ASSUME RttInv, RttBounds, T!cbTxPktNear \/ T!cbTxPktFar
  PROVE  RttBounds'
<1> USE RttConstants
<1>1. near \in RttNear /\ far \in RttFar
      BY DEF RttInv, RttTypes
<1>2. packets' \in [{"near", "far"} -> Nat]
      BY DEF T!cbTxPktNear, T!cbTxPktFar, T!Sends, RttBounds
<1>3. CASE T!cbTxPktNear
  <2>1. /\ UNCHANGED <<now, skew, shared, near, far, toNear, ctrl>>
        /\ \A p \in toFar' : p \in toFar \/ p.of \in {0, near.measure}
        BY <1>3 DEF T!cbTxPktNear
  <2>2. QED
        BY <1>2, <2>1 DEF RttBounds
<1>4. CASE T!cbTxPktFar
  <2> DEFINE reply == IF far.counterpart = 0 THEN far.R_REPLY_TIME ELSE T!Reply(far)
             packet == [sent |-> now, of |-> far.counterpart, header |-> T!FarEntry,
                        reply |-> IF reply = NAN THEN 0 ELSE reply,
                        forward |-> far.seen.forward, mixed |-> far.seen.mixed]
  <2>1. /\ UNCHANGED <<now, skew, shared, near, toFar, ctrl>>
        /\ \A p \in toNear' : \/ p \in toNear
                              \/ p.of = far.counterpart /\ p.forward = far.seen.forward
        /\ far' = [far EXCEPT !.R_REPLY_TIME = reply]
    <3>1. /\ UNCHANGED <<now, skew, shared, near, toFar, ctrl>>
          /\ far' = [far EXCEPT !.R_REPLY_TIME = reply] /\ toNear' = toNear \cup {packet}
          BY Zenon, <1>4 DEF T!cbTxPktFar
    <3>2. packet.of = far.counterpart /\ packet.forward = far.seen.forward
          OBVIOUS
    <3>3. QED
          BY Zenon, <3>1, <3>2
  <2> HIDE DEF reply, packet
  <2>2. /\ far'.counterpart = far.counterpart /\ far'.R_SEND_TIME = far.R_SEND_TIME
        /\ far'.seen = far.seen
        BY <1>1, <2>1 DEF RttFar
  <2>3. QED
        BY <1>2, <2>1, <2>2 DEF RttBounds
<1>5. QED
      BY <1>3, <1>4

\* monl/plugins/rtt_measure.cpp: the counterpart notes times up to now.
LEMMA RttFarBounds ==
  ASSUME RttInv, RttBounds, NEW p \in toFar, T!cbRxPktFar(p)
  PROVE  RttBounds'
<1> USE RttConstants
<1> DEFINE f == IF T!FarEntry /\ p.header THEN [far EXCEPT !.R_SEND_TIME = p.sent] ELSE far
<1>1. UNCHANGED <<now, skew, shared, near, toFar, toNear, ctrl, packets>>
      /\ far' = T!RxPktFar(f, p)
      BY DEF T!cbRxPktFar
<1>2. far \in RttFar /\ p.sent \in 1 .. now /\ now \in Nat /\ now <= MaxTime
      BY DEF RttInv, RttTypes, PacketsToFar, RttBounds
<1>3. /\ f.counterpart = far.counterpart /\ f.seen = far.seen
      /\ f.R_SEND_TIME \in {far.R_SEND_TIME, p.sent} /\ f \in RttFar
      BY <1>2 DEF RttFar
<1> HIDE DEF f
<1>4. /\ far'.counterpart = far.counterpart /\ far'.R_SEND_TIME = f.R_SEND_TIME
      /\ \/ far'.seen = far.seen
         \/ /\ far'.seen.last_time_rem_tx = f.R_SEND_TIME
            /\ far'.seen.forward = now - p.sent
      BY <1>1, <1>3 DEF T!RxPktFar, RttFar
<1>5. p.sent <= MaxTime /\ now - p.sent <= MaxTime
      BY <1>2
<1>6. QED
      BY <1>1, <1>3, <1>4, <1>5 DEF RttBounds

\* monl/mon_measure.cpp: every() sums up no more than tx_every round trips.
LEMMA RttNearBounds ==
  ASSUME RttInv, RttBounds, NEW p \in toNear, T!cbRxPktNear(p)
  PROVE  RttBounds'
<1> USE RttConstants
<1> DEFINE n == IF T!NearEntry /\ p.header THEN [near EXCEPT !.R_REPLY_TIME = p.reply]
                ELSE near
           sums == T!Summed(n, p)
<1>1. UNCHANGED <<now, skew, shared, far, toFar, toNear, ctrl, packets>>
      /\ near' = T!RxPktNear(n, p)
      BY DEF T!cbRxPktNear
<1>2. near \in RttNear
      BY DEF RttInv, RttTypes
<1>3. /\ n.measure = near.measure /\ n.rx_cnt = near.rx_cnt
      /\ n.sums = near.sums /\ n.sample = near.sample
      /\ n = [status |-> n.status, measure |-> n.measure, R_REPLY_TIME |-> n.R_REPLY_TIME,
              rx_cnt |-> n.rx_cnt, sums |-> n.sums, sample |-> n.sample]
      BY <1>2 DEF RttNear
<1> HIDE DEF n
<1>4. CASE near' = n
      BY <1>1, <1>3, <1>4 DEF RttBounds
<1>5. CASE near' # n
  <2>1. /\ sums.meas_cnt = n.sums.meas_cnt + 1
        BY DEF T!Summed
  <2> HIDE DEF sums
  <2>2. near' = [n EXCEPT !.rx_cnt = (@ + 1) % RttTxEvery,
                          !.sums = IF n.rx_cnt = 0 THEN T!NoSum ELSE sums,
                          !.sample = IF n.rx_cnt = 0 /\ sums.meas_sum # NAN /\ sums.pure
                                     THEN sums ELSE @]
        BY <1>1, <1>5 DEF T!RxPktNear, sums
  <2>3. /\ near'.measure = near.measure /\ near'.rx_cnt = (near.rx_cnt + 1) % RttTxEvery
        /\ near'.sums = IF near.rx_cnt = 0 THEN T!NoSum ELSE sums
        /\ near'.sample \in {near.sample, sums}
        BY <1>3, <2>2
  <2>4. /\ near.rx_cnt \in 0 .. RttTxEvery - 1
        /\ near.sums.meas_cnt \in 0 .. RttTxEvery - 1
        /\ near.rx_cnt > 0 => near.sums.meas_cnt = near.rx_cnt - 1
        BY DEF RttBounds
  <2>5. sums.meas_cnt \in 0 .. RttTxEvery
        BY <1>3, <2>1, <2>4
  <2>6. near'.rx_cnt = IF near.rx_cnt + 1 = RttTxEvery THEN 0 ELSE near.rx_cnt + 1
        BY ONLY <2>3, <2>4, RttConstants
  <2>7. near'.sums.meas_cnt = IF near.rx_cnt = 0 THEN 0 ELSE near.rx_cnt
        BY <1>3, <2>1, <2>3, <2>4 DEF T!NoSum
  <2>8. /\ near'.rx_cnt \in 0 .. RttTxEvery - 1
        /\ near'.sums.meas_cnt \in 0 .. RttTxEvery - 1
        /\ near'.rx_cnt > 0 => near'.sums.meas_cnt = near'.rx_cnt - 1
        BY ONLY <2>4, <2>6, <2>7, RttConstants
  <2>9. QED
        BY <1>1, <2>3, <2>5, <2>8 DEF RttBounds
<1>6. QED
      BY <1>4, <1>5

\* monl/plugins/rtt_measure.cpp: the measure and its packets are well typed, for any
\* bounds, skews and sharing.
LEMMA RttTyped == T!Spec => []T!TypeOK
<1> USE RttConstants
<1>1. T!Init => RttBounds
  <2>1. 1 \in 1 .. MaxTime /\ 0 \in 0 .. RttTxEvery - 1 /\ 0 <= MaxMeasures /\ 0 <= MaxTime
        OBVIOUS
  <2>2. QED
        BY <2>1 DEF T!Init, RttBounds, T!NoSum, T!Unseen
<1>2. RttInv /\ RttBounds /\ [T!Next]_(T!rttVars) => RttBounds'
  <2> SUFFICES ASSUME RttInv, RttBounds, [T!Next]_(T!rttVars) PROVE RttBounds'
      OBVIOUS
  <2>1. CASE T!Tick
    <3>1. /\ UNCHANGED <<skew, shared, near, far, toFar, toNear, ctrl, packets>>
          /\ now' = now + 1 /\ now < MaxTime
          BY <2>1 DEF T!Tick
    <3>2. now + 1 \in 1 .. MaxTime
          BY <3>1 DEF RttBounds
    <3>3. QED
          BY <3>1, <3>2 DEF RttBounds
  <2>2. CASE UNCHANGED T!rttVars
        BY <2>2 DEF T!rttVars, RttBounds
  <2>3. QED
        BY <2>1, <2>2, RttSetUpBounds, RttSendBounds, RttFarBounds, RttNearBounds DEF T!Next
<1>3. QED
      BY RttInit, RttNext, RttBounded, <1>1, <1>2, PTL DEF T!Spec

-----------------------------------------------------------------------------
(* The repository client.                                                   *)

RP == INSTANCE Clients_proofs WITH MaxFaults <- RepFaults, faults <- repFaults

\* The client of the proofs is the one of the node.
LEMMA RepClientSpec == PartsSpec => RP!Spec /\ RP!CallsAssumption
<1>1. R!Init => RP!Init
      BY DEF R!Init, RP!Init, R!Calls, RP!Calls, R!FaultKinds, RP!FaultKinds
<1>2. [R!Next]_(R!vars) => [RP!Next]_(RP!vars)
  <2>1. R!Next => RP!Next
    <3>1. \A c \in Publishes : R!repPublish(c) => RP!repPublish(c)
          BY DEF R!repPublish, RP!repPublish, R!Make, RP!Make, R!Fault, RP!Fault
    <3>2. \A c \in Queries : R!query(c) => RP!query(c)
          BY DEF R!query, RP!query, R!Make, RP!Make, R!Fault, RP!Fault
    <3>3. R!deferred_publish_cb => RP!deferred_publish_cb
          BY DEF R!deferred_publish_cb, RP!deferred_publish_cb, R!SendBatch, RP!SendBatch,
                 R!BatchOutstanding, RP!BatchOutstanding, R!Make, RP!Make, R!Fault,
                 RP!Fault
    <3>4. R!Answer => RP!Answer
      <4>1. R!Codes = RP!Codes
            BY DEF R!Codes, RP!Codes, R!HTTP_OK, RP!HTTP_OK
      <4>2. ASSUME NEW code
            PROVE  /\ R!Answered(code) => RP!Answered(code)
                   /\ \A records : R!Confirm(code, records) => RP!Confirm(code, records)
                   /\ R!BatchResult(code) = RP!BatchResult(code)
                   /\ R!SingleResult(code) = RP!SingleResult(code)
            BY DEF R!Answered, RP!Answered, R!Fault, RP!Fault, R!HTTP_OK, RP!HTTP_OK, R!Confirm,
                   RP!Confirm, R!BatchResult, RP!BatchResult, R!SingleResult, RP!SingleResult
      <4>3. \A code : R!_batch_publish_callback(code) => RP!_batch_publish_callback(code)
            BY <4>2 DEF R!_batch_publish_callback, RP!_batch_publish_callback, R!Tell, RP!Tell,
                            R!ToSet, RP!ToSet
      <4>4. \A code : R!single_callback(code) => RP!single_callback(code)
            BY <4>2 DEF R!single_callback, RP!single_callback, R!Tell, RP!Tell,
                            R!ToSet, RP!ToSet
      <4>5. QED
            BY <4>1, <4>3, <4>4 DEF R!Answer, RP!Answer
    <3>5. R!callback_gone => RP!callback_gone
          BY DEF R!callback_gone, RP!callback_gone, R!Fault, RP!Fault
    <3>6. R!repClose => RP!repClose
          BY DEF R!repClose, RP!repClose, R!Fault, RP!Fault
    <3>7. QED
          BY <3>1, <3>2, <3>3, <3>4, <3>5, <3>6 DEF R!Next, RP!Next
  <2>2. R!vars = RP!vars /\ R!vars' = RP!vars'
        BY DEF R!vars, RP!vars
  <2>3. QED
        BY <2>1, <2>2
<1>3. RP!CallsAssumption
      BY PartsAssumption DEF R!CallsAssumption, RP!CallsAssumption,
         R!FaultKinds, RP!FaultKinds
<1>4. QED
      BY <1>1, <1>2, <1>3, PTL DEF PartsSpec, R!Spec, RP!Spec

\* rep/publish.c, rep/utils.c: whatever batches overlap, whatever is refused, lost
\* or closed, the callback of a call runs once.
THEOREM AnsweredOnceHolds == PartsSpec => []AnsweredOnce
<1>1. RP!Spec => []RP!AnsweredOnce
      BY RP!AnsweredOnceHolds
<1>2. RP!AnsweredOnce => AnsweredOnce
      BY DEF RP!AnsweredOnce, AnsweredOnce, R!AnsweredOnce
<1>3. QED
      BY RepClientSpec, <1>1, <1>2, PTL

\* rep/publish.c: when batches do not overlap and answers have a response, a record
\* reported as published was confirmed, whatever else fails before or after it.
THEOREM SuccessMeansConfirmedHolds == PartsSpec => []SuccessMeansConfirmedInTime
<1>1. RP!CallsAssumption
      BY PartsAssumption DEF R!CallsAssumption, RP!CallsAssumption, R!FaultKinds, RP!FaultKinds
<1>2. RP!Spec => []RP!SuccessMeansConfirmedInTime
      BY <1>1, RP!SuccessMeansConfirmedHolds
<1>3. RP!SuccessMeansConfirmedInTime => SuccessMeansConfirmedInTime
      BY DEF RP!SuccessMeansConfirmedInTime, SuccessMeansConfirmedInTime,
             R!SuccessMeansConfirmedInTime
<1>4. QED
      BY RepClientSpec, <1>2, <1>3, PTL

-----------------------------------------------------------------------------
(* The ALTO client.                                                         *)

\* The documents, the database read from one and the ratings it gives are those of the
\* proofs.
LEMMA SameReply ==
  /\ \A d : A!Document(d) <=> RP!A!Document(d)
  /\ \A d : A!alto_parse_from_XML(d) = RP!A!alto_parse_from_XML(d)
  /\ \A d : A!Indented(d) <=> RP!A!Indented(d)
  /\ \A d : A!Grouped(d) <=> RP!A!Grouped(d)
  /\ \A e, d : A!LongestMatch(e, d) = RP!A!LongestMatch(e, d)
<1>1. \A d : A!Document(d) <=> RP!A!Document(d)
      BY DEF A!Document, RP!A!Document, A!XmlNode, RP!A!XmlNode
<1>2. ASSUME NEW d
      PROVE  A!alto_parse_from_XML(d) = RP!A!alto_parse_from_XML(d)
      BY Zenon DEF A!alto_parse_from_XML, RP!A!alto_parse_from_XML, A!Walk, RP!A!Walk,
             A!Up, RP!A!Up,
             A!Right, RP!A!Right, A!Down, RP!A!Down, A!children, RP!A!children, A!next,
             RP!A!next, A!Min, RP!A!Min
<1>3. \A d : A!Indented(d) <=> RP!A!Indented(d)
      BY DEF A!Indented, RP!A!Indented, A!children, RP!A!children, A!next, RP!A!next,
             A!Min, RP!A!Min
<1>4. \A d : A!Grouped(d) <=> RP!A!Grouped(d)
      BY DEF A!Grouped, RP!A!Grouped
<1>5. \A e, d : A!LongestMatch(e, d) = RP!A!LongestMatch(e, d)
      BY DEF A!LongestMatch, RP!A!LongestMatch, A!GroupRating, RP!A!GroupRating,
             A!compute_subnet, RP!A!compute_subnet, A!Min, RP!A!Min, A!Max, RP!A!Max
<1>6. QED
      BY <1>1, <1>2, <1>3, <1>4, <1>5

\* The matching is that of the proofs.
LEMMA SameMatching ==
  /\ \A l : A!alto_parse_from_list(l) = RP!A!alto_parse_from_list(l)
  /\ \A host, db : A!get_ALTO_rating_for_host(host, db) = RP!A!get_ALTO_rating_for_host(host, db)
  /\ \A req, reply : A!Updated(req, reply) = RP!A!Updated(req, reply)
<1>1. \A l : A!alto_parse_from_list(l) = RP!A!alto_parse_from_list(l)
      BY DEF A!alto_parse_from_list, RP!A!alto_parse_from_list
<1>2. \A host, db : A!get_ALTO_rating_for_host(host, db) = RP!A!get_ALTO_rating_for_host(host, db)
      BY DEF A!get_ALTO_rating_for_host, RP!A!get_ALTO_rating_for_host, A!ask_helper_func,
             RP!A!ask_helper_func, A!Min, RP!A!Min
<1>3. \A e, db : A!get_alto_rating(e, db) = RP!A!get_alto_rating(e, db)
      BY DEF A!get_alto_rating, RP!A!get_alto_rating, A!ask_helper_func, RP!A!ask_helper_func,
             A!compute_subnet, RP!A!compute_subnet, A!Min, RP!A!Min
<1>4. \A req, res : A!alto_do_the_magic(req, res) = RP!A!alto_do_the_magic(req, res)
      BY <1>3 DEF A!alto_do_the_magic, RP!A!alto_do_the_magic
<1>5. \A req, reply : A!Updated(req, reply) = RP!A!Updated(req, reply)
      BY <1>4, SameReply DEF A!Updated, RP!A!Updated
<1>6. QED
      BY <1>1, <1>2, <1>5

\* The client of the proofs is the one of the node.
LEMMA AltoClientSpec == PartsSpec => RP!A!Spec
<1>1. A!Init => RP!A!Init
      BY DEF A!Init, RP!A!Init, A!Unrated, RP!A!Unrated
<1>2. A!Outcomes = RP!A!Outcomes
      BY DEF A!Outcomes, RP!A!Outcomes
<1>3. A!Next => RP!A!Next
  <2>1. A!start_ALTO_client => RP!A!start_ALTO_client
        BY DEF A!start_ALTO_client, RP!A!start_ALTO_client
  <2>2. A!stop_ALTO_client => RP!A!stop_ALTO_client
        BY DEF A!stop_ALTO_client, RP!A!stop_ALTO_client
  <2>3. \A l, reply : A!get_ALTO_guidance_for_list(l, reply)
                        => RP!A!get_ALTO_guidance_for_list(l, reply)
        BY SameMatching DEF A!get_ALTO_guidance_for_list, RP!A!get_ALTO_guidance_for_list
  <2>4. \A l : A!ALTO_query_exec(l) => RP!A!ALTO_query_exec(l)
        BY SameMatching DEF A!ALTO_query_exec, RP!A!ALTO_query_exec, A!ThreadCreated,
             RP!A!ThreadCreated, A!ThreadFailed, RP!A!ThreadFailed
  <2>5. \A reply : A!do_ALTO_update(reply) => RP!A!do_ALTO_update(reply)
        BY SameMatching DEF A!do_ALTO_update, RP!A!do_ALTO_update
  <2>6. A!WriteBack => RP!A!WriteBack
        BY SameMatching DEF A!WriteBack, RP!A!WriteBack
  <2>7. A!SignalReady => RP!A!SignalReady
        BY DEF A!SignalReady, RP!A!SignalReady
  <2>8. QED
        BY <1>2, <2>1, <2>2, <2>3, <2>4, <2>5, <2>6, <2>7 DEF A!Next, RP!A!Next
<1>4. [A!Next]_(A!vars) => [RP!A!Next]_(RP!A!vars)
  <2>1. A!vars = RP!A!vars /\ A!vars' = RP!A!vars'
        BY DEF A!vars, RP!A!vars
  <2>2. QED
        BY <1>3, <2>1
<1>5. QED
      BY <1>1, <1>4, PTL DEF PartsSpec, A!Spec, RP!A!Spec

\* What the proofs assume of the lists and of the server's documents.
LEMMA AltoAssumed == RP!A!AltoClientAssumption
BY PartsAssumption, SameReply DEF A!AltoClientAssumption, RP!A!AltoClientAssumption, A!Elements,
   RP!A!Elements, A!DB, RP!A!DB

\* ALTOclient/ALTOclient.c: for any lists, masks and indented replies of the server, READY
\* means that the whole list has the ratings of the reply to its query.
THEOREM RatedHolds == PartsSpec => []Rated
<1>1. RP!A!Spec => []RP!A!TypeOK /\ []RP!A!Rated
      BY AltoAssumed, RP!AltoCorrect
<1>2. RP!A!Rated => Rated
      BY SameReply DEF RP!A!Rated, Rated, A!Rated
<1>3. QED
      BY AltoClientSpec, <1>1, <1>2, PTL

-----------------------------------------------------------------------------
(* Remote measurements.                                                     *)

MP == INSTANCE MonRemote_proofs WITH samples <- results, events <- monEvents

\* The measures and lists of the proofs are those of the node.
LEMMA MeasureTerms ==
  /\ M!Handles = MP!Handles
  /\ M!NoHandle = MP!NoHandle
  /\ M!Key = MP!Key
  /\ M!NoMeasure = MP!NoMeasure
BY DEF M!Handles, MP!Handles, M!NoHandle, MP!NoHandle, M!Key, MP!Key,
       M!NoMeasure, MP!NoMeasure

\* So are the places of a measure and what is made or left of a node.
LEMMA PlaceTerms ==
  /\ \A m : M!KeyOf(m) = MP!KeyOf(m)
  /\ \A m : M!OriginOf(m) = MP!OriginOf(m)
  /\ \A m : M!IsPaired(m) = MP!IsPaired(m)
  /\ \A s, h, p, t : M!Aimed(s, h, p, t) = MP!Aimed(s, h, p, t)
  /\ \A s, h : M!IsValid(s, h) = MP!IsValid(s, h)
  /\ \A s, h : M!Listed(s, h) = MP!Listed(s, h)
  /\ \A s, k : M!Occupied(s, k) = MP!Occupied(s, k)
  /\ \A s : M!Crashed(s) = MP!Crashed(s)
  /\ \A s, mid, remote, mh : M!Created(s, mid, remote, mh) = MP!Created(s, mid, remote, mh)
BY MeasureTerms
   DEF M!KeyOf, MP!KeyOf, M!OriginOf, MP!OriginOf, M!IsPaired, MP!IsPaired,
       M!Aimed, MP!Aimed, M!IsValid, MP!IsValid, M!Listed, MP!Listed,
       M!Occupied, MP!Occupied, M!Crashed, MP!Crashed, M!Created, MP!Created

\* So are the steps of a node, and the messages it sends with them.
LEMMA StateTerms ==
  /\ \A s, h : M!stopMeasure(s, h) = MP!stopMeasure(s, h)
  /\ \A s, h : M!deactivateMeasure(s, h) = MP!deactivateMeasure(s, h)
  /\ \A s, h : M!monDestroyMeasure(s, h) = MP!monDestroyMeasure(s, h)
  /\ \A s, h : M!Stops(s, h) = MP!Stops(s, h)
  /\ \A s, h : M!Loaded(s, h) = MP!Loaded(s, h)
  /\ \A s, h : M!Careless(s, h) = MP!Careless(s, h)
  /\ \A s, h : M!Displaced(s, h) = MP!Displaced(s, h)
  /\ \A s, m : M!InitAnswered(s, m) = MP!InitAnswered(s, m)
  /\ \A s, m : M!DeinitAnswered(s, m) = MP!DeinitAnswered(s, m)
  /\ \A s, h, m : M!Accepts(s, h, m) = MP!Accepts(s, h, m)
  /\ \A n, s, h : M!Deinit(n, s, h) = MP!Deinit(n, s, h)
  /\ \A n, s, h : M!InitRemote(n, s, h) = MP!InitRemote(n, s, h)
<1>1. \A s, h : M!stopMeasure(s, h) = MP!stopMeasure(s, h)
      BY Zenon
         DEF M!stopMeasure, MP!stopMeasure, M!Listed, MP!Listed, M!KeyOf, MP!KeyOf,
             M!IsPaired, MP!IsPaired, M!Crashed, MP!Crashed, M!Handles, MP!Handles,
             M!NoHandle, MP!NoHandle, M!Key, MP!Key, M!NoMeasure, MP!NoMeasure
<1>2. \A s, h : M!Stops(s, h) = MP!Stops(s, h)
      BY PlaceTerms DEF M!Stops, MP!Stops
<1>3. \A s, h : M!deactivateMeasure(s, h) = MP!deactivateMeasure(s, h)
      BY <1>1, <1>2 DEF M!deactivateMeasure, MP!deactivateMeasure
<1>4. \A s, h : M!monDestroyMeasure(s, h) = MP!monDestroyMeasure(s, h)
      BY <1>3, MeasureTerms DEF M!monDestroyMeasure, MP!monDestroyMeasure
<1>5. \A s, h : M!Loaded(s, h) = MP!Loaded(s, h)
      BY MeasureTerms, PlaceTerms DEF M!Loaded, MP!Loaded
<1>6. \A s, h : M!Careless(s, h) = MP!Careless(s, h)
      BY MeasureTerms, PlaceTerms DEF M!Careless, MP!Careless
<1>7. /\ \A s, h : M!Displaced(s, h) = MP!Displaced(s, h)
      /\ \A s, m : M!InitAnswered(s, m) = MP!InitAnswered(s, m)
      /\ \A s, m : M!DeinitAnswered(s, m) = MP!DeinitAnswered(s, m)
      /\ \A s, h, m : M!Accepts(s, h, m) = MP!Accepts(s, h, m)
      BY MeasureTerms, PlaceTerms, <1>1, <1>4
         DEF M!Displaced, MP!Displaced, M!InitAnswered, MP!InitAnswered,
             M!DeinitAnswered, MP!DeinitAnswered, M!Accepts, MP!Accepts
<1>8. \A n, s, h : M!Deinit(n, s, h) = MP!Deinit(n, s, h)
      BY PlaceTerms DEF M!Deinit, MP!Deinit
<1>9. \A n, s, h : M!InitRemote(n, s, h) = MP!InitRemote(n, s, h)
      BY PlaceTerms DEF M!InitRemote, MP!InitRemote
<1>10. QED
      BY <1>1, <1>2, <1>3, <1>4, <1>5, <1>6, <1>7, <1>8, <1>9

\* So is what is sent and what becomes of a node.
LEMMA SendTerms ==
  /\ \A n, q, command, mhr, mhl, ok :
       M!Response(n, q, command, mhr, mhl, ok) = MP!Response(n, q, command, mhr, mhl, ok)
  /\ \A read, msgs, kinds : M!Send(read, msgs, kinds) = MP!Send(read, msgs, kinds)
  /\ \A n, s : M!Become(n, s) = MP!Become(n, s)
BY DEF M!Response, MP!Response, M!Send, MP!Send, M!Become, MP!Become,
       M!EventKinds, MP!EventKinds, M!SetToBag, MP!SetToBag, M!(+), MP!(+),
       M!(-), MP!(-)

\* So are the calls of a user.
LEMMA CallTerms ==
  /\ \A n, mid : M!monCreateMeasure(n, mid) => MP!monCreateMeasure(n, mid)
  /\ \A n, h, p, t : M!monActivateMeasure(n, h, p, t) => MP!monActivateMeasure(n, h, p, t)
  /\ \A n, h : M!monDeactivateMeasure(n, h) => MP!monDeactivateMeasure(n, h)
  /\ \A n, h : M!monDestroyMeasureCall(n, h) => MP!monDestroyMeasureCall(n, h)
<1> USE MeasureTerms, PlaceTerms, SendTerms
<1>1. \A n, mid : M!monCreateMeasure(n, mid) => MP!monCreateMeasure(n, mid)
      BY DEF M!monCreateMeasure, MP!monCreateMeasure
<1>2. \A n, h, a : M!ActivateRejected(n, h, a) => MP!ActivateRejected(n, h, a)
      BY DEF M!ActivateRejected, MP!ActivateRejected
<1>3. \A n, h, a : M!ActivateAccepted(n, h, a) => MP!ActivateAccepted(n, h, a)
      BY StateTerms DEF M!ActivateAccepted, MP!ActivateAccepted
<1>4. \A n, h, p, t : M!monActivateMeasure(n, h, p, t) => MP!monActivateMeasure(n, h, p, t)
      BY <1>2, <1>3 DEF M!monActivateMeasure, MP!monActivateMeasure
<1>5. \A n, h : M!monDeactivateMeasure(n, h) => MP!monDeactivateMeasure(n, h)
      BY StateTerms DEF M!monDeactivateMeasure, MP!monDeactivateMeasure
<1>6. \A n, h : M!monDestroyMeasureCall(n, h) => MP!monDestroyMeasureCall(n, h)
      BY StateTerms DEF M!monDestroyMeasureCall, MP!monDestroyMeasureCall
<1>7. QED
      BY <1>1, <1>4, <1>5, <1>6

\* So is the handling of messages.
LEMMA ReceiveTerms == \A m : M!receiveCtrlMsg(m) => MP!receiveCtrlMsg(m)
<1> USE MeasureTerms, PlaceTerms, StateTerms, SendTerms
<1>1. \A m : M!initRemoteMeasureRx(m) => MP!initRemoteMeasureRx(m)
      BY ZenonT(20) DEF M!initRemoteMeasureRx, MP!initRemoteMeasureRx
<1>2. \A m : M!deinitRemoteMeasureRx(m) => MP!deinitRemoteMeasureRx(m)
      BY DEF M!deinitRemoteMeasureRx, MP!deinitRemoteMeasureRx
<1>3. \A m : M!remoteMeasureResponseRx(m) => MP!remoteMeasureResponseRx(m)
      BY DEF M!remoteMeasureResponseRx, MP!remoteMeasureResponseRx
<1>4. \A m : M!remoteResultsRx(m) => MP!remoteResultsRx(m)
      BY SMTT(20) DEF M!remoteResultsRx, MP!remoteResultsRx
<1>5. QED
      BY <1>1, <1>2, <1>3, <1>4
         DEF M!receiveCtrlMsg, MP!receiveCtrlMsg, M!BagIn, MP!BagIn,
             M!BagToSet, MP!BagToSet, M!Misnames, MP!Misnames

\* So is the look at a packet.
LEMMA PacketTerms == \A n, p, t : M!Packet(n, p, t) => MP!Packet(n, p, t)
<1>1. \A read, msgs, kinds : M!Send(read, msgs, kinds) => MP!Send(read, msgs, kinds)
      BY SendTerms
<1>2. \A n, s : M!Become(n, M!Crashed(s)) => MP!Become(n, MP!Crashed(s))
      BY PlaceTerms, SendTerms
<1> SUFFICES ASSUME NEW n, NEW p, NEW t, M!Packet(n, p, t) PROVE MP!Packet(n, p, t)
    OBVIOUS
<1> USE DEF M!Packet, MP!Packet, M!OriginOf, MP!OriginOf, M!Key, MP!Key,
            M!NoHandle, MP!NoHandle, M!NoMeasure, MP!NoMeasure
<1>3. CASE M!Become(n, M!Crashed(monl[n]))
      BY <1>1, <1>2, <1>3, Zenon
<1>4. CASE ~ M!Become(n, M!Crashed(monl[n]))
      BY <1>1, <1>4, Zenon
<1>5. QED
      BY <1>3, <1>4

\* What is assumed of the constants of the measurements.
LEMMA MonRemoteAssumed == MP!MonRemoteAssumption
BY PartsAssumption DEF M!MonRemoteAssumption, MP!MonRemoteAssumption,
                       M!EventKinds, MP!EventKinds

\* The measurements of the proofs are those of the node.
LEMMA MonRemoteSpec == PartsSpec => MP!Spec
<1>1. M!Init => MP!Init
      BY DEF M!Init, MP!Init, M!EventKinds, MP!EventKinds, M!EmptyBag, MP!EmptyBag,
             M!SetToBag, MP!SetToBag, M!Handles, MP!Handles, M!NoHandle, MP!NoHandle,
             M!Key, MP!Key, M!NoMeasure, MP!NoMeasure
<1>2. [M!Next]_(M!vars) => [MP!Next]_(MP!vars)
  <2>1. M!Next => MP!Next
        BY MeasureTerms, CallTerms, ReceiveTerms, PacketTerms
           DEF M!Next, MP!Next, M!BagToSet, MP!BagToSet
  <2>2. M!vars = MP!vars /\ M!vars' = MP!vars'
        BY DEF M!vars, MP!vars
  <2>3. QED
        BY <2>1, <2>2
<1>3. QED
      BY <1>1, <1>2, PTL DEF PartsSpec, M!Spec, MP!Spec

\* monl/measure_dispatcher.cpp: whatever set-ups, refusals and answers cross, the lists
\* of a node hold exactly the running measures without a counterpart.
THEOREM RunningIsListedHolds == PartsSpec => []RunningIsListed
<1>1. MP!Spec => []MP!RunningIsListed
      BY MonRemoteAssumed, MP!RunningIsListedHolds
<1>2. MP!RunningIsListed => RunningIsListed
      BY MeasureTerms, PlaceTerms
         DEF MP!RunningIsListed, RunningIsListed, M!RunningIsListed
<1>3. QED
      BY MonRemoteSpec, <1>1, <1>2, PTL

\* monl/measure_dispatcher.cpp: a counterpart reports to a measure that its user made
\* with the same plugin, or to a handle whose measure is gone.
THEOREM CounterpartsAgreeHold == PartsSpec => []CounterpartsAgree
<1>1. MP!Spec => []MP!CounterpartsAgree
      BY MonRemoteAssumed, MP!CounterpartsAgreeHold
<1>2. MP!CounterpartsAgree => CounterpartsAgree
      BY Zenon, MeasureTerms DEF MP!CounterpartsAgree, CounterpartsAgree, M!CounterpartsAgree
<1>3. QED
      BY MonRemoteSpec, <1>1, <1>2, PTL

\* monl/measure_dispatcher.cpp: a measure keeps what was measured on the stream it is
\* active for, and what is reported to it always; but for what the node sees itself
\* when a user's call met an unfinished exchange or a user's measure was taken for a
\* counterpart.
THEOREM SamplesOfStreamHolds == PartsSpec => []SamplesOfStream
<1>1. MP!Spec => []MP!SamplesOfStream
      BY MonRemoteAssumed, MP!SamplesOfStreamHolds
<1>2. MP!SamplesOfStream => SamplesOfStream
      BY DEF MP!SamplesOfStream, SamplesOfStream, M!SamplesOfStream
<1>3. QED
      BY MonRemoteSpec, <1>1, <1>2, PTL

-----------------------------------------------------------------------------
(* The results.                                                             *)

BP == INSTANCE ResultBuffer_proofs WITH Samples <- SampleValues

\* The statistics and sums of the proofs are those of the node.
LEMMA ResultTerms ==
  /\ B!vars = BP!vars
  /\ \A s : B!Empty(s) = BP!Empty(s)
  /\ \A z : B!Fresh(z) = BP!Fresh(z)
  /\ \A st, x, n : B!WithSample(st, x, n) = BP!WithSample(st, x, n)
  /\ \A b, x : B!newSampleWin(b, x) = BP!newSampleWin(b, x)
  /\ \A s, n : B!Newest(s, n) = BP!Newest(s, n)
<1>1. B!vars = BP!vars
      BY DEF B!vars, BP!vars, B!buffer, BP!buffer
<1>2. \A s : B!Empty(s) = BP!Empty(s)
      BY DEF B!Empty, BP!Empty
<1>3. \A z : B!Fresh(z) = BP!Fresh(z)
      BY DEF B!Fresh, BP!Fresh
<1>4. \A st, x, n : B!WithSample(st, x, n) = BP!WithSample(st, x, n)
  <2> SUFFICES ASSUME NEW st, NEW x, NEW n PROVE B!WithSample(st, x, n) = BP!WithSample(st, x, n)
      OBVIOUS
  <2>1. \A u, v : B!Times(u, v) = BP!Times(u, v) /\ B!Plus(u, v) = BP!Plus(u, v)
        BY DEF B!Times, BP!Times, B!Plus, BP!Plus
  <2>2. \A u, v : B!Added(u, v) = BP!Added(u, v)
        BY DEF B!isnan, BP!isnan, B!Added, BP!Added
  <2> DEFINE zero0 == IF B!isnan(st.AVG) THEN <<0, 1>> ELSE st.AVG
             avg == B!Times(B!Plus(B!Times(<<n - 1, 1>>, zero0), <<x, 1>>), <<1, n>>)
             off == B!Plus(<<x, 1>>, B!Times(<<-1, 1>>, avg))
             var == IF n < 2 THEN <<0, 1>>
                    ELSE B!Plus(B!Times(st.VAR, <<n - 2, n - 1>>),
                                B!Times(<<n, (n - 1) * (n - 1)>>, B!Times(off, off)))
             min == IF B!isnan(st.MIN) \/ x < st.MIN THEN x ELSE st.MIN
             max == IF B!isnan(st.MAX) \/ x > st.MAX THEN x ELSE st.MAX
             zeroP == IF BP!isnan(st.AVG) THEN <<0, 1>> ELSE st.AVG
             avgP == BP!Times(BP!Plus(BP!Times(<<n - 1, 1>>, zeroP), <<x, 1>>), <<1, n>>)
             offP == BP!Plus(<<x, 1>>, BP!Times(<<-1, 1>>, avgP))
             varP == IF n < 2 THEN <<0, 1>>
                     ELSE BP!Plus(BP!Times(st.VAR, <<n - 2, n - 1>>),
                                  BP!Times(<<n, (n - 1) * (n - 1)>>, BP!Times(offP, offP)))
             minP == IF BP!isnan(st.MIN) \/ x < st.MIN THEN x ELSE st.MIN
             maxP == IF BP!isnan(st.MAX) \/ x > st.MAX THEN x ELSE st.MAX
  <2>3. B!WithSample(st, x, n)
          = [st EXCEPT !.LAST = x, !.SUM = B!Added(st.SUM, x),
                       !.PERIOD_SUM = B!Added(st.PERIOD_SUM, x),
                       !.AVG = avg, !.VAR = var, !.MIN = min, !.MAX = max]
        BY DEF B!WithSample
  <2>4. BP!WithSample(st, x, n)
          = [st EXCEPT !.LAST = x, !.SUM = BP!Added(st.SUM, x),
                       !.PERIOD_SUM = BP!Added(st.PERIOD_SUM, x),
                       !.AVG = avgP, !.VAR = varP, !.MIN = minP, !.MAX = maxP]
        BY DEF BP!WithSample
  <2>5. zero0 = zeroP /\ min = minP /\ max = maxP
        BY DEF B!isnan, BP!isnan
  <2> HIDE DEF zero0, zeroP, min, minP, max, maxP
  <2>6. avg = avgP
        BY <2>1, <2>5
  <2> HIDE DEF avg, avgP
  <2>7. off = offP
        BY <2>1, <2>6
  <2> HIDE DEF off, offP
  <2>8. var = varP
        BY <2>1, <2>7
  <2> HIDE DEF var, varP
  <2>9. QED
        BY <2>2, <2>3, <2>4, <2>5, <2>6, <2>8
<1>5. \A b, x : B!newSampleWin(b, x) = BP!newSampleWin(b, x)
      BY DEF B!newSampleWin, BP!newSampleWin, B!isnan, BP!isnan, B!Added, BP!Added
<1>6. \A s, n : B!Newest(s, n) = BP!Newest(s, n)
      BY DEF B!Newest, BP!Newest, B!Min, BP!Min
<1>7. QED
      BY <1>1, <1>2, <1>3, <1>4, <1>5, <1>6

\* The buffer of another size.
LEMMA ResizedTerms == \A s : B!Resized(s) = BP!Resized(s)
BY DEF B!Resized, BP!Resized, B!FoldLeft, BP!FoldLeft, B!MapThenFoldSet,
       BP!MapThenFoldSet, B!newSampleWin, BP!newSampleWin, B!isnan, BP!isnan,
       B!Added, BP!Added, B!Min, BP!Min, B!Max, BP!Max, B!Empty, BP!Empty

\* The results of the proofs are those of the node.
LEMMA ResultSpec == PartsSpec => BP!Spec
<1>1. B!Init => BP!Init
      BY ResultTerms DEF B!Init, BP!Init
<1>2. [B!Next]_(B!vars) => [BP!Next]_(BP!vars)
  <2>1. \A x, ready : B!newSample(x, ready) => BP!newSample(x, ready)
        BY ResultTerms DEF B!newSample, BP!newSample, B!Current, BP!Current, B!SetTo,
           BP!SetTo, B!Published, BP!Published
  <2>2. \A ready : B!publishResults(ready) => BP!publishResults(ready)
        BY DEF B!publishResults, BP!publishResults, B!Published, BP!Published,
               B!buffer, BP!buffer
  <2>3. \A s : B!resizeBuffer(s) => BP!resizeBuffer(s)
        BY ResultTerms, ResizedTerms DEF B!resizeBuffer, BP!resizeBuffer, B!SetTo, BP!SetTo
  <2>4. \A z : B!init(z) => BP!init(z)
        BY ResultTerms DEF B!init, BP!init
  <2>5. B!vars = BP!vars /\ B!vars' = BP!vars'
        BY DEF B!vars, BP!vars, B!buffer, BP!buffer
  <2>6. QED
        BY <2>1, <2>2, <2>3, <2>4, <2>5 DEF B!Next, BP!Next
<1>3. QED
      BY <1>1, <1>2, PTL DEF PartsSpec, B!Spec, BP!Spec

\* The properties of the proofs are those of the node.
LEMMA ResultProperties ==
  /\ BP!StatsOfSamples => B!StatsOfSamples
  /\ BP!StatsOfWindow => B!StatsOfWindow
<1>1. \A s : /\ B!Total(s) = BP!Total(s) /\ B!Squares(s) = BP!Squares(s)
             /\ B!Variance(s) = BP!Variance(s) /\ B!Bounds(s) = BP!Bounds(s)
      BY DEF B!Total, BP!Total, B!Squares, BP!Squares, B!Variance, BP!Variance,
             B!Bounds, BP!Bounds, B!ToSet, BP!ToSet, B!FoldLeft, BP!FoldLeft,
             B!MapThenFoldSet, BP!MapThenFoldSet, B!Max, BP!Max
<1>2. \A s : B!Min(s) = BP!Min(s) /\ B!Max(s) = BP!Max(s)
      BY DEF B!Min, BP!Min, B!Max, BP!Max
<1>3. \A x, y : B!Same(x, y) <=> BP!Same(x, y)
      BY DEF B!Same, BP!Same
<1>4. B!updateStats = BP!updateStats
      BY <1>2 DEF B!updateStats, BP!updateStats, B!FoldLeft, BP!FoldLeft,
                  B!MapThenFoldSet, BP!MapThenFoldSet, B!Max, BP!Max
<1>5. \A s : B!ToSet(s) = BP!ToSet(s)
      BY DEF B!ToSet, BP!ToSet
<1>6. BP!StatsOfSamples => B!StatsOfSamples
      BY <1>1, <1>2, <1>3 DEF BP!StatsOfSamples, B!StatsOfSamples
<1>7. BP!StatsOfWindow => B!StatsOfWindow
      BY <1>1, <1>2, <1>3, <1>4, <1>5 DEF BP!StatsOfWindow, B!StatsOfWindow
<1>8. QED
      BY <1>6, <1>7

\* monl/result_buffer.cpp: the statistics of a measure are those of its samples, of all
\* since init and of those in its window, whatever is resized, started again or not
\* published in between.
THEOREM StatsHold == PartsSpec => []Stats
<1>1. BP!ResultBufferAssumption
      BY PartsAssumption DEF B!ResultBufferAssumption, BP!ResultBufferAssumption
<1>2. BP!Spec => [](BP!TypeOK /\ BP!StatsOfSamples /\ BP!StatsOfWindow)
      BY <1>1, BP!StatsHold
<1>3. BP!StatsOfSamples /\ BP!StatsOfWindow => Stats
      BY ResultProperties DEF Stats
<1>4. QED
      BY ResultSpec, <1>2, <1>3, PTL

-----------------------------------------------------------------------------
(* The types of the parts together.                                         *)

\* monl/measure_dispatcher.cpp: the measures, lists and messages of the proofs are those
\* of the node.
LEMMA MonRemoteTyped == MP!TypeOK => M!TypeOK
<1>1. M!Measure = MP!Measure /\ M!NoMeasure = MP!NoMeasure /\ M!Key = MP!Key
      BY Zenon DEF M!Measure, MP!Measure, M!NoMeasure, MP!NoMeasure, M!Key, MP!Key, M!Statuses,
             MP!Statuses, M!Handles, MP!Handles, M!NoHandle, MP!NoHandle
<1>2. M!Message = MP!Message /\ M!Sample = MP!Sample
      BY Zenon DEF M!Message, MP!Message, M!Sample, MP!Sample, M!Origin, MP!Origin, M!Handles,
             MP!Handles, M!NoHandle, MP!NoHandle
<1>3. M!EventKinds = MP!EventKinds /\ M!BagToSet(net) = MP!BagToSet(net)
      BY Zenon DEF M!EventKinds, MP!EventKinds, M!BagToSet, MP!BagToSet
<1>4. QED
      BY Zenon, MeasureTerms, <1>1, <1>2, <1>3 DEF MP!TypeOK, M!TypeOK

\* rep: so are the requests and calls of the repository client.
LEMMA RepClientTyped == RP!TypeOK => R!TypeOK
BY DEF RP!TypeOK, R!TypeOK, R!Request, RP!Request, R!Calls, RP!Calls, R!Callbacks,
   RP!Callbacks, R!Upcall, RP!Upcall, R!FaultKinds, RP!FaultKinds

\* ALTOclient: so is the database of the ALTO client.
LEMMA AltoTyped == RP!A!TypeOK => A!TypeOK
BY DEF RP!A!TypeOK, A!TypeOK, A!DB, RP!A!DB

\* monl/result_buffer.cpp: and so is the buffer of the results.
LEMMA ResultTyped == BP!TypeOK => B!TypeOK
BY DEF BP!TypeOK, B!TypeOK

\* Every part of a node has its types when it takes steps, and it is one of the parts.
THEOREM NodeTypesHold == NodeSpec => []NodeTypeOK
<1>1. NodeSpec => [](part \in Parts)
  <2>1. NodeInit => part \in Parts
        BY DEF NodeInit
  <2>2. part \in Parts /\ [NodeNext]_NodeVars => (part \in Parts)'
    <3>1. [NodeNext]_NodeVars => UNCHANGED part
          BY DEF NodeNext, Takes, NodeVars
    <3>2. QED
          BY <3>1 DEF Parts
  <2>3. QED
        BY <2>1, <2>2, PTL DEF NodeSpec
<1>2. PartsSpec => [](M!TypeOK /\ R!TypeOK /\ A!TypeOK /\ B!TypeOK)
  <2>1. MP!Spec => []MP!TypeOK
        BY MonRemoteAssumed, MP!TypeCorrect
  <2>2. RP!CallsAssumption
        BY PartsAssumption DEF R!CallsAssumption, RP!CallsAssumption, R!FaultKinds, RP!FaultKinds
  <2>3. RP!Spec => []RP!TypeOK
        BY <2>2, RP!TypeCorrect
  <2>4. RP!A!Spec => []RP!A!TypeOK /\ []RP!A!Rated
        BY AltoAssumed, RP!AltoCorrect
  <2>5. BP!ResultBufferAssumption
        BY PartsAssumption DEF B!ResultBufferAssumption, BP!ResultBufferAssumption
  <2>6. BP!Spec => [](BP!TypeOK /\ BP!StatsOfSamples /\ BP!StatsOfWindow)
        BY <2>5, BP!StatsHold
  <2>7. QED
        BY <2>1, <2>3, <2>4, <2>6, MonRemoteSpec, MonRemoteTyped, RepClientSpec, RepClientTyped,
           AltoClientSpec, AltoTyped, ResultSpec, ResultTyped, PTL
<1>3. PartsSpec => [](TypeOK /\ P!TypeOK /\ K!TypeOK /\ S!TypeOK /\ T!TypeOK)
      BY StartTyped, PeriodicTyped, KeepaliveTyped, LossTyped, RttTyped, PTL DEF PartsSpec
<1>4. /\ part \in Parts
      /\ TypeOK /\ P!TypeOK /\ K!TypeOK /\ S!TypeOK /\ T!TypeOK
      /\ M!TypeOK /\ R!TypeOK /\ A!TypeOK /\ B!TypeOK
      => NodeTypeOK
      BY DEF NodeTypeOK
<1>5. QED
      BY NodeImplementsParts, <1>1, <1>2, <1>3, <1>4, PTL
=============================================================================
