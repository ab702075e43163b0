--------------------------- MODULE MonRemote_proofs ---------------------------
(***************************************************************************)
(* The invariants of MonRemote for any nodes, plugins, message types and   *)
(* bounds, whatever the users and the messages do.                         *)
(*                                                                         *)
(* A handle is given out once, and the plugin and the kind of its measure  *)
(* never change (Follows).  So what a message or a counterpart says of a   *)
(* handle stays true until the measure is gone, and forever after.  The    *)
(* lists of a node and its running measures without a counterpart agree    *)
(* (NodeOK), which rests on two facts: the answers that set a measure's    *)
(* status are about measures with a counterpart (MessagesOK), and a        *)
(* measure that runs without one is one that its user activated (UsersOK). *)
(*                                                                         *)
(* A measure with a counterpart stays on the list of the stream it is      *)
(* aimed at as long as the answers it gets are those it waits for: at most *)
(* one message about it is in transit, in the phase that its status names  *)
(* (Careful).  So it is until a user's call meets an unfinished exchange,  *)
(* or a node takes a measure of its own user's for a counterpart.          *)
(***************************************************************************)
EXTENDS MonRemote, TLAPS

-----------------------------------------------------------------------------
(* The state of a node.                                                     *)

NodeState ==
  [up : BOOLEAN, measures : [Handles -> Measure \cup {NoMeasure}],
   lists : [Key -> Handles \cup {NoHandle}], next : Handles \cup {NoHandle}]

\* The handles given out.
Given(s) == {h \in Handles : h < s.next}

\* The lists that no measure with a counterpart is on.
OneSided(k) == k.remote \/ k.mid \notin Paired

OnList(s, h, k) ==
  /\ IsValid(s, h) /\ s.measures[h].status = "RUNNING"
  /\ KeyOf(s.measures[h]) = k

NodeOK(s) ==
  /\ s \in NodeState
  /\ \A h \in Handles : IsValid(s, h) => h \in Given(s)
  /\ \A h \in Handles : IsValid(s, h) /\ ~IsPaired(s.measures[h]) =>
       s.measures[h].status \in {"STOPPED", "RUNNING"}
  /\ \A k \in Key, h \in Handles : OneSided(k) => (s.lists[k] = h <=> OnList(s, h, k))
  /\ \A k \in Key, h \in Handles : s.lists[k] = h =>
       /\ h \in Given(s)
       /\ IsValid(s, h) => s.measures[h].mid = k.mid /\ s.measures[h].remote = k.remote

\* What may become of the measures of a node.
Follows(s, t) ==
  /\ Given(s) \subseteq Given(t)
  /\ \A h \in Given(s) : IsValid(t, h) =>
       /\ IsValid(s, h)
       /\ t.measures[h].mid = s.measures[h].mid
       /\ t.measures[h].remote = s.measures[h].remote

\* No measure without a counterpart starts, but g.
StartsNone(s, t, g) ==
  \A h \in Handles \ {g} :
    IsValid(t, h) /\ ~IsPaired(t.measures[h]) /\ t.measures[h].status = "RUNNING" =>
      IsValid(s, h) /\ t.measures[h] = s.measures[h]

\* Handles are numbers, and the next one is not given out.
LEMMA HandleFacts ==
  ASSUME MonRemoteAssumption, NEW s \in NodeState
  PROVE  /\ NoHandle \notin Handles /\ Handles \subseteq Nat
         /\ Given(s) \subseteq Handles
         /\ s.next \notin Given(s) /\ NoHandle \notin Given(s)
         /\ s.next # NoHandle => s.next \in Handles
         /\ \A h \in Handles \cup {NoHandle} : h < s.next => h \in Given(s)
BY DEF MonRemoteAssumption, Handles, NoHandle, Given, NodeState

\* A measure is not the empty place, and has its fields.
LEMMA MeasureFacts ==
  ASSUME NEW m \in Measure
  PROVE  /\ m # NoMeasure
         /\ KeyOf(m) \in Key /\ OriginOf(m) \in Origin
         /\ KeyOf(m).dst = m.dst /\ KeyOf(m).msg_type = m.msg_type
         /\ KeyOf(m).mid = m.mid /\ KeyOf(m).remote = m.remote
         /\ OneSided(KeyOf(m)) <=> ~IsPaired(m)
BY DEF Measure, NoMeasure, Statuses, KeyOf, OriginOf, Key, Origin, OneSided, IsPaired

\* Measure d is m but for where it is aimed; but for its status; but for that and the
\* handle of its counterpart.
Reaims(m, d, p, y) ==
  /\ d \in Measure /\ d.mid = m.mid /\ d.remote = m.remote /\ d.status = m.status
  /\ d.mh_remote = m.mh_remote /\ d.dst = p /\ d.msg_type = y
Restates(m, d, x) ==
  /\ d \in Measure /\ d.mid = m.mid /\ d.remote = m.remote /\ d.status = x
  /\ d.dst = m.dst /\ d.msg_type = m.msg_type
  /\ KeyOf(d) = KeyOf(m) /\ (IsPaired(d) <=> IsPaired(m))

\* A valid handle has a measure.
LEMMA ValidMeasure ==
  ASSUME MonRemoteAssumption, NEW s \in NodeState, NEW h \in Handles
  PROVE  /\ IsValid(s, h) => s.measures[h] \in Measure
         /\ s.measures[h] \in Measure => IsValid(s, h)
         /\ IsValid(s, h) <=> s.measures[h] # NoMeasure
BY HandleFacts, MeasureFacts DEF NodeState, IsValid

\* A step that follows a step follows.
LEMMA FollowsTransitive ==
  ASSUME NEW s, NEW t, NEW u, Follows(s, t), Follows(t, u)
  PROVE  Follows(s, u)
BY DEF Follows

\* Two steps of a node start no more than each of them.
LEMMA StartsTransitive ==
  ASSUME NEW s, NEW t, NEW u, NEW g, StartsNone(s, t, g), StartsNone(t, u, g)
  PROVE  StartsNone(s, u, g)
BY DEF StartsNone

-----------------------------------------------------------------------------
(* What a node does to its own measures.                                    *)

\* The process ends.
LEMMA CrashedOK ==
  ASSUME MonRemoteAssumption, NEW s, NodeOK(s)
  PROVE  /\ NodeOK(Crashed(s)) /\ Follows(s, Crashed(s))
         /\ \A g : StartsNone(s, Crashed(s), g)
         /\ \A h \in Handles : ~IsValid(Crashed(s), h)
<1> DEFINE t == Crashed(s)
<1>1. s \in NodeState
      BY DEF NodeOK
<1>2. /\ t \in NodeState /\ t.next = s.next
      /\ t.measures = [h \in Handles |-> NoMeasure]
      /\ t.lists = [k \in Key |-> NoHandle]
      BY <1>1 DEF Crashed, NodeState
<1>3. \A h \in Handles : ~IsValid(t, h)
      BY <1>2 DEF IsValid
<1>4. Given(t) = Given(s)
      BY <1>2 DEF Given
<1> HIDE DEF t
<1>5. NodeOK(t)
      BY <1>1, <1>2, <1>3, HandleFacts DEF NodeOK, OnList
<1>6. Follows(s, t)
      BY <1>1, <1>3, <1>4, HandleFacts DEF Follows
<1>7. \A g : StartsNone(s, t, g)
      BY <1>3 DEF StartsNone
<1>8. QED
      BY <1>3, <1>5, <1>6, <1>7 DEF t

\* A measure of the next handle, that is stopped.
LEMMA CreatedOK ==
  ASSUME MonRemoteAssumption, NEW s, NodeOK(s), s.next # NoHandle,
         NEW mid \in Plugins, NEW remote \in BOOLEAN, NEW mh \in Handles \cup {NoHandle},
         Nodes # {}
  PROVE  LET t == Created(s, mid, remote, mh) IN
         /\ NodeOK(t) /\ Follows(s, t) /\ \A g : StartsNone(s, t, g)
         /\ Given(t) = Given(s) \cup {s.next} /\ s.next \in Handles
         /\ t.lists = s.lists /\ t.up = s.up
         /\ \A h \in Handles \ {s.next} : t.measures[h] = s.measures[h]
         /\ IsValid(t, s.next) /\ t.measures[s.next] \in Measure
         /\ t.measures[s.next].mid = mid /\ t.measures[s.next].remote = remote
         /\ t.measures[s.next].mh_remote = mh /\ t.measures[s.next].status = "STOPPED"
<1> DEFINE t == Created(s, mid, remote, mh)
           m == [mid |-> mid, remote |-> remote, status |-> "STOPPED", mh_remote |-> mh,
                 dst |-> CHOOSE p \in Nodes : TRUE, msg_type |-> CHOOSE u \in MsgTypes : TRUE]
<1>1. s \in NodeState /\ s.next \in Handles
      BY HandleFacts DEF NodeOK
<1>2. m \in Measure
      BY DEF Measure, MonRemoteAssumption, Statuses
<1>3. /\ m.mid = mid /\ m.remote = remote /\ m.mh_remote = mh /\ m.status = "STOPPED"
      OBVIOUS
<1>4. t = [s EXCEPT !.measures[s.next] = m, !.next = @ + 1]
      BY DEF Created
<1> HIDE DEF m
<1>5. t.measures = [s.measures EXCEPT ![s.next] = m] /\ t.next = s.next + 1
      /\ t.lists = s.lists /\ t.up = s.up
      BY <1>1, <1>4 DEF NodeState
<1>6. t.next \in Handles \cup {NoHandle}
      BY <1>1, <1>5 DEF MonRemoteAssumption, Handles, NoHandle
<1>7. t \in NodeState
      BY <1>1, <1>2, <1>4, <1>5, <1>6 DEF NodeState
<1>8. /\ t.measures[s.next] = m
      /\ \A h \in Handles \ {s.next} : t.measures[h] = s.measures[h]
      BY <1>1, <1>5 DEF NodeState
<1>9. Given(t) = Given(s) \cup {s.next}
      BY <1>1, <1>5, HandleFacts DEF Given
<1>10. s.next \notin Given(s) /\ ~IsValid(s, s.next) /\ IsValid(t, s.next)
      BY <1>1, <1>2, <1>7, <1>8, HandleFacts, ValidMeasure DEF NodeOK
<1>11. \A h \in Handles \ {s.next} : IsValid(t, h) <=> IsValid(s, h)
      BY <1>8 DEF IsValid
<1> HIDE DEF t
<1>12. NodeOK(t)
  <2>1. \A h \in Handles : IsValid(t, h) => h \in Given(t)
        BY <1>9, <1>11 DEF NodeOK
  <2>2. \A h \in Handles : IsValid(t, h) /\ ~IsPaired(t.measures[h]) =>
          t.measures[h].status \in {"STOPPED", "RUNNING"}
        BY <1>3, <1>8, <1>11 DEF NodeOK
  <2>3. ASSUME NEW k \in Key, NEW h \in Handles, OneSided(k)
        PROVE  t.lists[k] = h <=> OnList(t, h, k)
    <3>1. s.lists[k] = h <=> OnList(s, h, k)
          BY <2>3 DEF NodeOK
    <3>2. CASE h = s.next
          BY <3>1, <3>2, <1>3, <1>5, <1>8, <1>10 DEF OnList
    <3>3. CASE h # s.next
          BY <3>1, <3>3, <1>5, <1>8, <1>11 DEF OnList
    <3>4. QED
          BY <3>2, <3>3
  <2>4. ASSUME NEW k \in Key, NEW h \in Handles, t.lists[k] = h
        PROVE  /\ h \in Given(t)
               /\ IsValid(t, h) => t.measures[h].mid = k.mid /\ t.measures[h].remote = k.remote
        BY <2>4, <1>5, <1>8, <1>9, <1>10, <1>11 DEF NodeOK
  <2>5. QED
        BY <1>7, <2>1, <2>2, <2>3, <2>4 DEF NodeOK
<1>13. Follows(s, t)
      BY <1>1, <1>8, <1>9, <1>10, <1>11, HandleFacts DEF Follows
<1>14. \A g : StartsNone(s, t, g)
      BY <1>3, <1>8, <1>11 DEF StartsNone
<1>15. QED
      BY <1>1, <1>2, <1>3, <1>5, <1>8, <1>9, <1>10, <1>12, <1>13, <1>14 DEF t

\* A measure that no one-sided list shows is changed or removed: it has a counterpart,
\* or it is stopped and stays so.
LEMMA ChangedOK ==
  ASSUME MonRemoteAssumption, NEW s, NodeOK(s), NEW t \in NodeState,
         NEW h \in Handles, IsValid(s, h),
         IsPaired(s.measures[h]) \/ s.measures[h].status # "RUNNING",
         NEW d \in Measure \cup {NoMeasure},
         d \in Measure => /\ d.mid = s.measures[h].mid /\ d.remote = s.measures[h].remote
                          /\ IsPaired(d) \/ d.status = "STOPPED",
         t.measures = [s.measures EXCEPT ![h] = d], t.next = s.next,
         \A k \in Key : \/ t.lists[k] = s.lists[k]
                        \/ ~OneSided(k) /\ t.lists[k] = NoHandle
                        \/ /\ ~OneSided(k) /\ t.lists[k] = h
                           /\ s.measures[h].mid = k.mid /\ s.measures[h].remote = k.remote
  PROVE  NodeOK(t) /\ Follows(s, t) /\ \A g : StartsNone(s, t, g)
<1>1. s \in NodeState /\ h \in Given(s)
      BY DEF NodeOK
<1>2. /\ t.measures[h] = d
      /\ \A g \in Handles \ {h} : t.measures[g] = s.measures[g]
      BY <1>1 DEF NodeState
<1>3. Given(t) = Given(s)
      BY DEF Given
<1>4. \A g \in Handles \ {h} : IsValid(t, g) <=> IsValid(s, g)
      BY <1>2 DEF IsValid
<1>5. IsValid(t, h) <=> d \in Measure
      BY <1>2, ValidMeasure
<1>6. s.measures[h] \in Measure
      BY <1>1, ValidMeasure
<1>7. IsValid(t, h) => /\ d.mid = s.measures[h].mid /\ d.remote = s.measures[h].remote
                       /\ IsPaired(d) \/ d.status = "STOPPED"
      BY <1>5
<1>8. \A k \in Key : OneSided(k) => ~OnList(s, h, k) /\ ~OnList(t, h, k)
  <2>1. \A k \in Key : OnList(s, h, k) => ~OneSided(k)
        BY <1>6, MeasureFacts DEF OnList, NodeOK
  <2>2. \A k \in Key : OnList(t, h, k) => ~OneSided(k)
        BY <1>2, <1>5, <1>7, MeasureFacts DEF OnList
  <2>3. QED
        BY <2>1, <2>2
<1>9. \A g \in Handles : IsValid(t, g) => g \in Given(t)
      BY <1>1, <1>3, <1>4 DEF NodeOK
<1>10. \A g \in Handles : IsValid(t, g) /\ ~IsPaired(t.measures[g]) =>
          t.measures[g].status \in {"STOPPED", "RUNNING"}
      BY <1>2, <1>4, <1>7 DEF NodeOK
<1>11. ASSUME NEW k \in Key, NEW g \in Handles, OneSided(k)
       PROVE  t.lists[k] = g <=> OnList(t, g, k)
  <2>1. t.lists[k] = s.lists[k] /\ (s.lists[k] = g <=> OnList(s, g, k))
        BY <1>11 DEF NodeOK
  <2>2. OnList(t, g, k) <=> OnList(s, g, k)
        BY <1>2, <1>4, <1>8, <1>11 DEF OnList
  <2>3. QED
        BY <2>1, <2>2
<1>12. ASSUME NEW k \in Key, NEW g \in Handles, t.lists[k] = g
       PROVE  /\ g \in Given(t)
              /\ IsValid(t, g) => t.measures[g].mid = k.mid /\ t.measures[g].remote = k.remote
  <2>1. g # NoHandle
        BY <1>1, HandleFacts
  <2>2. CASE s.lists[k] = g
    <3>1. g \in Given(s) /\ (IsValid(s, g) => s.measures[g].mid = k.mid
                                                /\ s.measures[g].remote = k.remote)
          BY <2>2 DEF NodeOK
    <3>2. QED
          BY <3>1, <1>2, <1>3, <1>4, <1>7
  <2>3. CASE s.lists[k] # g
        BY <1>1, <1>2, <1>3, <1>7, <1>12, <2>1, <2>3
  <2>4. QED
        BY <2>2, <2>3
<1>13. NodeOK(t)
      BY <1>9, <1>10, <1>11, <1>12 DEF NodeOK
<1>14. Follows(s, t)
      BY <1>1, <1>2, <1>3, <1>4, <1>7, HandleFacts DEF Follows
<1>15. \A g : StartsNone(s, t, g)
      BY <1>2, <1>4, <1>7 DEF StartsNone
<1>16. QED
      BY <1>13, <1>14, <1>15

\* measure_dispatcher.cpp: stopMeasure takes a running measure off its list, or one
\* with a counterpart, or it is fatal.
LEMMA StopOK ==
  ASSUME MonRemoteAssumption, NEW s, NodeOK(s), NEW h \in Handles, IsValid(s, h),
         IsPaired(s.measures[h]) \/ s.measures[h].status = "RUNNING"
  PROVE  LET t == stopMeasure(s, h) IN
         /\ NodeOK(t) /\ Follows(s, t) /\ \A g : StartsNone(s, t, g)
         /\ Listed(s, h) =>
              /\ t.next = s.next
              /\ t.measures = [s.measures EXCEPT ![h].status =
                                IF IsPaired(s.measures[h]) THEN "STOPPING" ELSE "STOPPED"]
              /\ t.lists = [s.lists EXCEPT ![KeyOf(s.measures[h])] = NoHandle]
<1> DEFINE m == s.measures[h]
           d == [m EXCEPT !.status = IF IsPaired(m) THEN "STOPPING" ELSE "STOPPED"]
           t == stopMeasure(s, h)
<1>1. s \in NodeState /\ m \in Measure /\ KeyOf(m) \in Key
      BY ValidMeasure, MeasureFacts DEF NodeOK
<1>2. CASE ~Listed(s, h)
      BY <1>2, CrashedOK DEF stopMeasure
<1>3. CASE Listed(s, h)
  <2>1. t = [s EXCEPT !.measures[h].status = IF IsPaired(m) THEN "STOPPING" ELSE "STOPPED",
                      !.lists[KeyOf(m)] = NoHandle]
        BY <1>3 DEF stopMeasure
  <2>2. /\ t.measures = [s.measures EXCEPT ![h].status =
                           IF IsPaired(m) THEN "STOPPING" ELSE "STOPPED"]
        /\ t.lists = [s.lists EXCEPT ![KeyOf(m)] = NoHandle]
        /\ t.next = s.next /\ t.up = s.up /\ DOMAIN t = DOMAIN s
        BY <2>1, <1>1 DEF NodeState
  <2>3. t.measures = [s.measures EXCEPT ![h] = d]
        BY <2>2, <1>1 DEF NodeState
  <2>4. /\ d \in Measure /\ d.mid = m.mid /\ d.remote = m.remote
        /\ KeyOf(d) = KeyOf(m) /\ (IsPaired(d) <=> IsPaired(m))
        /\ d.status = IF IsPaired(m) THEN "STOPPING" ELSE "STOPPED"
        BY <1>1 DEF Measure, Statuses, KeyOf, IsPaired
  <2>5. t \in NodeState
    <3>1. /\ t.measures \in [Handles -> Measure \cup {NoMeasure}]
          /\ t.lists \in [Key -> Handles \cup {NoHandle}]
          BY <1>1, <2>2, <2>3, <2>4 DEF NodeState
    <3>2. t = [s EXCEPT !.measures = t.measures, !.lists = t.lists]
          BY <1>1, <2>1, <2>2 DEF NodeState
    <3> HIDE DEF t, d
    <3>3. QED
          BY <1>1, <3>1, <3>2 DEF NodeState
  <2>6. /\ t.lists[KeyOf(m)] = NoHandle
        /\ \A k \in Key \ {KeyOf(m)} : t.lists[k] = s.lists[k]
        BY <1>1, <2>2 DEF NodeState
  <2> HIDE DEF t, d
  <2>7. CASE IsPaired(m)
    <3>1. ~OneSided(KeyOf(m))
          BY <1>1, <2>7, MeasureFacts
    <3>2. \A k \in Key : \/ t.lists[k] = s.lists[k]
                         \/ ~OneSided(k) /\ t.lists[k] = NoHandle
          BY <2>6, <3>1
    <3>3. NodeOK(t) /\ Follows(s, t) /\ \A g : StartsNone(s, t, g)
          BY <2>2, <2>3, <2>4, <2>5, <2>7, <3>2, ChangedOK
    <3>4. QED
          BY <3>3, <2>2 DEF t
  <2>8. CASE ~IsPaired(m)
    <3>1. m.status = "RUNNING" /\ d.status = "STOPPED" /\ ~IsPaired(d)
          BY <2>4, <2>8
    <3>2. OneSided(KeyOf(m)) /\ OnList(s, h, KeyOf(m))
          BY <1>1, <2>8, <3>1, MeasureFacts DEF OnList
    <3>3. s.lists[KeyOf(m)] = h
          BY <1>1, <3>2 DEF NodeOK
    <3>4. /\ t.measures[h] = d
          /\ \A g \in Handles \ {h} : t.measures[g] = s.measures[g]
          BY <2>3, <1>1 DEF NodeState
    <3>5. IsValid(t, h) /\ \A g \in Handles \ {h} : IsValid(t, g) <=> IsValid(s, g)
          BY <2>4, <2>5, <3>4, ValidMeasure DEF IsValid
    <3>6. Given(t) = Given(s)
          BY <2>2 DEF Given
    <3>7. \A g \in Handles : IsValid(t, g) => g \in Given(t)
          BY <3>5, <3>6 DEF NodeOK
    <3>8. \A g \in Handles : IsValid(t, g) /\ ~IsPaired(t.measures[g]) =>
            t.measures[g].status \in {"STOPPED", "RUNNING"}
          BY <3>1, <3>4, <3>5 DEF NodeOK
    <3>9. ASSUME NEW k \in Key, NEW g \in Handles, OneSided(k)
          PROVE  t.lists[k] = g <=> OnList(t, g, k)
      <4>1. (s.lists[k] = g <=> OnList(s, g, k)) /\ (s.lists[k] = h <=> OnList(s, h, k))
            BY <3>9 DEF NodeOK
      <4>2. CASE g = h
            BY <4>1, <4>2, <3>1, <3>4, <2>6, <1>1, HandleFacts DEF OnList
      <4>3. CASE g # h
        <5>1. OnList(t, g, k) <=> OnList(s, g, k)
              BY <4>3, <3>4, <3>5 DEF OnList
        <5>2. t.lists[k] = g <=> s.lists[k] = g
              BY <4>3, <3>3, <2>6, <1>1, HandleFacts
        <5>3. QED
              BY <4>1, <5>1, <5>2
      <4>4. QED
            BY <4>2, <4>3
    <3>10. ASSUME NEW k \in Key, NEW g \in Handles, t.lists[k] = g
           PROVE  /\ g \in Given(t)
                  /\ IsValid(t, g) => t.measures[g].mid = k.mid /\ t.measures[g].remote = k.remote
      <4>1. s.lists[k] = g
            BY <3>10, <2>6, <1>1, HandleFacts
      <4>2. g \in Given(s) /\ (IsValid(s, g) => s.measures[g].mid = k.mid
                                                  /\ s.measures[g].remote = k.remote)
            BY <4>1 DEF NodeOK
      <4>3. QED
            BY <4>2, <3>4, <3>5, <3>6, <2>4
    <3>11. NodeOK(t)
          BY <2>5, <3>7, <3>8, <3>9, <3>10 DEF NodeOK
    <3>12. Follows(s, t)
          BY <1>1, <2>4, <3>4, <3>5, <3>6, HandleFacts DEF Follows
    <3>13. \A g : StartsNone(s, t, g)
          BY <3>1, <3>4, <3>5 DEF StartsNone
    <3>14. QED
          BY <3>11, <3>12, <3>13, <2>2 DEF t
  <2>9. QED
        BY <2>7, <2>8
<1>4. QED
      BY <1>2, <1>3

\* measure_dispatcher.cpp: deactivateMeasure leaves no measure running that has no
\* counterpart, and changes nothing else about the measures.
LEMMA DeactivateOK ==
  ASSUME MonRemoteAssumption, NEW s, NodeOK(s), NEW h \in Handles, IsValid(s, h)
  PROVE  LET t == deactivateMeasure(s, h) IN
         /\ NodeOK(t) /\ Follows(s, t) /\ \A g : StartsNone(s, t, g)
         /\ IsValid(t, h)
         /\ IsPaired(t.measures[h]) \/ t.measures[h].status # "RUNNING"
         /\ t.next = s.next
         /\ \A g \in Handles \ {h} : t.measures[g] = s.measures[g]
<1> DEFINE m == s.measures[h]
           t == deactivateMeasure(s, h)
<1>1. s \in NodeState /\ m \in Measure /\ KeyOf(m) \in Key
      BY ValidMeasure, MeasureFacts DEF NodeOK
<1>2. ~IsPaired(m) => m.status \in {"STOPPED", "RUNNING"}
      BY DEF NodeOK
<1>3. CASE ~Stops(s, h)
  <2>1. t = s
        BY <1>3 DEF deactivateMeasure
  <2>2. IsPaired(m) \/ m.status # "RUNNING"
    <3>1. SUFFICES ASSUME ~IsPaired(m), m.status = "RUNNING" PROVE FALSE
          OBVIOUS
    <3>2. OneSided(KeyOf(m)) /\ OnList(s, h, KeyOf(m))
          BY <1>1, <3>1, MeasureFacts DEF OnList
    <3>3. s.lists[KeyOf(m)] = h /\ h # NoHandle
          BY <1>1, <3>2, HandleFacts DEF NodeOK
    <3>4. QED
          BY <1>3, <3>1, <3>3 DEF Stops, Listed
  <2>3. Follows(s, s) /\ \A g : StartsNone(s, s, g)
        BY DEF Follows, StartsNone
  <2>4. QED
        BY <2>1, <2>2, <2>3
<1>4. CASE Stops(s, h)
  <2>1. t = stopMeasure(s, h) /\ Listed(s, h) /\ m.status # "STOPPED"
        BY <1>4 DEF deactivateMeasure, Stops
  <2>2. IsPaired(m) \/ m.status = "RUNNING"
        BY <1>2, <2>1
  <2>3. /\ NodeOK(t) /\ Follows(s, t) /\ \A g : StartsNone(s, t, g)
        /\ t.next = s.next
        /\ t.measures = [s.measures EXCEPT ![h].status =
                           IF IsPaired(m) THEN "STOPPING" ELSE "STOPPED"]
    <3> DEFINE v == stopMeasure(s, h)
    <3>1. /\ NodeOK(v) /\ Follows(s, v) /\ \A g : StartsNone(s, v, g)
          /\ Listed(s, h) =>
              /\ v.next = s.next
              /\ v.measures = [s.measures EXCEPT ![h].status =
                                IF IsPaired(s.measures[h]) THEN "STOPPING" ELSE "STOPPED"]
          BY <2>2, StopOK
    <3> HIDE DEF v
    <3>2. QED
          BY <2>1, <3>1 DEF v
  <2> HIDE DEF t
  <2>4. /\ t.measures[h] = [m EXCEPT !.status = IF IsPaired(m) THEN "STOPPING" ELSE "STOPPED"]
        /\ \A g \in Handles \ {h} : t.measures[g] = s.measures[g]
        BY <1>1, <2>3 DEF NodeState
  <2>5. /\ t.measures[h] \in Measure
        /\ t.measures[h].status = IF IsPaired(m) THEN "STOPPING" ELSE "STOPPED"
        /\ IsPaired(t.measures[h]) <=> IsPaired(m)
        BY <1>1, <2>4 DEF Measure, Statuses, IsPaired
  <2>6. t \in NodeState
        BY <2>3 DEF NodeOK
  <2>7. IsValid(t, h)
        BY <2>5, <2>6, ValidMeasure
  <2>8. QED
        BY <2>3, <2>4, <2>5, <2>7 DEF t
<1>5. QED
      BY <1>3, <1>4

\* measure_manager.h: monDestroyMeasure stops the measure, if need be, and it is gone.
LEMMA DestroyOK ==
  ASSUME MonRemoteAssumption, NEW s, NodeOK(s), NEW h \in Handles, IsValid(s, h)
  PROVE  LET t == monDestroyMeasure(s, h) IN
         /\ NodeOK(t) /\ Follows(s, t) /\ \A g : StartsNone(s, t, g)
         /\ ~IsValid(t, h) /\ t.next = s.next
         /\ \A g \in Handles \ {h} : t.measures[g] = s.measures[g]
<1> DEFINE u == deactivateMeasure(s, h)
           t == monDestroyMeasure(s, h)
<1>1. /\ NodeOK(u) /\ Follows(s, u) /\ \A g : StartsNone(s, u, g)
      /\ IsValid(u, h)
      /\ IsPaired(u.measures[h]) \/ u.measures[h].status # "RUNNING"
      /\ u.next = s.next
      /\ \A g \in Handles \ {h} : u.measures[g] = s.measures[g]
      BY DeactivateOK
<1>2. t = [u EXCEPT !.measures[h] = NoMeasure]
      BY DEF monDestroyMeasure
<1> HIDE DEF u
<1>3. u \in NodeState
      BY <1>1 DEF NodeOK
<1>4. /\ t \in NodeState /\ t.next = u.next /\ t.lists = u.lists
      /\ t.measures = [u.measures EXCEPT ![h] = NoMeasure]
      BY <1>2, <1>3 DEF NodeState
<1>5. NoMeasure \notin Measure
      BY MeasureFacts
<1> HIDE DEF t
<1>6. NodeOK(t) /\ Follows(u, t) /\ \A g : StartsNone(u, t, g)
      BY <1>1, <1>4, <1>5, ChangedOK
<1>7. /\ t.measures[h] = NoMeasure
      /\ \A g \in Handles \ {h} : t.measures[g] = u.measures[g]
      BY <1>3, <1>4 DEF NodeState
<1>8. Follows(s, t) /\ \A g : StartsNone(s, t, g)
      BY <1>1, <1>6, FollowsTransitive, StartsTransitive
<1>9. QED
      BY <1>1, <1>4, <1>6, <1>7, <1>8 DEF IsValid, t

\* measure_dispatcher.cpp: activateMeasure overwrites where a measure is aimed at.
LEMMA AimedOK ==
  ASSUME MonRemoteAssumption, NEW s, NodeOK(s), NEW h \in Handles, IsValid(s, h),
         IsPaired(s.measures[h]) \/ s.measures[h].status # "RUNNING",
         NEW p \in Nodes, NEW y \in MsgTypes
  PROVE  LET t == Aimed(s, h, p, y) IN
         /\ NodeOK(t) /\ Follows(s, t) /\ \A g : StartsNone(s, t, g)
         /\ t.lists = s.lists /\ t.next = s.next /\ t.up = s.up /\ IsValid(t, h)
         /\ Reaims(s.measures[h], t.measures[h], p, y)
         /\ \A g \in Handles \ {h} : t.measures[g] = s.measures[g]
<1> DEFINE m == s.measures[h]
           d == [m EXCEPT !.dst = p, !.msg_type = y]
           t == Aimed(s, h, p, y)
<1>1. s \in NodeState /\ m \in Measure
      BY ValidMeasure DEF NodeOK
<1>2. /\ d \in Measure /\ d.mid = m.mid /\ d.remote = m.remote /\ d.status = m.status
      /\ IsPaired(d) <=> IsPaired(m)
      /\ Reaims(m, d, p, y)
      BY <1>1 DEF Measure, IsPaired, Reaims
<1>3. ~IsPaired(m) => m.status = "STOPPED"
      BY DEF NodeOK
<1>4. /\ t.measures = [s.measures EXCEPT ![h] = d]
      /\ t.next = s.next /\ t.lists = s.lists /\ t.up = s.up
      /\ t = [s EXCEPT !.measures = t.measures]
      BY <1>1 DEF Aimed, NodeState
<1> HIDE DEF t, d
<1>5. t \in NodeState
      BY <1>1, <1>2, <1>4 DEF NodeState
<1>6. NodeOK(t) /\ Follows(s, t) /\ \A g : StartsNone(s, t, g)
      BY <1>2, <1>3, <1>4, <1>5, ChangedOK
<1>7. /\ t.measures[h] = d
      /\ \A g \in Handles \ {h} : t.measures[g] = s.measures[g]
      BY <1>1, <1>4 DEF NodeState
<1>8. IsValid(t, h)
      BY <1>2, <1>5, <1>7, ValidMeasure
<1>9. QED
      BY <1>2, <1>4, <1>6, <1>7, <1>8 DEF t

Answered(s, h, mh, x) == [s EXCEPT !.measures[h] = [@ EXCEPT !.mh_remote = mh, !.status = x]]

\* measure_dispatcher.cpp: an answer sets the status of a measure with a counterpart,
\* and possibly the handle of that counterpart.
LEMMA AnsweredOK ==
  ASSUME MonRemoteAssumption, NEW s, NodeOK(s), NEW h \in Handles, IsValid(s, h),
         IsPaired(s.measures[h]), NEW mh \in Handles \cup {NoHandle}, NEW x \in Statuses,
         NEW t, t = Answered(s, h, mh, x)
  PROVE  /\ NodeOK(t) /\ Follows(s, t) /\ \A g : StartsNone(s, t, g)
         /\ t.lists = s.lists /\ t.next = s.next /\ IsValid(t, h)
         /\ Restates(s.measures[h], t.measures[h], x)
         /\ \A g \in Handles \ {h} : t.measures[g] = s.measures[g]
<1> DEFINE m == s.measures[h]
           d == [m EXCEPT !.mh_remote = mh, !.status = x]
<1>1. s \in NodeState /\ m \in Measure
      BY ValidMeasure DEF NodeOK
<1>2. /\ d \in Measure /\ d.mid = m.mid /\ d.remote = m.remote
      /\ IsPaired(d) /\ Restates(m, d, x)
      BY <1>1 DEF Measure, IsPaired, Restates, KeyOf
<1>3. /\ t.measures = [s.measures EXCEPT ![h] = d]
      /\ t.next = s.next /\ t.lists = s.lists
      /\ t = [s EXCEPT !.measures = t.measures]
      BY <1>1 DEF NodeState, Answered
<1> HIDE DEF d
<1>4. t \in NodeState
      BY <1>1, <1>2, <1>3 DEF NodeState
<1>5. NodeOK(t) /\ Follows(s, t) /\ \A g : StartsNone(s, t, g)
  <2>1. \A k \in Key : t.lists[k] = s.lists[k]
        BY <1>3
  <2>2. d \in Measure \cup {NoMeasure}
        BY <1>2
  <2>3. t.measures = [s.measures EXCEPT ![h] = d] /\ t.next = s.next
        BY <1>3
  <2>4. d.mid = s.measures[h].mid /\ d.remote = s.measures[h].remote /\ IsPaired(d)
        BY <1>2
  <2> HIDE DEF m
  <2>5. QED
        BY ONLY <1>4, <2>1, <2>2, <2>3, <2>4, ChangedOK, MonRemoteAssumption, NodeOK(s),
                h \in Handles, IsValid(s, h), IsPaired(s.measures[h])
<1>6. /\ t.measures[h] = d
      /\ \A g \in Handles \ {h} : t.measures[g] = s.measures[g]
      BY <1>1, <1>3 DEF NodeState
<1>7. IsValid(t, h)
      BY <1>2, <1>4, <1>6, ValidMeasure
<1>8. QED
      BY <1>2, <1>3, <1>5, <1>6, <1>7

\* measure_dispatcher.cpp: activateMeasure puts a measure on the list of its stream,
\* which no measure is on.
LEMMA LoadedOK ==
  ASSUME MonRemoteAssumption, NEW s, NodeOK(s), NEW h \in Handles, IsValid(s, h),
         IsPaired(s.measures[h]) \/ s.measures[h].status # "RUNNING",
         ~Occupied(s, KeyOf(s.measures[h]))
  PROVE  LET t == Loaded(s, h) IN
         /\ NodeOK(t) /\ Follows(s, t) /\ StartsNone(s, t, h)
         /\ t.lists[KeyOf(s.measures[h])] = h
         /\ \A k \in Key \ {KeyOf(s.measures[h])} : t.lists[k] = s.lists[k]
         /\ t.next = s.next /\ t.up = s.up /\ IsValid(t, h)
         /\ Restates(s.measures[h], t.measures[h],
                     IF IsPaired(s.measures[h]) THEN "INITIALISING" ELSE "RUNNING")
         /\ \A g \in Handles \ {h} : t.measures[g] = s.measures[g]
<1> DEFINE m == s.measures[h]
           d == [m EXCEPT !.status = IF IsPaired(m) THEN "INITIALISING" ELSE "RUNNING"]
           t == Loaded(s, h)
<1>1. s \in NodeState /\ m \in Measure /\ KeyOf(m) \in Key /\ h \in Given(s)
      BY ValidMeasure, MeasureFacts DEF NodeOK
<1>2. /\ d \in Measure /\ d.mid = m.mid /\ d.remote = m.remote
      /\ KeyOf(d) = KeyOf(m) /\ (IsPaired(d) <=> IsPaired(m))
      /\ d.status = IF IsPaired(m) THEN "INITIALISING" ELSE "RUNNING"
      /\ Restates(m, d, IF IsPaired(m) THEN "INITIALISING" ELSE "RUNNING")
      BY <1>1 DEF Measure, Statuses, KeyOf, IsPaired, Restates
<1>3. /\ t.measures = [s.measures EXCEPT ![h] = d]
      /\ t.lists = [s.lists EXCEPT ![KeyOf(m)] = h]
      /\ t.next = s.next /\ t.up = s.up
      /\ t = [s EXCEPT !.measures = t.measures, !.lists = t.lists]
      BY <1>1 DEF Loaded, NodeState
<1> HIDE DEF t, d
<1>4. t \in NodeState
  <2>1. t.measures \in [Handles -> Measure \cup {NoMeasure}]
        BY <1>1, <1>2, <1>3 DEF NodeState
  <2>2. t.lists \in [Key -> Handles \cup {NoHandle}]
        BY <1>1, <1>3 DEF NodeState
  <2>3. QED
        BY <1>1, <1>3, <2>1, <2>2 DEF NodeState
<1>5. /\ t.measures[h] = d /\ t.lists[KeyOf(m)] = h
      /\ \A g \in Handles \ {h} : t.measures[g] = s.measures[g]
      /\ \A k \in Key \ {KeyOf(m)} : t.lists[k] = s.lists[k]
      BY <1>1, <1>3 DEF NodeState
<1>6. IsValid(t, h) /\ \A g \in Handles \ {h} : IsValid(t, g) <=> IsValid(s, g)
      BY <1>2, <1>4, <1>5, ValidMeasure DEF IsValid
<1>7. CASE IsPaired(m)
  <2>1. ~OneSided(KeyOf(m)) /\ KeyOf(m).mid = m.mid /\ KeyOf(m).remote = m.remote
        BY <1>1, <1>7, MeasureFacts
  <2>2. \A k \in Key : \/ t.lists[k] = s.lists[k]
                       \/ /\ ~OneSided(k) /\ t.lists[k] = h
                          /\ m.mid = k.mid /\ m.remote = k.remote
        BY <1>5, <2>1
  <2>3. NodeOK(t) /\ Follows(s, t) /\ \A g : StartsNone(s, t, g)
        BY <1>2, <1>3, <1>4, <1>7, <2>2, ChangedOK
  <2>4. QED
        BY <1>2, <1>3, <1>5, <1>6, <2>3 DEF t
<1>8. CASE ~IsPaired(m)
  <2>1. m.status = "STOPPED" /\ d.status = "RUNNING" /\ ~IsPaired(d)
        BY <1>2, <1>8 DEF NodeOK
  <2>2. s.lists[KeyOf(m)] = NoHandle
        BY DEF Occupied
  <2>3. Given(t) = Given(s)
        BY <1>3 DEF Given
  <2>4. \A g \in Handles : IsValid(t, g) => g \in Given(t)
        BY <1>1, <1>6, <2>3 DEF NodeOK
  <2>5. \A g \in Handles : IsValid(t, g) /\ ~IsPaired(t.measures[g]) =>
          t.measures[g].status \in {"STOPPED", "RUNNING"}
        BY <1>5, <1>6, <2>1 DEF NodeOK
  <2>6. ASSUME NEW k \in Key, NEW g \in Handles, OneSided(k)
        PROVE  t.lists[k] = g <=> OnList(t, g, k)
    <3>1. (s.lists[k] = g <=> OnList(s, g, k)) /\ (s.lists[k] = h <=> OnList(s, h, k))
          BY <2>6 DEF NodeOK
    <3>2. ~OnList(s, h, k)
          BY <2>1 DEF OnList
    <3>3. OnList(t, h, k) <=> k = KeyOf(m)
          BY <1>2, <1>5, <1>6, <2>1 DEF OnList
    <3>4. g # h => (OnList(t, g, k) <=> OnList(s, g, k))
          BY <1>5, <1>6 DEF OnList
    <3>5. g # NoHandle
          BY <1>1, HandleFacts
    <3>6. CASE k = KeyOf(m)
          BY <3>1, <3>3, <3>4, <3>5, <3>6, <2>2, <1>5
    <3>7. CASE k # KeyOf(m)
          BY <3>1, <3>2, <3>3, <3>4, <3>7, <1>5
    <3>8. QED
          BY <3>6, <3>7
  <2>7. ASSUME NEW k \in Key, NEW g \in Handles, t.lists[k] = g
        PROVE  /\ g \in Given(t)
               /\ IsValid(t, g) => t.measures[g].mid = k.mid /\ t.measures[g].remote = k.remote
    <3>1. CASE k = KeyOf(m)
          BY <3>1, <2>3, <2>7, <1>1, <1>2, <1>5, MeasureFacts
    <3>2. CASE k # KeyOf(m)
      <4>1. s.lists[k] = g
            BY <3>2, <2>7, <1>5
      <4>2. g \in Given(s) /\ (IsValid(s, g) => s.measures[g].mid = k.mid
                                                  /\ s.measures[g].remote = k.remote)
            BY <4>1 DEF NodeOK
      <4>3. QED
            BY <4>2, <2>3, <1>2, <1>5, <1>6
    <3>3. QED
          BY <3>1, <3>2
  <2>8. NodeOK(t)
        BY <1>4, <2>4, <2>5, <2>6, <2>7 DEF NodeOK
  <2>9. Follows(s, t)
        BY <1>1, <1>2, <1>5, <1>6, <2>3, HandleFacts DEF Follows
  <2>10. StartsNone(s, t, h)
        BY <1>5, <1>6 DEF StartsNone
  <2>11. QED
        BY <1>2, <1>3, <1>5, <1>6, <2>8, <2>9, <2>10 DEF t
<1>9. QED
      BY <1>7, <1>8

-----------------------------------------------------------------------------
(* The invariant.                                                           *)

\* A handle given out by node n, of a measure with a counterpart if it is still there.
Owns(n, h) ==
  /\ h \in Given(monl[n])
  /\ IsValid(monl[n], h) => IsPaired(monl[n].measures[h])

\* One of a measure of the user's, made by plugin mid, if it is still there.
Made(n, h, mid) ==
  /\ h \in Given(monl[n])
  /\ IsValid(monl[n], h) => ~monl[n].measures[h].remote /\ monl[n].measures[h].mid = mid

MessageOK(m) ==
  /\ m.type = "INIT" => Owns(m.src, m.mh_local) /\ Made(m.src, m.mh_local, m.mid)
  /\ m.type = "DEINIT" => Owns(m.src, m.mh_local)
  /\ m.type = "RESPONSE" => Owns(m.dst, m.mh_remote)
  /\ m.type = "RESULTS" => \A r \in m.results : Made(m.dst, r.mh, r.mid)

Types ==
  /\ monl \in [Nodes -> NodeState]
  /\ held \in [Nodes -> SUBSET Handles] /\ active \in [Nodes -> SUBSET Handles]
  /\ net \in [DOMAIN net -> Nat \ {0}] /\ DOMAIN net \subseteq Message
  /\ samples \subseteq Sample
  /\ careless \in BOOLEAN
  /\ events \in [EventKinds -> Nat]

NodesOK == \A n \in Nodes : NodeOK(monl[n])
MessagesOK == \A m \in DOMAIN net : MessageOK(m)

\* A user holds measures of its own, and has activated those that run.
UserOK(n, h) ==
  /\ h \in held[n] => /\ h \in Given(monl[n])
                      /\ IsValid(monl[n], h) => ~monl[n].measures[h].remote
  /\ /\ IsValid(monl[n], h) /\ ~monl[n].measures[h].remote
     /\ ~IsPaired(monl[n].measures[h]) /\ monl[n].measures[h].status = "RUNNING"
     => h \in active[n]
UsersOK == \A n \in Nodes, h \in Handles : UserOK(n, h)

\* A counterpart that runs has the handle of a measure that its user made.
ReportsTo(c) ==
  c # NoMeasure /\ c.remote /\ c.status = "RUNNING" => Made(c.dst, c.mh_remote, c.mid)
Counterparts == \A n \in Nodes, r \in Handles : ReportsTo(monl[n].measures[r])

\* The part of SamplesOfStream that does not depend on how users behave.
ReportedOfStream ==
  \A x \in samples : x.origin # x.wanted => ~x.reported /\ x.wanted.mid \in Paired

IInv ==
  Types /\ NodesOK /\ MessagesOK /\ UsersOK /\ Counterparts /\ ReportedOfStream

\* No measure was made at first.
LEMMA InitIInv == ASSUME MonRemoteAssumption, Init PROVE IInv
<1>1. \A n \in Nodes : /\ monl[n] \in NodeState /\ monl[n].next = 0
                       /\ monl[n].measures = [h \in Handles |-> NoMeasure]
                       /\ monl[n].lists = [k \in Key |-> NoHandle]
  <2>1. 0 \in Handles \cup {NoHandle}
        BY DEF MonRemoteAssumption, Handles, NoHandle
  <2>2. QED
        BY <2>1 DEF Init, NodeState
<1>2. \A n \in Nodes, h \in Handles : ~IsValid(monl[n], h)
      BY <1>1 DEF IsValid
<1>3. NodesOK
      BY <1>1, <1>2, HandleFacts DEF NodesOK, NodeOK, OnList
<1>4. DOMAIN net = {} /\ net \in [{} -> Nat \ {0}]
      BY DEF Init, EmptyBag, SetToBag
<1>5. monl \in [Nodes -> NodeState]
      BY <1>1 DEF Init
<1>6. Types
      BY <1>4, <1>5 DEF Types, Init
<1>7. MessagesOK
      BY <1>4 DEF MessagesOK
<1>8. UsersOK /\ Counterparts
      BY <1>1, <1>2 DEF UsersOK, UserOK, Counterparts, ReportsTo, Init
<1>9. ReportedOfStream
      BY DEF ReportedOfStream, Init
<1>10. QED
      BY <1>3, <1>6, <1>7, <1>8, <1>9 DEF IInv

\* What is known of a handle stays true.
LEMMA NamesKept ==
  ASSUME Types, NodesOK, NEW n \in Nodes, NEW t, Become(n, t), NodeOK(t),
         Follows(monl[n], t)
  PROVE  /\ monl' \in [Nodes -> NodeState] /\ NodesOK'
         /\ monl'[n] = t /\ \A q \in Nodes \ {n} : monl'[q] = monl[q]
         /\ \A q \in Nodes : \A h : Owns(q, h) => Owns(q, h)'
         /\ \A q \in Nodes : \A h, mid : Made(q, h, mid) => Made(q, h, mid)'
<1>1. /\ t \in NodeState /\ monl' = [monl EXCEPT ![n] = t]
      BY DEF NodeOK, Become
<1>2. monl'[n] = t /\ \A q \in Nodes \ {n} : monl'[q] = monl[q]
      BY <1>1 DEF Types
<1>3. monl' \in [Nodes -> NodeState] /\ NodesOK'
      BY <1>1, <1>2 DEF Types, NodesOK
<1>4. ASSUME NEW q \in Nodes, NEW h, Owns(q, h) PROVE Owns(q, h)'
      BY <1>2, <1>4 DEF Owns, Follows, IsPaired
<1>5. ASSUME NEW q \in Nodes, NEW h, NEW mid, Made(q, h, mid) PROVE Made(q, h, mid)'
      BY <1>2, <1>5 DEF Made, Follows
<1>6. QED
      BY <1>2, <1>3, <1>4, <1>5

\* What is said of the handles in a message stays true.
LEMMA MessageKept ==
  ASSUME NEW m \in Message, MessageOK(m),
         \A q \in Nodes : \A h : Owns(q, h) => Owns(q, h)',
         \A q \in Nodes : \A h, mid : Made(q, h, mid) => Made(q, h, mid)'
  PROVE  MessageOK(m)'
<1>1. m.src \in Nodes /\ m.dst \in Nodes
      BY DEF Message
<1>2. QED
      BY <1>1 DEF MessageOK

\* Nothing but msgs is sent.
SentAtMost(msgs) ==
  /\ net' \in [DOMAIN net' -> Nat \ {0}] /\ DOMAIN net' \subseteq DOMAIN net \cup msgs
  /\ events' \in [EventKinds -> Nat]

\* What is in transit after a step was there before or is sent by it.
LEMMA SendOK ==
  ASSUME Types, NEW read, NEW msgs, NEW K, Send(read, msgs, K)
  PROVE  SentAtMost(msgs)
<1>1. net' = (net (-) SetToBag(read)) (+) SetToBag(msgs)
      BY DEF Send
<1> DEFINE b == net (-) SetToBag(read)
<1>2. DOMAIN b \subseteq DOMAIN net /\ b \in [DOMAIN b -> Nat \ {0}]
      BY DEF Types, (-), SetToBag
<1> HIDE DEF b
<1>3. net' = [e \in DOMAIN b \cup msgs |-> (IF e \in DOMAIN b THEN b[e] ELSE 0)
                                            + (IF e \in msgs THEN 1 ELSE 0)]
      BY <1>1 DEF (+), SetToBag, b
<1>4. net' \in [DOMAIN net' -> Nat \ {0}] /\ DOMAIN net' \subseteq DOMAIN net \cup msgs
      BY <1>2, <1>3
<1>5. events' \in [EventKinds -> Nat]
      BY DEF Send, Types
<1>6. QED
      BY <1>4, <1>5 DEF SentAtMost

\* A step at one node, by which no counterpart and no unpaired measure of a user
\* starts but g, and the user's books are kept.
LEMMA StepOK ==
  ASSUME MonRemoteAssumption, IInv, NEW n \in Nodes, NEW t, Become(n, t), NodeOK(t),
         Follows(monl[n], t),
         NEW g, StartsNone(monl[n], t, g), ReportsTo(monl[n].measures[g])' \/ g \notin Handles,
         held' \in [Nodes -> SUBSET Handles], active' \in [Nodes -> SUBSET Handles],
         \A h \in Handles \ held[n] : h \in held'[n] => UserOK(n, h)',
         \A h \in Handles : h \in active[n] \ active'[n] \/ h = g => UserOK(n, h)',
         \A q \in Nodes \ {n} : held'[q] = held[q] /\ active'[q] = active[q],
         NEW msgs \in SUBSET Message, SentAtMost(msgs),
         \A m \in msgs : MessageOK(m)',
         samples' \subseteq Sample, ReportedOfStream', careless' \in BOOLEAN
  PROVE  IInv'
<1> USE DEF IInv
<1>1. /\ monl' \in [Nodes -> NodeState] /\ NodesOK'
      /\ monl'[n] = t /\ \A q \in Nodes \ {n} : monl'[q] = monl[q]
      /\ \A q \in Nodes : \A h : Owns(q, h) => Owns(q, h)'
      /\ \A q \in Nodes : \A h, mid : Made(q, h, mid) => Made(q, h, mid)'
      BY NamesKept
<1>2. /\ net' \in [DOMAIN net' -> Nat \ {0}] /\ DOMAIN net' \subseteq DOMAIN net \cup msgs
      /\ DOMAIN net' \subseteq Message
      /\ events' \in [EventKinds -> Nat]
      BY DEF SentAtMost, Types
<1>3. Types'
      BY <1>1, <1>2 DEF Types
<1>4. MessagesOK'
  <2>1. SUFFICES ASSUME NEW m \in DOMAIN net' PROVE MessageOK(m)'
        BY DEF MessagesOK
  <2>2. CASE m \in DOMAIN net
    <3>1. m \in Message /\ MessageOK(m)
          BY <2>2 DEF Types, MessagesOK
    <3>2. QED
          BY <3>1, <1>1, MessageKept
  <2>3. QED
        BY <2>2, <1>2
<1>5. Counterparts'
  <2>1. SUFFICES ASSUME NEW q \in Nodes, NEW r \in Handles
                 PROVE  ReportsTo(monl[q].measures[r])'
        BY DEF Counterparts
  <2>2. CASE monl'[q].measures[r] = monl[q].measures[r]
    <3>1. ReportsTo(monl[q].measures[r])
          BY DEF Counterparts
    <3>2. monl[q].measures[r] # NoMeasure => monl[q].measures[r].dst \in Nodes
          BY DEF Types, NodeState, Measure
    <3>3. QED
          BY <2>2, <3>1, <3>2, <1>1 DEF ReportsTo
  <2>3. CASE q = n /\ r = g
        BY <2>3, <1>1
  <2>4. CASE q = n /\ r # g /\ t.measures[r] # monl[n].measures[r]
    <3>1. t \in NodeState /\ monl[n] \in NodeState
          BY DEF NodeOK, Types
    <3>2. ~(IsValid(t, r) /\ ~IsPaired(t.measures[r]) /\ t.measures[r].status = "RUNNING")
          BY <2>4 DEF StartsNone
    <3>3. QED
          BY <2>4, <3>1, <3>2, <1>1, ValidMeasure DEF ReportsTo, IsPaired
  <2>5. QED
        BY <2>2, <2>3, <2>4, <1>1
<1>6. UsersOK'
  <2>1. SUFFICES ASSUME NEW q \in Nodes, NEW h \in Handles PROVE UserOK(q, h)'
        BY DEF UsersOK
  <2>2. UserOK(q, h)
        BY DEF UsersOK
  <2>3. CASE q # n
        BY <2>2, <2>3, <1>1 DEF UserOK
  <2>4. CASE q = n /\ (h = g \/ h \in active[n] \ active'[n])
        BY <2>4
  <2>5. CASE q = n /\ h \in held'[n] \ held[n]
        BY <2>5
  <2>6. CASE q = n /\ h # g /\ h \notin active[n] \ active'[n] /\ h \notin held'[n] \ held[n]
    <3>1. h \in held'[n] => /\ h \in Given(t)
                            /\ IsValid(t, h) => ~t.measures[h].remote
          BY <2>2, <2>6 DEF UserOK, Follows
    <3>2. IsValid(t, h) /\ ~IsPaired(t.measures[h]) /\ t.measures[h].status = "RUNNING" =>
            IsValid(monl[n], h) /\ t.measures[h] = monl[n].measures[h]
          BY <2>6 DEF StartsNone
    <3>3. QED
          BY <3>1, <3>2, <2>2, <2>6, <1>1 DEF UserOK
  <2>7. QED
        BY <2>3, <2>4, <2>5, <2>6
<1>7. QED
      BY <1>3, <1>4, <1>5, <1>6, <1>1

-----------------------------------------------------------------------------
(* The user's calls.                                                        *)

\* A step that keeps no sample leaves those there are as they were.
LEMMA SamplesKept ==
  ASSUME IInv, UNCHANGED samples PROVE samples' \subseteq Sample /\ ReportedOfStream'
BY DEF IInv, Types, ReportedOfStream

\* mon.cpp: the new measure is its user's.
LEMMA CreateIInv ==
  ASSUME MonRemoteAssumption, IInv, NEW n \in Nodes, NEW mid \in Plugins,
         monCreateMeasure(n, mid)
  PROVE  IInv'
<1> DEFINE s == monl[n]
           t == Created(s, mid, FALSE, NoHandle)
<1>1. /\ s.next # NoHandle /\ Become(n, t)
      /\ held' = [held EXCEPT ![n] = @ \cup {s.next}]
      /\ UNCHANGED <<active, net, samples, careless, events>>
      BY DEF monCreateMeasure
<1>2. NodeOK(s) /\ s \in NodeState
      BY DEF IInv, NodesOK, NodeOK
<1>3. /\ NodeOK(t) /\ Follows(s, t) /\ \A g : StartsNone(s, t, g)
      /\ Given(t) = Given(s) \cup {s.next} /\ s.next \in Handles
      /\ t.measures[s.next].remote = FALSE /\ t.measures[s.next].status = "STOPPED"
  <2>1. Nodes # {} /\ FALSE \in BOOLEAN /\ NoHandle \in Handles \cup {NoHandle}
        OBVIOUS
  <2>2. NodeOK(s) /\ s.next # NoHandle
        BY <1>1, <1>2
  <2> HIDE DEF s
  <2> DEFINE r == FALSE
             u == Created(s, mid, r, NoHandle)
  <2>3. r \in BOOLEAN /\ r = FALSE
        OBVIOUS
  <2> HIDE DEF r
  <2>4. /\ NodeOK(u) /\ Follows(s, u) /\ \A g : StartsNone(s, u, g)
        /\ Given(u) = Given(s) \cup {s.next} /\ s.next \in Handles
        /\ u.measures[s.next].remote = r /\ u.measures[s.next].status = "STOPPED"
        BY <2>1, <2>2, <2>3, CreatedOK
  <2>5. u = t
        BY DEF r
  <2> HIDE DEF u, t
  <2>6. QED
        BY <2>3, <2>4, <2>5
<1> DEFINE h0 == s.next
<1> HIDE DEF t, h0
<1>4. held' \in [Nodes -> SUBSET Handles] /\ active' \in [Nodes -> SUBSET Handles]
      BY <1>1, <1>3 DEF IInv, Types
<1>5. \A q \in Nodes \ {n} : held'[q] = held[q] /\ active'[q] = active[q]
      BY <1>1 DEF IInv, Types
<1>6. held'[n] = held[n] \cup {h0}
      BY <1>1 DEF IInv, Types, h0
<1>7. ASSUME NEW h \in Handles \ held[n], h \in held'[n] PROVE UserOK(n, h)'
  <2>1. h = h0 /\ h \in Given(t) /\ t.measures[h].remote = FALSE /\ t.measures[h].status = "STOPPED"
        BY <1>3, <1>6, <1>7 DEF h0
  <2>2. monl'[n] = t
        BY <1>1 DEF Become, IInv, Types
  <2>3. QED
        BY <2>1, <2>2 DEF UserOK
<1>8. SentAtMost({}) /\ careless' \in BOOLEAN
      BY <1>1 DEF IInv, Types, SentAtMost
<1>9. NoHandle \notin Handles
      BY <1>2, HandleFacts
<1>10. samples' \subseteq Sample /\ ReportedOfStream'
      BY <1>1, SamplesKept
<1>11. QED
      BY <1>1, <1>3, <1>4, <1>5, <1>7, <1>8, <1>9, <1>10, StepOK

\* measure_dispatcher.cpp: the messages about a measure with a counterpart are well
\* formed.
LEMMA DeinitMessage ==
  ASSUME MonRemoteAssumption, NEW n \in Nodes, NEW s \in NodeState, NEW h \in Handles,
         IsValid(s, h), NEW x \in Deinit(n, s, h)
  PROVE  /\ IsPaired(s.measures[h]) /\ x \in Message
         /\ x.type = "DEINIT" /\ x.src = n /\ x.mh_local = h
         /\ x.dst = s.measures[h].dst /\ x.mh_remote = s.measures[h].mh_remote
<1>1. s.measures[h] \in Measure
      BY ValidMeasure
<1>2. QED
      BY <1>1 DEF Deinit, Message, Measure

\* measure_dispatcher.cpp: what initRemoteMeasureTx sends is about the measure.
LEMMA InitMessage ==
  ASSUME MonRemoteAssumption, NEW n \in Nodes, NEW s \in NodeState, NEW h \in Handles,
         IsValid(s, h), NEW x \in InitRemote(n, s, h)
  PROVE  /\ IsPaired(s.measures[h]) /\ x \in Message
         /\ x.type = "INIT" /\ x.src = n /\ x.mh_local = h /\ x.mid = s.measures[h].mid
         /\ x.dst = s.measures[h].dst /\ x.msg_type = s.measures[h].msg_type
<1>1. s.measures[h] \in Measure
      BY ValidMeasure
<1>2. QED
      BY <1>1 DEF InitRemote, Message, Measure

\* monActivateMeasure: the measure is one of the user's, and does not run unless it has
\* a counterpart.
LEMMA ActivatedFacts ==
  ASSUME MonRemoteAssumption, IInv, NEW n \in Nodes, NEW h \in Handles,
         h \in held[n] \ active[n], IsValid(monl[n], h)
  PROVE  /\ ~monl[n].measures[h].remote
         /\ IsPaired(monl[n].measures[h]) \/ monl[n].measures[h].status # "RUNNING"
<1>1. UserOK(n, h)
      BY DEF IInv, UsersOK
<1>2. QED
      BY <1>1 DEF UserOK

\* monActivateMeasure: a measure whose place is taken is aimed there all the same.
LEMMA RejectedIInv ==
  ASSUME MonRemoteAssumption, IInv, NEW n \in Nodes, NEW h \in Handles,
         h \in held[n] \ active[n], IsValid(monl[n], h), NEW p \in Nodes, NEW y \in MsgTypes,
         ActivateRejected(n, h, Aimed(monl[n], h, p, y)), UNCHANGED <<held, samples>>
  PROVE  IInv'
<1> DEFINE s == monl[n]
           t == Aimed(s, h, p, y)
<1>1. Become(n, t) /\ careless' = TRUE /\ Send({}, {}, {"activate"}) /\ UNCHANGED active
      BY DEF ActivateRejected
<1>2. NodeOK(s) /\ s \in NodeState
      BY DEF IInv, NodesOK, NodeOK
<1>3. NodeOK(t) /\ Follows(s, t) /\ \A g : StartsNone(s, t, g)
      BY <1>2, ActivatedFacts, AimedOK
<1> HIDE DEF t
<1>4. held' \in [Nodes -> SUBSET Handles] /\ active' \in [Nodes -> SUBSET Handles]
      BY <1>1 DEF IInv, Types
<1>5. SentAtMost({})
      BY <1>1, SendOK DEF IInv
<1>6. NoHandle \notin Handles
      BY <1>2, HandleFacts
<1>7. samples' \subseteq Sample /\ ReportedOfStream'
      BY SamplesKept
<1>8. QED
      BY <1>1, <1>3, <1>4, <1>5, <1>6, <1>7, StepOK

\* monActivateMeasure: what the measure looks like on its list.
LEMMA AcceptedFacts ==
  ASSUME MonRemoteAssumption, IInv, NEW n \in Nodes, NEW h \in Handles,
         h \in held[n] \ active[n], IsValid(monl[n], h), NEW p \in Nodes, NEW y \in MsgTypes,
         ~Occupied(Aimed(monl[n], h, p, y), KeyOf(Aimed(monl[n], h, p, y).measures[h]))
  PROVE  LET s == monl[n]
             a == Aimed(s, h, p, y)
             l == Loaded(a, h)
         IN
         /\ NodeOK(l) /\ Follows(s, l) /\ StartsNone(s, l, h)
         /\ IsValid(l, h) /\ h \in Given(l) /\ Listed(l, h)
         /\ l.measures[h] \in Measure
         /\ ~l.measures[h].remote /\ l.measures[h].mid = s.measures[h].mid
         /\ l.measures[h].dst = p /\ l.measures[h].msg_type = y
         /\ l.measures[h].status = IF IsPaired(l.measures[h]) THEN "INITIALISING" ELSE "RUNNING"
         /\ l.lists[KeyOf(l.measures[h])] = h
         /\ IsValid(a, h) /\ a.lists = s.lists
         /\ a.measures[h].status = s.measures[h].status
         /\ KeyOf(a.measures[h]) = KeyOf(l.measures[h])
         /\ IsPaired(a.measures[h]) <=> IsPaired(l.measures[h])
         /\ \A g \in Handles \ {h} : a.measures[g] = s.measures[g]
                                   /\ l.measures[g] = s.measures[g]
         /\ \A k \in Key \ {KeyOf(l.measures[h])} : l.lists[k] = s.lists[k]
<1> DEFINE s == monl[n]
           a == Aimed(s, h, p, y)
           l == Loaded(a, h)
<1>1. NodeOK(s) /\ s \in NodeState
      BY DEF IInv, NodesOK, NodeOK
<1>2. ~s.measures[h].remote /\ (IsPaired(s.measures[h]) \/ s.measures[h].status # "RUNNING")
      BY ActivatedFacts
<1>3. /\ NodeOK(a) /\ Follows(s, a) /\ \A g : StartsNone(s, a, g)
      /\ IsValid(a, h)
      /\ Reaims(s.measures[h], a.measures[h], p, y)
      /\ a.lists = s.lists
      /\ \A g \in Handles \ {h} : a.measures[g] = s.measures[g]
  <2>1. NodeOK(s) /\ IsValid(s, h)
        BY <1>1
  <2> HIDE DEF s
  <2>2. QED
        BY ONLY <1>2, <2>1, AimedOK, MonRemoteAssumption, h \in Handles, p \in Nodes,
                y \in MsgTypes
<1> DEFINE m == s.measures[h]
           b == a.measures[h]
<1>4. m \in Measure
      BY <1>1, ValidMeasure
<1>5. /\ b \in Measure /\ b.mid = m.mid /\ b.remote = m.remote /\ b.status = m.status
      /\ b.dst = p /\ b.msg_type = y
      BY <1>3 DEF Reaims
<1>6. ~Occupied(a, KeyOf(b))
      OBVIOUS
<1>7. IsPaired(b) \/ b.status # "RUNNING"
      BY <1>2, <1>5 DEF IsPaired
<1> HIDE DEF a, s
<1>8. /\ NodeOK(l) /\ Follows(a, l) /\ StartsNone(a, l, h)
      /\ l.lists[KeyOf(b)] = h
      /\ IsValid(l, h)
      /\ Restates(b, l.measures[h], IF IsPaired(b) THEN "INITIALISING" ELSE "RUNNING")
      /\ \A k \in Key \ {KeyOf(b)} : l.lists[k] = a.lists[k]
      /\ \A g \in Handles \ {h} : l.measures[g] = a.measures[g]
      BY ONLY <1>3, <1>6, <1>7, LoadedOK, MonRemoteAssumption, h \in Handles
<1> HIDE DEF l, b
<1>9. /\ l.measures[h] \in Measure /\ KeyOf(l.measures[h]) = KeyOf(b)
      /\ l.measures[h].remote = b.remote /\ l.measures[h].mid = b.mid
      /\ l.measures[h].dst = b.dst /\ l.measures[h].msg_type = b.msg_type
      /\ IsPaired(l.measures[h]) <=> IsPaired(b)
      /\ l.measures[h].status = IF IsPaired(b) THEN "INITIALISING" ELSE "RUNNING"
      BY <1>8 DEF Restates
<1>11. l.lists[KeyOf(b)] = h /\ h # NoHandle
      BY <1>1, <1>8, HandleFacts
<1>12. h \in Given(l)
      BY <1>8 DEF NodeOK
<1>13. Follows(s, l) /\ StartsNone(s, l, h)
      BY <1>3, <1>8, FollowsTransitive, StartsTransitive
<1>14. Listed(l, h) /\ l.lists[KeyOf(l.measures[h])] = h
      BY <1>9, <1>11 DEF Listed
<1>15. /\ NodeOK(l) /\ IsValid(l, h) /\ h \in Given(l) /\ l.measures[h] \in Measure
       BY <1>8, <1>9, <1>12
<1>16. /\ ~l.measures[h].remote /\ l.measures[h].mid = m.mid
       /\ l.measures[h].dst = p /\ l.measures[h].msg_type = y
       /\ l.measures[h].status = IF IsPaired(l.measures[h]) THEN "INITIALISING" ELSE "RUNNING"
       BY <1>2, <1>5, <1>9
<1>17. /\ \A g \in Handles \ {h} : a.measures[g] = s.measures[g]
                                  /\ l.measures[g] = s.measures[g]
       /\ \A k \in Key \ {KeyOf(l.measures[h])} : l.lists[k] = s.lists[k]
       BY <1>3, <1>8, <1>9
<1>18. /\ IsValid(a, h) /\ a.lists = s.lists /\ b.status = m.status
       /\ KeyOf(b) = KeyOf(l.measures[h]) /\ (IsPaired(b) <=> IsPaired(l.measures[h]))
       BY <1>3, <1>5, <1>9
<1>19. QED
       BY <1>13, <1>14, <1>15, <1>16, <1>17, <1>18 DEF l, a, s, b

\* monActivateMeasure: the measure is listed; its counterpart is asked for, or the
\* request fails and the measure is stopped.
LEMMA AcceptedIInv ==
  ASSUME MonRemoteAssumption, IInv, NEW n \in Nodes, NEW h \in Handles,
         h \in held[n] \ active[n], IsValid(monl[n], h), NEW p \in Nodes, NEW y \in MsgTypes,
         ActivateAccepted(n, h, Aimed(monl[n], h, p, y)), UNCHANGED <<held, samples>>
  PROVE  IInv'
<1> DEFINE s == monl[n]
           a == Aimed(s, h, p, y)
           l == Loaded(a, h)
           u == stopMeasure(l, h)
<1>1. NodeOK(s) /\ s \in NodeState
      BY DEF IInv, NodesOK, NodeOK
<1>2. ~Occupied(a, KeyOf(a.measures[h])) /\ careless' \in BOOLEAN
      BY DEF ActivateAccepted, IInv, Types, Careless
<1>3. /\ NodeOK(l) /\ Follows(s, l) /\ StartsNone(s, l, h)
      /\ IsValid(l, h) /\ h \in Given(l) /\ Listed(l, h)
      /\ l.measures[h] \in Measure
      /\ ~l.measures[h].remote /\ l.measures[h].mid = s.measures[h].mid
  <2> HIDE DEF s
  <2>1. QED
        BY <1>2, AcceptedFacts DEF s
<1>4. l \in NodeState
      BY <1>3 DEF NodeOK
<1>5. samples' \subseteq Sample /\ ReportedOfStream'
      BY SamplesKept
<1>6. held' = held
      OBVIOUS
<1>7. \/ /\ Become(n, l) /\ Send({}, InitRemote(n, l, h), {"activate"})
         /\ active' = [active EXCEPT ![n] = @ \cup {h}]
      \/ /\ IsPaired(l.measures[h]) /\ Become(n, u)
         /\ Send({}, Deinit(n, l, h), {"activate"}) /\ UNCHANGED active
      BY DEF ActivateAccepted
<1> HIDE DEF l
<1>8. CASE /\ Become(n, l) /\ Send({}, InitRemote(n, l, h), {"activate"})
           /\ active' = [active EXCEPT ![n] = @ \cup {h}]
  <2>1. /\ held' \in [Nodes -> SUBSET Handles] /\ active' \in [Nodes -> SUBSET Handles]
        /\ active[n] \subseteq active'[n] /\ h \in active'[n]
        /\ \A q \in Nodes \ {n} : held'[q] = held[q] /\ active'[q] = active[q]
        BY <1>6, <1>8 DEF IInv, Types
  <2>2. monl'[n] = l
        BY <1>8 DEF Become, IInv, Types
  <2>3. UserOK(n, h)'
        BY <1>3, <2>1, <2>2 DEF UserOK
  <2>4. ReportsTo(monl[n].measures[h])'
        BY <1>3, <2>2 DEF ReportsTo
  <2> DEFINE msgs == InitRemote(n, l, h)
  <2>5. msgs \subseteq Message /\ SentAtMost(msgs)
        BY <1>3, <1>4, <1>8, InitMessage, SendOK DEF IInv
  <2>6. ASSUME NEW x \in msgs PROVE MessageOK(x)'
    <3>1. /\ IsPaired(l.measures[h]) /\ x.type = "INIT" /\ x.src = n /\ x.mh_local = h
          /\ x.mid = l.measures[h].mid
          BY <1>3, <1>4, InitMessage
    <3>2. QED
          BY <1>3, <2>2, <3>1 DEF MessageOK, Owns, Made
  <2> HIDE DEF msgs
  <2>7. QED
        BY <1>2, <1>3, <1>5, <1>6, <1>8, <2>1, <2>3, <2>4, <2>5, <2>6, StepOK
<1>9. CASE /\ IsPaired(l.measures[h]) /\ Become(n, u)
           /\ Send({}, Deinit(n, l, h), {"activate"}) /\ UNCHANGED active
  <2>1. /\ NodeOK(u) /\ Follows(l, u) /\ StartsNone(l, u, h)
        /\ u.measures = [l.measures EXCEPT ![h].status = "STOPPING"]
        BY <1>3, <1>9, StopOK
  <2>2. /\ u.measures[h].status = "STOPPING" /\ ~u.measures[h].remote
        /\ IsPaired(u.measures[h])
        BY <1>3, <1>4, <1>9, <2>1 DEF NodeState, Measure, IsPaired
  <2> HIDE DEF u
  <2>3. Follows(s, u) /\ StartsNone(s, u, h)
        BY <1>3, <2>1, FollowsTransitive, StartsTransitive
  <2>4. monl'[n] = u
        BY <1>9 DEF Become, IInv, Types
  <2>5. /\ held' \in [Nodes -> SUBSET Handles] /\ active' \in [Nodes -> SUBSET Handles]
        BY <1>6, <1>9 DEF IInv, Types
  <2>6. h \in Given(u)
        BY <1>3, <2>1 DEF Follows
  <2>7. UserOK(n, h)'
        BY <2>2, <2>4, <2>6 DEF UserOK
  <2>8. ReportsTo(monl[n].measures[h])'
        BY <2>2, <2>4 DEF ReportsTo
  <2> DEFINE msgs == Deinit(n, l, h)
  <2>9. msgs \subseteq Message /\ SentAtMost(msgs)
        BY <1>3, <1>4, <1>9, DeinitMessage, SendOK DEF IInv
  <2>10. ASSUME NEW x \in msgs PROVE MessageOK(x)'
    <3>1. x.type = "DEINIT" /\ x.src = n /\ x.mh_local = h
          BY <1>3, <1>4, DeinitMessage
    <3>2. QED
          BY <2>2, <2>4, <2>6, <3>1 DEF MessageOK, Owns
  <2> HIDE DEF msgs
  <2>11. QED
        BY <1>2, <1>5, <1>6, <1>9, <2>1, <2>3, <2>5, <2>7, <2>8, <2>9, <2>10, StepOK
<1>10. QED
      BY <1>7, <1>8, <1>9

\* measure_dispatcher.cpp: both outcomes of monActivateMeasure keep the invariant.
LEMMA ActivateIInv ==
  ASSUME MonRemoteAssumption, IInv, NEW n \in Nodes, NEW h \in Handles,
         NEW p \in Nodes, NEW y \in MsgTypes, monActivateMeasure(n, h, p, y)
  PROVE  IInv'
BY RejectedIInv, AcceptedIInv DEF monActivateMeasure

\* measure_dispatcher.cpp: what stopMeasure sends is about a measure with a counterpart.
LEMMA DeinitOK ==
  ASSUME MonRemoteAssumption, IInv, NEW n \in Nodes, NEW h \in Handles, IsValid(monl[n], h),
         NEW t, Become(n, t), Follows(monl[n], t),
         NEW x, x \in Deinit(n, monl[n], h)
  PROVE  x \in Message /\ MessageOK(x)'
<1>1. monl[n] \in NodeState /\ h \in Given(monl[n]) /\ monl'[n] = t
      BY DEF IInv, Types, NodesOK, NodeOK, Become
<1>2. /\ IsPaired(monl[n].measures[h]) /\ x \in Message
      /\ x.type = "DEINIT" /\ x.src = n /\ x.mh_local = h
      BY <1>1, DeinitMessage
<1>3. Owns(n, h)'
      BY <1>1, <1>2 DEF Owns, Follows, IsPaired
<1>4. QED
      BY <1>2, <1>3 DEF MessageOK

\* mon.cpp: a call about a handle that is no longer valid changes the user's books.
LEMMA RefusedIInv ==
  ASSUME MonRemoteAssumption, IInv, NEW n \in Nodes,
         UNCHANGED <<monl, net, events, careless, samples>>,
         held' \in [Nodes -> SUBSET Handles], active' \in [Nodes -> SUBSET Handles],
         held'[n] \subseteq held[n],
         \A h \in active[n] \ active'[n] : ~IsValid(monl[n], h),
         \A q \in Nodes \ {n} : held'[q] = held[q] /\ active'[q] = active[q]
  PROVE  IInv'
<1>1. Types'
      BY DEF IInv, Types
<1>2. NodesOK' /\ MessagesOK' /\ Counterparts' /\ ReportedOfStream'
  <2>1. /\ \A q \in Nodes : \A h : Owns(q, h) => Owns(q, h)'
        /\ \A q \in Nodes : \A h, mid : Made(q, h, mid) => Made(q, h, mid)'
        BY DEF Owns, Made
  <2>2. MessagesOK'
        BY <2>1, MessageKept DEF IInv, Types, MessagesOK
  <2>3. Counterparts'
        BY DEF IInv, Counterparts, ReportsTo, Made
  <2>4. NodesOK' /\ ReportedOfStream'
        BY DEF IInv, NodesOK, ReportedOfStream
  <2>5. QED
        BY <2>2, <2>3, <2>4
<1>3. UsersOK'
      BY DEF IInv, UsersOK, UserOK
<1>4. QED
      BY <1>1, <1>2, <1>3 DEF IInv

\* A call by which a measure of the user's is stopped, or stopped and destroyed.
LEMMA StoppedIInv ==
  ASSUME MonRemoteAssumption, IInv, NEW n \in Nodes, NEW h \in Handles, IsValid(monl[n], h),
         NEW t, Become(n, t), t = deactivateMeasure(monl[n], h) \/ t = monDestroyMeasure(monl[n], h),
         Send({}, IF Stops(monl[n], h) THEN Deinit(n, monl[n], h) ELSE {}, {}),
         held' \in [Nodes -> SUBSET Handles], active' \in [Nodes -> SUBSET Handles],
         held'[n] \subseteq held[n], active[n] \ active'[n] \subseteq {h},
         \A q \in Nodes \ {n} : held'[q] = held[q] /\ active'[q] = active[q],
         careless' \in BOOLEAN, UNCHANGED samples
  PROVE  IInv'
<1> DEFINE s == monl[n]
           msgs == IF Stops(s, h) THEN Deinit(n, s, h) ELSE {}
<1>1. NodeOK(s) /\ IsValid(s, h) /\ (t = deactivateMeasure(s, h) \/ t = monDestroyMeasure(s, h))
      BY DEF IInv, NodesOK
<1>2. /\ NodeOK(t) /\ Follows(s, t) /\ \A g : StartsNone(s, t, g)
      /\ IsValid(t, h) => IsPaired(t.measures[h]) \/ t.measures[h].status # "RUNNING"
  <2> HIDE DEF s
  <2>1. CASE t = deactivateMeasure(s, h)
        BY <1>1, <2>1, DeactivateOK
  <2>2. CASE t = monDestroyMeasure(s, h)
        BY <1>1, <2>2, DestroyOK
  <2>3. QED
        BY <1>1, <2>1, <2>2
<1>3. monl'[n] = t
      BY DEF Become, IInv, Types
<1>4. \A x \in msgs : x \in Message /\ MessageOK(x)'
      BY <1>2, DeinitOK
<1>5. UserOK(n, h)'
  <2>1. UserOK(n, h)
        BY DEF IInv, UsersOK
  <2>2. QED
        BY <1>2, <1>3, <2>1 DEF UserOK, Follows
<1>6. SentAtMost(msgs)
      BY SendOK DEF IInv
<1>7. samples' \subseteq Sample /\ ReportedOfStream'
      BY SamplesKept
<1>8. NoHandle \notin Handles
      BY <1>1, HandleFacts DEF NodeOK
<1> HIDE DEF msgs
<1>9. \A g \in Handles : g \in active[n] \ active'[n] \/ g = NoHandle => UserOK(n, g)'
      BY <1>5, <1>8
<1>10. msgs \in SUBSET Message /\ \A x \in msgs : MessageOK(x)'
      BY <1>4
<1>11. QED
      BY <1>2, <1>6, <1>7, <1>8, <1>9, <1>10, StepOK

\* mon.cpp: monDeactivateMeasure.
LEMMA DeactivateIInv ==
  ASSUME MonRemoteAssumption, IInv, NEW n \in Nodes, NEW h \in Handles,
         monDeactivateMeasure(n, h)
  PROVE  IInv'
<1>1. /\ held' = held /\ active' = [active EXCEPT ![n] = @ \ {h}] /\ UNCHANGED samples
      BY DEF monDeactivateMeasure
<1>2. /\ held' \in [Nodes -> SUBSET Handles] /\ active' \in [Nodes -> SUBSET Handles]
      /\ held'[n] \subseteq held[n] /\ active[n] \ active'[n] \subseteq {h}
      /\ \A q \in Nodes \ {n} : held'[q] = held[q] /\ active'[q] = active[q]
      BY <1>1 DEF IInv, Types
<1>3. CASE IsValid(monl[n], h)
  <2>1. /\ Become(n, deactivateMeasure(monl[n], h))
        /\ Send({}, IF Stops(monl[n], h) THEN Deinit(n, monl[n], h) ELSE {}, {})
        /\ careless' \in BOOLEAN
        BY <1>3 DEF monDeactivateMeasure, IInv, Types, Careless
  <2>2. QED
        BY <1>1, <1>2, <1>3, <2>1, StoppedIInv
<1>4. CASE ~IsValid(monl[n], h)
  <2>1. UNCHANGED <<monl, net, events, careless, samples>>
        BY <1>4 DEF monDeactivateMeasure
  <2>2. QED
        BY <1>2, <1>4, <2>1, RefusedIInv
<1>5. QED
      BY <1>3, <1>4

\* mon.cpp: monDestroyMeasure, called by the user.
LEMMA DestroyIInv ==
  ASSUME MonRemoteAssumption, IInv, NEW n \in Nodes, NEW h \in Handles,
         monDestroyMeasureCall(n, h)
  PROVE  IInv'
<1>1. /\ held' = [held EXCEPT ![n] = @ \ {h}] /\ active' = [active EXCEPT ![n] = @ \ {h}]
      /\ UNCHANGED samples
      BY DEF monDestroyMeasureCall
<1>2. /\ held' \in [Nodes -> SUBSET Handles] /\ active' \in [Nodes -> SUBSET Handles]
      /\ held'[n] \subseteq held[n] /\ active[n] \ active'[n] \subseteq {h}
      /\ \A q \in Nodes \ {n} : held'[q] = held[q] /\ active'[q] = active[q]
      BY <1>1 DEF IInv, Types
<1>3. CASE IsValid(monl[n], h)
  <2>1. /\ Become(n, monDestroyMeasure(monl[n], h))
        /\ Send({}, IF Stops(monl[n], h) THEN Deinit(n, monl[n], h) ELSE {}, {})
        /\ careless' \in BOOLEAN
        BY <1>3 DEF monDestroyMeasureCall, IInv, Types, Careless
  <2>2. QED
        BY <1>1, <1>2, <1>3, <2>1, StoppedIInv
<1>4. CASE ~IsValid(monl[n], h)
  <2>1. UNCHANGED <<monl, net, events, careless, samples>>
        BY <1>4 DEF monDestroyMeasureCall
  <2>2. QED
        BY <1>2, <1>4, <2>1, RefusedIInv
<1>5. QED
      BY <1>3, <1>4

-----------------------------------------------------------------------------
(* Messages.                                                                *)

\* A message arrives at node n, which becomes t and answers with msgs; the users' books
\* stay as they are.
LEMMA ReceivedIInv ==
  ASSUME MonRemoteAssumption, IInv, NEW n \in Nodes, NEW t, Become(n, t), NodeOK(t),
         Follows(monl[n], t), NEW g, StartsNone(monl[n], t, g),
         ReportsTo(monl[n].measures[g])' \/ g \notin Handles,
         g \in Handles => UserOK(n, g)',
         NEW read, NEW msgs, NEW K, Send(read, msgs, K),
         \A x \in msgs : x \in Message /\ MessageOK(x)',
         UNCHANGED <<held, active, samples>>, careless' \in BOOLEAN
  PROVE  IInv'
<1>1. /\ held' \in [Nodes -> SUBSET Handles] /\ active' \in [Nodes -> SUBSET Handles]
      /\ careless' \in BOOLEAN
      BY DEF IInv, Types
<1>2. SentAtMost(msgs) /\ msgs \in SUBSET Message
      BY SendOK DEF IInv
<1>3. samples' \subseteq Sample /\ ReportedOfStream'
      BY SamplesKept
<1>4. \A h \in Handles : h \in active[n] \ active'[n] \/ h = g => UserOK(n, h)'
      OBVIOUS
<1>5. QED
      BY <1>1, <1>2, <1>3, <1>4, StepOK

\* measure_dispatcher.cpp: initRemoteMeasureRx finds nothing on the list of the stream
\* once the previous counterpart is gone.
LEMMA DisplacedOK ==
  ASSUME MonRemoteAssumption, NEW s, NodeOK(s), NEW key \in Key, key.remote
  PROVE  LET t == Displaced(s, s.lists[key]) IN
         /\ NodeOK(t) /\ Follows(s, t) /\ \A g : StartsNone(s, t, g)
         /\ t.next = s.next /\ ~Occupied(t, key)
<1> DEFINE prev == s.lists[key]
           t == Displaced(s, prev)
<1>1. s \in NodeState /\ prev \in Handles \cup {NoHandle} /\ OneSided(key)
      BY DEF NodeOK, NodeState, OneSided
<1>2. CASE prev = NoHandle
  <2>1. t = s
        BY <1>2 DEF Displaced
  <2>2. Follows(s, s) /\ \A g : StartsNone(s, s, g)
        BY DEF Follows, StartsNone
  <2>3. QED
        BY <1>2, <2>1, <2>2 DEF Occupied
<1>3. CASE prev # NoHandle
  <2>1. prev \in Handles /\ OnList(s, prev, key)
        BY <1>1, <1>3 DEF NodeOK
  <2>2. IsValid(s, prev)
        BY <2>1 DEF OnList
  <2>3. t = monDestroyMeasure(s, prev)
        BY <1>3 DEF Displaced
  <2> HIDE DEF prev, t
  <2>4. /\ NodeOK(t) /\ Follows(s, t) /\ \A g : StartsNone(s, t, g)
        /\ ~IsValid(t, prev) /\ t.next = s.next
        BY <2>1, <2>2, <2>3, DestroyOK
  <2>5. ~Occupied(t, key)
    <3>1. SUFFICES ASSUME NEW h \in Handles, t.lists[key] = h PROVE FALSE
          BY <2>4 DEF Occupied, NodeOK, NodeState
    <3>2. OnList(t, h, key)
          BY <1>1, <2>4, <3>1 DEF NodeOK
    <3>3. t.measures[h] \in Measure /\ t.measures[h].remote
          BY <2>4, <3>2, ValidMeasure, MeasureFacts DEF OnList, NodeOK
    <3>4. h # prev /\ StartsNone(s, t, prev)
          BY <2>4, <3>2 DEF OnList
    <3>5. IsValid(s, h) /\ t.measures[h] = s.measures[h]
          BY <3>2, <3>3, <3>4 DEF OnList, StartsNone, IsPaired
    <3>6. OnList(s, h, key)
          BY <3>2, <3>5 DEF OnList
    <3>7. s.lists[key] = h
          BY <1>1, <3>6 DEF NodeOK
    <3>8. QED
          BY <3>4, <3>7 DEF prev
  <2>6. QED
        BY <2>4, <2>5 DEF prev, t
<1>4. QED
      BY <1>2, <1>3

\* The answer to a set-up or to its end.
LEMMA ResponseOK ==
  ASSUME NEW n \in Nodes, NEW q \in Nodes, NEW command \in {"INIT", "DEINIT"},
         NEW h \in Handles, NEW mh \in Handles \cup {NoHandle}, NEW ok \in BOOLEAN,
         Owns(q, h)',
         NEW x, x = Response(n, q, command, h, mh, ok)
  PROVE  x \in Message /\ MessageOK(x)'
<1>1. /\ x \in Message /\ x.type = "RESPONSE" /\ x.dst = q /\ x.mh_remote = h
      BY DEF Response, Message
<1>2. QED
      BY <1>1 DEF MessageOK

\* The measure of a counterpart, and the place of one in the lists.
NewCounterpart(s, mid, mh) == Created(s, mid, TRUE, mh)
CounterpartKey(p, y, mid) == [dst |-> p, msg_type |-> y, mid |-> mid, remote |-> TRUE]

\* initRemoteMeasureRx: the new counterpart on the list of its stream.
LEMMA CounterpartOK ==
  ASSUME MonRemoteAssumption, NEW s, NodeOK(s), s.next # NoHandle,
         NEW mid \in Plugins, NEW mh \in Handles, NEW p \in Nodes, NEW y \in MsgTypes,
         ~Occupied(s, CounterpartKey(p, y, mid)), NEW c, c = NewCounterpart(s, mid, mh),
         NEW l, l = Loaded(Aimed(c, s.next, p, y), s.next)
  PROVE  /\ NodeOK(c) /\ Follows(s, c) /\ \A g : StartsNone(s, c, g)
         /\ s.next \in Handles
         /\ NodeOK(l) /\ Follows(s, l) /\ StartsNone(s, l, s.next)
         /\ IsValid(l, s.next)
         /\ l.measures[s.next].remote /\ l.measures[s.next].mid = mid
         /\ l.measures[s.next].mh_remote = mh /\ l.measures[s.next].dst = p
         /\ c.measures[s.next].remote
         /\ \A g \in Handles \ {s.next} : c.measures[g] = s.measures[g]
                                       /\ l.measures[g] = s.measures[g]
         /\ c.lists = s.lists
         /\ \A k \in Key : ~OneSided(k) => l.lists[k] = s.lists[k]
<1> DEFINE r == s.next
           a == Aimed(c, r, p, y)
<1>1. /\ NodeOK(c) /\ Follows(s, c) /\ \A g : StartsNone(s, c, g)
      /\ r \in Handles /\ c.lists = s.lists
      /\ IsValid(c, r) /\ c.measures[r] \in Measure
      /\ c.measures[r].mid = mid /\ c.measures[r].remote
      /\ c.measures[r].mh_remote = mh /\ c.measures[r].status = "STOPPED"
      /\ \A g \in Handles \ {r} : c.measures[g] = s.measures[g]
  <2> DEFINE b == TRUE
  <2>1. b \in BOOLEAN /\ mh \in Handles \cup {NoHandle} /\ Nodes # {}
        OBVIOUS
  <2>5. b = TRUE
        OBVIOUS
  <2> HIDE DEF b
  <2>2. c = Created(s, mid, b, mh)
        BY DEF NewCounterpart, b
  <2> DEFINE u == Created(s, mid, b, mh)
  <2>3. /\ NodeOK(u) /\ Follows(s, u) /\ \A g : StartsNone(s, u, g)
        /\ s.next \in Handles /\ u.lists = s.lists
        /\ IsValid(u, s.next) /\ u.measures[s.next] \in Measure
        /\ u.measures[s.next].mid = mid /\ u.measures[s.next].remote = b
        /\ u.measures[s.next].mh_remote = mh /\ u.measures[s.next].status = "STOPPED"
        /\ \A g \in Handles \ {s.next} : u.measures[g] = s.measures[g]
        BY ONLY <2>1, CreatedOK, MonRemoteAssumption, NodeOK(s), s.next # NoHandle,
                mid \in Plugins
  <2> HIDE DEF u
  <2>4. u = c
        BY <2>2 DEF u
  <2>6. QED
        BY <2>5, <2>3, <2>4
<1>2. ~IsPaired(c.measures[r]) /\ c.measures[r].status # "RUNNING"
      BY <1>1 DEF IsPaired
<1> HIDE DEF r
<1>3. /\ NodeOK(a) /\ Follows(c, a) /\ \A g : StartsNone(c, a, g)
      /\ a.lists = c.lists /\ IsValid(a, r)
      /\ Reaims(c.measures[r], a.measures[r], p, y)
      /\ \A g \in Handles \ {r} : a.measures[g] = c.measures[g]
      BY <1>1, <1>2, AimedOK
<1> DEFINE u == Loaded(a, r)
<1>12. u = l
       BY DEF r
<1> HIDE DEF a
<1>4. /\ a.measures[r] \in Measure /\ a.measures[r].remote /\ a.measures[r].mid = mid
      /\ a.measures[r].dst = p /\ a.measures[r].msg_type = y
      /\ a.measures[r].status = "STOPPED"
      /\ a.measures[r].mh_remote = mh
      BY <1>1, <1>3 DEF Reaims
<1>5. KeyOf(a.measures[r]) = CounterpartKey(p, y, mid) /\ ~IsPaired(a.measures[r])
  <2>1. a.measures[r].remote = TRUE
        BY <1>4 DEF Measure
  <2>2. QED
        BY <1>4, <2>1 DEF KeyOf, IsPaired, CounterpartKey
<1>6. ~Occupied(a, KeyOf(a.measures[r]))
      BY <1>1, <1>3, <1>5 DEF Occupied
<1>7. /\ NodeOK(u) /\ Follows(a, u) /\ StartsNone(a, u, r)
      /\ IsValid(u, r)
      /\ Restates(a.measures[r], u.measures[r],
                  IF IsPaired(a.measures[r]) THEN "INITIALISING" ELSE "RUNNING")
      /\ \A k \in Key \ {KeyOf(a.measures[r])} : u.lists[k] = a.lists[k]
      /\ \A g \in Handles \ {r} : u.measures[g] = a.measures[g]
      BY <1>1, <1>3, <1>4, <1>6, LoadedOK
<1>13. \A k \in Key : ~OneSided(k) => u.lists[k] = s.lists[k]
       BY <1>1, <1>3, <1>5, <1>7 DEF OneSided, CounterpartKey
<1>14. \A g \in Handles \ {r} : u.measures[g] = s.measures[g]
       BY <1>1, <1>3, <1>7
<1>8. u.measures[r].mh_remote = a.measures[r].mh_remote
  <2>1. a \in NodeState
        BY <1>3 DEF NodeOK
  <2>2. QED
        BY <1>1, <1>4, <2>1 DEF Loaded, NodeState, Measure
<1>9. /\ u.measures[r].remote /\ u.measures[r].mid = mid
      /\ u.measures[r].mh_remote = mh /\ u.measures[r].dst = p
      BY <1>4, <1>7, <1>8 DEF Restates
<1> HIDE DEF u
<1>10. Follows(s, u) /\ StartsNone(s, u, r)
      BY <1>1, <1>3, <1>7, FollowsTransitive, StartsTransitive
<1>11. QED
      BY <1>1, <1>7, <1>9, <1>10, <1>12, <1>13, <1>14 DEF r

\* A message that arrives is a message.
LEMMA ArrivedFacts ==
  ASSUME IInv, NEW m, BagIn(m, net)
  PROVE  m \in Message /\ MessageOK(m) /\ m.dst \in Nodes /\ m.src \in Nodes
<1>1. m \in Message /\ MessageOK(m)
      BY DEF BagIn, BagToSet, IInv, Types, MessagesOK
<1>2. QED
      BY <1>1 DEF Message

\* initRemoteMeasureRx: node m.dst becomes t and answers; only the new counterpart g,
\* which is to report to the measure named in the request, starts.
LEMMA InitAnswerIInv ==
  ASSUME MonRemoteAssumption, IInv, NEW m \in Message, MessageOK(m), m.type = "INIT",
         NEW n \in Nodes, n = m.dst, NEW q \in Nodes, q = m.src,
         NEW t, Become(n, t), NodeOK(t), Follows(monl[n], t),
         NEW g \in Handles \cup {NoHandle}, StartsNone(monl[n], t, g),
         g \in Handles => /\ g \notin Given(monl[n])
                          /\ IsValid(t, g) /\ t.measures[g].remote
                          /\ t.measures[g].mid = m.mid
                          /\ t.measures[g].mh_remote = m.mh_local /\ t.measures[g].dst = q,
         NEW mh \in Handles \cup {NoHandle}, NEW ok \in BOOLEAN, NEW K,
         Send({m}, {Response(n, q, "INIT", m.mh_local, mh, ok)}, K),
         UNCHANGED <<held, active, samples>>, careless' \in BOOLEAN
  PROVE  IInv'
<1> DEFINE h == m.mh_local
<1>1. h \in Handles /\ Owns(q, h) /\ Made(q, h, m.mid)
      BY DEF Message, MessageOK
<1>2. Owns(q, h)' /\ Made(q, h, m.mid)' /\ monl'[n] = t
      BY <1>1, NamesKept DEF IInv
<1>3. g \in Handles => ReportsTo(monl[n].measures[g])'
      BY <1>2 DEF ReportsTo
<1>4. g \in Handles => UserOK(n, g)'
  <2>1. g \in Handles => g \notin held[n]
        BY DEF IInv, UsersOK, UserOK
  <2>2. QED
        BY <1>2, <2>1 DEF UserOK
<1> DEFINE msgs == {Response(n, q, "INIT", h, mh, ok)}
<1>5. \A x \in msgs : x \in Message /\ MessageOK(x)'
      BY <1>1, <1>2, ResponseOK
<1>6. Send({m}, msgs, K)
      OBVIOUS
<1>7. NoHandle \notin Handles
      BY HandleFacts DEF NodeOK
<1> HIDE DEF msgs
<1>8. ReportsTo(monl[n].measures[g])' \/ g \notin Handles
      BY <1>3
<1>9. QED
      BY <1>4, <1>5, <1>6, <1>8, ReceivedIInv

\* measure_dispatcher.cpp: initRemoteMeasureRx.
LEMMA InitRxIInv ==
  ASSUME MonRemoteAssumption, IInv, NEW m, BagIn(m, net), initRemoteMeasureRx(m),
         UNCHANGED <<held, active>>, careless' \in BOOLEAN
  PROVE  IInv'
<1> DEFINE n == m.dst
           q == m.src
           key == [dst |-> m.src, msg_type |-> m.msg_type, mid |-> m.mid, remote |-> TRUE]
           s == Displaced(monl[n], monl[n].lists[key])
           c == Created(s, m.mid, TRUE, m.mh_local)
           r == s.next
           l == Loaded(Aimed(c, r, m.src, m.msg_type), r)
<1>1. m \in Message /\ MessageOK(m) /\ n \in Nodes /\ q \in Nodes /\ m.type = "INIT"
      BY ArrivedFacts DEF initRemoteMeasureRx
<1>2. m.mid \in Plugins /\ m.msg_type \in MsgTypes /\ m.mh_local \in Handles
      BY <1>1 DEF Message
<1>3. s.next # NoHandle /\ UNCHANGED samples
      BY DEF initRemoteMeasureRx
<1>4. \/ /\ Become(n, l)
         /\ Send({m}, {Response(n, q, "INIT", m.mh_local, r, TRUE)}, {})
      \/ /\ Become(n, s)
         /\ Send({m}, {Response(n, q, "INIT", m.mh_local, NoHandle, FALSE)}, {"other"})
      \/ /\ Become(n, c)
         /\ Send({m}, {Response(n, q, "INIT", m.mh_local, r, FALSE)}, {"other"})
      BY DEF initRemoteMeasureRx
<1>5. NodeOK(monl[n]) /\ monl[n] \in NodeState
      BY <1>1 DEF IInv, NodesOK, NodeOK
<1>6. key \in Key /\ key.remote
      BY <1>1, <1>2 DEF Key
<1>7. /\ NodeOK(s) /\ Follows(monl[n], s) /\ \A g : StartsNone(monl[n], s, g)
      /\ s.next = monl[n].next /\ ~Occupied(s, key)
      BY <1>5, <1>6, DisplacedOK
<1>8. /\ c = NewCounterpart(s, m.mid, m.mh_local)
      /\ l = Loaded(Aimed(c, s.next, q, m.msg_type), s.next)
      /\ key = CounterpartKey(q, m.msg_type, m.mid)
      BY DEF NewCounterpart, CounterpartKey
<1> HIDE DEF s, c, key, l
<1>9. /\ NodeOK(c) /\ Follows(s, c) /\ \A g : StartsNone(s, c, g)
      /\ r \in Handles
      /\ NodeOK(l) /\ Follows(s, l) /\ StartsNone(s, l, r)
      /\ IsValid(l, r)
      /\ l.measures[r].remote /\ l.measures[r].mid = m.mid
      /\ l.measures[r].mh_remote = m.mh_local /\ l.measures[r].dst = q
      BY ONLY <1>1, <1>2, <1>3, <1>7, <1>8, CounterpartOK, MonRemoteAssumption
<1>10. NoHandle \notin Handles /\ r \notin Given(monl[n])
      BY <1>5, <1>7, HandleFacts
<1> HIDE DEF l, r
<1>11. CASE /\ Become(n, l)
            /\ Send({m}, {Response(n, q, "INIT", m.mh_local, r, TRUE)}, {})
  <2>1. NodeOK(l) /\ Follows(monl[n], l) /\ StartsNone(monl[n], l, r)
        BY <1>7, <1>9, FollowsTransitive, StartsTransitive
  <2>2. QED
        BY <1>1, <1>3, <1>9, <1>10, <1>11, <2>1, InitAnswerIInv
<1>12. CASE /\ Become(n, s)
            /\ Send({m}, {Response(n, q, "INIT", m.mh_local, NoHandle, FALSE)}, {"other"})
      BY <1>1, <1>3, <1>7, <1>10, <1>12, InitAnswerIInv
<1>13. CASE /\ Become(n, c)
            /\ Send({m}, {Response(n, q, "INIT", m.mh_local, r, FALSE)}, {"other"})
  <2>1. NodeOK(c) /\ Follows(monl[n], c) /\ StartsNone(monl[n], c, NoHandle)
        BY <1>7, <1>9, FollowsTransitive, StartsTransitive
  <2>2. QED
        BY <1>1, <1>3, <1>9, <1>10, <1>13, <2>1, InitAnswerIInv
<1>14. QED
      BY <1>4, <1>11, <1>12, <1>13

\* measure_dispatcher.cpp: deinitRemoteMeasureRx.
LEMMA DeinitRxIInv ==
  ASSUME MonRemoteAssumption, IInv, NEW m, BagIn(m, net), deinitRemoteMeasureRx(m),
         UNCHANGED <<held, active>>, careless' \in BOOLEAN
  PROVE  IInv'
<1> DEFINE n == m.dst
           q == m.src
           s == monl[n]
           h == m.mh_remote
           Answer(ok) == {Response(n, q, "DEINIT", m.mh_local, h, ok)}
                         \cup (IF Stops(s, h) THEN Deinit(n, s, h) ELSE {})
<1>1. m \in Message /\ MessageOK(m) /\ n \in Nodes /\ q \in Nodes /\ m.type = "DEINIT"
      BY ArrivedFacts DEF deinitRemoteMeasureRx
<1>2. m.mh_local \in Handles /\ h \in Handles \cup {NoHandle} /\ Owns(q, m.mh_local)
      BY <1>1 DEF Message, MessageOK
<1>3. UNCHANGED samples
      BY DEF deinitRemoteMeasureRx
<1>4. NodeOK(s) /\ s \in NodeState
      BY <1>1 DEF IInv, NodesOK, NodeOK
<1>5. NoHandle \notin Handles
      BY <1>4, HandleFacts
<1>6. \/ Become(n, s) /\ Send({m}, {}, {})
      \/ /\ IsValid(s, h) /\ Become(n, monDestroyMeasure(s, h))
         /\ Send({m}, Answer(TRUE), {})
      \/ /\ IsValid(s, h) /\ Become(n, deactivateMeasure(s, h))
         /\ Send({m}, Answer(FALSE), {})
      BY DEF deinitRemoteMeasureRx
<1>7. ASSUME IsValid(s, h), NEW t, Become(n, t),
             t = monDestroyMeasure(s, h) \/ t = deactivateMeasure(s, h),
             NEW ok \in BOOLEAN, Send({m}, Answer(ok), {})
      PROVE  IInv'
  <2>1. h \in Handles
        BY <1>2, <1>7 DEF IsValid
  <2>2. NodeOK(t) /\ Follows(s, t) /\ StartsNone(s, t, NoHandle)
    <3> HIDE DEF s, h
    <3>1. CASE t = monDestroyMeasure(s, h)
          BY <1>4, <1>7, <2>1, <3>1, DestroyOK
    <3>2. CASE t = deactivateMeasure(s, h)
          BY <1>4, <1>7, <2>1, <3>2, DeactivateOK
    <3>3. QED
          BY <1>7, <3>1, <3>2
  <2>3. Owns(q, m.mh_local)'
        BY <1>1, <1>2, <1>7, <2>2, NamesKept DEF IInv
  <2>4. \A x \in {Response(n, q, "DEINIT", m.mh_local, h, ok)} : x \in Message /\ MessageOK(x)'
        BY <1>1, <1>2, <2>3, ResponseOK
  <2>5. \A x \in Deinit(n, s, h) : x \in Message /\ MessageOK(x)'
        BY <1>1, <1>7, <2>1, <2>2, DeinitOK
  <2>6. \A x \in Answer(ok) : x \in Message /\ MessageOK(x)'
        BY <2>4, <2>5
  <2> HIDE DEF Answer
  <2>7. QED
        BY <1>1, <1>3, <1>5, <1>7, <2>2, <2>6, ReceivedIInv
<1>8. CASE Become(n, s) /\ Send({m}, {}, {})
  <2>1. Follows(s, s) /\ StartsNone(s, s, NoHandle)
        BY DEF Follows, StartsNone
  <2>2. QED
        BY <1>1, <1>3, <1>4, <1>5, <1>8, <2>1, ReceivedIInv
<1> HIDE DEF Answer
<1>9. QED
      BY <1>6, <1>7, <1>8

\* remoteMeasureResponseRx: an answer to a set-up sets the handle and the status.
LEMMA InitAnsweredOK ==
  ASSUME MonRemoteAssumption, NEW s, NodeOK(s), NEW m \in Message, m.type = "RESPONSE",
         NEW h \in Handles, h = m.mh_remote, IsValid(s, h), IsPaired(s.measures[h]),
         NEW t, t = InitAnswered(s, m)
  PROVE  /\ NodeOK(t) /\ Follows(s, t) /\ \A g : StartsNone(s, t, g)
         /\ t.lists = s.lists
         /\ Restates(s.measures[h], t.measures[h], IF m.ok THEN "RUNNING" ELSE "RFAILED")
         /\ \A g \in Handles \ {h} : t.measures[g] = s.measures[g]
<1> DEFINE x == IF m.ok THEN "RUNNING" ELSE "RFAILED"
           mh == m.mh_local
<1>1. s \in NodeState /\ x \in Statuses /\ mh \in Handles \cup {NoHandle}
      BY DEF NodeOK, Message, Statuses
<1>2. t = [s EXCEPT !.measures[h].mh_remote = mh, !.measures[h].status = x]
      BY DEF InitAnswered
<1> HIDE DEF x, mh
<1>3. t = Answered(s, h, mh, x)
      BY <1>1, <1>2 DEF NodeState, Answered
<1>4. /\ NodeOK(t) /\ Follows(s, t) /\ \A g : StartsNone(s, t, g)
      /\ t.lists = s.lists
      /\ Restates(s.measures[h], t.measures[h], x)
      /\ \A g \in Handles \ {h} : t.measures[g] = s.measures[g]
      BY <1>1, <1>3, AnsweredOK
<1>5. QED
      BY <1>4 DEF x

\* remoteMeasureResponseRx: an answer to the end of an exchange.
LEMMA DeinitAnsweredOK ==
  ASSUME MonRemoteAssumption, NEW s, NodeOK(s), NEW m \in Message, m.type = "RESPONSE",
         NEW h \in Handles, h = m.mh_remote, IsValid(s, h), IsPaired(s.measures[h]),
         NEW t, t = DeinitAnswered(s, m)
  PROVE  /\ NodeOK(t) /\ Follows(s, t) /\ \A g : StartsNone(s, t, g)
<1> DEFINE d == s.measures[h]
<1>1. s \in NodeState /\ d \in Measure
      BY ValidMeasure DEF NodeOK
<1>2. CASE m.ok /\ d.status = "STOPPING" /\ Listed(s, h)
  <2> DEFINE u == stopMeasure(s, h)
             v == monDestroyMeasure(u, h)
  <2>1. t = v
        BY <1>2 DEF DeinitAnswered
  <2>2. /\ NodeOK(u) /\ Follows(s, u) /\ \A g : StartsNone(s, u, g)
        /\ u.measures = [s.measures EXCEPT ![h].status =
                           IF IsPaired(s.measures[h]) THEN "STOPPING" ELSE "STOPPED"]
        BY <1>2, StopOK
  <2>3. u.measures[h] \in Measure /\ u \in NodeState
        BY <1>1, <2>2 DEF NodeOK, NodeState, Measure, Statuses
  <2>4. IsValid(u, h)
        BY <2>3, ValidMeasure
  <2> HIDE DEF u
  <2>5. NodeOK(v) /\ Follows(u, v) /\ \A g : StartsNone(u, v, g)
        BY <2>2, <2>4, DestroyOK
  <2> HIDE DEF v
  <2>6. Follows(s, v) /\ \A g : StartsNone(s, v, g)
        BY <2>2, <2>5, FollowsTransitive, StartsTransitive
  <2>7. QED
        BY <2>1, <2>5, <2>6
<1>3. CASE m.ok /\ d.status = "STOPPING" /\ ~Listed(s, h)
  <2>1. t = Crashed(s)
        BY <1>3 DEF DeinitAnswered
  <2>2. QED
        BY <2>1, CrashedOK
<1>4. CASE ~(m.ok /\ d.status = "STOPPING")
  <2> DEFINE x == IF m.ok THEN "STOPPED" ELSE "RFAILED"
             mh == d.mh_remote
  <2>1. t = [s EXCEPT !.measures[h].status = x] /\ x \in Statuses
        BY <1>4 DEF DeinitAnswered, Statuses
  <2>2. mh \in Handles \cup {NoHandle}
        BY <1>1 DEF Measure
  <2> HIDE DEF x
  <2>3. [d EXCEPT !.status = x] = [d EXCEPT !.mh_remote = mh, !.status = x]
        BY <1>1 DEF Measure
  <2>4. t = [s EXCEPT !.measures[h] = [d EXCEPT !.status = x]]
        BY <1>1, <2>1 DEF NodeState
  <2>5. t = Answered(s, h, mh, x)
        BY <1>1, <2>3, <2>4 DEF NodeState, Answered
  <2> HIDE DEF mh
  <2>6. QED
        BY <2>1, <2>2, <2>5, AnsweredOK
<1>5. QED
      BY <1>2, <1>3, <1>4

\* measure_dispatcher.cpp: remoteMeasureResponseRx.
LEMMA ResponseRxIInv ==
  ASSUME MonRemoteAssumption, IInv, NEW m, BagIn(m, net), remoteMeasureResponseRx(m),
         UNCHANGED <<held, active>>, careless' \in BOOLEAN
  PROVE  IInv'
<1> DEFINE n == m.dst
           s == monl[n]
           h == m.mh_remote
           msgs == IF m.ok /\ s.measures[h].status = "STOPPING" /\ Listed(s, h)
                   THEN Deinit(n, s, h) ELSE {}
<1>1. m \in Message /\ MessageOK(m) /\ n \in Nodes /\ m.type = "RESPONSE"
      BY ArrivedFacts DEF remoteMeasureResponseRx
<1>2. h \in Handles /\ Owns(n, h)
      BY <1>1 DEF Message, MessageOK
<1>3. NodeOK(s) /\ s \in NodeState
      BY <1>1 DEF IInv, NodesOK, NodeOK
<1>4. NoHandle \notin Handles
      BY <1>3, HandleFacts
<1>5. UNCHANGED samples
      BY DEF remoteMeasureResponseRx
<1>6. \/ Become(n, s) /\ Send({m}, {}, {})
      \/ IsValid(s, h) /\ Become(n, InitAnswered(s, m)) /\ Send({m}, {}, {})
      \/ IsValid(s, h) /\ Become(n, DeinitAnswered(s, m)) /\ Send({m}, msgs, {})
      BY DEF remoteMeasureResponseRx
<1>7. IsValid(s, h) => IsPaired(s.measures[h])
      BY <1>2 DEF Owns
<1>8. CASE Become(n, s) /\ Send({m}, {}, {})
  <2>1. Follows(s, s) /\ StartsNone(s, s, NoHandle)
        BY DEF Follows, StartsNone
  <2>2. QED
        BY <1>1, <1>3, <1>4, <1>5, <1>8, <2>1, ReceivedIInv
<1>9. CASE IsValid(s, h) /\ Become(n, InitAnswered(s, m)) /\ Send({m}, {}, {})
  <2> DEFINE t == InitAnswered(s, m)
  <2>1. NodeOK(t) /\ Follows(s, t) /\ StartsNone(s, t, NoHandle)
        BY <1>1, <1>2, <1>3, <1>7, <1>9, InitAnsweredOK
  <2> HIDE DEF t
  <2>2. Become(n, t)
        BY <1>9 DEF t
  <2>3. QED
        BY <1>1, <1>4, <1>5, <1>9, <2>1, <2>2, ReceivedIInv
<1>10. CASE IsValid(s, h) /\ Become(n, DeinitAnswered(s, m)) /\ Send({m}, msgs, {})
  <2> DEFINE t == DeinitAnswered(s, m)
  <2>1. NodeOK(t) /\ Follows(s, t) /\ StartsNone(s, t, NoHandle)
        BY <1>1, <1>2, <1>3, <1>7, <1>10, DeinitAnsweredOK
  <2> HIDE DEF t
  <2>2. Become(n, t)
        BY <1>10 DEF t
  <2>3. \A x \in msgs : x \in Message /\ MessageOK(x)'
        BY <1>1, <1>2, <1>10, <2>1, <2>2, DeinitOK
  <2> HIDE DEF msgs
  <2>4. QED
        BY <1>1, <1>4, <1>5, <1>10, <2>1, <2>2, <2>3, ReceivedIInv
<1> HIDE DEF msgs
<1>11. QED
      BY <1>6, <1>8, <1>9, <1>10

\* measure_dispatcher.cpp: remoteResultsRx keeps what was measured by the plugin of the
\* measure, on the stream it is aimed at.
LEMMA ResultsRxIInv ==
  ASSUME MonRemoteAssumption, IInv, NEW m, BagIn(m, net), remoteResultsRx(m),
         UNCHANGED <<held, active>>, careless' \in BOOLEAN
  PROVE  IInv'
<1> DEFINE n == m.dst
           s == monl[n]
           new == {[node |-> n, mh |-> r.mh, reported |-> TRUE,
                    wanted |-> OriginOf(s.measures[r.mh]),
                    origin |-> [dst |-> m.src, msg_type |-> m.msg_type, mid |-> r.mid]] :
                     r \in {r \in m.results : Accepts(s, r.mh, m)}}
<1>1. m \in Message /\ MessageOK(m) /\ n \in Nodes /\ m.src \in Nodes /\ m.type = "RESULTS"
      BY ArrivedFacts DEF remoteResultsRx
<1>2. m.msg_type \in MsgTypes /\ m.results \subseteq [mh : Handles, mid : Plugins]
      BY <1>1 DEF Message
<1>3. /\ samples' = samples \cup new /\ Send({m}, {}, {})
      /\ UNCHANGED <<monl, held, active>> /\ careless' \in BOOLEAN
      BY DEF remoteResultsRx
<1>4. NodeOK(s) /\ s \in NodeState
      BY <1>1 DEF IInv, NodesOK, NodeOK
<1>5. ASSUME NEW x \in new PROVE x \in Sample /\ x.origin = x.wanted
  <2>1. PICK r \in m.results :
          /\ Accepts(s, r.mh, m)
          /\ x = [node |-> n, mh |-> r.mh, reported |-> TRUE,
                  wanted |-> OriginOf(s.measures[r.mh]),
                  origin |-> [dst |-> m.src, msg_type |-> m.msg_type, mid |-> r.mid]]
        OBVIOUS
  <2>2. r.mh \in Handles /\ r.mid \in Plugins /\ Made(n, r.mh, r.mid)
        BY <1>1, <1>2 DEF MessageOK
  <2>3. /\ IsValid(s, r.mh) /\ s.measures[r.mh].msg_type = m.msg_type
        /\ s.measures[r.mh].dst = m.src /\ s.measures[r.mh].mid = r.mid
        BY <2>1, <2>2 DEF Accepts, Made
  <2>4. OriginOf(s.measures[r.mh]) = [dst |-> m.src, msg_type |-> m.msg_type, mid |-> r.mid]
        BY <2>3 DEF OriginOf
  <2>5. x = [node |-> n, mh |-> r.mh, reported |-> TRUE,
             wanted |-> [dst |-> m.src, msg_type |-> m.msg_type, mid |-> r.mid],
             origin |-> [dst |-> m.src, msg_type |-> m.msg_type, mid |-> r.mid]]
        BY <2>1, <2>4
  <2>6. QED
        BY <1>1, <1>2, <2>2, <2>5 DEF Sample, Origin
<1> HIDE DEF new
<1>6. samples' \subseteq Sample /\ ReportedOfStream'
      BY <1>3, <1>5 DEF IInv, Types, ReportedOfStream
<1>7. Follows(s, s) /\ StartsNone(s, s, NoHandle) /\ NoHandle \notin Handles
      BY <1>4, HandleFacts DEF Follows, StartsNone
<1>8. Become(n, s) /\ SentAtMost({})
      BY <1>1, <1>3, SendOK DEF Become, IInv, Types
<1>9. /\ held' \in [Nodes -> SUBSET Handles] /\ active' \in [Nodes -> SUBSET Handles]
      /\ careless' \in BOOLEAN
      BY <1>3 DEF IInv, Types
<1>10. QED
      BY <1>1, <1>3, <1>4, <1>6, <1>7, <1>8, <1>9, StepOK

\* The node receives a message.
LEMMA ReceiveIInv ==
  ASSUME MonRemoteAssumption, IInv, NEW m, receiveCtrlMsg(m) PROVE IInv'
<1>1. BagIn(m, net) /\ UNCHANGED <<held, active>> /\ careless' \in BOOLEAN
      BY DEF receiveCtrlMsg, Misnames, IInv, Types
<1>2. CASE initRemoteMeasureRx(m)
      BY <1>1, <1>2, InitRxIInv
<1>3. CASE deinitRemoteMeasureRx(m)
      BY <1>1, <1>3, DeinitRxIInv
<1>4. CASE remoteMeasureResponseRx(m)
      BY <1>1, <1>4, ResponseRxIInv
<1>5. CASE remoteResultsRx(m)
      BY <1>1, <1>5, ResultsRxIInv
<1>6. QED
      BY <1>2, <1>3, <1>4, <1>5 DEF receiveCtrlMsg

-----------------------------------------------------------------------------
(* Packets.                                                                 *)

\* The measures that look at a packet of stream p, t.
On(s, p, t, remote) ==
  {s.lists[k] : k \in {k \in Key : k.dst = p /\ k.msg_type = t /\ k.remote = remote}}
    \ {NoHandle}
Runs(s, p, t, remote) == {h \in On(s, p, t, remote) : s.measures[h].status = "RUNNING"}
Seen(n, s, p, t) ==
  {[node |-> n, mh |-> h, reported |-> FALSE, wanted |-> OriginOf(s.measures[h]),
    origin |-> [dst |-> p, msg_type |-> t, mid |-> s.measures[h].mid]] :
      h \in Runs(s, p, t, FALSE)}
Found(s, p, t) ==
  {[mh |-> s.measures[h].mh_remote, mid |-> s.measures[h].mid] : h \in Runs(s, p, t, TRUE)}
Told(n, s, p, t) ==
  {[type |-> "RESULTS", src |-> n, dst |-> p, msg_type |-> t, results |-> Found(s, p, t)] :
     x \in {x \in {t} : Found(s, p, t) # {}}}

\* A packet ends the process, or is measured.
LEMMA PacketCases ==
  ASSUME NEW n \in Nodes, NEW p, NEW t, Packet(n, p, t)
  PROVE  /\ UNCHANGED <<held, active, careless>>
         /\ \/ Become(n, Crashed(monl[n])) /\ Send({}, {}, {"other"}) /\ UNCHANGED samples
            \/ /\ \A h \in On(monl[n], p, t, TRUE) \cup On(monl[n], p, t, FALSE) :
                    monl[n].measures[h] # NoMeasure
               /\ samples' = samples \cup Seen(n, monl[n], p, t)
               /\ Send({}, Told(n, monl[n], p, t), {"other"})
               /\ UNCHANGED monl
BY DEF Packet, On, Runs, Seen, Found, Told

\* The counterparts that look at a packet have the handles of measures that the node
\* at the other end made with their plugins.
LEMMA FoundOK ==
  ASSUME MonRemoteAssumption, IInv, NEW n \in Nodes, NEW p \in Nodes, NEW t \in MsgTypes,
         NEW r \in Found(monl[n], p, t)
  PROVE  r.mh \in Handles /\ r.mid \in Plugins /\ r \in [mh : Handles, mid : Plugins]
         /\ Made(p, r.mh, r.mid)
<1> DEFINE s == monl[n]
<1>1. NodeOK(s) /\ s \in NodeState
      BY DEF IInv, NodesOK, NodeOK
<1>2. PICK h \in Runs(s, p, t, TRUE) :
        r = [mh |-> s.measures[h].mh_remote, mid |-> s.measures[h].mid]
      BY DEF Found
<1>3. PICK k \in Key : /\ k.dst = p /\ k.msg_type = t /\ k.remote = TRUE /\ h = s.lists[k]
                       /\ h # NoHandle
      BY <1>2 DEF Runs, On
<1>4. h \in Handles /\ OneSided(k)
      BY <1>1, <1>3 DEF NodeState, OneSided
<1>5. OnList(s, h, k)
      BY <1>1, <1>3, <1>4 DEF NodeOK
<1>6. s.measures[h] \in Measure
      BY <1>1, <1>4, <1>5, ValidMeasure DEF OnList
<1>7. /\ s.measures[h].dst = p /\ s.measures[h].remote /\ s.measures[h].status = "RUNNING"
      /\ s.measures[h] # NoMeasure
      BY <1>3, <1>5, <1>6, MeasureFacts DEF OnList
<1>8. Made(p, s.measures[h].mh_remote, s.measures[h].mid)
      BY <1>4, <1>7 DEF IInv, Counterparts, ReportsTo
<1>9. s.measures[h].mh_remote \in Handles /\ s.measures[h].mid \in Plugins
      BY <1>6, <1>8 DEF Made, Given, Measure
<1>10. QED
      BY <1>2, <1>8, <1>9

\* What a packet tells another node is about measures of its user's.
LEMMA ToldOK ==
  ASSUME MonRemoteAssumption, IInv, NEW n \in Nodes, NEW p \in Nodes, NEW t \in MsgTypes,
         UNCHANGED monl, NEW x \in Told(n, monl[n], p, t)
  PROVE  x \in Message /\ MessageOK(x)'
<1>1. x = [type |-> "RESULTS", src |-> n, dst |-> p, msg_type |-> t,
           results |-> Found(monl[n], p, t)]
      BY DEF Told
<1> DEFINE R == Found(monl[n], p, t)
<1>2. \A r \in R : r \in [mh : Handles, mid : Plugins] /\ Made(p, r.mh, r.mid)
      BY FoundOK
<1>3. x.type = "RESULTS" /\ x.dst = p /\ x.results = R
      BY <1>1
<1>4. x \in Message
  <2> HIDE DEF R
  <2>1. R \in SUBSET [mh : Handles, mid : Plugins]
        BY <1>2
  <2>2. x = [type |-> "RESULTS", src |-> n, dst |-> p, msg_type |-> t, results |-> R]
        BY <1>1 DEF R
  <2>3. QED
        BY <2>1, <2>2 DEF Message
<1>5. \A r \in x.results : Made(x.dst, r.mh, r.mid)
      BY <1>2, <1>3
<1>6. \A r \in x.results : Made(x.dst, r.mh, r.mid)'
      BY <1>5 DEF Made
<1>7. QED
      BY <1>3, <1>4, <1>6 DEF MessageOK

\* What a measure of a node's user measures itself is of its plugin, and without a
\* counterpart of its stream.
LEMMA SeenOK ==
  ASSUME MonRemoteAssumption, IInv, NEW n \in Nodes, NEW p \in Nodes, NEW t \in MsgTypes,
         \A h \in On(monl[n], p, t, FALSE) : monl[n].measures[h] # NoMeasure,
         NEW x \in Seen(n, monl[n], p, t)
  PROVE  /\ x \in Sample /\ ~x.reported
         /\ x.origin # x.wanted => x.wanted.mid \in Paired
<1> DEFINE s == monl[n]
<1>1. NodeOK(s) /\ s \in NodeState
      BY DEF IInv, NodesOK, NodeOK
<1>2. PICK h \in Runs(s, p, t, FALSE) :
        x = [node |-> n, mh |-> h, reported |-> FALSE, wanted |-> OriginOf(s.measures[h]),
             origin |-> [dst |-> p, msg_type |-> t, mid |-> s.measures[h].mid]]
      BY DEF Seen
<1>3. PICK k \in Key : /\ k.dst = p /\ k.msg_type = t /\ k.remote = FALSE /\ h = s.lists[k]
                       /\ h # NoHandle
      BY <1>2 DEF Runs, On
<1>4. h \in Handles /\ s.measures[h] # NoMeasure
      BY <1>1, <1>2, <1>3 DEF NodeState, Runs
<1>5. IsValid(s, h) /\ s.measures[h] \in Measure
      BY <1>1, <1>4, ValidMeasure
<1> DEFINE m == s.measures[h]
           want == OriginOf(m)
           orig == [dst |-> p, msg_type |-> t, mid |-> m.mid]
<1>6. want \in Origin /\ orig \in Origin /\ want.mid = m.mid
      BY <1>5, MeasureFacts DEF Origin, Measure, OriginOf
<1>7. m.mid \notin Paired => want = orig
  <2>1. SUFFICES ASSUME m.mid \notin Paired PROVE want = orig
        OBVIOUS
  <2>2. m.mid = k.mid
        BY <1>1, <1>3, <1>4, <1>5 DEF NodeOK
  <2>3. OneSided(k)
        BY <2>1, <2>2 DEF OneSided
  <2>4. OnList(s, h, k)
        BY <1>1, <1>3, <1>4, <2>3 DEF NodeOK
  <2>5. m.dst = p /\ m.msg_type = t
        BY <1>3, <1>5, <2>4, MeasureFacts DEF OnList
  <2>6. QED
        BY <2>5 DEF OriginOf
<1> HIDE DEF want, orig
<1>8. x = [node |-> n, mh |-> h, reported |-> FALSE, wanted |-> want, origin |-> orig]
      BY <1>2 DEF want, orig
<1>9. QED
      BY <1>4, <1>6, <1>7, <1>8 DEF Sample

\* measure_dispatcher.cpp: cbRxPkt and its kind.
LEMMA PacketIInv ==
  ASSUME MonRemoteAssumption, IInv, NEW n \in Nodes, NEW p \in Nodes, NEW t \in MsgTypes,
         Packet(n, p, t)
  PROVE  IInv'
<1> DEFINE s == monl[n]
<1>1. NodeOK(s) /\ s \in NodeState /\ NoHandle \notin Handles
      BY HandleFacts DEF IInv, NodesOK, NodeOK
<1>2. UNCHANGED <<held, active, careless>> /\ careless' \in BOOLEAN
      BY PacketCases DEF IInv, Types
<1>3. CASE Become(n, Crashed(s)) /\ Send({}, {}, {"other"}) /\ UNCHANGED samples
  <2> DEFINE u == Crashed(s)
  <2>1. NodeOK(u) /\ Follows(s, u) /\ StartsNone(s, u, NoHandle)
        BY <1>1, CrashedOK
  <2> HIDE DEF u
  <2>2. Become(n, u)
        BY <1>3 DEF u
  <2>3. QED
        BY <1>1, <1>2, <1>3, <2>1, <2>2, ReceivedIInv
<1>4. CASE /\ \A h \in On(s, p, t, TRUE) \cup On(s, p, t, FALSE) : s.measures[h] # NoMeasure
           /\ samples' = samples \cup Seen(n, s, p, t)
           /\ Send({}, Told(n, s, p, t), {"other"})
           /\ UNCHANGED monl
  <2>1. Follows(s, s) /\ StartsNone(s, s, NoHandle) /\ Become(n, s)
        BY <1>4 DEF Follows, StartsNone, Become, IInv, Types
  <2>2. \A x \in Seen(n, s, p, t) : /\ x \in Sample /\ ~x.reported
                                    /\ x.origin # x.wanted => x.wanted.mid \in Paired
        BY <1>4, SeenOK
  <2>3. samples' \subseteq Sample /\ ReportedOfStream'
        BY <1>4, <2>2 DEF IInv, Types, ReportedOfStream
  <2>4. /\ held' \in [Nodes -> SUBSET Handles] /\ active' \in [Nodes -> SUBSET Handles]
        /\ careless' \in BOOLEAN
        BY <1>2 DEF IInv, Types
  <2> DEFINE msgs == Told(n, s, p, t)
  <2>5. \A x \in msgs : x \in Message /\ MessageOK(x)'
        BY <1>4, ToldOK
  <2> HIDE DEF msgs
  <2>6. SentAtMost(msgs) /\ msgs \in SUBSET Message
        BY <1>4, <2>5, SendOK DEF IInv, msgs
  <2>7. QED
        BY <1>1, <1>2, <2>1, <2>3, <2>4, <2>5, <2>6, StepOK
<1>5. QED
      BY <1>3, <1>4, PacketCases

-----------------------------------------------------------------------------
(* What careful users keep.                                                 *)

\* A measure of the user's that has, had or is to have a counterpart.
HasCounterpart(s, h) == IsValid(s, h) /\ IsPaired(s.measures[h])

\* A measure that has a counterpart is only on the list of the stream it is aimed at,
\* and its user has activated it.
ListedAsAimed(s, user) ==
  \A k \in Key, h \in Handles : ~OneSided(k) /\ s.lists[k] = h =>
    /\ IsValid(s, h) /\ KeyOf(s.measures[h]) = k /\ h \in user
    /\ s.measures[h].status \in {"INITIALISING", "RUNNING", "RFAILED"}

\* A measure whose counterpart is told to end has left its list, to no other measure.
StoppingUnlisted(s) ==
  \A h \in Handles :
    HasCounterpart(s, h) /\ s.measures[h].status = "STOPPING" => ~Listed(s, h)

Tidy(s, user) == ListedAsAimed(s, user) /\ StoppingUnlisted(s)

\* Message m belongs to an exchange about measure h of node n, and what the measure waits
\* for in that exchange.
Concerns(m, n, h) ==
  \/ m.type \in {"INIT", "DEINIT"} /\ m.src = n /\ m.mh_local = h
  \/ m.type = "RESPONSE" /\ m.dst = n /\ m.mh_remote = h
Phase(m) ==
  IF m.type = "INIT" \/ (m.type = "RESPONSE" /\ m.command = "INIT")
  THEN "INITIALISING" ELSE "STOPPING"

\* At most one message about measure h of node n is in transit, and h has status x while
\* there is one.
Exchange(n, h, x) ==
  \A m \in DOMAIN net : Concerns(m, n, h) =>
    /\ net[m] = 1 /\ Phase(m) = x
    /\ \A o \in DOMAIN net : Concerns(o, n, h) => o = m
Silent(n, h) == \A m \in DOMAIN net : ~Concerns(m, n, h)

Careful ==
  /\ \A n \in Nodes : Tidy(monl[n], active[n])
  /\ \A n \in Nodes, h \in Handles : HasCounterpart(monl[n], h) =>
       Exchange(n, h, monl[n].measures[h].status)

\* The measures with a counterpart of node s are those of t, as long as they are there,
\* and so are their lists.
Keeps(s, t) ==
  /\ \A h \in Handles : HasCounterpart(t, h) =>
       HasCounterpart(s, h) /\ t.measures[h] = s.measures[h]
  /\ \A k \in Key : ~OneSided(k) /\ t.lists[k] # NoHandle =>
       /\ t.lists[k] = s.lists[k]
       /\ HasCounterpart(s, s.lists[k]) => HasCounterpart(t, s.lists[k])

\* Such a node is as tidy as before.
LEMMA KeepsTidy ==
  ASSUME MonRemoteAssumption, NEW s \in NodeState, NEW t \in NodeState, Keeps(s, t),
         NEW a, NEW b, Tidy(s, a), \A h \in a : HasCounterpart(s, h) => h \in b
  PROVE  Tidy(t, b)
<1>1. ASSUME NEW k \in Key, NEW h \in Handles, ~OneSided(k), t.lists[k] = h
      PROVE  /\ IsValid(t, h) /\ KeyOf(t.measures[h]) = k /\ h \in b
             /\ t.measures[h].status \in {"INITIALISING", "RUNNING", "RFAILED"}
  <2>1. s.lists[k] = h /\ (HasCounterpart(s, h) => HasCounterpart(t, h))
        BY <1>1, HandleFacts DEF Keeps
  <2>2. /\ IsValid(s, h) /\ KeyOf(s.measures[h]) = k /\ h \in a
        /\ s.measures[h].status \in {"INITIALISING", "RUNNING", "RFAILED"}
        BY <1>1, <2>1 DEF Tidy, ListedAsAimed
  <2>3. IsPaired(s.measures[h])
        BY <1>1, <2>2, ValidMeasure, MeasureFacts
  <2>4. HasCounterpart(t, h) /\ HasCounterpart(s, h)
        BY <2>1, <2>2, <2>3 DEF HasCounterpart
  <2>5. t.measures[h] = s.measures[h] /\ IsValid(t, h)
        BY <2>4 DEF Keeps, HasCounterpart
  <2>6. QED
        BY <2>2, <2>4, <2>5
<1>2. ASSUME NEW h \in Handles, HasCounterpart(t, h), t.measures[h].status = "STOPPING"
      PROVE  ~Listed(t, h)
  <2>1. HasCounterpart(s, h) /\ t.measures[h] = s.measures[h]
        BY <1>2 DEF Keeps
  <2>2. ~Listed(s, h)
        BY <1>2, <2>1 DEF Tidy, StoppingUnlisted
  <2>3. KeyOf(s.measures[h]) \in Key /\ ~OneSided(KeyOf(s.measures[h]))
        BY <2>1, ValidMeasure, MeasureFacts DEF HasCounterpart
  <2>4. QED
        BY <2>1, <2>2, <2>3 DEF Listed, Keeps
<1>3. QED
      BY <1>1, <1>2 DEF Tidy, ListedAsAimed, StoppingUnlisted

\* A measure without a counterpart may change.
LEMMA TouchKeeps ==
  ASSUME NEW s, NEW t, NEW r, ~HasCounterpart(s, r), ~HasCounterpart(t, r),
         \A h \in Handles \ {r} : t.measures[h] = s.measures[h],
         \A k \in Key : s.lists[k] \in Handles \cup {NoHandle},
         \A k \in Key : ~OneSided(k) => t.lists[k] = s.lists[k]
  PROVE  Keeps(s, t)
BY DEF Keeps, HasCounterpart, IsValid

\* Nothing is left of a process that ended, and nothing changes when nothing does.
LEMMA CrashKeeps ==
  ASSUME MonRemoteAssumption, NEW s, NodeOK(s) PROVE Keeps(s, Crashed(s)) /\ Keeps(s, s)
<1>1. s \in NodeState
      BY DEF NodeOK
<1>2. Crashed(s).lists = [k \in Key |-> NoHandle]
      BY <1>1 DEF Crashed, NodeState
<1>3. \A h \in Handles : ~HasCounterpart(Crashed(s), h)
      BY CrashedOK DEF HasCounterpart
<1>4. QED
      BY <1>2, <1>3 DEF Keeps

\* Two such steps.
LEMMA KeepsTransitive ==
  ASSUME NEW s, NEW t, NEW u, Keeps(s, t), Keeps(t, u) PROVE Keeps(s, u)
BY DEF Keeps

-----------------------------------------------------------------------------
(* Exchanges.                                                               *)

\* What is in transit after messages were read and sent.
LEMMA NetAfter ==
  ASSUME Types, NEW read, NEW msgs, NEW K, Send(read, msgs, K)
  PROVE  /\ \A m \in DOMAIN net' \ msgs :
              /\ m \in DOMAIN net /\ net'[m] \in 1 .. net[m]
              /\ m \in read => net[m] # 1
         /\ \A m \in msgs : (m \in DOMAIN net => m \in read /\ net[m] = 1) => net'[m] = 1
<1> DEFINE b == net (-) SetToBag(read)
<1>1. net' = b (+) SetToBag(msgs)
      BY DEF Send
<1>2. /\ DOMAIN b = {e \in DOMAIN net : net[e] - (IF e \in read THEN 1 ELSE 0) > 0}
      /\ \A e \in DOMAIN b : b[e] = net[e] - (IF e \in read THEN 1 ELSE 0)
      BY DEF Types, (-), SetToBag
<1> HIDE DEF b
<1>3. net' = [e \in DOMAIN b \cup msgs |-> (IF e \in DOMAIN b THEN b[e] ELSE 0)
                                            + (IF e \in msgs THEN 1 ELSE 0)]
      BY <1>1 DEF (+), SetToBag, b
<1>4. \A e \in DOMAIN net : net[e] \in Nat \ {0}
      BY DEF Types
<1>5. ASSUME NEW m \in DOMAIN net' \ msgs
      PROVE  m \in DOMAIN net /\ net'[m] \in 1 .. net[m] /\ (m \in read => net[m] # 1)
  <2>1. m \in DOMAIN b /\ net'[m] = b[m] + 0
        BY <1>3
  <2>2. QED
        BY <1>2, <1>4, <2>1
<1>6. ASSUME NEW m \in msgs, m \in DOMAIN net => m \in read /\ net[m] = 1
      PROVE  net'[m] = 1
  <2>1. m \notin DOMAIN b
        BY <1>2, <1>6
  <2>2. QED
        BY <1>3, <2>1
<1>7. QED
      BY <1>5, <1>6

\* Messages about other measures do not matter.
LEMMA ExchangeKept ==
  ASSUME Types, NEW read, NEW msgs, NEW K, Send(read, msgs, K), NEW n, NEW h,
         \A m \in msgs : ~Concerns(m, n, h)
  PROVE  /\ \A x : Exchange(n, h, x) => Exchange(n, h, x)'
         /\ \A x, m : /\ Exchange(n, h, x) /\ m \in DOMAIN net /\ m \in read
                      /\ Concerns(m, n, h)
                      => Silent(n, h)'
         /\ Silent(n, h) => Silent(n, h)'
<1>1. \A m \in DOMAIN net' : Concerns(m, n, h) =>
        /\ m \in DOMAIN net /\ net'[m] \in 1 .. net[m]
        /\ m \in read => net[m] # 1
      BY NetAfter
<1>2. ASSUME NEW x, Exchange(n, h, x) PROVE Exchange(n, h, x)'
  <2>1. SUFFICES ASSUME NEW m \in DOMAIN net', Concerns(m, n, h)
                 PROVE  /\ net'[m] = 1 /\ Phase(m) = x
                        /\ \A o \in DOMAIN net' : Concerns(o, n, h) => o = m
        BY DEF Exchange, Concerns, Phase
  <2>2. net[m] = 1 /\ net'[m] \in 1 .. net[m]
        BY <1>1, <1>2, <2>1 DEF Exchange
  <2>3. net'[m] = 1
        BY <2>2
  <2>4. QED
        BY <1>1, <1>2, <2>1, <2>3 DEF Exchange
<1>3. ASSUME NEW x, NEW m, Exchange(n, h, x), m \in DOMAIN net, m \in read, Concerns(m, n, h)
      PROVE  Silent(n, h)'
  <2>1. SUFFICES ASSUME NEW o \in DOMAIN net', Concerns(o, n, h) PROVE FALSE
        BY DEF Silent, Concerns
  <2>2. o \in DOMAIN net /\ (o \in read => net[o] # 1)
        BY <1>1, <2>1
  <2>3. o = m /\ net[m] = 1
        BY <1>3, <2>1, <2>2 DEF Exchange
  <2>4. QED
        BY <1>3, <2>2, <2>3
<1>4. Silent(n, h) => Silent(n, h)'
      BY <1>1 DEF Silent, Concerns
<1>5. QED
      BY <1>2, <1>3, <1>4

\* A message is sent when none about the measure is in transit but the one it answers.
LEMMA ExchangeGoesOn ==
  ASSUME Types, NEW read, NEW msgs, NEW K, Send(read, msgs, K), NEW n, NEW h, NEW x,
         \A m \in DOMAIN net : Concerns(m, n, h) => m \in read /\ net[m] = 1,
         NEW y, \A m \in msgs : Concerns(m, n, h) => m = y, Phase(y) = x
  PROVE  Exchange(n, h, x)'
<1>1. SUFFICES ASSUME NEW m \in DOMAIN net', Concerns(m, n, h)
               PROVE  /\ net'[m] = 1 /\ Phase(m) = x
                      /\ \A o \in DOMAIN net' : Concerns(o, n, h) => o = m
      BY DEF Exchange, Concerns, Phase
<1>2. ASSUME NEW o \in DOMAIN net', Concerns(o, n, h) PROVE o \in msgs /\ o = y
      BY <1>2, NetAfter
<1>3. m \in msgs /\ m = y
      BY <1>1, <1>2
<1>4. net'[m] = 1
      BY <1>1, <1>3, NetAfter
<1>5. QED
      BY <1>2, <1>3, <1>4

\* No message is about a measure that waits for none.
LEMMA SilentWhenIdle ==
  ASSUME NEW n, NEW h, NEW x, Exchange(n, h, x), x \notin {"INITIALISING", "STOPPING"}
  PROVE  Silent(n, h)
BY DEF Exchange, Silent, Phase

\* A silent exchange is one in any phase.
LEMMA SilentExchange ==
  ASSUME NEW n, NEW h, NEW x PROVE (Silent(n, h) => Exchange(n, h, x))
                                   /\ (Silent(n, h)' => Exchange(n, h, x)')
BY DEF Exchange, Silent

-----------------------------------------------------------------------------
(* Careful users stay careful.                                              *)

\* A step of node n by which the measures with a counterpart stay as they are, but g.
LEMMA CarefulStep ==
  ASSUME MonRemoteAssumption, IInv, Careful, NEW n \in Nodes, NEW t, Become(n, t),
         NEW g, NEW y, Tidy(t, active'[n]),
         \A h \in Handles \ {g} : HasCounterpart(t, h) =>
           HasCounterpart(monl[n], h) /\ t.measures[h] = monl[n].measures[h],
         g \in Handles /\ HasCounterpart(t, g) =>
           t.measures[g].status = y /\ Exchange(n, g, y)',
         \A q \in Nodes \ {n} : active'[q] = active[q],
         \A q \in Nodes, h \in Handles : q # n \/ h # g =>
           \A x : Exchange(q, h, x) => Exchange(q, h, x)'
  PROVE  Careful'
<1>1. monl'[n] = t /\ \A q \in Nodes \ {n} : monl'[q] = monl[q]
      BY DEF Become, IInv, Types
<1>2. ASSUME NEW q \in Nodes PROVE Tidy(monl[q], active[q])'
      BY <1>1 DEF Careful, Tidy, ListedAsAimed, StoppingUnlisted, HasCounterpart, IsValid, Listed
<1>3. ASSUME NEW q \in Nodes, NEW h \in Handles, HasCounterpart(monl'[q], h)
      PROVE  Exchange(q, h, monl[q].measures[h].status)'
  <2>1. CASE q = n /\ h = g
        BY <1>1, <1>3, <2>1
  <2>2. CASE q # n \/ h # g
    <3>1. HasCounterpart(monl[q], h) /\ monl'[q].measures[h] = monl[q].measures[h]
          BY <1>1, <1>3, <2>2
    <3>2. Exchange(q, h, monl[q].measures[h].status)
          BY <3>1 DEF Careful
    <3>3. QED
          BY <2>2, <3>1, <3>2
  <2>3. QED
        BY <2>1, <2>2
<1>4. QED
      BY <1>2, <1>3 DEF Careful

\* A step that leaves every measure with a counterpart alone.
LEMMA CarefulKept ==
  ASSUME MonRemoteAssumption, IInv, Careful, NEW n \in Nodes, NEW t, Become(n, t), NodeOK(t),
         Keeps(monl[n], t),
         \A h \in active[n] : HasCounterpart(monl[n], h) => h \in active'[n],
         \A q \in Nodes \ {n} : active'[q] = active[q],
         \A q \in Nodes, h \in Handles : \A x : Exchange(q, h, x) => Exchange(q, h, x)'
  PROVE  Careful'
<1>1. monl[n] \in NodeState /\ t \in NodeState
      BY DEF IInv, NodesOK, NodeOK
<1>2. Tidy(monl[n], active[n])
      BY DEF Careful
<1>3. Tidy(t, active'[n])
      BY <1>1, <1>2, KeepsTidy
<1>4. \A h \in Handles : HasCounterpart(t, h) =>
        HasCounterpart(monl[n], h) /\ t.measures[h] = monl[n].measures[h]
      BY DEF Keeps
<1>5. NoHandle \notin Handles
      BY <1>1, HandleFacts
<1>6. QED
      BY <1>3, <1>4, <1>5, CarefulStep

\* mon.cpp: no message is about a new measure.
LEMMA CreateCareful ==
  ASSUME MonRemoteAssumption, IInv, IInv', Careful, NEW n \in Nodes, NEW mid \in Plugins,
         monCreateMeasure(n, mid)
  PROVE  Careful'
<1> DEFINE s == monl[n]
           t == Created(s, mid, FALSE, NoHandle)
<1>0. PICK g : g = s.next
      OBVIOUS
<1>1. g # NoHandle /\ Become(n, t) /\ UNCHANGED <<active, net>>
      BY <1>0 DEF monCreateMeasure
<1>2. NodeOK(s) /\ s \in NodeState
      BY DEF IInv, NodesOK, NodeOK
<1>3. /\ t.lists = s.lists /\ g \in Handles /\ g \notin Given(s)
      /\ \A h \in Handles \ {g} : t.measures[h] = s.measures[h]
      /\ t.measures[g] \in Measure /\ IsValid(t, g)
      /\ t.measures[g].status = "STOPPED"
  <2> DEFINE r == FALSE
             u == Created(s, mid, r, NoHandle)
  <2>1. Nodes # {} /\ r \in BOOLEAN /\ NoHandle \in Handles \cup {NoHandle}
        OBVIOUS
  <2>2. u = t
        OBVIOUS
  <2>3. NodeOK(s) /\ s.next # NoHandle
        BY <1>0, <1>1, <1>2
  <2> HIDE DEF s, r
  <2>4. /\ u.lists = s.lists /\ s.next \in Handles
        /\ \A h \in Handles \ {s.next} : u.measures[h] = s.measures[h]
        /\ u.measures[s.next] \in Measure /\ IsValid(u, s.next)
        /\ u.measures[s.next].status = "STOPPED"
        BY <2>1, <2>3, CreatedOK
  <2>5. g \notin Given(s)
        BY <1>0, <1>2, HandleFacts DEF s
  <2> HIDE DEF u, t
  <2>6. QED
        BY <1>0, <2>2, <2>4, <2>5
<1> HIDE DEF t
<1>4. ~IsValid(s, g)
      BY <1>2, <1>3 DEF NodeOK
<1>5. Silent(n, g)
  <2>1. SUFFICES ASSUME NEW m \in DOMAIN net, Concerns(m, n, g) PROVE FALSE
        BY DEF Silent
  <2>2. MessageOK(m)
        BY DEF IInv, MessagesOK
  <2>3. g \in Given(s)
        BY <2>1, <2>2 DEF MessageOK, Concerns, Owns
  <2>4. QED
        BY <1>3, <2>3
<1>6. Exchange(n, g, "STOPPED")'
      BY <1>1, <1>5 DEF Exchange, Silent, Concerns
<1>7. Tidy(t, active'[n])
  <2>1. Tidy(s, active[n])
        BY DEF Careful
  <2>2. \A k \in Key : t.lists[k] # g
        BY <1>2, <1>3 DEF NodeOK
  <2>3. ListedAsAimed(t, active'[n])
        BY <1>1, <1>3, <2>1, <2>2 DEF Tidy, ListedAsAimed, IsValid
  <2>4. StoppingUnlisted(t)
        BY <1>3, <2>1 DEF Tidy, StoppingUnlisted, HasCounterpart, Listed, IsValid
  <2>5. QED
        BY <2>3, <2>4 DEF Tidy
<1>8. \A h \in Handles \ {g} : HasCounterpart(t, h) =>
        HasCounterpart(s, h) /\ t.measures[h] = s.measures[h]
      BY <1>3 DEF HasCounterpart, IsValid
<1>9. \A q \in Nodes, h \in Handles : \A x : Exchange(q, h, x) => Exchange(q, h, x)'
      BY <1>1 DEF Exchange
<1>10. QED
       BY <1>1, <1>3, <1>6, <1>7, <1>8, <1>9, CarefulStep

\* measure_dispatcher.cpp: what deactivateMeasure and monDestroyMeasure do to the lists and
\* to the measure.
LEMMA StoppedFacts ==
  ASSUME MonRemoteAssumption, NEW s, NodeOK(s), NEW h \in Handles, IsValid(s, h),
         NEW t, t = deactivateMeasure(s, h) \/ t = monDestroyMeasure(s, h)
  PROVE  /\ \A g \in Handles \ {h} : t.measures[g] = s.measures[g]
         /\ t.lists = IF Stops(s, h)
                      THEN [s.lists EXCEPT ![KeyOf(s.measures[h])] = NoHandle] ELSE s.lists
         /\ IsValid(t, h) =>
              t.measures[h] =
                IF Stops(s, h)
                THEN [s.measures[h] EXCEPT !.status = IF IsPaired(s.measures[h])
                                                      THEN "STOPPING" ELSE "STOPPED"]
                ELSE s.measures[h]
<1> DEFINE u == deactivateMeasure(s, h)
           m == s.measures[h]
           x == IF IsPaired(m) THEN "STOPPING" ELSE "STOPPED"
<1>1. s \in NodeState /\ m \in Measure
      BY ValidMeasure DEF NodeOK
<1>2. /\ u.lists = IF Stops(s, h) THEN [s.lists EXCEPT ![KeyOf(m)] = NoHandle] ELSE s.lists
      /\ u.measures[h] = IF Stops(s, h) THEN [m EXCEPT !.status = x] ELSE m
  <2>1. CASE Stops(s, h)
    <3>1. Listed(s, h) /\ (IsPaired(m) \/ m.status = "RUNNING") /\ u = stopMeasure(s, h)
          BY <2>1 DEF Stops, NodeOK, deactivateMeasure
    <3> DEFINE v == stopMeasure(s, h)
    <3>2. /\ v.measures = [s.measures EXCEPT ![h].status =
                             IF IsPaired(s.measures[h]) THEN "STOPPING" ELSE "STOPPED"]
          /\ v.lists = [s.lists EXCEPT ![KeyOf(s.measures[h])] = NoHandle]
          BY <3>1, StopOK
    <3>3. v.measures[h] = [m EXCEPT !.status = x]
      <4> HIDE DEF v
      <4>1. QED
            BY <1>1, <3>2 DEF NodeState
    <3>4. u = v
          BY <3>1
    <3> HIDE DEF u, v, x
    <3>5. QED
          BY <2>1, <3>2, <3>3, <3>4
  <2>2. CASE ~Stops(s, h)
        BY <2>2 DEF deactivateMeasure
  <2>3. QED
        BY <2>1, <2>2
<1>3. u \in NodeState /\ \A g \in Handles \ {h} : u.measures[g] = s.measures[g]
      BY DeactivateOK DEF NodeOK
<1> HIDE DEF u, x
<1>4. CASE t = u
      BY <1>2, <1>3, <1>4 DEF x
<1>5. CASE t = monDestroyMeasure(s, h)
  <2>1. t = [u EXCEPT !.measures[h] = NoMeasure]
        BY <1>5 DEF monDestroyMeasure, u
  <2>2. t.lists = u.lists
        BY <1>3, <2>1 DEF NodeState
  <2>3. /\ ~IsValid(t, h)
        /\ \A g \in Handles \ {h} : t.measures[g] = s.measures[g]
        BY <1>5, DestroyOK
  <2>4. QED
        BY <1>2, <2>2, <2>3
<1>6. QED
      BY <1>4, <1>5 DEF u

\* Ending a measure without a counterpart leaves the others alone.
LEMMA StoppedKeeps ==
  ASSUME MonRemoteAssumption, NEW s, NodeOK(s), NEW h \in Handles, IsValid(s, h),
         ~IsPaired(s.measures[h]),
         NEW t, t = deactivateMeasure(s, h) \/ t = monDestroyMeasure(s, h)
  PROVE  Keeps(s, t)
<1>1. s \in NodeState /\ s.measures[h] \in Measure
      BY ValidMeasure DEF NodeOK
<1>2. KeyOf(s.measures[h]) \in Key /\ OneSided(KeyOf(s.measures[h]))
      BY <1>1, MeasureFacts
<1>6. /\ \A g \in Handles \ {h} : t.measures[g] = s.measures[g]
      /\ t.lists = IF Stops(s, h)
                   THEN [s.lists EXCEPT ![KeyOf(s.measures[h])] = NoHandle] ELSE s.lists
      /\ IsValid(t, h) =>
           t.measures[h] =
             IF Stops(s, h)
             THEN [s.measures[h] EXCEPT !.status = IF IsPaired(s.measures[h])
                                                   THEN "STOPPING" ELSE "STOPPED"]
             ELSE s.measures[h]
      BY StoppedFacts
<1>3. \A k \in Key : ~OneSided(k) => t.lists[k] = s.lists[k]
      BY <1>1, <1>2, <1>6 DEF NodeState
<1>4. IsValid(t, h) => ~IsPaired(t.measures[h])
      BY <1>1, <1>6 DEF IsPaired, Measure
<1>5. ~HasCounterpart(s, h) /\ ~HasCounterpart(t, h)
      BY <1>4 DEF HasCounterpart
<1>7. \A k \in Key : s.lists[k] \in Handles \cup {NoHandle}
      BY <1>1 DEF NodeState
<1>8. QED
      BY <1>3, <1>5, <1>6, <1>7, TouchKeeps

\* Ending a measure with a counterpart keeps the lists tidy.
LEMMA StoppedTidy ==
  ASSUME MonRemoteAssumption, NEW s, NodeOK(s), NEW h \in Handles, HasCounterpart(s, h),
         NEW t, t = deactivateMeasure(s, h) \/ t = monDestroyMeasure(s, h),
         NEW a, Tidy(s, a), NEW b, a \ {h} \subseteq b
  PROVE  Tidy(t, b)
<1> DEFINE d == s.measures[h]
           key == KeyOf(d)
<1>1. s \in NodeState /\ d \in Measure /\ key \in Key /\ IsValid(s, h) /\ NoHandle \notin Handles
      BY ValidMeasure, MeasureFacts, HandleFacts DEF NodeOK, HasCounterpart
<1>7. /\ \A g \in Handles \ {h} : t.measures[g] = s.measures[g]
      /\ t.lists = IF Stops(s, h)
                   THEN [s.lists EXCEPT ![KeyOf(s.measures[h])] = NoHandle] ELSE s.lists
      /\ IsValid(t, h) =>
           t.measures[h] =
             IF Stops(s, h)
             THEN [s.measures[h] EXCEPT !.status = IF IsPaired(s.measures[h])
                                                   THEN "STOPPING" ELSE "STOPPED"]
             ELSE s.measures[h]
      BY <1>1, StoppedFacts
<1>2. /\ \A k \in Key : t.lists[k] = s.lists[k] \/ (k = key /\ t.lists[k] = NoHandle)
      /\ Stops(s, h) => t.lists[key] = NoHandle
      /\ ~Stops(s, h) => t.lists = s.lists
      BY <1>1, <1>7 DEF NodeState
<1>3. /\ \A g \in Handles \ {h} : t.measures[g] = s.measures[g]
      /\ IsValid(t, h) => t.measures[h] = IF Stops(s, h) THEN [d EXCEPT !.status = "STOPPING"] ELSE d
      BY <1>7 DEF HasCounterpart
<1>4. ASSUME NEW k \in Key, NEW g \in Handles, ~OneSided(k), t.lists[k] = g
      PROVE  /\ IsValid(t, g) /\ KeyOf(t.measures[g]) = k /\ g \in b
             /\ t.measures[g].status \in {"INITIALISING", "RUNNING", "RFAILED"}
  <2>1. s.lists[k] = g
        BY <1>1, <1>2, <1>4
  <2>2. /\ IsValid(s, g) /\ KeyOf(s.measures[g]) = k /\ g \in a
        /\ s.measures[g].status \in {"INITIALISING", "RUNNING", "RFAILED"}
        BY <1>4, <2>1 DEF Tidy, ListedAsAimed
  <2>3. g # h
    <3>1. SUFFICES ASSUME g = h PROVE FALSE
          OBVIOUS
    <3>2. Stops(s, h)
          BY <1>4, <1>1, <2>1, <2>2, <3>1 DEF Stops, Listed
    <3>3. QED
          BY <1>1, <1>2, <1>4, <2>2, <3>1, <3>2
  <2>4. QED
        BY <1>3, <2>2, <2>3 DEF IsValid
<1>5. ASSUME NEW g \in Handles, HasCounterpart(t, g), t.measures[g].status = "STOPPING"
      PROVE  ~Listed(t, g)
  <2>1. CASE g = h /\ Stops(s, h)
    <3>1. KeyOf(t.measures[h]) = key
          BY <1>1, <1>3, <1>5, <2>1 DEF HasCounterpart, KeyOf, Measure
    <3>2. QED
          BY <1>2, <2>1, <3>1 DEF Listed
  <2>2. CASE ~(g = h /\ Stops(s, h))
    <3>1. HasCounterpart(s, g) /\ t.measures[g] = s.measures[g]
          BY <1>3, <1>5, <2>2 DEF HasCounterpart, IsValid
    <3>2. ~Listed(s, g)
          BY <1>5, <3>1 DEF Tidy, StoppingUnlisted
    <3>3. KeyOf(s.measures[g]) \in Key
          BY <1>1, <3>1, ValidMeasure, MeasureFacts DEF HasCounterpart
    <3>4. QED
          BY <1>2, <3>1, <3>2, <3>3 DEF Listed
  <2>3. QED
        BY <2>1, <2>2
<1>6. QED
      BY <1>4, <1>5 DEF Tidy, ListedAsAimed, StoppingUnlisted

\* A measure is idle when its user's call about it is not careless.
LEMMA IdleWhenCareful ==
  ASSUME MonRemoteAssumption, IInv, Careful, NEW n \in Nodes, NEW h \in Handles,
         HasCounterpart(monl[n], h), NEW s, HasCounterpart(s, h), ~Careless(s, h),
         s.measures[h].status = monl[n].measures[h].status
  PROVE  Silent(n, h)
<1>1. s.measures[h].status \notin {"INITIALISING", "STOPPING"}
      BY DEF Careless, HasCounterpart
<1>2. Exchange(n, h, s.measures[h].status)
      BY DEF Careful
<1>3. QED
      BY <1>1, <1>2, SilentWhenIdle

\* measure_dispatcher.cpp: what stopMeasure sends is about its measure.
LEMMA DeinitConcerns ==
  ASSUME NEW n, NEW s, NEW h, NEW x \in Deinit(n, s, h)
  PROVE  /\ \A q, g : Concerns(x, q, g) <=> q = n /\ g = h
         /\ Phase(x) = "STOPPING"
         /\ \A y \in Deinit(n, s, h) : y = x
BY DEF Deinit, Concerns, Phase

\* mon.cpp: a measure is deactivated or destroyed by its careful user.
LEMMA StoppedCareful ==
  ASSUME MonRemoteAssumption, IInv, IInv', Careful, NEW n \in Nodes, NEW h \in Handles,
         IsValid(monl[n], h), ~Careless(monl[n], h),
         NEW t, Become(n, t), t = deactivateMeasure(monl[n], h) \/ t = monDestroyMeasure(monl[n], h),
         Send({}, IF Stops(monl[n], h) THEN Deinit(n, monl[n], h) ELSE {}, {}),
         active[n] \ active'[n] \subseteq {h},
         \A q \in Nodes \ {n} : active'[q] = active[q]
  PROVE  Careful'
<1> DEFINE s == monl[n]
           msgs == IF Stops(s, h) THEN Deinit(n, s, h) ELSE {}
<1>1. NodeOK(s) /\ s \in NodeState /\ monl'[n] = t /\ Types /\ Tidy(s, active[n])
      BY DEF IInv, NodesOK, NodeOK, Become, Types, Careful
<1>2. NodeOK(t)
      BY <1>1 DEF IInv, NodesOK
<1>3. \A x \in msgs : \A q, g : Concerns(x, q, g) <=> q = n /\ g = h
      BY DeinitConcerns
<1>4. Send({}, msgs, {})
      OBVIOUS
<1>5. CASE ~IsPaired(s.measures[h])
  <2>1. msgs = {}
        BY <1>5 DEF Deinit
  <2>2. Keeps(s, t)
    <3> HIDE DEF s
    <3>1. QED
          BY <1>1, <1>5, StoppedKeeps DEF s
  <2>3. \A q \in Nodes, g \in Handles : \A x : Exchange(q, g, x) => Exchange(q, g, x)'
        BY <1>1, <1>4, <2>1, ExchangeKept
  <2>4. \A g \in active[n] : HasCounterpart(s, g) => g \in active'[n]
        BY <1>5 DEF HasCounterpart
  <2>5. QED
        BY <1>2, <2>2, <2>3, <2>4, CarefulKept
<1>6. CASE IsPaired(s.measures[h])
  <2>1. HasCounterpart(s, h)
        BY <1>6 DEF HasCounterpart
  <2>2. Silent(n, h)
        BY <2>1, IdleWhenCareful
  <2>3. Tidy(t, active'[n]) /\ active[n] \ {h} \subseteq active'[n]
    <3>1. active[n] \ {h} \subseteq active'[n]
          OBVIOUS
    <3> HIDE DEF s
    <3>2. QED
          BY <1>1, <2>1, <3>1, StoppedTidy DEF s
  <2>4. /\ \A g \in Handles \ {h} : t.measures[g] = s.measures[g]
        /\ IsValid(t, h) /\ Stops(s, h) => t.measures[h].status = "STOPPING"
        /\ IsValid(t, h) /\ ~Stops(s, h) => t.measures[h] = s.measures[h]
    <3>1. s.measures[h] \in Measure /\ NodeOK(s) /\ IsValid(s, h)
          BY <1>1, ValidMeasure
    <3>2. t = deactivateMeasure(s, h) \/ t = monDestroyMeasure(s, h)
          OBVIOUS
    <3> HIDE DEF s
    <3>3. /\ \A g \in Handles \ {h} : t.measures[g] = s.measures[g]
          /\ t.lists = IF Stops(s, h)
                       THEN [s.lists EXCEPT ![KeyOf(s.measures[h])] = NoHandle] ELSE s.lists
          /\ IsValid(t, h) =>
               t.measures[h] =
                 IF Stops(s, h)
                 THEN [s.measures[h] EXCEPT !.status = IF IsPaired(s.measures[h])
                                                       THEN "STOPPING" ELSE "STOPPED"]
                 ELSE s.measures[h]
          BY <3>1, <3>2, StoppedFacts
    <3>4. QED
          BY <1>6, <3>1, <3>3 DEF Measure
  <2>5. \A g \in Handles \ {h} : HasCounterpart(t, g) =>
          HasCounterpart(s, g) /\ t.measures[g] = s.measures[g]
        BY <2>4 DEF HasCounterpart, IsValid
  <2>6. ASSUME NEW q \in Nodes, NEW g \in Handles, q # n \/ g # h
        PROVE  \A x : Exchange(q, g, x) => Exchange(q, g, x)'
    <3>1. \A x \in msgs : ~Concerns(x, q, g)
          BY <1>3, <2>6
    <3> HIDE DEF msgs
    <3>2. QED
          BY <1>1, <1>4, <3>1, ExchangeKept
  <2>7. PICK y : y = IF Stops(s, h) THEN "STOPPING" ELSE s.measures[h].status
        OBVIOUS
  <2>8. HasCounterpart(t, h) => t.measures[h].status = y
        BY <2>4, <2>7 DEF HasCounterpart
  <2>9. Exchange(n, h, y)'
    <3>1. CASE Stops(s, h)
      <4>1. \E x \in Deinit(n, s, h) : TRUE
            BY <1>6 DEF Deinit
      <4>2. PICK x \in Deinit(n, s, h) : TRUE
            BY <4>1
      <4>3. (\A z \in msgs : z = x) /\ Phase(x) = y
            BY <2>7, <3>1, <4>2, DeinitConcerns
      <4>4. QED
            BY <1>1, <1>4, <2>2, <4>3, ExchangeGoesOn DEF Silent
    <3>2. CASE ~Stops(s, h)
      <4>1. msgs = {}
            BY <3>2
      <4>2. Silent(n, h)'
            BY <1>1, <1>4, <2>2, <4>1, ExchangeKept
      <4>3. QED
            BY <4>2, SilentExchange
    <3>3. QED
          BY <3>1, <3>2
  <2> HIDE DEF msgs
  <2>10. QED
         BY <2>3, <2>5, <2>6, <2>8, <2>9, CarefulStep
<1>7. QED
      BY <1>5, <1>6

\* measure_dispatcher.cpp: what initRemoteMeasureTx sends is about its measure.
LEMMA InitConcerns ==
  ASSUME NEW n, NEW s, NEW h, NEW x \in InitRemote(n, s, h)
  PROVE  /\ \A q, g : Concerns(x, q, g) <=> q = n /\ g = h
         /\ Phase(x) = "INITIALISING"
         /\ \A y \in InitRemote(n, s, h) : y = x
BY DEF InitRemote, Concerns, Phase

\* A message about measure h of node n is sent, when none is in transit.
LEMMA BegunExchange ==
  ASSUME Types, NEW msgs, NEW K, Send({}, msgs, K), NEW n, NEW h, Silent(n, h),
         NEW x \in msgs, NEW y, Phase(x) = y, \A z \in msgs : z = x,
         \A q, g : Concerns(x, q, g) <=> q = n /\ g = h
  PROVE  /\ Exchange(n, h, y)'
         /\ \A q, g : q # n \/ g # h => \A z : Exchange(q, g, z) => Exchange(q, g, z)'
<1>1. Exchange(n, h, y)'
      BY ExchangeGoesOn DEF Silent
<1>2. ASSUME NEW q, NEW g, q # n \/ g # h
      PROVE  \A z : Exchange(q, g, z) => Exchange(q, g, z)'
  <2>1. \A m \in msgs : ~Concerns(m, q, g)
        BY <1>2
  <2>2. QED
        BY <2>1, ExchangeKept
<1>3. QED
      BY <1>1, <1>2

\* measure_dispatcher.cpp: a measure is put on the list of its stream by its careful user.
LEMMA AcceptedCareful ==
  ASSUME MonRemoteAssumption, IInv, IInv', Careful, NEW n \in Nodes, NEW h \in Handles,
         h \in held[n] \ active[n], IsValid(monl[n], h), NEW p \in Nodes, NEW y \in MsgTypes,
         ActivateAccepted(n, h, Aimed(monl[n], h, p, y)), careless' = FALSE
  PROVE  Careful'
<1> DEFINE s == monl[n]
           a == Aimed(s, h, p, y)
           l == Loaded(a, h)
           key == KeyOf(l.measures[h])
           u == stopMeasure(l, h)
<1>1. /\ NodeOK(s) /\ s \in NodeState /\ Types /\ ListedAsAimed(s, active[n])
      /\ StoppingUnlisted(s) /\ NoHandle \notin Handles
      BY HandleFacts DEF IInv, NodesOK, NodeOK, Careful, Tidy
<1>2. ~Occupied(a, KeyOf(a.measures[h])) /\ ~Careless(a, h)
      BY DEF ActivateAccepted
<1>3. /\ NodeOK(l) /\ l.measures[h] \in Measure /\ IsValid(l, h) /\ Listed(l, h)
      /\ ~l.measures[h].remote /\ l.measures[h].mid = s.measures[h].mid
      /\ l.measures[h].status = IF IsPaired(l.measures[h]) THEN "INITIALISING" ELSE "RUNNING"
      /\ l.lists[key] = h
      /\ IsValid(a, h) /\ a.lists = s.lists
      /\ a.measures[h].status = s.measures[h].status
      /\ KeyOf(a.measures[h]) = key
      /\ IsPaired(a.measures[h]) <=> IsPaired(l.measures[h])
      /\ \A g \in Handles \ {h} : a.measures[g] = s.measures[g] /\ l.measures[g] = s.measures[g]
      /\ \A k \in Key \ {key} : l.lists[k] = s.lists[k]
  <2> HIDE DEF s
  <2>1. QED
        BY <1>2, AcceptedFacts DEF s
<1>4. ~s.measures[h].remote /\ s.measures[h] \in Measure
      BY <1>1, ValidMeasure, ActivatedFacts
<1>5. IsPaired(l.measures[h]) <=> IsPaired(s.measures[h])
      BY <1>3, <1>4 DEF IsPaired
<1>6. \/ /\ Become(n, l) /\ Send({}, InitRemote(n, l, h), {"activate"})
         /\ active' = [active EXCEPT ![n] = @ \cup {h}]
      \/ /\ IsPaired(l.measures[h]) /\ Become(n, u)
         /\ Send({}, Deinit(n, l, h), {"activate"}) /\ UNCHANGED active
      BY DEF ActivateAccepted
<1>7. key \in Key /\ s.lists[key] = NoHandle
      BY <1>2, <1>3, MeasureFacts DEF Occupied
<1>8. \A k \in Key : ~OneSided(k) => s.lists[k] # h
      BY <1>1 DEF ListedAsAimed
<1>9. active \in [Nodes -> SUBSET Handles]
      BY <1>1 DEF Types
<1> HIDE DEF l
<1>10. CASE ~IsPaired(l.measures[h])
  <2>1. /\ Become(n, l) /\ Send({}, InitRemote(n, l, h), {"activate"})
        /\ active' = [active EXCEPT ![n] = @ \cup {h}]
        BY <1>6, <1>10
  <2>2. InitRemote(n, l, h) = {}
        BY <1>10 DEF InitRemote
  <2>3. OneSided(key)
        BY <1>3, <1>10, MeasureFacts
  <2>4. ~HasCounterpart(s, h) /\ ~HasCounterpart(l, h)
        BY <1>5, <1>10 DEF HasCounterpart
  <2>5. \A k \in Key : s.lists[k] \in Handles \cup {NoHandle}
        BY <1>1 DEF NodeState
  <2>6. Keeps(s, l)
        BY <1>3, <2>3, <2>4, <2>5, TouchKeeps
  <2>7. \A q \in Nodes, g \in Handles : \A x : Exchange(q, g, x) => Exchange(q, g, x)'
        BY <1>1, <2>1, <2>2, ExchangeKept
  <2>8. /\ \A g \in active[n] : HasCounterpart(s, g) => g \in active'[n]
        /\ \A q \in Nodes \ {n} : active'[q] = active[q]
        BY <1>9, <2>1
  <2>9. QED
        BY <1>3, <2>1, <2>6, <2>7, <2>8, CarefulKept
<1>11. ASSUME IsPaired(l.measures[h]),
              NEW t, Become(n, t), NEW x, t.measures[h].status = x,
              \A g \in Handles \ {h} : t.measures[g] = s.measures[g],
              t.measures[h] \in Measure, KeyOf(t.measures[h]) = key,
              \A k \in Key \ {key} : t.lists[k] = s.lists[k],
              \/ x = "INITIALISING" /\ t.lists[key] = h /\ h \in active'[n]
              \/ x = "STOPPING" /\ t.lists[key] = NoHandle,
              active[n] \subseteq active'[n], \A q \in Nodes \ {n} : active'[q] = active[q],
              NEW msgs, NEW K, Send({}, msgs, K),
              NEW m \in msgs, Phase(m) = x, \A z \in msgs : z = m,
              \A q, g : Concerns(m, q, g) <=> q = n /\ g = h
       PROVE  Careful'
  <2>1. HasCounterpart(s, h) /\ HasCounterpart(a, h)
        BY <1>3, <1>5, <1>11 DEF HasCounterpart
  <2>2. Silent(n, h)
        BY <1>2, <1>3, <2>1, IdleWhenCareful
  <2>3. /\ Exchange(n, h, x)'
        /\ \A q, g : q # n \/ g # h => \A z : Exchange(q, g, z) => Exchange(q, g, z)'
        BY <1>1, <1>11, <2>2, BegunExchange
  <2>4. \A g \in Handles \ {h} : HasCounterpart(t, g) =>
          HasCounterpart(s, g) /\ t.measures[g] = s.measures[g]
        BY <1>11 DEF HasCounterpart, IsValid
  <2>5. IsValid(t, h)
        BY <1>1, <1>11, MeasureFacts DEF IsValid
  <2>6. ListedAsAimed(t, active'[n])
    <3>1. SUFFICES ASSUME NEW k \in Key, NEW g \in Handles, ~OneSided(k), t.lists[k] = g
                   PROVE  /\ IsValid(t, g) /\ KeyOf(t.measures[g]) = k /\ g \in active'[n]
                          /\ t.measures[g].status \in {"INITIALISING", "RUNNING", "RFAILED"}
          BY DEF ListedAsAimed
    <3>2. CASE k = key
          BY <1>1, <1>11, <2>5, <3>1, <3>2
    <3>3. CASE k # key
      <4>1. s.lists[k] = g /\ g # h
            BY <1>8, <1>11, <3>1, <3>3
      <4>2. /\ IsValid(s, g) /\ KeyOf(s.measures[g]) = k /\ g \in active[n]
            /\ s.measures[g].status \in {"INITIALISING", "RUNNING", "RFAILED"}
            BY <1>1, <3>1, <4>1 DEF ListedAsAimed
      <4>3. QED
            BY <1>11, <4>1, <4>2 DEF IsValid
    <3>4. QED
          BY <3>2, <3>3
  <2>7. StoppingUnlisted(t)
    <3>1. SUFFICES ASSUME NEW g \in Handles, HasCounterpart(t, g),
                          t.measures[g].status = "STOPPING"
                   PROVE  ~Listed(t, g)
          BY DEF StoppingUnlisted
    <3>2. CASE g = h
          BY <1>11, <3>1, <3>2 DEF Listed
    <3>3. CASE g # h
      <4>1. HasCounterpart(s, g) /\ t.measures[g] = s.measures[g]
            BY <2>4, <3>1, <3>3
      <4>2. ~Listed(s, g)
            BY <1>1, <3>1, <4>1 DEF StoppingUnlisted
      <4>3. s.measures[g] \in Measure /\ KeyOf(s.measures[g]) \in Key
            BY <1>1, <4>1, ValidMeasure, MeasureFacts DEF HasCounterpart
      <4>4. KeyOf(s.measures[g]) # key
        <5>1. SUFFICES ASSUME KeyOf(s.measures[g]) = key PROVE FALSE
              OBVIOUS
        <5>2. OriginOf(a.measures[g]) = OriginOf(a.measures[h]) /\ a.measures[g] = s.measures[g]
              BY <1>3, <3>3, <5>1 DEF KeyOf, OriginOf
        <5>3. IsValid(a, g) /\ IsPaired(a.measures[g]) /\ a.measures[g].status = "STOPPING"
              BY <3>1, <4>1, <5>2 DEF HasCounterpart, IsValid
        <5>4. QED
              BY <1>2, <5>2, <5>3 DEF Careless
      <4>5. QED
            BY <1>11, <4>1, <4>2, <4>3, <4>4 DEF Listed
    <3>4. QED
          BY <3>2, <3>3
  <2>8. Tidy(t, active'[n])
        BY <2>6, <2>7 DEF Tidy
  <2>9. QED
        BY <1>11, <2>3, <2>4, <2>8, CarefulStep
<1>12. CASE /\ IsPaired(l.measures[h])
            /\ Become(n, l) /\ Send({}, InitRemote(n, l, h), {"activate"})
            /\ active' = [active EXCEPT ![n] = @ \cup {h}]
  <2>1. PICK m \in InitRemote(n, l, h) : TRUE
        BY <1>12 DEF InitRemote
  <2>2. /\ Phase(m) = "INITIALISING" /\ \A z \in InitRemote(n, l, h) : z = m
        /\ \A q, g : Concerns(m, q, g) <=> q = n /\ g = h
        BY <2>1, InitConcerns
  <2>3. /\ h \in active'[n] /\ active[n] \subseteq active'[n]
        /\ \A q \in Nodes \ {n} : active'[q] = active[q]
        BY <1>9, <1>12
  <2>4. QED
        BY <1>3, <1>11, <1>12, <2>1, <2>2, <2>3
<1>13. CASE /\ IsPaired(l.measures[h]) /\ Become(n, u)
            /\ Send({}, Deinit(n, l, h), {"activate"}) /\ UNCHANGED active
  <2>1. PICK m \in Deinit(n, l, h) : TRUE
        BY <1>13 DEF Deinit
  <2>2. /\ Phase(m) = "STOPPING" /\ \A z \in Deinit(n, l, h) : z = m
        /\ \A q, g : Concerns(m, q, g) <=> q = n /\ g = h
        BY <2>1, DeinitConcerns
  <2>3. /\ u.measures = [l.measures EXCEPT ![h].status = "STOPPING"]
        /\ u.lists = [l.lists EXCEPT ![key] = NoHandle]
        BY <1>3, <1>13, StopOK
  <2>4. l \in NodeState
        BY <1>3 DEF NodeOK
  <2> HIDE DEF u
  <2>5. /\ u.measures[h] = [l.measures[h] EXCEPT !.status = "STOPPING"]
        /\ \A g \in Handles \ {h} : u.measures[g] = s.measures[g]
        /\ u.lists[key] = NoHandle /\ \A k \in Key \ {key} : u.lists[k] = s.lists[k]
        BY <1>3, <1>7, <2>3, <2>4 DEF NodeState
  <2>6. /\ u.measures[h] \in Measure /\ KeyOf(u.measures[h]) = key
        /\ u.measures[h].status = "STOPPING"
        BY <1>3, <2>5 DEF Measure, Statuses, KeyOf
  <2>7. /\ active[n] \subseteq active'[n] /\ \A q \in Nodes \ {n} : active'[q] = active[q]
        /\ Become(n, u) /\ Send({}, Deinit(n, l, h), {"activate"})
        BY <1>13
  <2>8. PICK t : t = u
        OBVIOUS
  <2>9. PICK z : z = "STOPPING"
        OBVIOUS
  <2>10. /\ Become(n, t) /\ t.measures[h].status = z
         /\ \A g \in Handles \ {h} : t.measures[g] = s.measures[g]
         /\ t.measures[h] \in Measure /\ KeyOf(t.measures[h]) = key
         /\ \A k \in Key \ {key} : t.lists[k] = s.lists[k]
         /\ z = "STOPPING" /\ t.lists[key] = NoHandle
         BY <2>5, <2>6, <2>7, <2>8, <2>9
  <2>11. IsPaired(l.measures[h]) /\ m \in Deinit(n, l, h) /\ Phase(m) = z
         BY <1>13, <2>1, <2>2, <2>9
  <2> HIDE DEF key, s
  <2>12. QED
         BY <1>11, <2>2, <2>7, <2>10, <2>11
<1>14. QED
       BY <1>6, <1>10, <1>12, <1>13

\* mon.cpp: monActivateMeasure, monDeactivateMeasure and monDestroyMeasure.
LEMMA CallCareful ==
  ASSUME MonRemoteAssumption, IInv, IInv', Careful, careless' = FALSE,
         NEW n \in Nodes, NEW h \in Handles,
         \/ \E p \in Nodes, y \in MsgTypes : monActivateMeasure(n, h, p, y)
         \/ monDeactivateMeasure(n, h)
         \/ monDestroyMeasureCall(n, h)
  PROVE  Careful'
<1>1. active \in [Nodes -> SUBSET Handles] /\ NodeOK(monl[n])
      BY DEF IInv, Types, NodesOK
<1>2. CASE \E p \in Nodes, y \in MsgTypes : monActivateMeasure(n, h, p, y)
      BY <1>2, AcceptedCareful DEF monActivateMeasure, ActivateRejected
<1>3. CASE monDeactivateMeasure(n, h) \/ monDestroyMeasureCall(n, h)
  <2>1. active' = [active EXCEPT ![n] = @ \ {h}]
        BY <1>3 DEF monDeactivateMeasure, monDestroyMeasureCall
  <2>2. /\ active[n] \ active'[n] \subseteq {h}
        /\ \A q \in Nodes \ {n} : active'[q] = active[q]
        BY <1>1, <2>1
  <2>3. CASE IsValid(monl[n], h)
    <3>1. PICK t : /\ t = deactivateMeasure(monl[n], h) \/ t = monDestroyMeasure(monl[n], h)
                   /\ Become(n, t) /\ ~Careless(monl[n], h)
                   /\ Send({}, IF Stops(monl[n], h) THEN Deinit(n, monl[n], h) ELSE {}, {})
          BY <1>3, <2>3 DEF monDeactivateMeasure, monDestroyMeasureCall
    <3>2. QED
          BY <2>2, <2>3, <3>1, StoppedCareful
  <2>4. CASE ~IsValid(monl[n], h)
    <3>1. UNCHANGED <<monl, net>>
          BY <1>3, <2>4 DEF monDeactivateMeasure, monDestroyMeasureCall
    <3>2. Become(n, monl[n])
          BY <3>1 DEF Become, IInv, Types
    <3>3. Keeps(monl[n], monl[n])
          BY <1>1, CrashKeeps
    <3>4. \A q \in Nodes, g \in Handles : \A x : Exchange(q, g, x) => Exchange(q, g, x)'
          BY <3>1 DEF Exchange
    <3>5. \A g \in active[n] : HasCounterpart(monl[n], g) => g \in active'[n]
          BY <2>2, <2>4 DEF HasCounterpart
    <3>6. QED
          BY <1>1, <2>2, <3>2, <3>3, <3>4, <3>5, CarefulKept
  <2>5. QED
        BY <2>3, <2>4
<1>4. QED
      BY <1>2, <1>3

-----------------------------------------------------------------------------
(* Messages between careful users' nodes.                                   *)

\* A message that answers the one that was read is of the same exchange.
LEMMA AnswerGoesOn ==
  ASSUME Types, NEW m \in DOMAIN net, NEW msgs, NEW K, Send({m}, msgs, K),
         NEW y, \A z \in msgs : z = y, Phase(y) = Phase(m),
         \A q, h : Concerns(y, q, h) => Concerns(m, q, h)
  PROVE  \A q, h, x : Exchange(q, h, x) => Exchange(q, h, x)'
<1>1. SUFFICES ASSUME NEW q, NEW h, NEW x, Exchange(q, h, x) PROVE Exchange(q, h, x)'
      OBVIOUS
<1>2. CASE Concerns(m, q, h)
  <2>1. /\ Phase(m) = x
        /\ \A o \in DOMAIN net : Concerns(o, q, h) => o \in {m} /\ net[o] = 1
        BY <1>1, <1>2 DEF Exchange
  <2>2. Phase(y) = x /\ \A z \in msgs : Concerns(z, q, h) => z = y
        BY <2>1
  <2>3. QED
        BY <2>1, <2>2, ExchangeGoesOn
<1>3. CASE ~Concerns(m, q, h)
  <2>1. \A z \in msgs : ~Concerns(z, q, h)
        BY <1>3
  <2>2. QED
        BY <1>1, <2>1, ExchangeKept
<1>4. QED
      BY <1>2, <1>3

\* A node that leaves every measure with a counterpart alone reads a message, and
\* answers it if at all.
LEMMA ReceivedCareful ==
  ASSUME MonRemoteAssumption, IInv, Careful, NEW n \in Nodes, NEW t, Become(n, t), NodeOK(t),
         Keeps(monl[n], t), UNCHANGED active,
         NEW m \in DOMAIN net, NEW msgs, NEW K, Send({m}, msgs, K),
         NEW y, \A z \in msgs : z = y, Phase(y) = Phase(m),
         \A q, h : Concerns(y, q, h) => Concerns(m, q, h)
  PROVE  Careful'
<1>1. \A q, h, x : Exchange(q, h, x) => Exchange(q, h, x)'
      BY AnswerGoesOn DEF IInv
<1>2. QED
      BY <1>1, CarefulKept

\* measure_dispatcher.cpp: a counterpart that makes way for another.
LEMMA DisplacedKeeps ==
  ASSUME MonRemoteAssumption, NEW s, NodeOK(s), NEW key \in Key, key.remote
  PROVE  Keeps(s, Displaced(s, s.lists[key]))
<1>1. s \in NodeState /\ OneSided(key) /\ NoHandle \notin Handles
      BY HandleFacts DEF NodeOK, OneSided
<1>2. PICK prev \in Handles \cup {NoHandle} : prev = s.lists[key]
      BY <1>1 DEF NodeState
<1>3. CASE prev = NoHandle
      BY <1>2, <1>3, CrashKeeps DEF Displaced
<1>4. CASE prev # NoHandle
  <2>1. prev \in Handles /\ OnList(s, prev, key)
        BY <1>1, <1>2, <1>4 DEF NodeOK
  <2>2. IsValid(s, prev) /\ s.measures[prev] \in Measure
        BY <1>1, <2>1, ValidMeasure DEF OnList
  <2>3. ~IsPaired(s.measures[prev])
        BY <1>1, <2>1, <2>2, MeasureFacts DEF OnList
  <2>4. PICK t : t = monDestroyMeasure(s, prev)
        OBVIOUS
  <2>5. Keeps(s, t)
        BY <2>1, <2>2, <2>3, <2>4, StoppedKeeps
  <2>6. QED
        BY <1>2, <1>4, <2>4, <2>5 DEF Displaced
<1>5. QED
      BY <1>3, <1>4

\* measure_dispatcher.cpp: a counterpart that is made, and put on its list.
LEMMA CounterpartKeeps ==
  ASSUME MonRemoteAssumption, NEW s, NodeOK(s), s.next # NoHandle,
         NEW mid \in Plugins, NEW mh \in Handles, NEW p \in Nodes, NEW y \in MsgTypes,
         ~Occupied(s, CounterpartKey(p, y, mid)), NEW c, c = NewCounterpart(s, mid, mh),
         NEW l, l = Loaded(Aimed(c, s.next, p, y), s.next)
  PROVE  Keeps(s, c) /\ Keeps(s, l)
<1>1. PICK r : r = s.next
      OBVIOUS
<1>2. /\ r \in Handles /\ IsValid(l, r) /\ l.measures[r].remote
      /\ \A k \in Key : ~OneSided(k) => l.lists[k] = s.lists[k]
      /\ \A g \in Handles \ {r} : l.measures[g] = s.measures[g]
      BY <1>1, CounterpartOK
<1>3. /\ c.lists = s.lists /\ c.measures[r].remote
      /\ \A g \in Handles \ {r} : c.measures[g] = s.measures[g]
  <2>1. PICK remote \in BOOLEAN : remote = TRUE
        OBVIOUS
  <2>2. c = Created(s, mid, remote, mh) /\ mh \in Handles \cup {NoHandle} /\ Nodes # {}
        BY <2>1 DEF NewCounterpart
  <2>3. /\ c.lists = s.lists /\ c.measures[s.next].remote = remote
        /\ \A g \in Handles \ {s.next} : c.measures[g] = s.measures[g]
        BY <2>2, CreatedOK
  <2>4. QED
        BY <1>1, <2>1, <2>3
<1>4. s \in NodeState /\ r \notin Given(s)
      BY <1>1, HandleFacts DEF NodeOK
<1>5. ~IsValid(s, r)
      BY <1>2, <1>4 DEF NodeOK
<1>6. ~HasCounterpart(s, r) /\ ~HasCounterpart(c, r) /\ ~HasCounterpart(l, r)
      BY <1>2, <1>3, <1>5 DEF HasCounterpart, IsPaired
<1>7. \A k \in Key : s.lists[k] \in Handles \cup {NoHandle}
      BY <1>4 DEF NodeState
<1>8. Keeps(s, c)
      BY <1>3, <1>6, <1>7, TouchKeeps
<1>9. Keeps(s, l)
      BY <1>2, <1>6, <1>7, TouchKeeps
<1>10. QED
       BY <1>8, <1>9

\* measure_dispatcher.cpp: initRemoteMeasureRx touches no measure of the user's.
LEMMA InitRxCareful ==
  ASSUME MonRemoteAssumption, IInv, IInv', Careful, NEW m, BagIn(m, net),
         initRemoteMeasureRx(m), UNCHANGED active
  PROVE  Careful'
<1> DEFINE n == m.dst
           q == m.src
           key == [dst |-> m.src, msg_type |-> m.msg_type, mid |-> m.mid, remote |-> TRUE]
           s == Displaced(monl[n], monl[n].lists[key])
           c == Created(s, m.mid, TRUE, m.mh_local)
           r == s.next
           l == Loaded(Aimed(c, r, m.src, m.msg_type), r)
<1>1. /\ m \in Message /\ n \in Nodes /\ q \in Nodes /\ m.type = "INIT" /\ m \in DOMAIN net
      /\ Types
      BY ArrivedFacts DEF initRemoteMeasureRx, BagIn, BagToSet, IInv
<1>2. m.mid \in Plugins /\ m.msg_type \in MsgTypes /\ m.mh_local \in Handles
      BY <1>1 DEF Message
<1>3. s.next # NoHandle
      BY DEF initRemoteMeasureRx
<1>4. \/ /\ Become(n, l)
         /\ Send({m}, {Response(n, q, "INIT", m.mh_local, r, TRUE)}, {})
      \/ /\ Become(n, s)
         /\ Send({m}, {Response(n, q, "INIT", m.mh_local, NoHandle, FALSE)}, {"other"})
      \/ /\ Become(n, c)
         /\ Send({m}, {Response(n, q, "INIT", m.mh_local, r, FALSE)}, {"other"})
      BY DEF initRemoteMeasureRx
<1>5. NodeOK(monl[n])
      BY <1>1 DEF IInv, NodesOK
<1>6. key \in Key /\ key.remote
      BY <1>1, <1>2 DEF Key
<1>7. NodeOK(s) /\ ~Occupied(s, key) /\ Keeps(monl[n], s)
      BY <1>5, <1>6, DisplacedOK, DisplacedKeeps
<1>8. /\ c = NewCounterpart(s, m.mid, m.mh_local)
      /\ l = Loaded(Aimed(c, s.next, q, m.msg_type), s.next)
      /\ key = CounterpartKey(q, m.msg_type, m.mid)
      BY DEF NewCounterpart, CounterpartKey
<1> HIDE DEF s, c, key, l
<1>9. NodeOK(c) /\ NodeOK(l) /\ Keeps(s, c) /\ Keeps(s, l)
      BY ONLY <1>1, <1>2, <1>3, <1>7, <1>8, CounterpartOK, CounterpartKeeps, MonRemoteAssumption
<1>10. Keeps(monl[n], c) /\ Keeps(monl[n], l)
       BY <1>7, <1>9, KeepsTransitive
<1> HIDE DEF r
<1>11. PICK t, mh, ok, K : /\ Become(n, t) /\ NodeOK(t) /\ Keeps(monl[n], t)
                           /\ Send({m}, {Response(n, q, "INIT", m.mh_local, mh, ok)}, K)
       BY <1>4, <1>7, <1>9, <1>10
<1>12. PICK y : y = Response(n, q, "INIT", m.mh_local, mh, ok)
       OBVIOUS
<1>13. Phase(y) = Phase(m) /\ \A p, g : Concerns(y, p, g) => Concerns(m, p, g)
  <2>1. /\ y.type = "RESPONSE" /\ y.command = "INIT" /\ y.dst = q /\ y.mh_remote = m.mh_local
        BY <1>12 DEF Response
  <2>2. QED
        BY <1>1, <2>1 DEF Phase, Concerns
<1>14. Send({m}, {y}, K) /\ \A z \in {y} : z = y
       BY <1>11, <1>12
<1>15. QED
       BY <1>1, <1>11, <1>13, <1>14, ReceivedCareful

\* measure_dispatcher.cpp: deinitRemoteMeasureRx ends counterparts only.
LEMMA DeinitRxCareful ==
  ASSUME MonRemoteAssumption, IInv, IInv', Careful, NEW m, BagIn(m, net),
         deinitRemoteMeasureRx(m), UNCHANGED active, ~Misnames(m)
  PROVE  Careful'
<1> DEFINE n == m.dst
           q == m.src
           s == monl[n]
           h == m.mh_remote
           Answer(ok) == {Response(n, q, "DEINIT", m.mh_local, h, ok)}
                         \cup (IF Stops(s, h) THEN Deinit(n, s, h) ELSE {})
<1>1. /\ m \in Message /\ n \in Nodes /\ q \in Nodes /\ m.type = "DEINIT" /\ m \in DOMAIN net
      /\ h \in Handles \cup {NoHandle} /\ NodeOK(s) /\ Types
  <2>1. m \in Message /\ n \in Nodes /\ q \in Nodes /\ m.type = "DEINIT" /\ m \in DOMAIN net
        BY ArrivedFacts DEF deinitRemoteMeasureRx, BagIn, BagToSet
  <2>2. QED
        BY <2>1 DEF IInv, NodesOK, Message
<1>2. \/ Become(n, s) /\ Send({m}, {}, {})
      \/ /\ IsValid(s, h) /\ Become(n, monDestroyMeasure(s, h))
         /\ Send({m}, Answer(TRUE), {})
      \/ /\ IsValid(s, h) /\ Become(n, deactivateMeasure(s, h))
         /\ Send({m}, Answer(FALSE), {})
      BY DEF deinitRemoteMeasureRx
<1>3. CASE Become(n, s) /\ Send({m}, {}, {})
  <2>1. Keeps(s, s)
        BY <1>1, CrashKeeps
  <2>2. QED
        BY <1>1, <1>3, <2>1, ReceivedCareful
<1>4. ASSUME IsValid(s, h), NEW t, Become(n, t),
             t = monDestroyMeasure(s, h) \/ t = deactivateMeasure(s, h),
             NEW ok, Send({m}, Answer(ok), {})
      PROVE  Careful'
  <2>1. h \in Handles /\ ~IsPaired(s.measures[h])
        BY <1>1, <1>4 DEF IsValid, Misnames, IsPaired
  <2>2. Keeps(s, t)
    <3> HIDE DEF s, h
    <3>1. t = deactivateMeasure(s, h) \/ t = monDestroyMeasure(s, h)
          BY <1>4
    <3>2. QED
          BY <1>1, <1>4, <2>1, <3>1, StoppedKeeps
  <2>3. NodeOK(t)
        BY <1>1, <1>4 DEF Become, Types, IInv, NodesOK
  <2>4. PICK y : y = Response(n, q, "DEINIT", m.mh_local, h, ok)
        OBVIOUS
  <2>5. Answer(ok) = {y}
        BY <2>1, <2>4 DEF Deinit
  <2>6. Phase(y) = Phase(m) /\ \A p, g : Concerns(y, p, g) => Concerns(m, p, g)
    <3>1. /\ y.type = "RESPONSE" /\ y.command = "DEINIT"
          /\ y.dst = q /\ y.mh_remote = m.mh_local
          BY <2>4 DEF Response
    <3>2. QED
          BY <1>1, <3>1 DEF Phase, Concerns
  <2>7. Send({m}, {y}, {}) /\ \A z \in {y} : z = y
        BY <1>4, <2>5
  <2> HIDE DEF Answer
  <2>8. QED
        BY <1>1, <1>4, <2>2, <2>3, <2>6, <2>7, ReceivedCareful
<1> HIDE DEF Answer
<1>5. QED
      BY <1>2, <1>3, <1>4

\* A measure whose exchange is over.
LEMMA AnsweredCareful ==
  ASSUME MonRemoteAssumption, IInv, Careful, NEW n \in Nodes, NEW h \in Handles,
         HasCounterpart(monl[n], h), NEW t, Become(n, t), NodeOK(t), UNCHANGED active,
         t.lists = monl[n].lists,
         \A g \in Handles \ {h} : t.measures[g] = monl[n].measures[g],
         NEW x \in {"RUNNING", "RFAILED"}, Restates(monl[n].measures[h], t.measures[h], x),
         NEW m \in DOMAIN net, Concerns(m, n, h),
         \A q \in Nodes, g \in Handles : Concerns(m, q, g) => q = n /\ g = h,
         Send({m}, {}, {})
  PROVE  Careful'
<1> DEFINE s == monl[n]
<1>1. s \in NodeState /\ t \in NodeState /\ Types /\ ListedAsAimed(s, active[n])
      /\ StoppingUnlisted(s) /\ NoHandle \notin Handles
      BY HandleFacts DEF IInv, NodesOK, NodeOK, Careful, Tidy
<1>2. /\ Exchange(n, h, s.measures[h].status)
      /\ \A q, g, z : Exchange(q, g, z) => Exchange(q, g, z)'
      /\ \A z : Exchange(n, h, z) => Silent(n, h)'
      BY <1>1, ExchangeKept DEF Careful
<1>3. Exchange(n, h, x)'
      BY <1>2, SilentExchange
<1>4. /\ t.measures[h].status = x /\ KeyOf(t.measures[h]) = KeyOf(s.measures[h])
      /\ IsValid(t, h)
      BY <1>1, ValidMeasure DEF Restates
<1>5. \A g \in Handles \ {h} : HasCounterpart(t, g) =>
        HasCounterpart(s, g) /\ t.measures[g] = s.measures[g]
      BY DEF HasCounterpart, IsValid
<1>6. ListedAsAimed(t, active'[n])
  <2>1. SUFFICES ASSUME NEW k \in Key, NEW g \in Handles, ~OneSided(k), t.lists[k] = g
                 PROVE  /\ IsValid(t, g) /\ KeyOf(t.measures[g]) = k /\ g \in active[n]
                        /\ t.measures[g].status \in {"INITIALISING", "RUNNING", "RFAILED"}
        BY DEF ListedAsAimed
  <2>2. /\ IsValid(s, g) /\ KeyOf(s.measures[g]) = k /\ g \in active[n]
        /\ s.measures[g].status \in {"INITIALISING", "RUNNING", "RFAILED"}
        BY <1>1, <2>1 DEF ListedAsAimed
  <2>3. QED
        BY <1>4, <2>2 DEF IsValid
<1>7. StoppingUnlisted(t)
  <2>1. SUFFICES ASSUME NEW g \in Handles, HasCounterpart(t, g),
                        t.measures[g].status = "STOPPING"
                 PROVE  ~Listed(t, g)
        BY DEF StoppingUnlisted
  <2>2. g # h
        BY <1>4, <2>1
  <2>3. ~Listed(s, g) /\ t.measures[g] = s.measures[g]
        BY <1>1, <1>5, <2>1, <2>2 DEF StoppingUnlisted
  <2>4. QED
        BY <2>3 DEF Listed
<1>8. Tidy(t, active'[n])
      BY <1>6, <1>7 DEF Tidy
<1>9. QED
      BY <1>2, <1>3, <1>4, <1>5, <1>8, CarefulStep

\* measure_dispatcher.cpp: remoteMeasureResponseRx finds the measure waiting for the
\* answer, and off its list when it was stopped.
LEMMA ResponseRxCareful ==
  ASSUME MonRemoteAssumption, IInv, IInv', Careful, NEW m, BagIn(m, net),
         remoteMeasureResponseRx(m), UNCHANGED active
  PROVE  Careful'
<1> DEFINE n == m.dst
           s == monl[n]
           h == m.mh_remote
           msgs == IF m.ok /\ s.measures[h].status = "STOPPING" /\ Listed(s, h)
                   THEN Deinit(n, s, h) ELSE {}
<1>1. /\ m \in Message /\ MessageOK(m) /\ n \in Nodes /\ m.type = "RESPONSE"
      /\ m \in DOMAIN net
      BY ArrivedFacts DEF remoteMeasureResponseRx, BagIn, BagToSet
<1>2. h \in Handles /\ Owns(n, h) /\ m.command \in {"INIT", "DEINIT"}
      BY <1>1 DEF Message, MessageOK
<1>3. NodeOK(s) /\ s \in NodeState /\ Types
      BY <1>1 DEF IInv, NodesOK, NodeOK
<1>4. \/ ~IsValid(s, h) /\ Become(n, s) /\ Send({m}, {}, {})
      \/ /\ IsValid(s, h) /\ m.command = "INIT"
         /\ Become(n, InitAnswered(s, m)) /\ Send({m}, {}, {})
      \/ /\ IsValid(s, h) /\ m.command = "DEINIT"
         /\ Become(n, DeinitAnswered(s, m)) /\ Send({m}, msgs, {})
      BY DEF remoteMeasureResponseRx
<1>5. /\ Concerns(m, n, h)
      /\ \A q \in Nodes, g \in Handles : Concerns(m, q, g) => q = n /\ g = h
      BY <1>1 DEF Concerns
<1>6. IsValid(s, h) => /\ HasCounterpart(s, h)
                       /\ s.measures[h].status = Phase(m)
  <2>1. SUFFICES ASSUME IsValid(s, h)
                 PROVE  HasCounterpart(s, h) /\ s.measures[h].status = Phase(m)
        OBVIOUS
  <2>2. HasCounterpart(s, h)
        BY <1>2, <2>1 DEF Owns, HasCounterpart
  <2>3. Exchange(n, h, s.measures[h].status)
        BY <1>1, <1>2, <2>2 DEF Careful
  <2>4. QED
        BY <1>1, <1>5, <2>2, <2>3 DEF Exchange
<1>7. CASE ~IsValid(s, h) /\ Become(n, s) /\ Send({m}, {}, {})
  <2>1. Keeps(s, s)
        BY <1>3, CrashKeeps
  <2>2. QED
        BY <1>1, <1>3, <1>7, <2>1, ReceivedCareful
<1>8. CASE /\ IsValid(s, h) /\ m.command = "INIT"
           /\ Become(n, InitAnswered(s, m)) /\ Send({m}, {}, {})
  <2>1. PICK t : t = InitAnswered(s, m)
        OBVIOUS
  <2>2. IsPaired(s.measures[h])
        BY <1>6, <1>8 DEF HasCounterpart
  <2>3. PICK x \in {"RUNNING", "RFAILED"} : x = IF m.ok THEN "RUNNING" ELSE "RFAILED"
        OBVIOUS
  <2>4. /\ NodeOK(t) /\ t.lists = s.lists
        /\ Restates(s.measures[h], t.measures[h], x)
        /\ \A g \in Handles \ {h} : t.measures[g] = s.measures[g]
        BY <1>1, <1>2, <1>3, <1>8, <2>1, <2>2, <2>3, InitAnsweredOK
  <2>5. Become(n, t)
        BY <1>8, <2>1
  <2>6. QED
        BY <1>1, <1>2, <1>5, <1>6, <1>8, <2>4, <2>5, AnsweredCareful
<1>9. CASE /\ IsValid(s, h) /\ m.command = "DEINIT"
           /\ Become(n, DeinitAnswered(s, m)) /\ Send({m}, msgs, {})
  <2>1. HasCounterpart(s, h) /\ s.measures[h].status = "STOPPING"
        BY <1>1, <1>6, <1>9 DEF Phase
  <2>2. ~Listed(s, h)
        BY <1>1, <1>2, <2>1 DEF Careful, Tidy, StoppingUnlisted
  <2>3. msgs = {}
        BY <2>2
  <2>4. Send({m}, {}, {})
        BY <1>9, <2>3
  <2>5. CASE m.ok
    <3>1. Become(n, Crashed(s))
          BY <1>9, <2>1, <2>2, <2>5 DEF DeinitAnswered
    <3>2. Keeps(s, Crashed(s)) /\ NodeOK(Crashed(s))
          BY <1>3, CrashKeeps, CrashedOK
    <3>3. QED
          BY <1>1, <2>4, <3>1, <3>2, ReceivedCareful
  <2>6. CASE ~m.ok
    <3>1. PICK t : t = [s EXCEPT !.measures[h].status = "RFAILED"]
          OBVIOUS
    <3>2. Become(n, t)
          BY <1>9, <2>6, <3>1 DEF DeinitAnswered
    <3>3. s.measures[h] \in Measure
          BY <1>2, <1>3, <1>9, ValidMeasure
    <3>4. /\ t.measures[h] = [s.measures[h] EXCEPT !.status = "RFAILED"]
          /\ t.lists = s.lists /\ \A g \in Handles \ {h} : t.measures[g] = s.measures[g]
          BY <1>2, <1>3, <3>1 DEF NodeState
    <3>5. Restates(s.measures[h], t.measures[h], "RFAILED")
          BY <3>3, <3>4 DEF Restates, Measure, Statuses, KeyOf, IsPaired
    <3>6. NodeOK(t)
          BY <1>1, <1>3, <3>2 DEF Become, Types, IInv, NodesOK
    <3>7. QED
          BY <1>1, <1>2, <1>5, <2>1, <2>4, <3>2, <3>4, <3>5, <3>6, AnsweredCareful
  <2>7. QED
        BY <2>5, <2>6
<1> HIDE DEF msgs
<1>10. QED
       BY <1>4, <1>7, <1>8, <1>9

\* The node receives a message.
LEMMA ReceiveCareful ==
  ASSUME MonRemoteAssumption, IInv, IInv', Careful, careless' = FALSE, NEW m,
         receiveCtrlMsg(m)
  PROVE  Careful'
<1>1. BagIn(m, net) /\ UNCHANGED active /\ ~Misnames(m)
      BY DEF receiveCtrlMsg
<1>2. CASE initRemoteMeasureRx(m)
      BY <1>1, <1>2, InitRxCareful
<1>3. CASE deinitRemoteMeasureRx(m)
      BY <1>1, <1>3, DeinitRxCareful
<1>4. CASE remoteMeasureResponseRx(m)
      BY <1>1, <1>4, ResponseRxCareful
<1>5. CASE remoteResultsRx(m)
  <2>1. /\ m \in DOMAIN net /\ m.dst \in Nodes /\ Send({m}, {}, {}) /\ UNCHANGED monl
        BY <1>1, <1>5, ArrivedFacts DEF remoteResultsRx, BagIn, BagToSet
  <2>2. PICK n \in Nodes : n = m.dst
        BY <2>1
  <2>3. NodeOK(monl[n]) /\ Become(n, monl[n])
        BY <2>1 DEF Become, IInv, Types, NodesOK
  <2>4. Keeps(monl[n], monl[n])
        BY <2>3, CrashKeeps
  <2>5. QED
        BY <1>1, <2>1, <2>3, <2>4, ReceivedCareful
<1>6. QED
      BY <1>2, <1>3, <1>4, <1>5 DEF receiveCtrlMsg

\* measure_dispatcher.cpp: cbRxPkt and its kind.
LEMMA PacketCareful ==
  ASSUME MonRemoteAssumption, IInv, IInv', Careful, NEW n \in Nodes, NEW p \in Nodes,
         NEW y \in MsgTypes, Packet(n, p, y)
  PROVE  Careful'
<1>1. NodeOK(monl[n]) /\ Types /\ UNCHANGED active
      BY PacketCases DEF IInv, NodesOK
<1>2. PICK t, msgs : /\ Become(n, t) /\ Keeps(monl[n], t) /\ NodeOK(t)
                     /\ Send({}, msgs, {"other"})
                     /\ \A x \in msgs : x.type = "RESULTS"
  <2>1. CASE Become(n, Crashed(monl[n])) /\ Send({}, {}, {"other"})
        BY <1>1, <2>1, CrashKeeps, CrashedOK
  <2>2. CASE UNCHANGED monl /\ Send({}, Told(n, monl[n], p, y), {"other"})
    <3>1. Become(n, monl[n]) /\ Keeps(monl[n], monl[n])
          BY <1>1, <2>2, CrashKeeps DEF Become, Types
    <3>2. \A x \in Told(n, monl[n], p, y) : x.type = "RESULTS"
          BY DEF Told
    <3>3. QED
          BY <1>1, <2>2, <3>1, <3>2
  <2>3. QED
        BY <2>1, <2>2, PacketCases
<1>3. \A q, g : \A x \in msgs : ~Concerns(x, q, g)
      BY <1>2 DEF Concerns
<1>4. \A q, g, x : Exchange(q, g, x) => Exchange(q, g, x)'
      BY <1>1, <1>2, <1>3, ExchangeKept
<1>5. QED
      BY <1>1, <1>2, <1>4, CarefulKept

-----------------------------------------------------------------------------
(* What careful users' measures measure.                                    *)

OfStream == \A x \in samples : x.origin = x.wanted
CarefulInv == ~careless => Careful /\ OfStream

\* A measure that is listed as it is aimed measures its stream.
LEMMA SeenAsAimed ==
  ASSUME MonRemoteAssumption, IInv, Careful, NEW n \in Nodes, NEW p \in Nodes,
         NEW y \in MsgTypes,
         \A h \in On(monl[n], p, y, FALSE) : monl[n].measures[h] # NoMeasure,
         NEW x \in Seen(n, monl[n], p, y)
  PROVE  x.origin = x.wanted
<1> DEFINE s == monl[n]
<1>1. NodeOK(s) /\ s \in NodeState /\ ListedAsAimed(s, active[n])
      BY DEF IInv, NodesOK, NodeOK, Careful, Tidy
<1>2. PICK h \in Runs(s, p, y, FALSE) :
        x = [node |-> n, mh |-> h, reported |-> FALSE, wanted |-> OriginOf(s.measures[h]),
             origin |-> [dst |-> p, msg_type |-> y, mid |-> s.measures[h].mid]]
      BY DEF Seen
<1>3. PICK k \in Key : /\ k.dst = p /\ k.msg_type = y /\ k.remote = FALSE /\ h = s.lists[k]
                       /\ h # NoHandle
      BY <1>2 DEF Runs, On
<1>4. h \in Handles
      BY <1>1, <1>3 DEF NodeState
<1>5. IsValid(s, h) /\ KeyOf(s.measures[h]) = k
  <2>1. CASE OneSided(k)
    <3>1. OnList(s, h, k)
          BY <1>1, <1>3, <1>4, <2>1 DEF NodeOK
    <3>2. QED
          BY <3>1 DEF OnList
  <2>2. CASE ~OneSided(k)
        BY <1>1, <1>3, <1>4, <2>2 DEF ListedAsAimed
  <2>3. QED
        BY <2>1, <2>2
<1>6. s.measures[h].dst = p /\ s.measures[h].msg_type = y
      BY <1>1, <1>3, <1>4, <1>5, ValidMeasure, MeasureFacts
<1>7. QED
      BY <1>2, <1>6 DEF OriginOf

\* No message is about a measure at first, and no measure is on a list.
LEMMA InitCareful == ASSUME MonRemoteAssumption, Init PROVE CarefulInv
<1>1. DOMAIN net = {} /\ samples = {}
      BY DEF Init, EmptyBag, SetToBag
<1>2. \A n \in Nodes : monl[n].measures = [h \in Handles |-> NoMeasure]
                       /\ monl[n].lists = [k \in Key |-> NoHandle]
      BY DEF Init
<1>3. \A n \in Nodes, h \in Handles : ~HasCounterpart(monl[n], h)
      BY <1>2 DEF HasCounterpart, IsValid
<1>4. NoHandle \notin Handles
      BY DEF MonRemoteAssumption, Handles, NoHandle
<1>5. \A n \in Nodes : Tidy(monl[n], active[n])
      BY <1>2, <1>3, <1>4 DEF Tidy, ListedAsAimed, StoppingUnlisted
<1>6. QED
      BY <1>1, <1>3, <1>5 DEF CarefulInv, Careful, OfStream

\* measure_dispatcher.cpp: so does every step.
LEMMA NextCareful ==
  ASSUME MonRemoteAssumption, IInv, IInv', CarefulInv, [Next]_vars PROVE CarefulInv'
<1>1. SUFFICES ASSUME careless' = FALSE PROVE Careful' /\ OfStream'
      BY DEF CarefulInv, IInv, Types
<1>2. ASSUME careless = FALSE PROVE Careful /\ OfStream
      BY <1>2 DEF CarefulInv
<1>3. CASE UNCHANGED vars
  <2>1. UNCHANGED <<monl, held, active, net, samples, careless>>
        BY <1>3 DEF vars
  <2>2. Careful /\ OfStream
        BY <1>1, <1>2, <2>1
  <2>3. Careful'
        BY <2>1, <2>2 DEF Careful, Tidy, ListedAsAimed, StoppingUnlisted, Exchange,
                          HasCounterpart, Listed, IsValid
  <2>4. OfStream'
        BY <2>1, <2>2 DEF OfStream
  <2>5. QED
        BY <2>3, <2>4
<1>4. CASE \E n \in Nodes, mid \in Plugins : monCreateMeasure(n, mid)
  <2>1. PICK n \in Nodes, mid \in Plugins : monCreateMeasure(n, mid)
        BY <1>4
  <2>2. UNCHANGED <<samples, careless>>
        BY <2>1 DEF monCreateMeasure
  <2>3. Careful /\ OfStream
        BY <1>1, <1>2, <2>2
  <2>4. OfStream'
        BY <2>2, <2>3 DEF OfStream
  <2>5. QED
        BY <2>1, <2>3, <2>4, CreateCareful
<1>5. CASE \E n \in Nodes, h \in Handles :
             \/ \E p \in Nodes \ {n}, y \in MsgTypes : monActivateMeasure(n, h, p, y)
             \/ monDeactivateMeasure(n, h)
             \/ monDestroyMeasureCall(n, h)
  <2>1. PICK n \in Nodes, h \in Handles :
             \/ \E p \in Nodes, y \in MsgTypes : monActivateMeasure(n, h, p, y)
             \/ monDeactivateMeasure(n, h)
             \/ monDestroyMeasureCall(n, h)
        BY <1>5
  <2>2. UNCHANGED samples /\ careless = FALSE
    <3>1. careless \in BOOLEAN
          BY DEF IInv, Types
    <3>2. QED
          BY <1>1, <2>1, <3>1 DEF monActivateMeasure, ActivateRejected, ActivateAccepted,
                                  monDeactivateMeasure, monDestroyMeasureCall
  <2>3. Careful /\ OfStream
        BY <1>2, <2>2
  <2>4. OfStream'
        BY <2>2, <2>3 DEF OfStream
  <2>5. QED
        BY <1>1, <2>1, <2>3, <2>4, CallCareful
<1>6. CASE \E m \in BagToSet(net) : receiveCtrlMsg(m)
  <2>1. PICK m : receiveCtrlMsg(m)
        BY <1>6
  <2>2. careless = FALSE
        BY <1>1, <2>1 DEF receiveCtrlMsg, IInv, Types
  <2>3. Careful /\ OfStream
        BY <1>2, <2>2
  <2>4. \A x \in samples' \ samples : x.reported
    <3>1. CASE UNCHANGED samples
          BY <3>1
    <3>2. CASE remoteResultsRx(m)
      <4>1. SUFFICES ASSUME NEW x \in samples' \ samples PROVE x.reported
            OBVIOUS
      <4>2. PICK r \in m.results :
              x = [node |-> m.dst, mh |-> r.mh, reported |-> TRUE,
                   wanted |-> OriginOf(monl[m.dst].measures[r.mh]),
                   origin |-> [dst |-> m.src, msg_type |-> m.msg_type, mid |-> r.mid]]
            BY <3>2, <4>1 DEF remoteResultsRx
      <4>3. QED
            BY <4>2
    <3>3. QED
          BY <2>1, <3>1, <3>2 DEF receiveCtrlMsg, initRemoteMeasureRx,
                                  deinitRemoteMeasureRx, remoteMeasureResponseRx
  <2>5. \A x \in samples' : x.origin # x.wanted => ~x.reported
        BY DEF IInv, ReportedOfStream
  <2>6. OfStream'
        BY <2>3, <2>4, <2>5 DEF OfStream
  <2>7. QED
        BY <1>1, <2>1, <2>3, <2>6, ReceiveCareful
<1>7. CASE \E n \in Nodes, y \in MsgTypes : \E p \in Nodes \ {n} : Packet(n, p, y)
  <2>1. PICK n \in Nodes, y \in MsgTypes, p \in Nodes : Packet(n, p, y)
        BY <1>7
  <2>2. careless = FALSE
        BY <1>1, <2>1, PacketCases
  <2>3. Careful /\ OfStream
        BY <1>2, <2>2
  <2>4. \A x \in samples' \ samples : x.origin = x.wanted
    <3>1. CASE UNCHANGED samples
          BY <3>1
    <3>2. CASE /\ \A h \in On(monl[n], p, y, FALSE) : monl[n].measures[h] # NoMeasure
               /\ samples' = samples \cup Seen(n, monl[n], p, y)
          BY <2>3, <3>2, SeenAsAimed
    <3>3. QED
          BY <2>1, <3>1, <3>2, PacketCases
  <2>5. OfStream'
        BY <2>3, <2>4 DEF OfStream
  <2>6. QED
        BY <2>1, <2>3, <2>5, PacketCareful
<1>8. QED
      BY <1>3, <1>4, <1>5, <1>6, <1>7 DEF Next

-----------------------------------------------------------------------------
(* The theorems.                                                            *)

\* measure_dispatcher.cpp: so does every step.
LEMMA NextIInv == ASSUME MonRemoteAssumption, IInv, [Next]_vars PROVE IInv'
<1>1. CASE Next
  <2>1. CASE \E n \in Nodes, mid \in Plugins : monCreateMeasure(n, mid)
        BY <2>1, CreateIInv
  <2>2. CASE \E n \in Nodes, h \in Handles :
               \/ \E p \in Nodes \ {n}, t \in MsgTypes : monActivateMeasure(n, h, p, t)
               \/ monDeactivateMeasure(n, h)
               \/ monDestroyMeasureCall(n, h)
        BY <2>2, ActivateIInv, DeactivateIInv, DestroyIInv
  <2>3. CASE \E m \in BagToSet(net) : receiveCtrlMsg(m)
        BY <2>3, ReceiveIInv
  <2>4. CASE \E n \in Nodes, t \in MsgTypes : \E p \in Nodes \ {n} : Packet(n, p, t)
        BY <2>4, PacketIInv
  <2>5. QED
        BY <1>1, <2>1, <2>2, <2>3, <2>4 DEF Next
<1>2. CASE UNCHANGED vars
  <2>1. UNCHANGED <<monl, net, events, careless, samples, held, active>>
        BY <1>2 DEF vars
  <2>2. QED
    <3>1. \/ Nodes = {} \/ \E n \in Nodes : TRUE
          OBVIOUS
    <3>2. CASE Nodes = {}
          BY <2>1, <3>2 DEF IInv, Types, NodesOK, MessagesOK, UsersOK, Counterparts,
                            ReportedOfStream, Message, MessageOK, Owns, Made
    <3>3. CASE \E n \in Nodes : TRUE
      <4>1. PICK n \in Nodes : TRUE
            BY <3>3
      <4>2. held' \in [Nodes -> SUBSET Handles] /\ active' \in [Nodes -> SUBSET Handles]
            BY <2>1 DEF IInv, Types
      <4>3. QED
            BY <2>1, <4>1, <4>2, RefusedIInv
    <3>4. QED
          BY <3>1, <3>2, <3>3
<1>3. QED
      BY <1>1, <1>2

\* The invariant holds throughout.
LEMMA Invariant == ASSUME MonRemoteAssumption PROVE Spec => []IInv
<1>1. Init => IInv
      BY InitIInv
<1>2. IInv /\ [Next]_vars => IInv'
      BY NextIInv
<1>3. QED
      BY <1>1, <1>2, PTL DEF Spec

\* Every variable keeps its type: every handle in a list, a message or a sample is one
\* that the node can give out.
THEOREM TypeCorrect == ASSUME MonRemoteAssumption PROVE Spec => []TypeOK
<1>1. IInv => TypeOK
  <2>1. ASSUME IInv PROVE TypeOK
        BY <2>1 DEF IInv, Types, NodeState, TypeOK, BagToSet
  <2>2. QED
        BY <2>1
<1>2. QED
      BY Invariant, <1>1, PTL

\* measure_dispatcher.cpp: a measure without a counterpart runs if and only if it is
\* the one listed for its stream, in whatever order users, set-ups and ends come.
THEOREM RunningIsListedHolds == ASSUME MonRemoteAssumption PROVE Spec => []RunningIsListed
<1>1. IInv => RunningIsListed
  <2>1. SUFFICES ASSUME IInv, NEW n \in Nodes, NEW k \in Key, k.remote \/ k.mid \notin Paired,
                        NEW h \in Handles
                 PROVE  LET m == monl[n].measures[h] IN
                        (monl[n].lists[k] = h)
                          = (m # NoMeasure /\ m.status = "RUNNING" /\ KeyOf(m) = k)
        BY DEF RunningIsListed
  <2>2. NodeOK(monl[n]) /\ OneSided(k) /\ monl[n] \in NodeState
        BY <2>1 DEF IInv, NodesOK, NodeOK, OneSided
  <2>3. monl[n].lists[k] = h <=> OnList(monl[n], h, k)
        BY <2>2 DEF NodeOK
  <2>4. QED
        BY <2>2, <2>3, ValidMeasure DEF OnList
<1>2. QED
      BY Invariant, <1>1, PTL

\* measure_dispatcher.cpp: a counterpart reports to a measure that its user made with
\* the same plugin, or to a handle whose measure is gone.
THEOREM CounterpartsAgreeHold == ASSUME MonRemoteAssumption PROVE Spec => []CounterpartsAgree
<1>1. IInv => CounterpartsAgree
  <2>1. SUFFICES ASSUME IInv, NEW q \in Nodes, NEW r \in Handles,
                        monl[q].measures[r] # NoMeasure, monl[q].measures[r].remote,
                        monl[q].measures[r].status = "RUNNING"
                 PROVE  LET c == monl[q].measures[r]
                            m == monl[c.dst].measures[c.mh_remote]
                        IN  m # NoMeasure => ~m.remote /\ m.mid = c.mid
        BY DEF CounterpartsAgree
  <2> DEFINE c == monl[q].measures[r]
  <2>2. c \in Measure
        BY <2>1 DEF IInv, Types, NodeState
  <2>3. c.dst \in Nodes /\ Made(c.dst, c.mh_remote, c.mid)
        BY <2>1, <2>2 DEF IInv, Counterparts, ReportsTo, Measure
  <2>4. c.mh_remote \in Handles /\ monl[c.dst] \in NodeState
        BY <2>1, <2>3 DEF Made, Given, IInv, Types
  <2>5. QED
        BY <2>3, <2>4, ValidMeasure DEF Made
<1>2. QED
      BY Invariant, <1>1, PTL

\* measure_dispatcher.cpp: what a counterpart reports is kept only by a measure of the
\* plugin and the stream it was measured with, however late it arrives; and so is what
\* a measure without a counterpart measures.
THEOREM ReportedOfStreamHolds ==
  ASSUME MonRemoteAssumption PROVE Spec => []ReportedOfStream
<1>1. IInv => ReportedOfStream
      BY DEF IInv
<1>2. QED
      BY Invariant, <1>1, PTL

\* measure_dispatcher.cpp: whatever crosses on the way, a measure keeps only what was
\* measured on the stream it is aimed at; one with a counterpart may also keep what the
\* node saw on another stream, once a user's call met an unfinished exchange or a user's
\* measure was taken for a counterpart.
THEOREM SamplesOfStreamHolds == ASSUME MonRemoteAssumption PROVE Spec => []SamplesOfStream
<1>1. Init => CarefulInv
      BY InitCareful
<1>2. IInv /\ IInv' /\ CarefulInv /\ [Next]_vars => CarefulInv'
      BY NextCareful
<1>3. IInv /\ CarefulInv => SamplesOfStream
      BY DEF IInv, Types, ReportedOfStream, CarefulInv, OfStream, SamplesOfStream
<1>4. QED
      BY Invariant, <1>1, <1>2, <1>3, PTL DEF Spec
=============================================================================
