---------------------------- MODULE ConnService ----------------------------
(***************************************************************************)
(* What the connections of the messaging layer promise to the application  *)
(* (ml/include/ml.h), without packets, slots or timers.                    *)
(*                                                                         *)
(* Each node has at most one link to each peer.  A call of                 *)
(* mlOpenConnection either is refused at once, or is answered at once      *)
(* because the link is up, or waits; every call that waits on a link is    *)
(* answered together with the others when the link comes up, fails or is   *)
(* closed, once and for all.                                               *)
(***************************************************************************)
CONSTANTS
  Nodes,    \* the peers
  Requests  \* the calls of mlOpenConnection the applications make

VARIABLES
  link,     \* link[n][m]: n's view of its connection to m
  answer    \* answer[r]: what became of request r

vars == <<link, answer>>

LinkStates == {"none", "opening", "up"}
Answers == {"idle", "pending", "called", "failed", "closed", "rejected"}

Waiting(n, m) ==
  {r \in Requests : r.from = n /\ r.to = m /\ answer[r] = "pending"}

AnswerAll(rs, o) == answer' = [r \in Requests |-> IF r \in rs THEN o ELSE answer[r]]

LinkBecomes(n, m, l) == link' = [link EXCEPT ![n][m] = l]

Init ==
  /\ link = [n \in Nodes |-> [m \in Nodes |-> "none"]]
  /\ answer = [r \in Requests |-> "idle"]

\* mlOpenConnection.
Ask(r) ==
  /\ answer[r] = "idle"
  /\ \/ /\ link[r.from][r.to] = "none"
        /\ LinkBecomes(r.from, r.to, "opening")
        /\ AnswerAll({r}, "pending")
     \/ /\ link[r.from][r.to] = "none"
        /\ AnswerAll({r}, "rejected")
        /\ UNCHANGED link
     \/ /\ link[r.from][r.to] = "opening"
        /\ AnswerAll({r}, "pending")
        /\ UNCHANGED link
     \/ /\ link[r.from][r.to] = "up"
        /\ AnswerAll({r}, "called")
        /\ UNCHANGED link

\* The peer opens: the link may go back from up to opening.
Invited(n, m) ==
  /\ LinkBecomes(n, m, "opening")
  /\ UNCHANGED answer

\* receive_connection_cb: the link comes up and nobody is left waiting.
ComeUp(n, m) ==
  /\ link[n][m] = "opening"
  /\ LinkBecomes(n, m, "up")
  /\ AnswerAll(Waiting(n, m), "called")

\* connection_failed_cb: only a link that is opening fails.
Fail(n, m) ==
  /\ link[n][m] = "opening"
  /\ LinkBecomes(n, m, "none")
  /\ AnswerAll(Waiting(n, m), "failed")

\* mlCloseConnection.
Close(n, m) ==
  /\ link[n][m] # "none"
  /\ LinkBecomes(n, m, "none")
  /\ AnswerAll(Waiting(n, m), "closed")

Next ==
  \/ \E r \in Requests : Ask(r)
  \/ \E n, m \in Nodes : Invited(n, m) \/ ComeUp(n, m) \/ Fail(n, m) \/ Close(n, m)

Spec == Init /\ [][Next]_vars
=============================================================================
