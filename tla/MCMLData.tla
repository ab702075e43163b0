------------------------------ MODULE MCMLData ------------------------------
(* Instances of MLData for TLC: messages and fault budgets.                 *)
EXTENDS MLData

Msg(c, n, l) == [con |-> c, seqnr |-> n, len |-> l]

OneLong == {Msg(0, 0, 5)}
OneMessage == {Msg(0, 0, 3)}
\* One after the other on a connection, the last one of a single packet.
InSequence == {Msg(0, 0, 4), Msg(0, 1, 3), Msg(1, 0, 2), Msg(1, 1, 1)}

NoFaults == [k \in FaultKinds |-> 0]
OneLoss == [NoFaults EXCEPT !["lose"] = 1]
OneEach == [k \in FaultKinds |-> 1]
=============================================================================
