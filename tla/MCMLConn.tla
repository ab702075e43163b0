------------------------------ MODULE MCMLConn ------------------------------
(* Instances of MLConn for TLC: values for its structured constants.        *)
EXTENDS MLConn

CONSTANTS a, b, c  \* the peers

Open(n, m, k) == [from |-> n, to |-> m, nr |-> k]

\* The peers open towards each other at the same time; a asks twice.
CrossRequests == {Open(a, b, 1), Open(a, b, 2), Open(b, a, 1)}

\* a opens to b, b to c.
ChainRequests == {Open(a, b, 1), Open(b, c, 1)}

\* a opens to b, then to c.
FanRequests == {Open(a, b, 1), Open(a, c, 1)}

\* Every path takes a full-size packet.
WidePath == [n \in Nodes |-> [m \in Nodes |-> 1472]]
\* Packets to b must be small: the initial estimate never gets through.
NarrowPath == [n \in Nodes |-> [m \in Nodes |-> IF m = b THEN 600 ELSE 1472]]

NoPairs == {}
AllPairs == Nodes \X Nodes

NoFaults == [k \in FaultKinds |-> 0]
OneClose == [NoFaults EXCEPT !["close"] = 1]
CloseAndDup == [OneClose EXCEPT !["dup"] = 1]
DataAndDup == [NoFaults EXCEPT !["dup"] = 1, !["data"] = 1]
LossyData == [NoFaults EXCEPT !["lose"] = 2, !["data"] = 1]
=============================================================================
