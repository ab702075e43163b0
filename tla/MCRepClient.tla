---------------------------- MODULE MCRepClient ----------------------------
(* Instances of RepClient for TLC: fault budgets.                           *)
EXTENDS RepClient

NoFaults == [k \in FaultKinds |-> 0]
OneLate == [NoFaults EXCEPT !["late"] = 1, !["refuse"] = 1]
=============================================================================
