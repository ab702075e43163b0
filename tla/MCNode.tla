------------------------------- MODULE MCNode -------------------------------
(***************************************************************************)
(* An instance of Node for TLC: the values of its constants.               *)
(***************************************************************************)
EXTENDS Node

\* An IPv4 and an IPv6 interface; a NAT with another address, and two ports.
InternalAddresses == {[family |-> f, ip |-> 1, port |-> 66] : f \in {"v4", "v6"}}
MappedAddresses == {[family |-> "v4", ip |-> 70000, port |-> p] : p \in {77, 78}}
StartFaults == [k \in FaultKinds |-> 1]

MonitoringEvents == [activate |-> 2, other |-> 1]

RttSent == [n \in {"near", "far"} |-> IF n = "far" THEN 2 ELSE 1]
SharedFar == {{"far"}}

RepositoryFaults ==
  [k \in {"late", "nosend", "gone", "unreached", "refuse", "close"} |-> 1]

\* Two lists with addresses in common, of 3 bits.
Host(h, m) == [host |-> h, mask |-> m]
HostLists == [p |-> <<Host(5, 3), Host(6, 3)>>, q |-> <<Host(4, 3), Host(5, 2), Host(7, 3)>>]

Group(parent, cost) ==
  [name |-> "cnd_hla", parent |-> parent, host |-> 0, mask |-> 0, rating |-> cost]
Prefix(parent, h, m) ==
  [name |-> "ipprefix", parent |-> parent, host |-> h, mask |-> m, rating |-> 0]
Other(name, parent) == [name |-> name, parent |-> parent, host |-> 0, mask |-> 0, rating |-> 0]

\* Two groups of prefixes, as the server writes them and without white space.
IndentedReply ==
  <<Other("alto", 0), Other("text", 1),
    Group(1, 7), Other("text", 3), Prefix(3, 5, 3), Other("text", 3), Other("text", 1),
    Group(1, 3), Other("text", 8), Prefix(8, 4, 2), Other("text", 8), Prefix(8, 6, 3),
    Other("text", 8), Other("text", 1)>>
CompactReply ==
  <<Other("alto", 0), Group(1, 7), Prefix(2, 5, 3), Group(1, 3), Prefix(4, 4, 2),
    Prefix(4, 6, 3)>>

AltoReplies == {IndentedReply, CompactReply}
=============================================================================
