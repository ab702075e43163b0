------------------------------ MODULE SocketId ------------------------------
(***************************************************************************)
(* Socket IDs (ml/ml.c, ml/util/udpSocket.c): the pair of the internal and *)
(* the external address of a node, the text applications exchange it as,   *)
(* and the form it takes in a connection message.                          *)
(*                                                                         *)
(* An IP address is a number within its family.  The internal address is   *)
(* always known; the external one is unknown or IPv4 when it came from     *)
(* STUN, and a copy of the internal one without STUN.                      *)
(***************************************************************************)
EXTENDS Integers, Sequences

CONSTANT LittleEndian    \* TRUE on hosts whose byte order is not the network's

\* ss_family: AF_INET, AF_INET6, none after memset, or one of the two with its
\* bytes exchanged, which nothing recognises.
Families == {"none", "v4", "v6", "swapped v4", "swapped v6"}
Address == [family : Families, ip : Nat, port : Nat]
SocketID == [internal : Address, external : Address]

NoAddress == [family |-> "none", ip |-> 0, port |-> 0]

init_sockaddr(ip, port) ==
  IF ip.family \in {"v4", "v6"}
  THEN [family |-> ip.family, ip |-> ip.ip, port |-> port]
  ELSE NoAddress

get_sockaddr_port(addr) == IF addr.family \in {"v4", "v6"} THEN addr.port ELSE -1

NoIp == [family |-> "none", ip |-> 0]
get_sockaddr_ip(addr) ==
  IF addr.family \in {"v4", "v6"} THEN [family |-> addr.family, ip |-> addr.ip] ELSE NoIp

-----------------------------------------------------------------------------
(* As text.                                                                 *)

\* "if (external_port = -1)" assigns, so the port of the external address is
\* never printed.
mlSocketIDToString(id) ==
  LET inner == get_sockaddr_ip(id.internal)
      outer == get_sockaddr_ip(id.external)
      port == get_sockaddr_port(id.internal)
  IN [delim |-> IF inner.family = "v4" THEN ":" ELSE "_",
      internal |-> <<inner, port>>,
      external |-> <<IF outer = NoIp THEN inner ELSE outer, port>>]

\* The delimiters become blanks: a ':' delimiter leaves no IPv6 address whole.
mlStringToSocketID(s) ==
  [internal |-> init_sockaddr(s.internal[1], s.internal[2]),
   external |-> IF s.delim = ":" /\ s.external[1].family = "v6"
                THEN NoAddress
                ELSE init_sockaddr(s.external[1], s.external[2])]

\* strcmp of the texts is 0
mlCompareSocketIDs(id1, id2) == mlSocketIDToString(id1) = mlSocketIDToString(id2)

mlHashSocketID(id) == get_sockaddr_port(id.internal) + get_sockaddr_port(id.external)

-----------------------------------------------------------------------------
(* In a connection message.                                                 *)

\* htons and ntohs
Swapped(family) ==
  IF ~LittleEndian THEN family
  ELSE CASE family = "v4"         -> "swapped v4"
         [] family = "v6"         -> "swapped v6"
         [] family = "swapped v4" -> "v4"
         [] family = "swapped v6" -> "v6"
         [] OTHER                 -> "none"

\* The conversion of both families, as send_conn_msg and recv_conn_msg do it:
\* the external one is taken from the internal one, converted already.
Converted(id) ==
  LET inner == Swapped(id.internal.family)
  IN [internal |-> [id.internal EXCEPT !.family = inner],
      external |-> [id.external EXCEPT !.family = Swapped(inner)]]

\* Mutation of InConnMsg: the receiver does not convert the families back.
InConnMsgUnconverted(id) == Converted(id)

\* The socket ID recv_conn_msg finds in the message of a node whose ID is id.
InConnMsg(id) == Converted(Converted(id))
=============================================================================
