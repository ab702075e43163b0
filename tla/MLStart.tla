------------------------------ MODULE MLStart -------------------------------
(***************************************************************************)
(* Start-up and NAT discovery of the messaging layer (ml/ml.c).            *)
(*                                                                         *)
(* mlInit opens the UDP socket.  Without a STUN server the internal        *)
(* address is taken for the external one; with one, a request is sent once *)
(* a second until an answer tells the external address.  Then the          *)
(* application may hand its socket ID to other nodes, as text.             *)
(*                                                                         *)
(* The network loses, delays and duplicates the STUN messages.  The NAT    *)
(* may change its mapping, and the application the STUN server.  The       *)
(* application registers its callback.                                     *)
(***************************************************************************)
EXTENDS SocketId, Stun

CONSTANTS
  Internals,     \* the addresses mlInit may be given
  Mappings,      \* the external IPv4 addresses a NAT may map the node to
  MaxFaults      \* bound on the changes of the mapping and of the server

FaultKinds == {"rebind", "server"}

\* Addresses as sockets have them; the server is reached, and the NAT maps, over IPv4.
MLStartAssumption ==
  /\ LittleEndian \in BOOLEAN
  /\ Internals \subseteq [family : {"v4", "v6"}, ip : Nat, port : Nat]
  /\ Mappings \subseteq [family : {"v4"}, ip : Nat, port : Nat]
  /\ MaxFaults \in [FaultKinds -> Nat]

VARIABLES
  socketfd,         \* "none", "failed", "open"
  local_socketID,
  stun_server,      \* isStunDefined
  NAT_traversal,    \* TRUE once the socket ID is known
  timeouts,         \* pending NAT traversal timeouts
  told,             \* the statuses the application was last told with
  nat,              \* the mapping of the node, NoAddress without a NAT
  stunWire,         \* STUN messages under way
  published,        \* the socket IDs other nodes got from the application
  faults

vars == <<socketfd, local_socketID, stun_server, NAT_traversal, timeouts, told,
          nat, stunWire, published, faults>>

Unset == [internal |-> NoAddress, external |-> NoAddress]

TypeOK ==
  /\ socketfd \in {"none", "failed", "open"}
  /\ local_socketID \in SocketID
  /\ stun_server \in BOOLEAN
  /\ NAT_traversal \in BOOLEAN
  /\ timeouts \in Nat
  /\ told \in {-1, 0, 2}
  /\ nat \in Mappings \cup {NoAddress}
  /\ \A m \in stunWire : m.type \in {BindRequestMsg, BindResponseMsg}
  /\ published \subseteq SocketID
  /\ faults \in [FaultKinds -> Nat]

Init ==
  /\ socketfd = "none"
  /\ local_socketID = Unset
  /\ stun_server = FALSE
  /\ NAT_traversal = FALSE
  /\ timeouts = 0
  /\ told = -1
  /\ nat \in Mappings \cup {NoAddress}
  /\ stunWire = {}
  /\ published = {}
  /\ faults = [k \in FaultKinds |-> 0]

-----------------------------------------------------------------------------
(* try_stun, called with the socket ID id, the server defined or not, and   *)
(* the timeouts that stay pending.                                          *)

StunAsked(id, pending) ==
  /\ stunWire' = stunWire \cup {stunBuildReqSimple}
  /\ timeouts' = pending + 1
  /\ NAT_traversal' = FALSE
  /\ local_socketID' = id

StunSkipped(id, pending) ==
  /\ local_socketID' = [id EXCEPT !.external = id.internal]
  /\ NAT_traversal' = TRUE
  /\ told' = 0
  /\ timeouts' = pending
  /\ UNCHANGED stunWire

\* An invalid server address leaves STUN undefined.  A defined server is one
\* the node reaches over IPv4.
mlInit(internal, stun) ==
  /\ socketfd = "none"
  /\ stun => internal.family = "v4" \/ nat # NoAddress
  /\ stun_server' = stun
  /\ \/ /\ socketfd' = "failed"
        /\ local_socketID' = [Unset EXCEPT !.internal = internal]
        /\ UNCHANGED <<NAT_traversal, timeouts, told, stunWire>>
     \/ /\ socketfd' = "open"
        /\ LET id == [Unset EXCEPT !.internal = internal]
           IN \/ stun /\ StunAsked(id, 0) /\ UNCHANGED told
              \/ ~stun /\ StunSkipped(id, 0)
  /\ UNCHANGED <<nat, published, faults>>

\* Mutation of nat_traversal_timeout: NAT_traversal is not tested.
nat_traversal_timeout_untested ==
  /\ timeouts > 0
  /\ \/ /\ stun_server
        /\ StunAsked(local_socketID, timeouts - 1)
        /\ told' = 2
     \/ /\ ~stun_server
        /\ StunSkipped(local_socketID, timeouts - 1)
  /\ UNCHANGED <<socketfd, stun_server, nat, published, faults>>

\* Mutation of nat_traversal_timeout: the application is told, and no more.
nat_traversal_timeout_tells ==
  /\ timeouts > 0
  /\ timeouts' = timeouts - 1
  /\ told' = IF NAT_traversal THEN told ELSE 2
  /\ UNCHANGED <<socketfd, local_socketID, NAT_traversal, stunWire, stun_server, nat,
                 published, faults>>

nat_traversal_timeout ==
  /\ timeouts > 0
  /\ \/ /\ ~NAT_traversal /\ stun_server
        /\ StunAsked(local_socketID, timeouts - 1)
        /\ told' = 2
     \/ /\ ~NAT_traversal /\ ~stun_server
        /\ StunSkipped(local_socketID, timeouts - 1)
     \/ /\ NAT_traversal
        /\ timeouts' = timeouts - 1
        /\ UNCHANGED <<local_socketID, NAT_traversal, told, stunWire>>
  /\ UNCHANGED <<socketfd, stun_server, nat, published, faults>>

\* The reflexive address is read whatever the type of the answer and whichever
\* request it answers; a parse error is only logged.
recv_stun_msg(m) ==
  LET parsed == stunParseMessage(m)
      field == FieldOf(parsed.attrs, MappedAddress)
  IN /\ m \in stunWire /\ m.type = BindResponseMsg
     /\ socketfd = "open"
     /\ parsed.good
     /\ local_socketID' = [local_socketID EXCEPT !.external =
                             init_sockaddr([family |-> "v4", ip |-> field.addr], field.port)]
     /\ NAT_traversal' = TRUE
     /\ told' = 0
     /\ stunWire' \in {stunWire, stunWire \ {m}}
     /\ UNCHANGED <<socketfd, stun_server, timeouts, nat, published, faults>>

\* The server, which sees the node at its mapping, answers.
Served(m) ==
  LET seen == IF nat = NoAddress THEN local_socketID.internal ELSE nat
      answer == stunEncodeMessage(BindResponseMsg,
                  <<AddressAttr(MappedAddress, seen.ip, seen.port),
                    AddressAttr(SourceAddress, 9, 3478),
                    AddressAttr(ChangedAddress, 9, 3479)>>)
  IN /\ m \in stunWire /\ m.type = BindRequestMsg
     /\ stunWire' \in {stunWire \cup {answer}, (stunWire \ {m}) \cup {answer}}
     /\ UNCHANGED <<socketfd, local_socketID, stun_server, NAT_traversal, timeouts, told,
                    nat, published, faults>>

Lose(m) ==
  /\ m \in stunWire
  /\ stunWire' = stunWire \ {m}
  /\ UNCHANGED <<socketfd, local_socketID, stun_server, NAT_traversal, timeouts, told,
                 nat, published, faults>>

-----------------------------------------------------------------------------
(* The application and the NAT.                                             *)

\* Mutation of mlGetLocalSocketID: the socket ID is given out at any time.
mlGetLocalSocketID_early ==
  /\ socketfd = "open"
  /\ published' = published \cup {mlStringToSocketID(mlSocketIDToString(local_socketID))}
  /\ UNCHANGED <<socketfd, local_socketID, stun_server, NAT_traversal, timeouts, told,
                 nat, stunWire, faults>>

\* The application hands out the text of its socket ID, and another node
\* reads it.
mlGetLocalSocketID ==
  /\ NAT_traversal
  /\ published' = published \cup {mlStringToSocketID(mlSocketIDToString(local_socketID))}
  /\ UNCHANGED <<socketfd, local_socketID, stun_server, NAT_traversal, timeouts, told,
                 nat, stunWire, faults>>

mlSetStunServer(defined) ==
  /\ socketfd = "open"
  /\ faults["server"] < MaxFaults["server"]
  /\ faults' = [faults EXCEPT !["server"] = @ + 1]
  /\ stun_server' = defined
  /\ UNCHANGED <<socketfd, local_socketID, NAT_traversal, timeouts, told, nat, stunWire,
                 published>>

Rebind(mapping) ==
  /\ nat # NoAddress
  /\ faults["rebind"] < MaxFaults["rebind"]
  /\ faults' = [faults EXCEPT !["rebind"] = @ + 1]
  /\ nat' = mapping
  /\ UNCHANGED <<socketfd, local_socketID, stun_server, NAT_traversal, timeouts, told,
                 stunWire, published>>

Next ==
  \/ \E internal \in Internals, stun \in BOOLEAN : mlInit(internal, stun)
  \/ nat_traversal_timeout
  \/ \E m \in stunWire : recv_stun_msg(m) \/ Served(m) \/ Lose(m)
  \/ mlGetLocalSocketID
  \/ \E defined \in BOOLEAN : mlSetStunServer(defined)
  \/ \E mapping \in Mappings : Rebind(mapping)

Spec == Init /\ [][Next]_vars

\* The event loop serves the timeout; of the requests and of the answers sent
\* for ever, some get through.
Fairness ==
  /\ WF_vars(nat_traversal_timeout)
  /\ SF_vars(\E m \in stunWire : Served(m))
  /\ SF_vars(\E m \in stunWire : recv_stun_msg(m))

-----------------------------------------------------------------------------
\* A socket ID that is ready stays ready: no timeout that was still pending
\* when the answer came, late or repeated, takes it back.
ReadyStays == [][NAT_traversal => NAT_traversal']_vars

\* While the external address is being asked for exactly one timeout is
\* pending, afterwards at most one: the retries neither die out nor multiply.
OneTimeout ==
  socketfd = "open" => timeouts \in (IF NAT_traversal THEN {0, 1} ELSE {1})

Undisturbed == \A k \in FaultKinds : faults[k] = 0

Matches(id) == \A told_id \in published : mlCompareSocketIDs(told_id, id)

\* What other nodes were told compares equal to the socket ID of the node, as
\* long as neither its NAT nor its STUN server changed: a peer that finds the
\* node by its text and one that holds its socket ID mean the same node.  And
\* without a NAT so does the socket ID its connection messages arrive with: the
\* peer it invites and the peer that opens a connection to it find one entry.
PublishedMatches ==
  Undisturbed =>
    /\ Matches(local_socketID)
    /\ nat = NoAddress => Matches(InConnMsg(local_socketID))

\* Behind a NAT too, the families are converted to network byte order and back
\* (the comments at ml/ml.c:665 and ml/ml.c:706), so the socket ID a connection
\* message arrives with compares equal to the one the node handed out.
InviteMatches == Undisturbed => Matches(InConnMsg(local_socketID))

\* With a server that answers, the socket ID gets ready.
BecomesReady == []<>(socketfd = "open" => NAT_traversal)
=============================================================================
