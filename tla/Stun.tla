-------------------------------- MODULE Stun --------------------------------
(***************************************************************************)
(* The STUN messages of the client (ml/util/stun.c).                       *)
(*                                                                         *)
(* A message on the wire is its type, the length of its body in bytes as   *)
(* the header states it, and the body as a sequence of 16-bit units.  The  *)
(* transaction id is left out: the client never compares it.               *)
(***************************************************************************)
EXTENDS Integers, Sequences, SequencesExt, FiniteSetsExt

MappedAddress    == 1
ResponseAddress  == 2
ChangeRequest    == 3
SourceAddress    == 4
ChangedAddress   == 5
Username         == 6
Password         == 7
MessageIntegrity == 8
ErrorCode        == 9
UnknownAttribute == 10
ReflectedFrom    == 11
XorMappedAddress == 32800
XorOnly          == 33
ServerName       == 32802
SecondaryAddress == 32848

Addresses == {MappedAddress, ResponseAddress, SourceAddress, ChangedAddress,
              ReflectedFrom, XorMappedAddress, SecondaryAddress}
Strings == {Username, Password, ServerName}

IPv4Family == 1
STUN_MAX_STRING == 256
STUN_MAX_UNKNOWN_ATTRIBUTES == 8

\* sizeof(StunAtrError), sizeof(StunAtrUnknown)
SizeofError == 262
SizeofUnknown == 2 * STUN_MAX_UNKNOWN_ATTRIBUTES + 2

BindRequestMsg  == 1
BindResponseMsg == 257

-----------------------------------------------------------------------------
(* stunEncodeMessage.  A message is the sequence of its attributes, in the  *)
(* order of the tests of has...; an attribute is its type and its units.    *)

Words(n) == <<n \div 65536, n % 65536>>

AddressAttr(type, ip, port) ==
  [type |-> type, units |-> <<IPv4Family, port>> \o Words(ip)]
ChangeRequestAttr(flags) == [type |-> ChangeRequest, units |-> Words(flags)]

\* The length each encodeAtr... writes, which for the error code and the
\* unknown attributes is not that of the units that follow.
Length(a) ==
  CASE a.type \in Addresses        -> 8
    [] a.type = ChangeRequest      -> 4
    [] a.type = MessageIntegrity   -> 20
    [] a.type = ErrorCode          -> 2 * Len(a.units) + 2
    [] a.type = UnknownAttribute   -> 2 * Len(a.units) + 2
    [] OTHER                       -> 2 * Len(a.units)

\* encodeXorOnly writes no length.
EncodedAttr(a) ==
  IF a.type = XorOnly THEN <<XorOnly>> ELSE <<a.type, Length(a)>> \o a.units

stunEncodeMessage(type, attrs) ==
  LET body == FlattenSeq([i \in DOMAIN attrs |-> EncodedAttr(attrs[i])])
  IN [type |-> type, length |-> 2 * Len(body), body |-> body]

stunBuildReqSimple == stunEncodeMessage(BindRequestMsg, <<ChangeRequestAttr(0)>>)

-----------------------------------------------------------------------------
(* stunParseMessage.                                                        *)

\* Whether the stunParseAtr... of the type takes an attribute of len bytes
\* whose first unit is family.
Accepted(type, len, family) ==
  CASE type \in Addresses      -> len = 8 /\ family = IPv4Family
    [] type = ChangeRequest    -> len = 4
    [] type \in Strings        -> len < STUN_MAX_STRING /\ len % 4 = 0
    [] type = MessageIntegrity -> len = 20
    [] type = ErrorCode        -> len < SizeofError
    [] type = UnknownAttribute -> len < SizeofUnknown /\ len % 4 = 0
    [] type = XorOnly          -> TRUE
    [] OTHER                   -> type > 32767

\* The attributes of the body, or <<>> if one of them is refused.
stunParseMessage(msg) ==
  LET body == msg.body
      end == Len(body)
      \* "good" and the attributes from unit i on
      from[i \in 1 .. end + 1] ==
        IF i = end + 1 THEN [good |-> TRUE, attrs |-> <<>>]
        ELSE LET len == IF i < end THEN body[i + 1] ELSE 0
                 next == i + 2 + len \div 2
             IN IF /\ next <= end + 1
                   /\ Accepted(body[i], len, IF len > 0 THEN body[i + 2] ELSE 0)
                   /\ from[next].good
                THEN [good |-> TRUE,
                      attrs |-> <<[type |-> body[i], units |-> SubSeq(body, i + 2, next - 1)]>>
                                \o from[next].attrs]
                ELSE [good |-> FALSE, attrs |-> <<>>]
  IN IF msg.length = 2 * end THEN from[1] ELSE [good |-> FALSE, attrs |-> <<>>]

\* The field of an address attribute after the parse: the last one read, or
\* what memset left.
FieldOf(attrs, type) ==
  LET found == {i \in DOMAIN attrs : attrs[i].type = type}
  IN IF found = {} THEN [port |-> 0, addr |-> 0]
     ELSE LET u == attrs[Max(found)].units
          IN [port |-> u[2], addr |-> 65536 * u[3] + u[4]]
=============================================================================
