----------------------------- MODULE NetAddress -----------------------------
(***************************************************************************)
(* Addresses, networks, endpoints and connections                          *)
(* (collector/collector/lib/NetworkConnection.{h,cpp}), and the messages   *)
(* they are sent as (NetworkStatusNotifier.cpp, ConnToProto).              *)
(*                                                                         *)
(* An address is its family and the bytes of data_ as they lie in memory,  *)
(* which is network order.  The word of a mask that the code keeps in host *)
(* order is compared with words in host order only, and is kept in network *)
(* order here.                                                             *)
(***************************************************************************)
LOCAL INSTANCE Integers
LOCAL INSTANCE Sequences

kMaxLen == 16
Length(family) == CASE family = "IPV4" -> 4 [] family = "IPV6" -> 16 [] OTHER -> 0
Zeros(n) == [k \in 1..n |-> 0]

(* The bytes behind the length of the family stay zero.                    *)
Address(family, bytes) ==
  [family |-> family,
   data |-> [k \in 1..kMaxLen |-> IF k <= Length(family) THEN bytes[k] ELSE 0]]
NoAddress == Address("UNKNOWN", <<>>)

(* Address::parse.  What getaddrinfo says of the text is the input: <<>>   *)
(* or an address of some family of sockets.                                *)
parse(addrinfo) ==
  IF addrinfo = <<>> \/ addrinfo[1].ss_family \notin {"AF_INET", "AF_INET6"} THEN <<>>
  ELSE <<Address(IF addrinfo[1].ss_family = "AF_INET" THEN "IPV4" ELSE "IPV6",
                 addrinfo[1].raw)>>

IsNullAddress(a) == a.data = Zeros(kMaxLen)

(* ToV6Compatible leaves the two bytes of ones out.                        *)
ToV6Compatible(a) ==
  CASE a.family = "IPV6" -> a
    [] a.family = "IPV4" -> Address("IPV6", Zeros(12) \o SubSeq(a.data, 1, 4))
    [] OTHER -> NoAddress

ToV6(a) ==
  CASE a.family = "IPV6" -> a
    [] a.family = "IPV4" -> Address("IPV6", Zeros(10) \o <<255, 255>> \o SubSeq(a.data, 1, 4))
    [] OTHER -> NoAddress

(* 127.0.0.0/8, ::1 and ::ffff:127.0.0.0/104.                              *)
IsLocal(a) ==
  CASE a.family = "IPV4" -> a.data[1] = 127
    [] a.family = "IPV6" -> /\ SubSeq(a.data, 1, 8) = Zeros(8)
                            /\ \/ SubSeq(a.data, 9, 16) = Zeros(7) \o <<1>>
                               \/ SubSeq(a.data, 9, 13) = <<0, 0, 255, 255, 127>>
    [] OTHER -> FALSE

-----------------------------------------------------------------------------
(* The first bits of an address, all others zero.                          *)
Masked(data, bits) ==
  [k \in 1..kMaxLen |->
     LET n == bits - 8 * (k - 1)
     IN  CASE n >= 8 -> data[k]
           [] n <= 0 -> 0
           [] OTHER  -> data[k] - (data[k] % 2^(8 - n))]

IPNet(a, bits, is_addr) ==
  LET b == IF bits > 8 * Length(a.family) THEN 8 * Length(a.family) ELSE bits
  IN  [address |-> a, bits |-> b, mask |-> Masked(a.data, b), is_addr |-> is_addr]

Contains(net, a) ==
  a.family = net.address.family /\ Masked(a.data, net.bits) = net.mask

(* operator==: the left side says what is compared.                        *)
SameNet(net, other) ==
  /\ net.bits = other.bits
  /\ IF net.is_addr THEN net.address = other.address ELSE net.mask = other.mask

V4Net(a, b, c, d, bits) == IPNet(Address("IPV4", <<a, b, c, d>>), bits, FALSE)
PrivateIPv4Networks ==
  {V4Net(10, 0, 0, 0, 8), V4Net(100, 64, 0, 0, 10), V4Net(169, 254, 0, 0, 16),
   V4Net(172, 16, 0, 0, 12), V4Net(192, 168, 0, 0, 16)}

PrivateIPv6Networks ==
  {IPNet(Address("IPV6", <<253>> \o Zeros(15)), 8, FALSE)}
  \cup {IPNet(ToV6(net.address), net.bits + 96, FALSE) : net \in PrivateIPv4Networks}

PrivateNetworks(family) ==
  CASE family = "IPV4" -> PrivateIPv4Networks
    [] family = "IPV6" -> PrivateIPv6Networks
    [] OTHER -> {}

IsPublic(a) == \A net \in PrivateNetworks(a.family) : ~Contains(net, a)

-----------------------------------------------------------------------------
Endpoint(net, port) == [network |-> net, port |-> port]
IsNullEndpoint(e) ==
  e.port = 0 /\ e.network.bits = 0 /\ IsNullAddress(e.network.address)
SameEndpoint(e, other) == e.port = other.port /\ SameNet(e.network, other.network)

(* The protocol and the role share a byte.                                 *)
L4Proto == <<"UNKNOWN", "TCP", "UDP", "ICMP">>
Connection(container, local, remote, proto, server) ==
  LET number == (CHOOSE n \in 1..4 : L4Proto[n] = proto) - 1
  IN  [container |-> container, local |-> local, remote |-> remote,
       flags |-> 2 * number + IF server THEN 1 ELSE 0]
is_server(c) == c.flags % 2 # 0
l4proto(c) == L4Proto[(c.flags \div 2) + 1]
SameConnection(c, other) ==
  /\ c.container = other.container /\ c.flags = other.flags
  /\ SameEndpoint(c.local, other.local) /\ SameEndpoint(c.remote, other.remote)

-----------------------------------------------------------------------------
(* The messages.                                                           *)
TranslateAddressFamily(family) ==
  CASE family = "IPV4" -> "SOCKET_FAMILY_IPV4"
    [] family = "IPV6" -> "SOCKET_FAMILY_IPV6"
    [] OTHER -> "SOCKET_FAMILY_UNKNOWN"
TranslateL4Protocol(proto) ==
  CASE proto = "TCP"  -> "L4_PROTOCOL_TCP"
    [] proto = "UDP"  -> "L4_PROTOCOL_UDP"
    [] proto = "ICMP" -> "L4_PROTOCOL_ICMP"
    [] OTHER -> "L4_PROTOCOL_UNKNOWN"

(* The address, and the network with its length behind it; neither is sent *)
(* of an endpoint that has none.  EndpointWithoutBits lacks the length.    *)
EndpointWithoutBits(e) ==
  LET bytes == SubSeq(e.network.address.data, 1, Length(e.network.address.family))
  IN  IF IsNullEndpoint(e) THEN <<>>
      ELSE <<[address |-> IF e.network.is_addr THEN bytes ELSE <<>>,
              ip_network |-> IF e.network.bits > 0 THEN bytes ELSE <<>>,
              port |-> e.port]>>

EndpointToProto(e) ==
  LET bytes == SubSeq(e.network.address.data, 1, Length(e.network.address.family))
  IN  IF IsNullEndpoint(e) THEN <<>>
      ELSE <<[address |-> IF e.network.is_addr THEN bytes ELSE <<>>,
              ip_network |-> IF e.network.bits > 0 THEN Append(bytes, e.network.bits) ELSE <<>>,
              port |-> e.port]>>

ConnToProto(c) ==
  [container_id |-> c.container,
   role |-> IF is_server(c) THEN "ROLE_SERVER" ELSE "ROLE_CLIENT",
   protocol |-> TranslateL4Protocol(l4proto(c)),
   socket_family |-> TranslateAddressFamily(c.local.network.address.family),
   local_address |-> EndpointToProto(c.local),
   remote_address |-> EndpointToProto(c.remote)]

-----------------------------------------------------------------------------
(* NetworkConnection.h:441 and RFC 1918, 6598, 3927: the private networks  *)
(* by their first and last addresses.                                      *)
PrivateByRange(bytes) ==
  \/ bytes[1] = 10
  \/ bytes[1] = 100 /\ bytes[2] \in 64..127
  \/ bytes[1] = 169 /\ bytes[2] = 254
  \/ bytes[1] = 172 /\ bytes[2] \in 16..31
  \/ bytes[1] = 192 /\ bytes[2] = 168

(* IsPublic and IsLocal: an IPv4 address is judged by its range, and alike *)
(* whether a socket gives it as IPv4 or in its IPv6 form, as sockets bound *)
(* to both families do.                                                    *)
FormsAgree(bytes) ==
  LET a4 == parse(<<[ss_family |-> "AF_INET", raw |-> bytes]>>)[1]
      a6 == parse(<<[ss_family |-> "AF_INET6", raw |-> ToV6(a4).data]>>)[1]
  IN  /\ ~IsPublic(a4) <=> PrivateByRange(bytes)
      /\ IsPublic(a6) <=> IsPublic(a4)
      /\ IsLocal(a4) <=> bytes[1] = 127
      /\ IsLocal(a6) <=> IsLocal(a4)

(* ConnToProto: connections that the tracker keeps apart are different     *)
(* messages, so that Sensor can tell which of them was closed; and a       *)
(* connection is sent with the protocol and role it was made with.         *)
MessagesTellApart(c, other) ==
  ConnToProto(c) = ConnToProto(other) => SameConnection(c, other) \/ SameConnection(other, c)
=============================================================================
