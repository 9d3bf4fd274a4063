---------------------------- MODULE ConnTracker -----------------------------
(***************************************************************************)
(* ConnectionTracker's view of connections and endpoints                   *)
(* (collector/collector/lib/ConnTracker.{h,cpp}): which of them are        *)
(* fetched, and the normalisation that maps the objects seen by the kernel *)
(* to the ones that are reported.                                          *)
(*                                                                         *)
(* Addresses are model values; a network is the set of the addresses it    *)
(* contains (the empty set is IPNet(), and the bits of a network are       *)
(* abstracted by the set itself).  One address family is modelled: the     *)
(* code keeps the same state for each family.                              *)
(***************************************************************************)
EXTENDS ConnStatus, FiniteSets

CONSTANTS
  Conn,                 \* raw connections (see NormalizeConnection)
  ContainerEndpoint,    \* raw listening endpoints (see NormalizeContainerEndpoint)
  Addr,                 \* remote addresses, NullAddr excluded
  NullAddr,             \* the all-zero address
  CanonicalExternal,    \* 255.255.255.255, "rest of the internet"
  PrivateNetworks,      \* PrivateNetworks() of the family
  NonAggregated,        \* addresses of the non-aggregated networks
  Networks,             \* the networks Sensor may make known
  NetAddr,              \* the address of each of them
  IgnoredPorts,         \* ignored_l4proto_port_pairs_
  IgnoredAddrs,         \* addresses of ignored_networks_
  ProcessKey            \* the advertised attributes of a process

ASSUME FiniteAssumption == IsFiniteSet(Conn) /\ IsFiniteSet(ContainerEndpoint)

ASSUME AddressAssumption ==
  /\ NullAddr \notin Addr /\ CanonicalExternal \notin Addr
  /\ NullAddr # CanonicalExternal
  /\ \A c \in Conn : c.raddr \in Addr \cup {NullAddr}

(* A network contains its own address, and of networks that share an       *)
(* address one is contained in all the others: they are prefixes of it.    *)
ASSUME NetworkAssumption ==
  /\ Networks \subseteq SUBSET Addr
  /\ NetAddr \in [Networks -> Addr]
  /\ \A n \in Networks : NetAddr[n] \in n
  /\ \A a \in Addr : \A N \in SUBSET Networks :
       N # {} /\ (\A n \in N : a \in n) => \E n \in N : \A m \in N : n \subseteq m

Direction == {"NONE", "INGRESS", "EGRESS", "BOTH"}

(* ExternalIPsConfig::IsEnabled                                            *)
IsEnabled(config, direction) == config \in {direction, "BOTH"}

(* What the control messages of Sensor determine: known_public_ips_,       *)
(* known_ip_networks_ and known_private_networks_exists_ (which has no     *)
(* entry for the family until a well-formed network list arrives).         *)
Knowledge == [public : SUBSET Addr, nets : SUBSET Networks,
              private_exists : {"unset", "no", "yes"}]

NoKnowledge == [public |-> {}, nets |-> {}, private_exists |-> "unset"]

ContainsPrivateNetwork(nets) ==
  \E n \in nets, p \in PrivateNetworks : n \subseteq p \/ p \subseteq n

-----------------------------------------------------------------------------
IsPublic(a) == \A p \in PrivateNetworks : a \notin p

(* NRadixTree::Find: the longest prefix, or the null network.              *)
Find(nets, a) ==
  LET matches == {n \in nets : a \in n}
  IN  IF matches = {} THEN {}
      ELSE CHOOSE n \in matches : \A m \in matches : n \subseteq m

IPNet(address, net) == [addr |-> address, net |-> net]

NormalizeAddress(a, known, enable_external_ips) ==
  LET keep_addr == ~IsPublic(a) \/ a \in NonAggregated
      network   == Find(known.nets, a)
  IN  IF a = NullAddr THEN IPNet(NullAddr, {})
      ELSE IF keep_addr /\ known.private_exists = "no" THEN IPNet(a, {})
      ELSE IF keep_addr \/ a \in known.public THEN IPNet(a, network)
      ELSE IF network # {} THEN IPNet(NetAddr[network], network)
      ELSE IF enable_external_ips THEN IPNet(a, {a})
      ELSE IPNet(CanonicalExternal, {})

IsCanonicalExternalIp(a) == a = CanonicalExternal

(* IsEphemeralPort: the confidence that a port is a client's.              *)
IsEphemeralPort(port) ==
  CASE port >= 49152 -> 4
    [] port >= 32768 /\ port < 49152 -> 3
    [] port >= 1025 /\ port <= 5000 -> 2
    [] port = 1024 -> 1
    [] OTHER -> 0

-----------------------------------------------------------------------------
(* A raw connection has container, lport, raddr, rport, proto and server;  *)
(* NormalizeConnectionNoLock keeps the local port of a server, the remote  *)
(* port of a client, and the network of the remote address.                *)
IsServer(c) ==
  IF c.proto = "UDP" THEN IsEphemeralPort(c.rport) > IsEphemeralPort(c.lport)
                     ELSE c.server

NormalizeConnection(c, known, config) ==
  LET server == IsServer(c)
  IN  [container |-> c.container,
       lport  |-> IF server THEN c.lport ELSE 0,
       remote |-> NormalizeAddress(c.raddr, known,
                     IsEnabled(config, IF server THEN "INGRESS" ELSE "EGRESS")),
       rport  |-> IF server THEN 0 ELSE c.rport,
       proto  |-> c.proto,
       server |-> server]

(* The connections that can be reported, over all configurations.          *)
NConn == {NormalizeConnection(c, known, config) :
            c \in Conn, known \in Knowledge, config \in Direction}

ShouldFetchConnection(c) ==
  /\ <<c.proto, c.lport>> \notin IgnoredPorts
  /\ <<c.proto, c.rport>> \notin IgnoredPorts
  /\ c.raddr \notin IgnoredAddrs

(* A raw endpoint has container, addr, port, proto and originator;         *)
(* NormalizeContainerEndpoint drops the address, and                       *)
(* AdvertisedEndpointEquality sees of the originator only its key.         *)
NormalizeContainerEndpoint(e) ==
  [container |-> e.container, port |-> e.port, proto |-> e.proto,
   originator |-> ProcessKey[e.originator]]

NEndpoint == {NormalizeContainerEndpoint(e) : e \in ContainerEndpoint}

ShouldFetchContainerEndpoint(e) == <<e.proto, e.port>> \notin IgnoredPorts

-----------------------------------------------------------------------------
(* FetchConnState(true, _) and FetchEndpointState(true, _)                 *)
FetchConnState(state, known, config) ==
  FetchState(state, [c \in Conn |-> NormalizeConnection(c, known, config)],
             {c \in Conn : ShouldFetchConnection(c)}, NConn)

FetchEndpointState(state) ==
  FetchState(state,
             [e \in ContainerEndpoint |-> NormalizeContainerEndpoint(e)],
             {e \in ContainerEndpoint : ShouldFetchContainerEndpoint(e)}, NEndpoint)

(* ShouldNormalizeConnection                                               *)
ShouldNormalizeConnection(n, known) ==
  IsCanonicalExternalIp(NormalizeAddress(n.remote.addr, known, FALSE).addr)

ShouldClose(n, known, enabling) ==
  IF enabling THEN IsCanonicalExternalIp(n.remote.addr)
  ELSE /\ ~IsCanonicalExternalIp(n.remote.addr)
       /\ ShouldNormalizeConnection(n, known)

(* The connections CloseConnectionsOnExternalIPsConfigChange closes.       *)
(* ClosedOnEgressChangeOnly lacks the second call of CloseConnections.     *)
ClosedOnEgressChangeOnly(known, prev, config) ==
  {n \in NConn : /\ ~n.server
                 /\ IsEnabled(config, "EGRESS") # IsEnabled(prev, "EGRESS")
                 /\ ShouldClose(n, known, IsEnabled(config, "EGRESS"))}

ClosedOnExternalIPsConfigChange(known, prev, config) ==
  {n \in NConn :
     LET direction == IF n.server THEN "INGRESS" ELSE "EGRESS"
     IN  /\ IsEnabled(config, direction) # IsEnabled(prev, direction)
         /\ ShouldClose(n, known, IsEnabled(config, direction))}
=============================================================================
