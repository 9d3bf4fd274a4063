----------------------------- MODULE MCNotifier -----------------------------
(***************************************************************************)
(* Instances of NetworkStatusNotifier for TLC.  A run goes through several *)
(* scenarios, and each behaviour through one of them: what is opened, what *)
(* Sensor and the operator may change, and for how long.                   *)
(***************************************************************************)
EXTENDS NetworkStatusNotifier

CONSTANTS Scenarios, a1, a2, p1, null, external, k1, k2, proc1, proc2

VARIABLE scenario

Client(k, a, p) == [container |-> k, lport |-> 40000, raddr |-> a, rport |-> p,
                    proto |-> "TCP", server |-> FALSE]
Server(k, a, p) == [container |-> k, lport |-> 80, raddr |-> a, rport |-> p,
                    proto |-> "TCP", server |-> TRUE]
(* A UDP socket that the kernel presents as a client's: its ports say that *)
(* it is a server's.                                                       *)
UdpServer(k, a, p) == [container |-> k, lport |-> 53, raddr |-> a, rport |-> p,
                       proto |-> "UDP", server |-> FALSE]
Endpoint(k, a, p, proc) == [container |-> k, addr |-> a, port |-> p, proto |-> "TCP",
                            originator |-> proc]

OneServer  == {Server(k1, a1, 50000)}
TwoClients == {Client(k1, a1, 443), Client(k1, a2, 443)}
TwoPeers   == {UdpServer(k1, p1, 50000), UdpServer(k1, p1, 50001)}

(* One port at two addresses, the same port of another process, and an     *)
(* ignored port of another container                                       *)
MCEndpoints == {Endpoint(k1, a1, 80, proc1), Endpoint(k1, a2, 80, proc1),
                Endpoint(k1, a1, 80, proc2), Endpoint(k2, a1, 9, proc1)}
MCProcessKey == [p \in {proc1, proc2} |-> p]

MCAddr == {a1, a2, p1}
MCPrivate == {{p1}}
MCNetworks == {{a1}, {a1, a2}}
MCNetAddr == [n \in MCNetworks |-> a1]
DiscardPort == {<<"TCP", 9>>}

ControlMsg(public, nets, ok) ==
  [has_ip_networks |-> TRUE, well_formed |-> ok, public |-> public, nets |-> nets]
MCMessages == {ControlMsg({}, {{a1, a2}}, TRUE), ControlMsg({a1}, {}, FALSE)}

NoSet == {}
NoMap == <<>>

AfterglowConns == OneServer \cup TwoPeers

-----------------------------------------------------------------------------
(* "server" and "peers" are with afterglow, and so is "networks", where    *)
(* the scraper is turned off; "clients" and "endpoints" are without.  Of   *)
(* two connections, the events of one are lost: only scrapes find it.      *)
Unscraped == INSTANCE NetworkStatusNotifier WITH TurnOffScrape <- TRUE

Opened == CASE scenario \in {"server", "networks"} -> OneServer
            [] scenario = "peers"                   -> TwoPeers
            [] scenario = "clients"                 -> TwoClients
            [] OTHER                                -> {}
Configured == CASE scenario = "server"  -> {"NONE", "INGRESS"}
                [] scenario = "clients" -> {"EGRESS"}
                [] OTHER                -> {"NONE"}
Unseen == {Client(k1, a2, 443), UdpServer(k1, p1, 50001)}
Until == IF scenario \in {"peers", "clients"} THEN 2 ELSE 3

MCInit == Init /\ scenario \in Scenarios /\ runtime_config \in Configured

MCNext ==
  /\ \/ scenario # "networks" /\ Next /\ networks_known' = NoKnowledge
     \/ scenario = "networks" /\ Unscraped!Next
  /\ open' \subseteq Opened /\ (scenario # "endpoints" => listening' = {})
  /\ runtime_config' \in Configured /\ clock' <= Until
  /\ \A i \in DOMAIN events' : events'[i].conn \notin Unseen
  /\ UNCHANGED scenario

MCSpec == MCInit /\ [][MCNext]_<<vars, scenario>>
=============================================================================
