--------------------------- MODULE NotifierProofs ---------------------------
(***************************************************************************)
(* Proofs about NetworkStatusNotifier, for every set of connections and    *)
(* endpoints, every normalisation, afterglow period, rate limit and bound. *)
(* DeltaProofs has the facts about its operators.                          *)
(***************************************************************************)
EXTENDS DeltaProofs

(* Outside a write no message is in flight, between rounds no scrape is    *)
(* held, and without a stream the notifier holds no old state and Sensor   *)
(* was told nothing.                                                       *)
Scoped ==
  /\ pc # "write" => msg = NoMessage
  /\ pc \in {"idle", "sleep", "write"} => all_conns = {}
  /\ pc = "idle" => /\ old_conn_state = EmptyMap(NConn)
                    /\ old_cep_state = EmptyMap(NEndpoint)
                    /\ view = {} /\ epview = {} /\ limited = {}

(* From the update of the tracker to the report, the tracker has every     *)
(* connection of the scrape, with the time of the scrape or a later one.   *)
ScrapeInTracker ==
  pc \in {"stamp", "fetch"} =>
    \A c \in all_conns : Present(conn_state[c]) /\ conn_state[c].ts >= ts

(* No endpoint in the tracker is as young as the scrape under way or, when *)
(* none is, as the next one.                                               *)
EndpointsOlder ==
  \A e \in ContainerEndpoint :
    /\ endpoint_state[e].ts <= clock
    /\ IF pc \in {"scrape", "update"} THEN endpoint_state[e].ts < ts /\ ts < next_scrape
                                      ELSE endpoint_state[e].ts < next_scrape

(* From the update of the tracker to the report, the endpoints of the      *)
(* scrape are active.                                                      *)
EndpointsActive ==
  /\ pc \in {"stamp", "fetch"} => \A e \in all_listen_endpoints : endpoint_state[e].active
  /\ pc \in {"idle", "sleep", "write"} => all_listen_endpoints = {}

IInv == /\ TypeOK /\ Scoped /\ TimeOrdered /\ ScrapeInTracker
        /\ EndpointsOlder /\ EndpointsActive
        /\ SensorViewExact /\ EndpointViewExact /\ NoDuplicateOpen

-----------------------------------------------------------------------------
(***************************************************************************)
(* Type correctness is inductive.                                          *)
(***************************************************************************)
LEMMA TypeStep == TypeOK /\ TimeOrdered /\ [Next]_vars => TypeOK'
<1> SUFFICES ASSUME TypeOK, TimeOrdered, [Next]_vars PROVE TypeOK'
  OBVIOUS
<1> USE DEF kernelVars, trackerVars, scrapeVars, oldVars, sensorVars, notifierVars, Locations
<1>1. CASE Tick
  BY <1>1 DEF TypeOK, Tick
<1>2. ASSUME NEW c \in Conn, NEW b \in BOOLEAN, Emit(c, b) PROVE events' \in Seq(Event)
  <2>1. [conn |-> c, ts |-> clock, added |-> b] \in Event
    BY DEF TypeOK, Event
  <2>2. events \in Seq(Event)
    BY DEF TypeOK
  <2> QED  BY <1>2, <2>1, <2>2 DEF Emit
<1>3. ASSUME NEW c \in Conn, OpenConnection(c) PROVE TypeOK'
  <2>1. events' \in Seq(Event)
    BY Zenon, <1>2, <1>3 DEF OpenConnection
  <2> QED  BY <1>3, <2>1 DEF TypeOK, OpenConnection
<1>4. ASSUME NEW c \in Conn, CloseConnection(c) PROVE TypeOK'
  <2>1. events' \in Seq(Event)
    BY Zenon, <1>2, <1>4 DEF CloseConnection
  <2> QED  BY <1>4, <2>1 DEF TypeOK, CloseConnection
<1>5. ASSUME NEW c \in Conn, NEW b \in BOOLEAN, UseConnection(c, b) PROVE TypeOK'
  <2>1. events' \in Seq(Event)
    BY <1>2, <1>5 DEF UseConnection
  <2> QED  BY <1>5, <2>1 DEF TypeOK, UseConnection
<1>6. ASSUME NEW e \in ContainerEndpoint, Listen(e) PROVE TypeOK'
  BY <1>6 DEF TypeOK, Listen
<1>7. CASE HandleSignal
  <2>1. Head(events) \in Event /\ Tail(events) \in Seq(Event)
    BY <1>7 DEF TypeOK, HandleSignal
  <2>2. NewStatus(Head(events).ts, Head(events).added) \in Status
    BY <2>1 DEF Event, NewStatus, Status
  <2>3. conn_state' \in [Conn -> Entry]
    <3>1. \A s \in Entry :
            EmplaceOrUpdate(s, NewStatus(Head(events).ts, Head(events).added)) \in Entry
      BY <2>2, EmplaceOrUpdateType, NoEntryFields
    <3> QED  BY <1>7, <2>1, <3>1 DEF TypeOK, HandleSignal, UpdateConnection, Event
  <2> QED  BY <1>7, <2>1, <2>3 DEF TypeOK, HandleSignal
<1>8. ASSUME NEW config \in RuntimeConfigs, SetRuntimeConfig(config) PROVE TypeOK'
  BY <1>8, ConfigAssumption DEF TypeOK, SetRuntimeConfig
<1>9. CASE RunSingle
  BY <1>9 DEF TypeOK, RunSingle
<1>10. ASSUME NEW m \in ControlMessages, OnRecvControlMessage(m) PROVE TypeOK'
  <2>1. m \in ControlMessage
    BY MessageAssumption
  <2>2. networks_known' \in Knowledge
    BY <1>10, <2>1 DEF OnRecvControlMessage, ControlMessage, Knowledge
  <2> QED  BY <1>10, <2>2 DEF TypeOK, OnRecvControlMessage
<1>11. CASE BeginScrape
  BY <1>11, ConfigAssumption DEF TypeOK, BeginScrape
<1>12. ASSUME NEW k \in Container, NEW b \in BOOLEAN, ScrapeContainer(k, b) PROVE TypeOK'
  BY <1>12 DEF TypeOK, ScrapeContainer
<1>13. CASE ScrapeFails
  BY <1>13 DEF TypeOK, ScrapeFails, NoScrape
<1>14. CASE Update
  <2>1. conn_state' \in [Conn -> Entry] /\ endpoint_state' \in [ContainerEndpoint -> Entry]
    BY <1>14, UpdateAllType DEF TypeOK, Update
  <2> QED  BY <1>14, <2>1 DEF TypeOK, Update
<1>15. CASE SetExternalIPsConfig
  BY <1>15 DEF TypeOK, SetExternalIPsConfig
<1>16. CASE Notify
  <2>1. PICK new, closing, delta, ep_delta, sent :
          /\ new = FetchConnState(conn_state, networks_known, external_ips_config)
          /\ closing = ClosedOnExternalIPsConfigChange(networks_known, prev_config,
                                                       external_ips_config)
          /\ delta = ConnDelta(new, closing)
          /\ ep_delta = ComputeDelta(FetchEndpointState(endpoint_state), old_cep_state)
          /\ sent \in RateLimited(Opens(delta))
          /\ old_conn_state' = NextOldConnState(new, closing)
          /\ old_cep_state' = FetchEndpointState(endpoint_state)
          /\ CreateInfoMessage(delta, ep_delta, sent)
          /\ limited' = (limited \ (Opens(delta) \cup Closes(delta)))
                          \cup (Opens(delta) \ sent)
          /\ pc' \in {"sleep", "write"}
    BY <1>16 DEF Notify
  <2>2. pc = "fetch"
    BY <1>16 DEF Notify
  <2>3. delta \in [NConn -> Entry] /\ old_conn_state' \in [NConn -> Entry]
    BY <2>1, <2>2, RoundDelta DEF NewState, Closing, RoundExact
  <2>4. ep_delta \in [NEndpoint -> Entry] /\ old_cep_state' \in [NEndpoint -> Entry]
    BY <2>1, EndpointRound
  <2>5. /\ Opens(delta) \subseteq NConn /\ Closes(delta) \subseteq NConn
        /\ Opens(ep_delta) \subseteq NEndpoint /\ Closes(ep_delta) \subseteq NEndpoint
        /\ sent \subseteq Opens(delta)
    BY <2>1, <2>3, <2>4 DEF Opens, Closes, RateLimited
  <2>6. msg' \in Message
    BY <2>1, <2>5 DEF CreateInfoMessage, Message
  <2>7. /\ conn_state' \in [Conn -> Entry] /\ endpoint_state' \in [ContainerEndpoint -> Entry]
    BY <1>16, ClearInactiveType DEF TypeOK, Notify
  <2>8. limited' \subseteq NConn
    BY <2>1, <2>5 DEF TypeOK
  <2>9. prev_config' \in Direction
    BY <1>16 DEF TypeOK, Notify
  <2> QED
    BY <1>16, <2>1, <2>3, <2>4, <2>6, <2>7, <2>8, <2>9 DEF TypeOK, Notify, NoScrape
<1>17. CASE Write
  <2>1. view' \subseteq NConn /\ epview' \subseteq NEndpoint
    BY <1>17 DEF TypeOK, Write, Reported, Message
  <2> QED  BY Zenon, <1>17, <2>1 DEF TypeOK, Write, NoMessage, Message
<1>18. CASE EndStream
  <2>1. /\ old_conn_state' \in [NConn -> Entry]
        /\ old_cep_state' \in [NEndpoint -> Entry]
    BY <1>18, NoEntryFields DEF EndStream, EmptyMap
  <2>2. msg' \in Message
    BY Zenon, <1>18 DEF EndStream, NoMessage, Message
  <2>3. next_scrape' \in Nat /\ time_at_last_scrape' \in Nat
    BY <1>18, ConfigAssumption DEF TypeOK, EndStream
  <2>4. pc' \in Locations /\ prev_config' \in Direction
    BY <1>18 DEF EndStream, Direction
  <2>5. view' \subseteq NConn /\ epview' \subseteq NEndpoint /\ limited' \subseteq NConn
    BY <1>18 DEF EndStream
  <2>6. UNCHANGED <<clock, kernelVars, runtime_config, trackerVars, scrapeVars, time_micros>>
    BY <1>18 DEF EndStream
  <2> QED  BY <2>1, <2>2, <2>3, <2>4, <2>5, <2>6 DEF TypeOK
<1>19. CASE UNCHANGED vars
  BY <1>19 DEF TypeOK, vars
<1> QED
  BY <1>1, <1>3, <1>4, <1>5, <1>6, <1>7, <1>8, <1>9, <1>10, <1>11, <1>12, <1>13,
     <1>14, <1>15, <1>16, <1>17, <1>18, <1>19 DEF Next

-----------------------------------------------------------------------------
(***************************************************************************)
(* The round that reports: what Sensor will hold open after the message is *)
(* what the new old states say, and nothing it holds open is opened again. *)
(***************************************************************************)
LEMMA NotifyStep ==
  ASSUME IInv, Notify
  PROVE  SensorViewExact' /\ EndpointViewExact' /\ NoDuplicateOpen'
<1> USE DEF IInv
<1>1. PICK new, closing, delta, ep_delta, sent :
        /\ new = FetchConnState(conn_state, networks_known, external_ips_config)
        /\ closing = ClosedOnExternalIPsConfigChange(networks_known, prev_config,
                                                     external_ips_config)
        /\ delta = ConnDelta(new, closing)
        /\ ep_delta = ComputeDelta(FetchEndpointState(endpoint_state), old_cep_state)
        /\ sent \in RateLimited(Opens(delta))
        /\ old_conn_state' = NextOldConnState(new, closing)
        /\ old_cep_state' = FetchEndpointState(endpoint_state)
        /\ CreateInfoMessage(delta, ep_delta, sent)
        /\ limited' = (limited \ (Opens(delta) \cup Closes(delta)))
                        \cup (Opens(delta) \ sent)
  BY DEF Notify
<1>2. /\ pc = "fetch" /\ msg = NoMessage
      /\ view' = view /\ epview' = epview /\ time_at_last_scrape' = time_micros
  BY DEF Notify, Scoped
<1> DEFINE o(n) == OpenEntry(old_conn_state[n], time_at_last_scrape)
           o1(n) == OpenEntry(old_conn_state'[n], time_micros)
<1>3. /\ delta \in [NConn -> Entry]
      /\ \A n \in NConn :
           /\ delta[n].active => o1(n) /\ ~o(n)
           /\ Present(delta[n]) /\ ~delta[n].active => ~o1(n)
           /\ ~Present(delta[n]) => (o1(n) <=> o(n))
  <2>1. TypeOK /\ TimeOrdered
    OBVIOUS
  <2> HIDE DEF IInv
  <2>2. RoundExact(new, delta, old_conn_state')
    BY <1>1, <1>2, <2>1, RoundDelta DEF NewState, Closing
  <2> QED  BY <2>2 DEF RoundExact
<1>4. \A n \in NConn : delta[n].active => Present(delta[n])
  BY <1>3, EntryFields
<1>5. view = {n \in NConn : o(n)} \ limited
  BY <1>2 DEF SensorViewExact, Reported, NoMessage, ReportedOpen, OpenEntry
<1>6. ReportedOpen' = {n \in NConn : o1(n)}
  BY <1>2 DEF ReportedOpen, OpenEntry
<1>7. /\ msg'.opens = sent /\ msg'.closes = Closes(delta)
      /\ msg'.epOpens = Opens(ep_delta) /\ msg'.epCloses = Closes(ep_delta)
  BY <1>1 DEF CreateInfoMessage
<1>8. /\ Opens(delta) = {n \in NConn : delta[n].active}
      /\ Closes(delta) = {n \in NConn : Present(delta[n]) /\ ~delta[n].active}
      /\ sent \subseteq Opens(delta)
  BY Zenon, <1>1, <1>3 DEF Opens, Closes, RateLimited
<1>9. SensorViewExact'
  <2> HIDE DEF o, o1
  <2>1. Reported(view, sent, Closes(delta)) = {n \in NConn : o1(n)} \ limited'
    <3>1. ASSUME NEW n \in NConn
          PROVE  n \in Reported(view, sent, Closes(delta)) <=> o1(n) /\ n \notin limited'
      <4>1. CASE n \in Opens(delta)
        BY <1>1, <1>3, <1>5, <1>8, <4>1 DEF Reported
      <4>2. CASE n \in Closes(delta)
        BY <1>1, <1>3, <1>5, <1>8, <4>2 DEF Reported
      <4>3. CASE n \notin Opens(delta) /\ n \notin Closes(delta)
        <5>1. ~Present(delta[n])
          BY <1>8, <4>3
        <5>2. n \notin sent /\ (n \in limited' <=> n \in limited)
          BY Zenon, <1>1, <1>8, <4>3
        <5> QED  BY <1>3, <1>5, <4>3, <5>1, <5>2 DEF Reported
      <4> QED  BY <4>1, <4>2, <4>3
    <3>2. Reported(view, sent, Closes(delta)) \subseteq NConn
      BY <1>5, <1>8 DEF Reported
    <3> QED  BY <3>1, <3>2
  <2> QED  BY <1>2, <1>6, <1>7, <2>1 DEF SensorViewExact, Reported
<1>10. /\ ep_delta \in [NEndpoint -> Entry]
       /\ \A n \in NEndpoint :
            /\ ep_delta[n].active => old_cep_state'[n].active /\ ~old_cep_state[n].active
            /\ Present(ep_delta[n]) /\ ~ep_delta[n].active => ~old_cep_state'[n].active
            /\ ~Present(ep_delta[n]) =>
                 (old_cep_state'[n].active <=> old_cep_state[n].active)
  BY <1>1, EndpointRound
<1>11. /\ Opens(ep_delta) = {n \in NEndpoint : ep_delta[n].active}
       /\ Closes(ep_delta) = {n \in NEndpoint : Present(ep_delta[n]) /\ ~ep_delta[n].active}
  BY <1>10 DEF Opens, Closes
<1>12. \A n \in NEndpoint : ep_delta[n].active => Present(ep_delta[n])
  BY <1>10, EntryFields
<1>13. epview = {e \in NEndpoint : old_cep_state[e].active}
  BY <1>2 DEF EndpointViewExact, Reported, NoMessage
<1>14. EndpointViewExact'
  <2>1. Reported(epview, Opens(ep_delta), Closes(ep_delta))
          = {e \in NEndpoint : old_cep_state'[e].active}
    <3>1. ASSUME NEW n \in NEndpoint
          PROVE  n \in Reported(epview, Opens(ep_delta), Closes(ep_delta))
                   <=> old_cep_state'[n].active
      <4>1. CASE ep_delta[n].active
        BY <1>10, <1>11, <1>13, <4>1 DEF Reported
      <4>2. CASE ~ep_delta[n].active /\ Present(ep_delta[n])
        BY <1>10, <1>11, <1>13, <4>2 DEF Reported
      <4>3. CASE ~Present(ep_delta[n])
        BY <1>10, <1>11, <1>12, <1>13, <4>3 DEF Reported
      <4> QED  BY <4>1, <4>2, <4>3
    <3>2. Reported(epview, Opens(ep_delta), Closes(ep_delta)) \subseteq NEndpoint
      BY <1>11, <1>13 DEF Reported
    <3> QED  BY <3>1, <3>2
  <2> QED  BY <1>2, <1>7, <2>1 DEF EndpointViewExact, Reported
<1>15. NoDuplicateOpen'
  <2> HIDE DEF o, o1
  <2>1. sent \cap view = {}
    BY <1>3, <1>5, <1>8
  <2>2. Opens(ep_delta) \cap epview = {}
    BY <1>10, <1>11, <1>13
  <2> QED  BY <1>2, <1>7, <2>1, <2>2 DEF NoDuplicateOpen
<1> QED  BY <1>9, <1>14, <1>15

(* A step that leaves the reports alone keeps what they establish.         *)
LEMMA FrameStep ==
  ASSUME IInv, pc = "idle" <=> pc' = "idle",
         UNCHANGED <<msg, view, epview, limited, old_conn_state, old_cep_state,
                     time_at_last_scrape>>
  PROVE  SensorViewExact' /\ EndpointViewExact' /\ NoDuplicateOpen'
<1>1. ReportedOpen' = ReportedOpen
  BY DEF ReportedOpen
<1> QED  BY <1>1 DEF IInv, SensorViewExact, EndpointViewExact, NoDuplicateOpen, Reported

(* Every step keeps the views of Sensor exact.                             *)
LEMMA ViewStep ==
  ASSUME IInv, [Next]_vars
  PROVE  SensorViewExact' /\ EndpointViewExact' /\ NoDuplicateOpen'
<1> USE DEF kernelVars, trackerVars, scrapeVars, oldVars, sensorVars, notifierVars
<1>1. CASE \/ Tick
           \/ \E c \in Conn : OpenConnection(c)
           \/ \E c \in Conn : CloseConnection(c)
           \/ \E c \in Conn, added \in BOOLEAN : UseConnection(c, added)
           \/ \E e \in ContainerEndpoint : Listen(e)
           \/ HandleSignal
           \/ \E config \in RuntimeConfigs : SetRuntimeConfig(config)
           \/ \E m \in ControlMessages : OnRecvControlMessage(m)
  BY Zenon, <1>1, FrameStep DEF Tick, OpenConnection, CloseConnection, UseConnection, Listen,
       HandleSignal, SetRuntimeConfig, OnRecvControlMessage
<1>2. CASE \/ BeginScrape \/ ScrapeFails \/ Update \/ SetExternalIPsConfig
           \/ \E k \in Container, b \in BOOLEAN : ScrapeContainer(k, b)
  BY Zenon, <1>2, FrameStep DEF BeginScrape, ScrapeContainer, ScrapeFails, Update,
       SetExternalIPsConfig
<1>3. CASE RunSingle
  <2>1. /\ view' = {} /\ epview' = {} /\ msg' = NoMessage /\ limited' = {}
        /\ old_conn_state' = EmptyMap(NConn) /\ old_cep_state' = EmptyMap(NEndpoint)
    BY <1>3 DEF IInv, Scoped, RunSingle
  <2>2. \A n \in NConn : ~Present(old_conn_state'[n])
    BY <2>1, NoEntryFields DEF EmptyMap
  <2>3. \A e \in NEndpoint : ~old_cep_state'[e].active
    BY <2>1, NoEntryFields DEF EmptyMap
  <2>4. ReportedOpen' = {}
    BY <2>2 DEF ReportedOpen
  <2> QED  BY Zenon, <2>1, <2>3, <2>4 DEF SensorViewExact, EndpointViewExact, NoDuplicateOpen,
                                   Reported, NoMessage
<1>4. CASE Notify
  BY <1>4, NotifyStep
<1>5. CASE Write
  <2>1. ReportedOpen' = ReportedOpen
    BY Zenon, <1>5 DEF Write, ReportedOpen
  <2>2. /\ msg' = NoMessage /\ pc = "write"
        /\ view' = Reported(view, msg.opens, msg.closes)
        /\ epview' = Reported(epview, msg.epOpens, msg.epCloses)
        /\ UNCHANGED <<limited, old_cep_state>>
    BY <1>5 DEF Write
  <2>3. \A S : Reported(S, {}, {}) = S
    BY DEF Reported
  <2>4. /\ Reported(view, msg.opens, msg.closes)' = view'
        /\ Reported(epview, msg.epOpens, msg.epCloses)' = epview'
    BY <2>2 DEF Reported, NoMessage
  <2> QED  BY Zenon, <2>1, <2>2, <2>4 DEF IInv, SensorViewExact, EndpointViewExact,
                                   NoDuplicateOpen, NoMessage
<1>6. CASE EndStream
  BY <1>6 DEF EndStream, SensorViewExact, EndpointViewExact, NoDuplicateOpen, NoMessage
<1>7. CASE UNCHANGED vars
  BY <1>7, FrameStep DEF vars
<1> QED  BY <1>1, <1>2, <1>3, <1>4, <1>5, <1>6, <1>7 DEF Next

(* Every step keeps the scopes of the notifier's local variables and the   *)
(* order of its times.                                                     *)
LEMMA ScopeStep ==
  ASSUME IInv, [Next]_vars
  PROVE  Scoped' /\ TimeOrdered'
<1> USE DEF kernelVars, trackerVars, scrapeVars, oldVars, sensorVars, notifierVars,
            Scoped, TimeOrdered
<1>0. /\ Scoped /\ TimeOrdered
      /\ clock \in Nat /\ ts \in Nat
      /\ time_at_last_scrape \in Nat /\ time_micros \in Nat
  BY DEF IInv, TypeOK
<1>1. CASE \/ Tick
           \/ \E c \in Conn : OpenConnection(c)
           \/ \E c \in Conn : CloseConnection(c)
           \/ \E c \in Conn, added \in BOOLEAN : UseConnection(c, added)
           \/ \E e \in ContainerEndpoint : Listen(e)
           \/ HandleSignal
           \/ \E config \in RuntimeConfigs : SetRuntimeConfig(config)
           \/ \E m \in ControlMessages : OnRecvControlMessage(m)
  <2>1. UNCHANGED notifierVars /\ (clock' = clock \/ clock' = clock + 1)
    BY Zenon, <1>1 DEF Tick, OpenConnection, CloseConnection, UseConnection, Listen,
         HandleSignal, SetRuntimeConfig, OnRecvControlMessage
  <2> QED  BY <1>0, <2>1
<1>2. CASE RunSingle
  BY <1>0, <1>2 DEF RunSingle
<1>3. CASE BeginScrape \/ ScrapeFails
  <2>1. CASE BeginScrape
    BY SMTT(30), <1>0, <2>1 DEF BeginScrape
  <2>2. CASE ScrapeFails
    BY <1>0, <2>2 DEF ScrapeFails, NoScrape
  <2> QED  BY <1>3, <2>1, <2>2
<1>4. CASE Update \/ \E k \in Container, b \in BOOLEAN : ScrapeContainer(k, b)
  BY <1>0, <1>4 DEF Update, ScrapeContainer
<1>5. CASE SetExternalIPsConfig
  BY <1>0, <1>5 DEF SetExternalIPsConfig
<1>6. CASE Notify
  <2>1. /\ pc' = "sleep" => msg' = NoMessage
        /\ pc' \in {"sleep", "write"}
    <3>1. PICK delta, ep_delta, sent :
            /\ sent \in RateLimited(Opens(delta))
            /\ CreateInfoMessage(delta, ep_delta, sent)
            /\ pc' = IF /\ Opens(delta) \cup Closes(delta) = {}
                        /\ Opens(ep_delta) \cup Closes(ep_delta) = {}
                     THEN "sleep" ELSE "write"
      BY SMTT(30), <1>6 DEF Notify
    <3>2. sent \subseteq Opens(delta)
      BY <3>1 DEF RateLimited
    <3>3. pc' = "sleep" => /\ sent = {} /\ Closes(delta) = {}
                           /\ Opens(ep_delta) = {} /\ Closes(ep_delta) = {}
      BY <3>1, <3>2
    <3> QED  BY <3>1, <3>3 DEF CreateInfoMessage, NoMessage
  <2>2. /\ pc = "fetch" /\ clock' = clock /\ time_at_last_scrape' = time_micros
        /\ time_micros' = 0 /\ NoScrape
    BY <1>6 DEF Notify
  <2> QED  BY <1>0, <2>1, <2>2 DEF NoScrape
<1>7. CASE Write
  BY <1>0, <1>7 DEF Write
<1>8. CASE EndStream
  <2>1. Scoped'
    BY <1>0, <1>8 DEF EndStream
  <2>2. clock' = clock /\ ts' = ts /\ time_at_last_scrape' = 0 /\ pc' = "idle"
    BY <1>8 DEF EndStream
  <2> QED  BY <1>0, <2>1, <2>2
<1>9. CASE UNCHANGED vars
  BY <1>0, <1>9 DEF vars
<1> QED  BY Zenon, <1>1, <1>2, <1>3, <1>4, <1>5, <1>6, <1>7, <1>8, <1>9 DEF Next

(* Every step keeps the connections of the scrape in the tracker.          *)
LEMMA ScrapeStep ==
  ASSUME IInv, [Next]_vars
  PROVE  ScrapeInTracker'
<1> USE DEF kernelVars, trackerVars, scrapeVars, oldVars, sensorVars, notifierVars
<1>1. CASE \/ Tick
           \/ \E c \in Conn : OpenConnection(c)
           \/ \E c \in Conn : CloseConnection(c)
           \/ \E c \in Conn, added \in BOOLEAN : UseConnection(c, added)
           \/ \E e \in ContainerEndpoint : Listen(e)
           \/ \E config \in RuntimeConfigs : SetRuntimeConfig(config)
           \/ \E m \in ControlMessages : OnRecvControlMessage(m)
           \/ SetExternalIPsConfig
           \/ UNCHANGED vars
  BY Zenon, <1>1 DEF Tick, OpenConnection, CloseConnection, UseConnection, Listen,
       SetRuntimeConfig, OnRecvControlMessage, SetExternalIPsConfig, IInv,
       ScrapeInTracker, vars
<1>2. CASE HandleSignal
  <2>1. /\ conn_state' = [conn_state EXCEPT ![Head(events).conn] =
             EmplaceOrUpdate(@, NewStatus(Head(events).ts, Head(events).added))]
        /\ UNCHANGED <<pc, ts, all_conns>>
    BY <1>2 DEF HandleSignal, UpdateConnection
  <2>2. /\ conn_state \in [Conn -> Entry] /\ all_conns \subseteq Conn /\ ts \in Nat
        /\ Head(events) \in Event
    BY <1>2 DEF IInv, TypeOK, HandleSignal
  <2>3. NewStatus(Head(events).ts, Head(events).added) \in Status
    BY Zenon, <2>2 DEF Event, NewStatus, Status
  <2>4. ASSUME NEW c \in all_conns, pc \in {"stamp", "fetch"}
        PROVE  Present(conn_state'[c]) /\ conn_state'[c].ts >= ts
    <3>1. Present(conn_state[c]) /\ conn_state[c].ts >= ts /\ conn_state[c] \in Entry
      BY <2>2, <2>4 DEF IInv, ScrapeInTracker
    <3>2. CASE c = Head(events).conn
      <4> DEFINE e == EmplaceOrUpdate(conn_state[c],
                          NewStatus(Head(events).ts, Head(events).added))
      <4>1. conn_state'[c] = e
        BY <2>1, <2>2, <3>2
      <4>2. e \in Status /\ e.ts >= conn_state[c].ts
        BY <2>3, <3>1, EmplaceOrUpdateType
      <4>3. e \in Entry /\ e.ts \in Int /\ Present(e)
        <5> HIDE DEF e
        <5> QED  BY <4>2, EntryFields, NoEntryFields
      <4>4. conn_state[c].ts \in Int
        BY <3>1, EntryFields
      <4> HIDE DEF e
      <4> QED  BY <2>2, <3>1, <4>1, <4>2, <4>3, <4>4
    <3>3. CASE c # Head(events).conn
      BY Zenon, <2>1, <2>2, <3>1, <3>3
    <3> QED  BY <3>2, <3>3
  <2> QED  BY Zenon, <2>1, <2>4 DEF ScrapeInTracker
<1>3. CASE RunSingle
  BY Zenon, <1>3 DEF RunSingle, ScrapeInTracker
<1>4. CASE BeginScrape
  BY <1>4 DEF BeginScrape, IInv, Scoped, ScrapeInTracker
<1>5. CASE \E k \in Container, b \in BOOLEAN : ScrapeContainer(k, b)
  BY <1>5 DEF ScrapeContainer, ScrapeInTracker
<1>6. CASE Update
  <2>1. /\ conn_state' = UpdateAll(conn_state, all_conns, ts)
        /\ UNCHANGED <<ts, all_conns>>
    BY <1>6 DEF Update
  <2>2. conn_state \in [Conn -> Entry] /\ all_conns \subseteq Conn /\ ts \in Nat
    BY DEF IInv, TypeOK
  <2>3. \A c \in Conn \cap all_conns : Present(conn_state'[c]) /\ conn_state'[c].ts >= ts
    BY <2>1, <2>2, UpdateAllType
  <2> QED  BY <2>1, <2>2, <2>3 DEF ScrapeInTracker
<1>7. CASE Notify
  BY Zenon, <1>7 DEF Notify, NoScrape, ScrapeInTracker
<1>8. CASE ScrapeFails \/ Write \/ EndStream
  BY Zenon, <1>8 DEF ScrapeFails, Write, EndStream, NoScrape, ScrapeInTracker
<1> QED  BY <1>1, <1>2, <1>3, <1>4, <1>5, <1>6, <1>7, <1>8 DEF Next

(* Every step keeps the endpoints of the tracker older than the scrape,    *)
(* and those of the scrape active.                                         *)
LEMMA EndpointStep ==
  ASSUME IInv, [Next]_vars
  PROVE  EndpointsOlder' /\ EndpointsActive'
<1> USE DEF kernelVars, trackerVars, scrapeVars, oldVars, sensorVars, notifierVars
<1>1. /\ EndpointsOlder /\ EndpointsActive /\ clock \in Nat /\ ts \in Nat /\ next_scrape \in Nat
      /\ endpoint_state \in [ContainerEndpoint -> Entry]
      /\ all_listen_endpoints \subseteq ContainerEndpoint
      /\ ScrapeInterval \in Nat \ {0} /\ RetryInterval \in Nat \ {0} /\ ts <= clock
  BY ConfigAssumption DEF IInv, TypeOK, TimeOrdered
<1>2. \A e \in ContainerEndpoint : endpoint_state[e] \in Entry /\ endpoint_state[e].ts \in Int
  BY <1>1, EntryFields
<1>3. CASE \/ Tick
           \/ \E c \in Conn : OpenConnection(c)
           \/ \E c \in Conn : CloseConnection(c)
           \/ \E c \in Conn, added \in BOOLEAN : UseConnection(c, added)
           \/ \E e \in ContainerEndpoint : Listen(e)
           \/ HandleSignal
           \/ \E config \in RuntimeConfigs : SetRuntimeConfig(config)
           \/ \E m \in ControlMessages : OnRecvControlMessage(m)
           \/ SetExternalIPsConfig
           \/ UNCHANGED vars
  <2>1. /\ UNCHANGED <<endpoint_state, all_listen_endpoints, ts, next_scrape>>
        /\ pc' = pc \/ (pc = "stamp" /\ pc' = "fetch")
        /\ clock' \in {clock, clock + 1}
    BY Zenon, <1>3 DEF Tick, OpenConnection, CloseConnection, UseConnection, Listen, HandleSignal,
         SetRuntimeConfig, OnRecvControlMessage, SetExternalIPsConfig, vars
  <2> QED  BY SMTT(30), <1>1, <1>2, <2>1 DEF EndpointsOlder, EndpointsActive
<1>4. CASE RunSingle
  <2>1. /\ pc = "idle" /\ pc' = "sleep" /\ next_scrape' = clock /\ clock >= next_scrape
        /\ UNCHANGED <<clock, ts, endpoint_state, all_listen_endpoints>>
    BY <1>4 DEF RunSingle
  <2>2. \A e \in ContainerEndpoint : endpoint_state[e].ts < clock
    BY <1>1, <1>2, <2>1 DEF EndpointsOlder
  <2> QED  BY <1>1, <1>2, <2>1, <2>2 DEF EndpointsOlder, EndpointsActive
<1>5. CASE BeginScrape
  <2>1. /\ pc = "sleep" /\ clock >= next_scrape /\ next_scrape' = clock + ScrapeInterval
        /\ UNCHANGED <<clock, endpoint_state>>
        /\ \/ pc' = "stamp" /\ all_listen_endpoints' = all_listen_endpoints
           \/ pc' = "scrape" /\ ts' = clock
    BY <1>5 DEF BeginScrape
  <2>2. \A e \in ContainerEndpoint :
          endpoint_state[e].ts < clock /\ endpoint_state[e].ts < next_scrape'
    BY <1>1, <1>2, <2>1 DEF EndpointsOlder
  <2> QED  BY SMTT(30), <1>1, <1>2, <2>1, <2>2 DEF EndpointsOlder, EndpointsActive
<1>6. CASE \E k \in Container, b \in BOOLEAN : ScrapeContainer(k, b)
  BY <1>1, <1>6 DEF ScrapeContainer, EndpointsOlder, EndpointsActive
<1>7. CASE ScrapeFails
  <2>1. \A e \in ContainerEndpoint : endpoint_state[e].ts < ts /\ ts < next_scrape
    BY <1>1, <1>7 DEF ScrapeFails, EndpointsOlder
  <2>2. /\ pc' = "sleep" /\ all_listen_endpoints' = {}
        /\ UNCHANGED <<clock, next_scrape, endpoint_state>>
    BY <1>7 DEF ScrapeFails, NoScrape
  <2>3. \A e \in ContainerEndpoint :
          endpoint_state[e].ts < next_scrape /\ endpoint_state[e].ts <= clock
    BY <1>1, <1>2, <2>1 DEF EndpointsOlder
  <2> QED  BY <2>2, <2>3 DEF EndpointsOlder, EndpointsActive
<1>8. CASE Update
  <2>1. /\ endpoint_state' = UpdateAll(endpoint_state, all_listen_endpoints, ts)
        /\ UNCHANGED <<all_listen_endpoints, next_scrape, clock>>
        /\ pc = "update" /\ pc' = "stamp"
    BY <1>8 DEF Update
  <2>2. ASSUME NEW e \in ContainerEndpoint
        PROVE  /\ endpoint_state'[e].ts < next_scrape /\ endpoint_state'[e].ts <= clock
               /\ e \in all_listen_endpoints => endpoint_state'[e].active
    <3>1. endpoint_state[e].ts < ts /\ ts < next_scrape
      BY <1>1, <2>1 DEF EndpointsOlder
    <3>2. endpoint_state'[e] =
            IF e \in all_listen_endpoints
            THEN EmplaceOrUpdate(SetActive(endpoint_state[e], FALSE), NewStatus(ts, TRUE))
            ELSE SetActive(endpoint_state[e], FALSE)
      BY <1>1, <2>1 DEF UpdateAll
    <3>3. /\ endpoint_state'[e].ts \in {endpoint_state[e].ts, ts}
          /\ e \in all_listen_endpoints => endpoint_state'[e].active
      <4>1. endpoint_state[e] \in Entry /\ ts \in Nat
        BY <1>1, <1>2
      <4>2. CASE e \in all_listen_endpoints
        <5>1. endpoint_state'[e] = NewStatus(ts, TRUE)
          BY Zenon, <3>1, <3>2, <4>1, <4>2, YoungerReplaces
        <5> QED  BY <5>1 DEF NewStatus
      <4>3. CASE e \notin all_listen_endpoints
        BY Zenon, <3>1, <3>2, <4>1, <4>3, YoungerReplaces
      <4> QED  BY <4>2, <4>3
    <3> QED  BY <1>1, <1>2, <3>1, <3>3
  <2> QED  BY <1>1, <2>1, <2>2 DEF EndpointsOlder, EndpointsActive
<1>9. CASE Notify
  <2>1. /\ endpoint_state' = ClearInactive(endpoint_state) /\ pc = "fetch"
        /\ all_listen_endpoints' = {} /\ UNCHANGED <<clock, next_scrape>>
        /\ pc' \in {"sleep", "write"}
    BY <1>9 DEF Notify, NoScrape
  <2>2. ASSUME NEW e \in ContainerEndpoint
        PROVE  endpoint_state'[e].ts < next_scrape /\ endpoint_state'[e].ts <= clock
    BY SMTT(30), <1>1, <1>2, <2>1 DEF ClearInactive, NoEntry, EndpointsOlder
  <2> QED  BY <2>1, <2>2 DEF EndpointsOlder, EndpointsActive
<1>10. CASE Write
  <2>1. /\ pc = "write" /\ pc' = "sleep"
        /\ UNCHANGED <<clock, next_scrape, ts, endpoint_state, all_listen_endpoints>>
    BY <1>10 DEF Write
  <2> QED  BY <1>1, <2>1 DEF EndpointsOlder, EndpointsActive
<1>11. CASE EndStream
  <2>1. /\ pc \in {"sleep", "write"} /\ pc' = "idle" /\ next_scrape' = clock + RetryInterval
        /\ UNCHANGED <<clock, ts, endpoint_state, all_listen_endpoints>>
    BY <1>11 DEF EndStream
  <2>2. \A e \in ContainerEndpoint :
          endpoint_state[e].ts <= clock /\ endpoint_state[e].ts < next_scrape'
    BY <1>1, <1>2, <2>1 DEF EndpointsOlder
  <2> QED  BY <1>1, <2>1, <2>2 DEF EndpointsOlder, EndpointsActive
<1> QED  BY <1>3, <1>4, <1>5, <1>6, <1>7, <1>8, <1>9, <1>10, <1>11 DEF Next

-----------------------------------------------------------------------------
(* The invariant holds when the notifier starts.                           *)
LEMMA InitIInv == Init => IInv
<1> SUFFICES ASSUME Init PROVE IInv
  OBVIOUS
<1> USE DEF Init, EmptyMap, NoMessage
<1>1. TypeOK
  <2>1. /\ runtime_config \in Direction /\ external_ips_config \in Direction
        /\ prev_config \in Direction /\ pc \in Locations
    BY ConfigAssumption DEF Direction, Locations
  <2>2. networks_known \in Knowledge /\ msg \in Message
    BY Zenon DEF Knowledge, NoKnowledge, Message
  <2>3. /\ conn_state \in [Conn -> Entry] /\ endpoint_state \in [ContainerEndpoint -> Entry]
        /\ old_conn_state \in [NConn -> Entry] /\ old_cep_state \in [NEndpoint -> Entry]
    BY NoEntryFields
  <2>4. events \in Seq(Event)
    BY SMTT(30)
  <2> QED  BY <2>1, <2>2, <2>3, <2>4 DEF TypeOK
<1>2. Scoped
  BY Zenon DEF Scoped
<1>3. TimeOrdered /\ ScrapeInTracker /\ EndpointsActive
  <2>1. /\ pc = "idle" /\ clock = 0 /\ ts = 0 /\ time_at_last_scrape = 0
        /\ all_listen_endpoints = {}
    OBVIOUS
  <2> HIDE DEF Init
  <2> QED  BY <2>1 DEF TimeOrdered, ScrapeInTracker, EndpointsActive
<1>4. EndpointsOlder
  <2>1. /\ pc = "idle" /\ clock = 0 /\ next_scrape = 0
        /\ \A e \in ContainerEndpoint : endpoint_state[e].ts = -1
    BY DEF NoEntry
  <2> HIDE DEF Init
  <2> QED  BY <2>1 DEF EndpointsOlder
<1>5. SensorViewExact /\ EndpointViewExact /\ NoDuplicateOpen
  <2>1. pc = "idle" /\ msg = NoMessage
    OBVIOUS
  <2> HIDE DEF Init
  <2> QED  BY <2>1 DEF SensorViewExact, EndpointViewExact, NoDuplicateOpen
<1> QED  BY <1>1, <1>2, <1>3, <1>4, <1>5 DEF IInv

(* Every step of the notifier, the scraper and the configuration keeps it. *)
LEMMA NextIInv == IInv /\ [Next]_vars => IInv'
<1> SUFFICES ASSUME IInv, [Next]_vars PROVE IInv'
  OBVIOUS
<1>1. TypeOK'
  BY TypeStep DEF IInv
<1> QED  BY <1>1, ViewStep, ScopeStep, ScrapeStep, EndpointStep DEF IInv

(* Only the report leaves the location where the state is fetched.         *)
LEMMA OnlyNotifyLeavesFetch ==
  ASSUME Next, pc = "fetch", pc' # "fetch"
  PROVE  Notify
BY Zenon DEF Next, Tick, OpenConnection, CloseConnection, UseConnection, Listen, HandleSignal,
     SetRuntimeConfig, RunSingle, OnRecvControlMessage, BeginScrape, ScrapeContainer,
     ScrapeFails, Update, SetExternalIPsConfig, Write, EndStream, notifierVars

(* The inductive invariant holds in every reachable state.                 *)
THEOREM Invariance == Spec => []IInv
BY InitIInv, NextIInv, PTL DEF Spec

(* The variables of the pipeline keep their types, for every choice of     *)
(* connections, configurations and bounds.                                 *)
THEOREM TypeCorrect == Spec => []TypeOK
<1>1. IInv => TypeOK
  BY DEF IInv
<1> QED  BY <1>1, Invariance, PTL

(* The deltas that RunSingle writes keep Sensor's view of the connections  *)
(* exactly equal to what RunSingle takes it to be, rate-limited opens      *)
(* excepted.                                                               *)
THEOREM SensorViewCorrect == Spec => []SensorViewExact
<1>1. IInv => SensorViewExact
  BY DEF IInv
<1> QED  BY <1>1, Invariance, PTL

(* The same for the listening endpoints.                                   *)
THEOREM EndpointViewCorrect == Spec => []EndpointViewExact
<1>1. IInv => EndpointViewExact
  BY DEF IInv
<1> QED  BY <1>1, Invariance, PTL

(* RunSingle never reports open what Sensor already holds open.            *)
THEOREM OpensOnce == Spec => []NoDuplicateOpen
<1>1. IInv => NoDuplicateOpen
  BY DEF IInv
<1> QED  BY <1>1, Invariance, PTL

(* An entry that is no older than one seen at a time within the afterglow  *)
(* period is open.                                                         *)
LEMMA MergedIsOpen ==
  ASSUME NEW s \in Entry, NEW t \in Entry, NEW start \in Nat, NEW time \in Nat,
         Present(t), AtMost(s, t), s.ts >= start,
         EnableAfterglow, time - start < AfterglowPeriod
  PROVE  OpenEntry(t, time)
<1>1. s.ts \in Int /\ t.ts \in Int
  BY EntryFields
<1>2. t.active \/ t.ts >= start
  BY <1>1 DEF AtMost
<1>3. t.active \/ time - t.ts < AfterglowPeriod
  BY <1>1, <1>2, ConfigAssumption
<1> QED  BY <1>3 DEF OpenEntry, WasRecentlyActive, IsInAfterglowPeriod

(* With afterglow Sensor holds open, after a report, every connection that *)
(* the scrape of the round found and that was not rate limited, provided   *)
(* that the scrape and the update of the tracker took less than the        *)
(* afterglow period.                                                       *)
THEOREM ScrapedIsHeldOpenCorrect == Spec => ScrapedIsHeldOpen
<1> DEFINE Safe == \A c \in all_conns :
       (/\ pc = "fetch" /\ pc' # "fetch"
        /\ EnableAfterglow
        /\ time_micros - ts < AfterglowPeriod
        /\ ShouldFetchConnection(c))
       => NormalizeConnection(c, networks_known, external_ips_config)
            \in Reported(view, msg'.opens, msg'.closes) \cup limited'
<1>1. IInv /\ [Next]_vars => [Safe]_vars
  <2> SUFFICES ASSUME IInv, Next, NEW c \in all_conns,
                      pc = "fetch", pc' # "fetch", EnableAfterglow,
                      time_micros - ts < AfterglowPeriod, ShouldFetchConnection(c)
               PROVE  NormalizeConnection(c, networks_known, external_ips_config)
                        \in Reported(view, msg'.opens, msg'.closes) \cup limited'
    OBVIOUS
  <2>1. Notify
    BY OnlyNotifyLeavesFetch
  <2>2. PICK new, closing, delta :
          /\ new = FetchConnState(conn_state, networks_known, external_ips_config)
          /\ closing = ClosedOnExternalIPsConfigChange(networks_known, prev_config,
                                                       external_ips_config)
          /\ delta = ConnDelta(new, closing)
          /\ old_conn_state' = NextOldConnState(new, closing)
    BY <2>1 DEF Notify
  <2> DEFINE n == NormalizeConnection(c, networks_known, external_ips_config)
             norm == [x \in Conn |-> NormalizeConnection(x, networks_known, external_ips_config)]
             fetch == {x \in Conn : ShouldFetchConnection(x)}
  <2>3. /\ c \in Conn /\ conn_state \in [Conn -> Entry] /\ ts \in Nat /\ time_micros \in Nat
        /\ Present(conn_state[c]) /\ conn_state[c].ts >= ts
    BY DEF IInv, TypeOK, ScrapeInTracker
  <2>4. n \in NConn
    <3>1. networks_known \in Knowledge /\ external_ips_config \in Direction
      BY DEF IInv, TypeOK
    <3> QED  BY <2>3, <3>1 DEF NConn
  <2>5. /\ c \in Conn \cap fetch /\ norm[c] = n
    BY <2>3
  <2>6. new = FetchState(conn_state, norm, fetch, NConn)
    BY <2>2 DEF FetchConnState
  <2> HIDE DEF n, norm, fetch
  <2>7. Present(new[n]) /\ AtMost(conn_state[c], new[n])
    BY Zenon, <2>3, <2>4, <2>5, <2>6, FetchStateType, FiniteAssumption
  <2>8. new \in [NConn -> Entry] /\ old_conn_state'[n] = new[n]
    <3>1. TypeOK /\ TimeOrdered
      BY DEF IInv
    <3>2. RoundExact(new, delta, old_conn_state')
      BY <2>2, <3>1, RoundDelta DEF NewState, Closing
    <3> QED  BY <2>4, <2>7, <3>2 DEF RoundExact
  <2>9. new[n] \in Entry /\ conn_state[c] \in Entry
    BY Zenon, <2>3, <2>4, <2>8
  <2>10. OpenEntry(new[n], time_micros)
    BY Zenon, <2>3, <2>7, <2>9, MergedIsOpen
  <2>11. n \in ReportedOpen'
    <3>1. time_at_last_scrape' = time_micros
      BY <2>1 DEF Notify
    <3> QED  BY Zenon, <2>4, <2>7, <2>8, <2>10, <3>1 DEF ReportedOpen, OpenEntry
  <2>12. pc' # "idle" /\ view' = view
    BY <2>1 DEF Notify
  <2> QED  BY <2>1, <2>11, <2>12, NotifyStep DEF n, SensorViewExact, Reported
<1>2. ScrapedIsHeldOpen <=> [][Safe]_vars
  BY DEF ScrapedIsHeldOpen
<1> QED  BY <1>1, <1>2, Invariance, PTL DEF Spec

(* Sensor holds open, after a report, every listening endpoint that the    *)
(* scrape of the round found.                                              *)
THEOREM ScrapedEndpointIsHeldOpenCorrect == Spec => ScrapedEndpointIsHeldOpen
<1> DEFINE Safe == \A e \in all_listen_endpoints :
       (pc = "fetch" /\ pc' # "fetch" /\ ShouldFetchContainerEndpoint(e))
       => NormalizeContainerEndpoint(e)
            \in Reported(epview, msg'.epOpens, msg'.epCloses)
<1>1. IInv /\ [Next]_vars => [Safe]_vars
  <2> SUFFICES ASSUME IInv, Next, NEW e \in all_listen_endpoints,
                      pc = "fetch", pc' # "fetch", ShouldFetchContainerEndpoint(e)
               PROVE  NormalizeContainerEndpoint(e)
                        \in Reported(epview, msg'.epOpens, msg'.epCloses)
    OBVIOUS
  <2>1. Notify
    BY OnlyNotifyLeavesFetch
  <2> DEFINE n == NormalizeContainerEndpoint(e)
             new == FetchEndpointState(endpoint_state)
             norm == [x \in ContainerEndpoint |-> NormalizeContainerEndpoint(x)]
             fetch == {x \in ContainerEndpoint : ShouldFetchContainerEndpoint(x)}
  <2>2. /\ e \in ContainerEndpoint /\ endpoint_state \in [ContainerEndpoint -> Entry]
        /\ endpoint_state[e].active /\ endpoint_state[e] \in Entry
    BY DEF IInv, TypeOK, EndpointsActive
  <2>3. n \in NEndpoint /\ e \in ContainerEndpoint \cap fetch /\ norm[e] = n
    BY <2>2 DEF NEndpoint
  <2>4. new = FetchState(endpoint_state, norm, fetch, NEndpoint)
    BY DEF FetchEndpointState
  <2>5. old_cep_state' = new /\ pc' # "idle" /\ epview' = epview
    BY <2>1 DEF Notify
  <2> HIDE DEF n, new, norm, fetch
  <2>6. Present(endpoint_state[e])
    BY <2>2, EntryFields
  <2>7. new \in [NEndpoint -> Entry] /\ AtMost(endpoint_state[e], new[n])
    BY Zenon, <2>2, <2>3, <2>4, <2>6, FetchStateType, FiniteAssumption
  <2>8. new[n].active
    BY Zenon, <2>2, <2>7 DEF AtMost
  <2>9. EndpointViewExact'
    BY <2>1, NotifyStep
  <2> QED  BY Zenon, <2>3, <2>5, <2>8, <2>9 DEF n, EndpointViewExact, Reported
<1>2. ScrapedEndpointIsHeldOpen <=> [][Safe]_vars
  BY DEF ScrapedEndpointIsHeldOpen
<1> QED  BY <1>1, <1>2, Invariance, PTL DEF Spec

-----------------------------------------------------------------------------
(* Whether a connection is represented as a configuration asks for.        *)
Current(n, config) ==
  ~ShouldClose(n, NoKnowledge, IsEnabled(config, IF n.server THEN "INGRESS" ELSE "EGRESS"))

(* Without network lists, every connection of the old state is represented *)
(* as the configuration of the last report asks for.  That configuration   *)
(* is the tracker's, until the tracker is given another one for the next   *)
(* report; with afterglow RunSingle keeps it in prev_config.               *)
OldIsCurrent ==
  /\ networks_known = NoKnowledge
  /\ pc # "idle" =>
       \A n \in NConn : Present(old_conn_state[n]) =>
         /\ EnableAfterglow => Current(n, prev_config)
         /\ pc # "fetch" => Current(n, external_ips_config)

(* The report replaces or closes what the new configuration represents in  *)
(* another way.                                                            *)
LEMMA NotifyKeepsCurrent ==
  ASSUME IInv, OldIsCurrent, Notify
  PROVE  OldIsCurrent'
<1>1. PICK new, closing :
        /\ new = FetchConnState(conn_state, NoKnowledge, external_ips_config)
        /\ closing = ClosedOnExternalIPsConfigChange(NoKnowledge, prev_config,
                                                     external_ips_config)
        /\ old_conn_state' = NextOldConnState(new, closing)
  BY DEF Notify, OldIsCurrent
<1>2. /\ pc = "fetch" /\ networks_known' = networks_known
      /\ external_ips_config' = external_ips_config
      /\ prev_config' = IF EnableAfterglow THEN external_ips_config ELSE prev_config
  BY DEF Notify
<1>3. /\ NoKnowledge \in Knowledge /\ external_ips_config \in Direction
      /\ conn_state \in [Conn -> Entry] /\ old_conn_state \in [NConn -> Entry]
  BY DEF IInv, TypeOK, OldIsCurrent
<1>4. /\ new \in [NConn -> Entry]
      /\ \A n \in NConn : Present(new[n]) => Current(n, external_ips_config)
  <2> DEFINE norm == [c \in Conn |-> NormalizeConnection(c, NoKnowledge, external_ips_config)]
             fetch == {c \in Conn : ShouldFetchConnection(c)}
  <2>1. new = FetchState(conn_state, norm, fetch, NConn)
    BY <1>1 DEF FetchConnState
  <2>2. /\ new \in [NConn -> Entry]
        /\ \A n \in NConn : Present(new[n]) => \E c \in Conn \cap fetch : norm[c] = n
    <3> HIDE DEF norm, fetch
    <3>1. conn_state \in [Conn -> Entry] /\ IsFiniteSet(Conn)
      BY <1>3, FiniteAssumption, Zenon
    <3>2. FetchedFrom(FetchState(conn_state, norm, fetch, NConn), Conn, norm, fetch, NConn)
      BY <3>1, FetchStateFrom, Zenon
    <3> QED  BY <2>1, <3>2, Zenon DEF FetchedFrom
  <2>3. \A n \in NConn : Present(new[n]) =>
          \E c \in Conn : n = NormalizeConnection(c, NoKnowledge, external_ips_config)
    BY <2>2
  <2> QED  BY Zenon, <1>3, <2>2, <2>3, ReportedNotStale DEF Current
<1>5. ASSUME NEW n \in NConn, Present(old_conn_state'[n])
      PROVE  Current(n, external_ips_config)
  <2>1. CASE Present(new[n])
    BY <1>4, <2>1
  <2>2. CASE ~Present(new[n])
    <3>1. EnableAfterglow
      BY <1>1, <1>5, <2>2 DEF NextOldConnState
    <3>2. Present(old_conn_state[n]) /\ n \notin closing
      <4>1. \/ old_conn_state'[n] = NoEntry
            \/ old_conn_state'[n] = old_conn_state[n] /\ n \notin closing
        BY <1>1, <1>3, <1>4, <2>2, <3>1
           DEF NextOldConnState, UpdateOldState, CloseConnectionsOld
      <4> QED  BY <1>5, <4>1, NoEntryFields
    <3>3. Current(n, prev_config)
      BY <1>2, <3>1, <3>2 DEF OldIsCurrent
    <3> DEFINE direction == IF n.server THEN "INGRESS" ELSE "EGRESS"
    <3>4. \/ IsEnabled(external_ips_config, direction) = IsEnabled(prev_config, direction)
          \/ ~ShouldClose(n, NoKnowledge, IsEnabled(external_ips_config, direction))
      BY <1>1, <3>2 DEF ClosedOnExternalIPsConfigChange
    <3> QED  BY <3>3, <3>4 DEF Current
  <2> QED  BY <2>1, <2>2
<1> QED  BY <1>2, <1>5 DEF OldIsCurrent

(* Every other step leaves the old state, or starts with an empty one.     *)
LEMMA CurrentStep ==
  ASSUME \A m \in ControlMessages : ~m.has_ip_networks,
         IInv, OldIsCurrent, [Next]_vars
  PROVE  OldIsCurrent'
<1> USE DEF kernelVars, trackerVars, scrapeVars, oldVars, sensorVars, notifierVars
<1>1. CASE \/ Tick
           \/ \E c \in Conn : OpenConnection(c)
           \/ \E c \in Conn : CloseConnection(c)
           \/ \E c \in Conn, added \in BOOLEAN : UseConnection(c, added)
           \/ \E e \in ContainerEndpoint : Listen(e)
           \/ HandleSignal
           \/ \E config \in RuntimeConfigs : SetRuntimeConfig(config)
           \/ BeginScrape
           \/ \E k \in Container, b \in BOOLEAN : ScrapeContainer(k, b)
           \/ ScrapeFails \/ Update \/ SetExternalIPsConfig \/ Write
           \/ UNCHANGED vars
  <2>1. /\ UNCHANGED <<old_conn_state, prev_config, networks_known>>
        /\ pc' = "idle" <=> pc = "idle"
        /\ \/ external_ips_config' = external_ips_config /\ (pc = "fetch" => pc' = "fetch")
           \/ pc' = "fetch"
    BY Zenon, <1>1 DEF Tick, OpenConnection, CloseConnection, UseConnection, Listen,
         HandleSignal, SetRuntimeConfig, BeginScrape, ScrapeContainer, ScrapeFails, Update,
         SetExternalIPsConfig, Write, vars
  <2> QED  BY Zenon, <2>1 DEF OldIsCurrent
<1>2. CASE RunSingle
  <2>1. old_conn_state' = EmptyMap(NConn) /\ networks_known' = networks_known
    BY <1>2 DEF RunSingle, IInv, Scoped
  <2>2. \A n \in NConn : ~Present(old_conn_state'[n])
    BY <2>1, NoEntryFields DEF EmptyMap
  <2> QED  BY <2>1, <2>2 DEF OldIsCurrent
<1>3. CASE \E m \in ControlMessages : OnRecvControlMessage(m)
  BY Zenon, <1>3 DEF OnRecvControlMessage
<1>4. CASE Notify
  BY <1>4, NotifyKeepsCurrent
<1>5. CASE EndStream
  BY Zenon, <1>5 DEF EndStream, OldIsCurrent
<1> QED  BY Zenon, <1>1, <1>2, <1>3, <1>4, <1>5 DEF Next

(* CloseConnectionsOnExternalIPsConfigChange, and the comparison with the  *)
(* old state: as long as Sensor sends no network lists, it never holds     *)
(* open a connection in the representation of a configuration that is no   *)
(* longer in force.  (A list that arrives between two reports changes how  *)
(* connections are represented; the next report sees to it.)               *)
THEOREM RepresentationIsCurrent ==
  ASSUME \A m \in ControlMessages : ~m.has_ip_networks
  PROVE  Spec => []RepresentationCurrent
<1>1. Init => OldIsCurrent
  BY Zenon DEF Init, OldIsCurrent
<1>2. IInv /\ OldIsCurrent /\ [Next]_vars => OldIsCurrent'
  BY CurrentStep
<1>3. IInv /\ OldIsCurrent => RepresentationCurrent
  <2> SUFFICES ASSUME IInv, OldIsCurrent, pc # "idle", pc # "fetch",
                      NEW n \in Reported(view, msg.opens, msg.closes)
               PROVE  ~ShouldClose(n, networks_known,
                          IsEnabled(external_ips_config,
                                    IF n.server THEN "INGRESS" ELSE "EGRESS"))
    BY DEF RepresentationCurrent
  <2>1. n \in NConn /\ Present(old_conn_state[n])
    BY DEF IInv, SensorViewExact, ReportedOpen
  <2> QED  BY <2>1 DEF OldIsCurrent, Current
<1> QED  BY <1>1, <1>2, <1>3, Invariance, PTL DEF Spec
=============================================================================
