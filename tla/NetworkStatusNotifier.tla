----------------------- MODULE NetworkStatusNotifier ------------------------
(***************************************************************************)
(* The network pipeline of the collector.  Three threads share a           *)
(* ConnectionTracker:                                                      *)
(*                                                                         *)
(*  - the system-inspector thread runs NetworkSignalHandler on the events  *)
(*    the kernel queued (HandleSignal);                                    *)
(*  - the notifier thread runs NetworkStatusNotifier::RunSingle: it wakes  *)
(*    up, scrapes /proc, updates the tracker, fetches the tracker's state, *)
(*    computes what changed since its last report and writes that to       *)
(*    Sensor over a stream;                                                *)
(*  - the configuration loader replaces the runtime configuration.         *)
(*                                                                         *)
(* view and epview are what Sensor has been told on the current stream:    *)
(* the connections and endpoints reported open and not closed since.       *)
(***************************************************************************)
EXTENDS ConnTracker, Sequences

CONSTANTS
  EnableAfterglow,      \* config_.EnableAfterglow()
  AfterglowPeriod,      \* config_.AfterglowPeriod()
  TurnOffScrape,        \* config_.TurnOffScrape()
  ScrapeInterval,       \* config_.ScrapeInterval()
  RetryInterval,        \* the pause before another stream is opened
  PerContainerRateLimit,\* config_.PerContainerRateLimit()
  ControlMessages,      \* the control messages Sensor may send
  RuntimeConfigs,       \* the external-IPs directions that may be configured
  MaxTime,              \* bound of the clock
  MaxEvents             \* capacity of the event buffer

ASSUME ConfigAssumption ==
  /\ EnableAfterglow \in BOOLEAN
  /\ AfterglowPeriod \in Nat \ {0}
  /\ TurnOffScrape \in BOOLEAN
  /\ ScrapeInterval \in Nat \ {0} /\ RetryInterval \in Nat \ {0}
  /\ PerContainerRateLimit \in Nat
  /\ MaxTime \in Nat /\ MaxEvents \in Nat
  /\ RuntimeConfigs # {} /\ RuntimeConfigs \subseteq Direction

(* A control message may carry a list of networks (has_ip_networks); the   *)
(* list of the family may be malformed, and is then ignored.               *)
ControlMessage == [has_ip_networks : BOOLEAN, well_formed : BOOLEAN,
                   public : SUBSET Addr, nets : SUBSET Networks]

ASSUME MessageAssumption == ControlMessages \subseteq ControlMessage

VARIABLES
  clock,                \* system_clock, in ticks
  open, listening,      \* the kernel: open connections, listening endpoints
  events,               \* events the inspector thread has not handled yet
  runtime_config,       \* CollectorConfig: the external-IPs direction
  conn_state, endpoint_state, external_ips_config, networks_known,   \* the tracker
  pc,                   \* where the notifier thread is in RunSingle
  next_scrape,          \* next_scrape, and next_attempt while there is no stream
  ts, unread, all_conns, all_listen_endpoints,              \* its scrape
  time_micros, old_conn_state, old_cep_state, time_at_last_scrape,
  prev_config, msg,     \* its other local variables
  view, epview,         \* what Sensor was told on this stream
  limited               \* the opens of this stream that were rate limited

kernelVars   == <<open, listening, events>>
trackerVars  == <<conn_state, endpoint_state, external_ips_config, networks_known>>
scrapeVars   == <<ts, unread, all_conns, all_listen_endpoints>>
oldVars      == <<old_conn_state, old_cep_state, time_at_last_scrape, prev_config>>
sensorVars   == <<view, epview, limited>>
notifierVars == <<pc, next_scrape, scrapeVars, time_micros, oldVars, msg, sensorVars>>
vars == <<clock, kernelVars, runtime_config, trackerVars, notifierVars>>

Container == {c.container : c \in Conn} \cup {e.container : e \in ContainerEndpoint}

Event == [conn : Conn, ts : Nat, added : BOOLEAN]

NoMessage == [opens |-> {}, closes |-> {}, epOpens |-> {}, epCloses |-> {}]

Message == [opens : SUBSET NConn, closes : SUBSET NConn,
            epOpens : SUBSET NEndpoint, epCloses : SUBSET NEndpoint]

Locations == {"idle", "sleep", "scrape", "update", "stamp", "fetch", "write"}

EmptyMap(keys) == [k \in keys |-> NoEntry]

Init ==
  /\ clock = 0
  /\ open = {} /\ listening = {} /\ events = <<>>
  /\ runtime_config \in RuntimeConfigs
  /\ conn_state = EmptyMap(Conn) /\ endpoint_state = EmptyMap(ContainerEndpoint)
  /\ external_ips_config = "NONE" /\ networks_known = NoKnowledge
  /\ pc = "idle" /\ next_scrape = 0
  /\ ts = 0 /\ unread = {} /\ all_conns = {} /\ all_listen_endpoints = {}
  /\ time_micros = 0
  /\ old_conn_state = EmptyMap(NConn) /\ old_cep_state = EmptyMap(NEndpoint)
  /\ time_at_last_scrape = 0 /\ prev_config = "NONE" /\ msg = NoMessage
  /\ view = {} /\ epview = {} /\ limited = {}

-----------------------------------------------------------------------------
(* The kernel.  An event is lost when the buffer is full, and the driver   *)
(* may drop one before that.                                               *)
Tick ==
  /\ clock < MaxTime
  /\ clock' = clock + 1
  /\ UNCHANGED <<kernelVars, runtime_config, trackerVars, notifierVars>>

Emit(c, added) ==
  \/ events' = events
  \/ /\ Len(events) < MaxEvents
     /\ events' = Append(events, [conn |-> c, ts |-> clock, added |-> added])

(* connect, accept, getsockopt after an asynchronous connect               *)
OpenConnection(c) ==
  /\ c \notin open
  /\ open' = open \cup {c}
  /\ Emit(c, TRUE)
  /\ UNCHANGED <<clock, listening, runtime_config, trackerVars, notifierVars>>

CloseConnection(c) ==
  /\ c \in open
  /\ open' = open \ {c}
  /\ Emit(c, FALSE)
  /\ UNCHANGED <<clock, listening, runtime_config, trackerVars, notifierVars>>

(* send and receive calls report an open connection again, shutdown        *)
(* reports it removed while it is still in /proc.                          *)
UseConnection(c, added) ==
  /\ c \in open
  /\ Emit(c, added)
  /\ events' # events
  /\ UNCHANGED <<clock, open, listening, runtime_config, trackerVars, notifierVars>>

Listen(e) ==
  /\ listening' = IF e \in listening THEN listening \ {e} ELSE listening \cup {e}
  /\ UNCHANGED <<clock, open, events, runtime_config, trackerVars, notifierVars>>

-----------------------------------------------------------------------------
(* The system-inspector thread: NetworkSignalHandler::HandleSignal and     *)
(* ConnectionTracker::UpdateConnection.                                    *)
UpdateConnection(e) ==
  conn_state' = [conn_state EXCEPT ![e.conn] =
                   EmplaceOrUpdate(@, NewStatus(e.ts, e.added))]

HandleSignal ==
  /\ events # <<>>
  /\ UpdateConnection(Head(events))
  /\ events' = Tail(events)
  /\ UNCHANGED <<clock, open, listening, runtime_config, endpoint_state,
                 external_ips_config, networks_known, notifierVars>>

(* The configuration loader: SetRuntimeConfig, ResetRuntimeConfig          *)
SetRuntimeConfig(config) ==
  /\ config # runtime_config
  /\ runtime_config' = config
  /\ UNCHANGED <<clock, kernelVars, trackerVars, notifierVars>>

-----------------------------------------------------------------------------
(* The notifier thread.  Run opens a stream and RunSingle starts it with   *)
(* empty old states.  Local variables have their initial values whenever   *)
(* they are out of scope.                                                  *)
NoScrape == ts' = 0 /\ unread' = {} /\ all_conns' = {} /\ all_listen_endpoints' = {}

RunSingle ==
  /\ pc = "idle" /\ clock >= next_scrape
  /\ pc' = "sleep"
  /\ next_scrape' = clock
  /\ time_at_last_scrape' = clock
  /\ prev_config' = runtime_config
  /\ UNCHANGED <<clock, kernelVars, runtime_config, trackerVars, scrapeVars,
                 time_micros, old_conn_state, old_cep_state, msg, sensorVars>>

(* OnRecvControlMessage, called while the thread polls the stream: in      *)
(* WaitUntilStarted, Sleep, Write and Finish.  Public addresses are taken  *)
(* only with a network list.                                               *)
OnRecvControlMessage(m) ==
  /\ pc \in {"idle", "sleep", "write"}
  /\ m.has_ip_networks
  /\ networks_known' = [public |-> m.public,
               nets |-> IF m.well_formed THEN m.nets ELSE {},
               private_exists |-> IF ~m.well_formed THEN "unset"
                                  ELSE IF ContainsPrivateNetwork(m.nets) THEN "yes"
                                  ELSE "no"]
  /\ UNCHANGED <<clock, kernelVars, runtime_config, conn_state, endpoint_state,
                 external_ips_config, notifierVars>>

(* Sleep returned true: UpdateAllConnsAndEndpoints reads the time and then *)
(* scrapes, unless scraping is off.                                        *)
BeginScrape ==
  /\ pc = "sleep" /\ clock >= next_scrape
  /\ next_scrape' = clock + ScrapeInterval
  /\ IF TurnOffScrape
     THEN pc' = "stamp" /\ UNCHANGED scrapeVars
     ELSE /\ pc' = "scrape"
          /\ ts' = clock
          /\ unread' = Container
          /\ all_conns' = {} /\ all_listen_endpoints' = {}
  /\ UNCHANGED <<clock, kernelVars, runtime_config, trackerVars, time_micros,
                 oldVars, msg, sensorVars>>

(* ConnScraper::Scrape reads /proc one container after the other.  A       *)
(* container whose processes cannot be read is skipped.                    *)
ScrapeContainer(k, readable) ==
  /\ pc = "scrape"
  /\ k \in unread
  /\ unread' = unread \ {k}
  /\ all_conns' = all_conns \cup {c \in open : readable /\ c.container = k}
  /\ all_listen_endpoints' =
       all_listen_endpoints \cup {e \in listening : readable /\ e.container = k}
  /\ pc' = IF unread' = {} THEN "update" ELSE "scrape"
  /\ UNCHANGED <<clock, next_scrape, kernelVars, runtime_config, trackerVars, ts, time_micros,
                 oldVars, msg, sensorVars>>

(* Scrape failed to open /proc: the round is skipped.                      *)
ScrapeFails ==
  /\ pc = "scrape" /\ unread = Container
  /\ pc' = "sleep"
  /\ NoScrape
  /\ UNCHANGED <<clock, next_scrape, kernelVars, runtime_config, trackerVars, time_micros,
                 oldVars, msg, sensorVars>>

(* ConnectionTracker::Update with the time taken before the scrape         *)
Update ==
  /\ pc = "update"
  /\ conn_state' = UpdateAll(conn_state, all_conns, ts)
  /\ endpoint_state' = UpdateAll(endpoint_state, all_listen_endpoints, ts)
  /\ pc' = "stamp"
  /\ UNCHANGED <<clock, next_scrape, kernelVars, runtime_config, external_ips_config, networks_known,
                 scrapeVars, time_micros, oldVars, msg, sensorVars>>

(* The time of this report and the configuration it is made under          *)
SetExternalIPsConfig ==
  /\ pc = "stamp"
  /\ time_micros' = clock
  /\ external_ips_config' = runtime_config
  /\ pc' = "fetch"
  /\ UNCHANGED <<clock, next_scrape, kernelVars, runtime_config, conn_state, endpoint_state,
                 networks_known, scrapeVars, oldVars, msg, sensorVars>>

(* AddConnections: closes are always reported; the opens of a container    *)
(* are reported up to the limit, in the order of the hash map, that is,    *)
(* any of them.                                                            *)
OfContainer(S, k) == {n \in S : n.container = k}

RateLimited(opens) ==
  {sent \in SUBSET opens :
     \A k \in Container :
       LET all  == Cardinality(OfContainer(opens, k))
           kept == Cardinality(OfContainer(sent, k))
       IN  kept = IF all <= PerContainerRateLimit THEN all ELSE PerContainerRateLimit}

Opens(delta)  == {k \in DOMAIN delta : delta[k].active}
Closes(delta) == {k \in DOMAIN delta : Present(delta[k]) /\ ~delta[k].active}

(* AddConnections if it rate limited closes like opens.                    *)
CreateInfoMessageLimitingCloses(delta, ep_delta, sent) ==
  msg' = [opens |-> sent, closes |-> IF sent = {} THEN Closes(delta) ELSE {},
          epOpens |-> Opens(ep_delta), epCloses |-> Closes(ep_delta)]

CreateInfoMessage(delta, ep_delta, sent) ==
  msg' = [opens |-> sent, closes |-> Closes(delta),
          epOpens |-> Opens(ep_delta), epCloses |-> Closes(ep_delta)]

(* The connection delta of this round and the old state it leaves          *)
ConnDelta(new, closing) ==
  IF EnableAfterglow
  THEN CloseConnectionsDelta(
         ComputeDeltaAfterglow(new, old_conn_state, time_micros,
                               time_at_last_scrape, AfterglowPeriod),
         old_conn_state, closing)
  ELSE ComputeDelta(new, old_conn_state)

NextOldConnState(new, closing) ==
  IF EnableAfterglow
  THEN UpdateOldState(CloseConnectionsOld(old_conn_state, closing), new,
                      time_micros, AfterglowPeriod)
  ELSE new

(* The rest of the round: fetch the tracker's state, compute the deltas,   *)
(* build the message and replace the old states.  An empty delta is not    *)
(* written.                                                                *)
Notify ==
  /\ pc = "fetch"
  /\ \E new     \in {FetchConnState(conn_state, networks_known, external_ips_config)},
        new_cep \in {FetchEndpointState(endpoint_state)},
        closing \in {ClosedOnExternalIPsConfigChange(networks_known, prev_config,
                                                     external_ips_config)} :
     \E delta    \in {ConnDelta(new, closing)},
        ep_delta \in {ComputeDelta(new_cep, old_cep_state)} :
     \E sent \in RateLimited(Opens(delta)) :
       /\ old_conn_state' = NextOldConnState(new, closing)
       /\ old_cep_state' = new_cep
       /\ CreateInfoMessage(delta, ep_delta, sent)
       /\ limited' = (limited \ (Opens(delta) \cup Closes(delta)))
                       \cup (Opens(delta) \ sent)
       /\ pc' = IF /\ Opens(delta) \cup Closes(delta) = {}
                   /\ Opens(ep_delta) \cup Closes(ep_delta) = {}
                THEN "sleep" ELSE "write"
  /\ conn_state' = ClearInactive(conn_state)
  /\ endpoint_state' = ClearInactive(endpoint_state)
  /\ prev_config' = IF EnableAfterglow THEN external_ips_config ELSE prev_config
  /\ time_at_last_scrape' = time_micros
  /\ time_micros' = 0 /\ NoScrape
  /\ UNCHANGED <<clock, next_scrape, kernelVars, runtime_config, external_ips_config, networks_known,
                 view, epview>>

Reported(seen, opens, closes) == (seen \ closes) \cup opens

(* Write succeeded: Sensor has the message.                                *)
Write ==
  /\ pc = "write"
  /\ view' = Reported(view, msg.opens, msg.closes)
  /\ epview' = Reported(epview, msg.epOpens, msg.epCloses)
  /\ msg' = NoMessage
  /\ pc' = "sleep"
  /\ UNCHANGED <<clock, next_scrape, kernelVars, runtime_config, trackerVars, scrapeVars,
                 time_micros, oldVars, limited>>

(* Write failed or timed out, or Sleep found the stream ended: RunSingle   *)
(* returns and Run opens another stream after a pause.                     *)
EndStream ==
  /\ pc \in {"sleep", "write"}
  /\ pc' = "idle"
  /\ next_scrape' = clock + RetryInterval
  /\ old_conn_state' = EmptyMap(NConn) /\ old_cep_state' = EmptyMap(NEndpoint)
  /\ time_at_last_scrape' = 0 /\ prev_config' = "NONE"
  /\ msg' = NoMessage
  /\ view' = {} /\ epview' = {} /\ limited' = {}
  /\ UNCHANGED <<clock, kernelVars, runtime_config, trackerVars, scrapeVars, time_micros>>

Next ==
  \/ Tick
  \/ \E c \in Conn : OpenConnection(c)
  \/ \E c \in Conn : CloseConnection(c)
  \/ \E c \in Conn, added \in BOOLEAN : UseConnection(c, added)
  \/ \E e \in ContainerEndpoint : Listen(e)
  \/ HandleSignal
  \/ \E config \in RuntimeConfigs : SetRuntimeConfig(config)
  \/ RunSingle
  \/ \E m \in ControlMessages : OnRecvControlMessage(m)
  \/ BeginScrape
  \/ \E k \in Container, readable \in BOOLEAN : ScrapeContainer(k, readable)
  \/ ScrapeFails
  \/ Update
  \/ SetExternalIPsConfig
  \/ Notify
  \/ Write
  \/ EndStream

Spec == Init /\ [][Next]_vars

-----------------------------------------------------------------------------
(* The variables of the pipeline keep their types.                         *)
TypeOK ==
  /\ clock \in Nat
  /\ open \subseteq Conn /\ listening \subseteq ContainerEndpoint
  /\ events \in Seq(Event)
  /\ runtime_config \in Direction
  /\ conn_state \in [Conn -> Entry] /\ endpoint_state \in [ContainerEndpoint -> Entry]
  /\ external_ips_config \in Direction /\ networks_known \in Knowledge
  /\ pc \in Locations /\ next_scrape \in Nat
  /\ ts \in Nat /\ unread \subseteq Container
  /\ all_conns \subseteq Conn /\ all_listen_endpoints \subseteq ContainerEndpoint
  /\ time_micros \in Nat /\ time_at_last_scrape \in Nat
  /\ old_conn_state \in [NConn -> Entry] /\ old_cep_state \in [NEndpoint -> Entry]
  /\ prev_config \in Direction /\ msg \in Message
  /\ view \subseteq NConn /\ epview \subseteq NEndpoint /\ limited \subseteq NConn

(* The connections RunSingle takes Sensor to hold open: with afterglow     *)
(* those recently active at the last report, otherwise the active ones.    *)
ReportedOpen ==
  {n \in NConn :
     /\ Present(old_conn_state[n])
     /\ IF EnableAfterglow
        THEN WasRecentlyActive(old_conn_state[n], time_at_last_scrape, AfterglowPeriod)
        ELSE old_conn_state[n].active}

(* On a stream, once the message in flight is applied, Sensor holds open   *)
(* exactly the connections RunSingle takes it to hold open, except those   *)
(* whose open AddConnections rate limited: the incremental deltas neither  *)
(* lose an open nor leave a zombie, whatever failed, was delayed, expired  *)
(* or was reconfigured between two reports.                                *)
SensorViewExact ==
  pc # "idle" => Reported(view, msg.opens, msg.closes) = ReportedOpen \ limited

(* The same for listening endpoints, which never use afterglow and are not *)
(* rate limited: Sensor holds open exactly the active endpoints of         *)
(* old_cep_state.                                                          *)
EndpointViewExact ==
  pc # "idle" =>
    Reported(epview, msg.epOpens, msg.epCloses) =
      {e \in NEndpoint : old_cep_state[e].active}

(* A report never opens again what Sensor already holds open: a connection *)
(* that is used, closed and reopened within the afterglow period, or seen  *)
(* by many scrapes, is reported once.                                      *)
NoDuplicateOpen == msg.opens \cap view = {} /\ msg.epOpens \cap epview = {}

(* With afterglow, every connection that the scrape of a round found in    *)
(* /proc is held open by Sensor after the report of the round, unless its  *)
(* open was rate limited: neither events of the connection handled during  *)
(* the scrape, nor other connections it is merged with, nor an old state   *)
(* hide it, as long as the scrape is shorter than the afterglow period.    *)
ScrapedIsHeldOpen ==
  [][\A c \in all_conns :
       (/\ pc = "fetch" /\ pc' # "fetch"
        /\ EnableAfterglow
        /\ time_micros - ts < AfterglowPeriod
        /\ ShouldFetchConnection(c))
       => NormalizeConnection(c, networks_known, external_ips_config)
            \in Reported(view, msg'.opens, msg'.closes) \cup limited']_vars

(* Every listening endpoint that the scrape of a round found is held open  *)
(* by Sensor after the report of the round: the time of a scrape is always *)
(* younger than what the tracker has of the endpoint, so that Update marks *)
(* it active again after having marked everything inactive.                *)
ScrapedEndpointIsHeldOpen ==
  [][\A e \in all_listen_endpoints :
       (pc = "fetch" /\ pc' # "fetch" /\ ShouldFetchContainerEndpoint(e))
       => NormalizeContainerEndpoint(e)
            \in Reported(epview, msg'.epOpens, msg'.epCloses)]_vars

(* Sensor never holds a connection open in the representation of an        *)
(* external-IPs configuration that is no longer in force: when the         *)
(* configuration of a direction changes, the report made under the new one *)
(* closes the connections represented the old way.                         *)
RepresentationCurrent ==
  pc # "idle" /\ pc # "fetch" =>
    \A n \in Reported(view, msg.opens, msg.closes) :
      ~ShouldClose(n, networks_known, IsEnabled(external_ips_config, IF n.server THEN "INGRESS" ELSE "EGRESS"))

(* ConnTracker.cpp:64 says of Update: "Insert (or mark as active) all      *)
(* current connections and listen endpoints."  (Statuses with exactly the  *)
(* time of the scrape are left aside: times are microseconds.)             *)
UpdateMarksActive ==
  [][\A c \in all_conns :
       pc = "update" /\ pc' = "stamp" /\ conn_state[c].ts # ts => conn_state'[c].active]_vars
=============================================================================
