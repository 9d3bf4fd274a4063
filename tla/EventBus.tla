------------------------------- MODULE EventBus -------------------------------
(***************************************************************************)
(* Runtime events between the broker and its two subscribers, the          *)
(* admission controller and the runtime evaluator: the broker's start with *)
(* its streams, the durable consumers, the loop that fetches, handles and  *)
(* acknowledges, the alerts, and crashes and restarts of all three.        *)
(*                                                                         *)
(* NATS is external: a stream keeps its messages on disk until they are    *)
(* too old; a durable consumer keeps, also on disk, which messages it has  *)
(* delivered and which were acknowledged, and delivers a message again     *)
(* when its acknowledgement does not come; what a client sends goes out    *)
(* through one ordered buffer per connection; a client that notices that   *)
(* its connection is gone drops what is in the buffer, and keeps what comes *)
(* after that for the next connection.  Kubernetes restarts what exits.    *)
(*                                                                         *)
(* PolicyEngine and RuntimeEngine are the engines of the two.              *)
(***************************************************************************)
EXTENDS Naturals, Sequences, FiniteSets, Functions

CONSTANTS Streams,       \* of "process" and "network"
          Subscribers,   \* of "admission" and "runtime"
          Events,        \* records: stream, encoding, pod, and the engine's fields
          ProcessPolicies(_, _), \* EvaluateProcessEvent and EvaluateNetworkEvent of
          NetworkPolicies(_, _), \* a subscriber's engine: policies an event violates
          Fetched,       \* messages per fetch (10 in the code)
          MaxEvents,     \* events published to each stream
          MaxCrashes,    \* exits of subscribers
          MaxOutages,    \* exits of the broker
          MaxLosses,     \* connections lost while the broker is up
          MaxLate        \* messages delivered again while still in work

Consumers == Subscribers \X Streams

VARIABLES
    broker,    \* "down", "listening" (connections, not all streams), "up"
    created,   \* streams on the broker's disk
    stream,    \* per stream: the events published to it, in order
    expired,   \* per stream: how many of the first ones are gone
    durable,   \* per consumer: the broker's record of it
    process,   \* per subscriber: "down", "detached" (no consumers), "up"
    worker,    \* per consumer: the goroutine of startConsumer
    link,      \* per subscriber: "none", "ok", "broken", "reconnecting"
    out,       \* per subscriber: what its connection has not sent yet
    annotation, \* what the controller last wrote on the pod of the events
    alerts,    \* alerts the broker has received
    heard,     \* alerts that found somebody listening to acs.alerts
    listener,  \* somebody is listening
    dropped,   \* alerts that were in the buffer of a connection when it was lost
    crashes, outages, losses, late

brokerVars == <<broker, created, stream, expired, durable>>
alertVars == <<alerts, heard, listener, dropped>>
bounds == <<crashes, outages, losses, late>>
clientVars == <<process, worker, link, out, annotation>>
busVars == <<brokerVars, clientVars, alertVars, bounds>>

NoDurable == [made |-> FALSE, from |-> 0, acked |-> {}, waiting |-> {}]
WorkerAt(pc, batch) == [pc |-> pc, batch |-> batch, message |-> 0, todo |-> {}]
NoWorker == WorkerAt("off", {})

BusInit == /\ broker = "down" /\ created = {}
           /\ stream = [s \in Streams |-> << >>] /\ expired = [s \in Streams |-> 0]
           /\ durable = [c \in Consumers |-> NoDurable]
           /\ process = [b \in Subscribers |-> "down"]
           /\ worker = [c \in Consumers |-> NoWorker]
           /\ link = [b \in Subscribers |-> "none"]
           /\ out = [b \in Subscribers |-> << >>]
           /\ annotation = "none"
           /\ alerts = {} /\ heard = {} /\ listener = FALSE /\ dropped = {}
           /\ crashes = 0 /\ outages = 0 /\ losses = 0 /\ late = 0

-----------------------------------------------------------------------------
(* The broker.                                                             *)

\* New and Start, up to the connection of its own client.
StartBroker ==
    /\ broker = "down"
    /\ broker' = "listening"
    /\ UNCHANGED <<created, stream, expired, durable, clientVars, alertVars, bounds>>

\* createStreams: one after the other; those on the disk are there already.
createStreams(s) ==
    /\ broker = "listening"
    /\ s \in Streams
    /\ s = "network" => Streams \ {"network"} \subseteq created
    /\ created' = created \cup {s}
    /\ broker' = IF created' = Streams /\ (s = "network" \/ "network" \notin Streams)
                 THEN "up" ELSE "listening"
    /\ UNCHANGED <<stream, expired, durable, clientVars, alertVars, bounds>>

\* Shutdown, or a crash.
StopBroker ==
    /\ broker # "down"
    /\ outages < MaxOutages
    /\ outages' = outages + 1
    /\ broker' = "down"
    /\ link' = [b \in Subscribers |-> IF link[b] = "ok" THEN "broken" ELSE link[b]]
    /\ listener' = FALSE
    /\ UNCHANGED <<created, stream, expired, durable, process, worker, out, annotation,
                   alerts, heard, dropped, crashes, losses, late>>

\* An event arrives from a collector.
Publish(e) ==
    /\ broker # "down"
    /\ e.stream \in created
    /\ Len(stream[e.stream]) < MaxEvents
    /\ stream' = [stream EXCEPT ![e.stream] = Append(@, e)]
    /\ UNCHANGED <<broker, created, expired, durable, clientVars, alertVars, bounds>>

\* MaxAge has passed.
Expire(s) ==
    /\ expired[s] < Len(stream[s])
    /\ expired' = [expired EXCEPT ![s] = @ + 1]
    /\ UNCHANGED <<broker, created, stream, durable, clientVars, alertVars, bounds>>

Ack(c, n) == [kind |-> "ack", by |-> c, message |-> n, policy |-> "none"]

\* The message is in a live worker's batch, or its acknowledgement on its way.
InWork(c, n) == n \in worker[c].batch \/ Ack(c, n) \in Range(out[c[1]])

\* AckWait has passed without an acknowledgement.
Redeliver(c, n) ==
    /\ broker # "down"
    /\ n \in durable[c].waiting
    /\ InWork(c, n) => late < MaxLate
    /\ late' = IF InWork(c, n) THEN late + 1 ELSE late
    /\ durable' = [durable EXCEPT ![c].waiting = @ \ {n}]
    /\ UNCHANGED <<broker, created, stream, expired, clientVars, alertVars, crashes, outages, losses>>

-----------------------------------------------------------------------------
(* The subscribers' start.                                                 *)

\* A runtime evaluator that treats the failure like the controller.
AfterFailedStartDetached(b) == "detached"

\* log.Fatalf in the runtime evaluator, a warning in the controller.
AfterFailedStart(b) == IF b = "admission" THEN "detached" ELSE "down"

\* New: no broker to connect to.
ConnectFails(b) ==
    /\ process[b] = "down" /\ broker = "down"
    /\ AfterFailedStart(b) # "down"
    /\ process' = [process EXCEPT ![b] = AfterFailedStart(b)]
    /\ UNCHANGED <<brokerVars, worker, link, out, annotation, alertVars, bounds>>

\* A consumer that delivers what comes from now on.
FromNow(c) == [made |-> TRUE, from |-> Len(stream[c[2]]), acked |-> {}, waiting |-> {}]

\* A consumer that starts anew with every process.
startConsumerAgain(c) == FromNow(c)

\* startConsumer: AddConsumer, which finds the durable consumer of an earlier
\* process or makes one.
startConsumer(c) == IF durable[c].made THEN durable[c] ELSE FromNow(c)

\* Start, with all streams there: a loop for each of them.
Start(b) ==
    /\ process[b] = "down"
    /\ broker # "down" /\ Streams \subseteq created
    /\ durable' = [c \in Consumers |-> IF c[1] = b THEN startConsumer(c) ELSE durable[c]]
    /\ worker' = [c \in Consumers |-> IF c[1] = b THEN WorkerAt("fetch", {}) ELSE worker[c]]
    /\ process' = [process EXCEPT ![b] = "up"]
    /\ link' = [link EXCEPT ![b] = "ok"]
    /\ UNCHANGED <<broker, created, stream, expired, out, annotation, alertVars, bounds>>

\* Start finds a stream missing: the consumers before it have been started
\* (process events come first).
StartFails(b) ==
    /\ process[b] = "down"
    /\ broker # "down" /\ ~(Streams \subseteq created)
    /\ LET started == {c \in Consumers : /\ c[1] = b /\ c[2] \in created
                                         /\ c[2] = "network" => "process" \in created}
           live == AfterFailedStart(b) # "down" IN
       /\ durable' = [c \in Consumers |-> IF c \in started THEN startConsumer(c) ELSE durable[c]]
       /\ worker' = [c \in Consumers |-> IF c \in started /\ live
                                         THEN WorkerAt("fetch", {}) ELSE worker[c]]
    /\ process' = [process EXCEPT ![b] = AfterFailedStart(b)]
    /\ link' = [link EXCEPT ![b] = IF AfterFailedStart(b) = "down" THEN "none" ELSE "ok"]
    /\ UNCHANGED <<broker, created, stream, expired, out, annotation, alertVars, bounds>>

\* Shutdown or a crash: Kubernetes starts the process again.
Exit(b) ==
    /\ process[b] # "down"
    /\ crashes < MaxCrashes
    /\ crashes' = crashes + 1
    /\ process' = [process EXCEPT ![b] = "down"]
    /\ worker' = [c \in Consumers |-> IF c[1] = b THEN NoWorker ELSE worker[c]]
    /\ link' = [link EXCEPT ![b] = "none"]
    /\ out' = [out EXCEPT ![b] = << >>]
    /\ UNCHANGED <<brokerVars, annotation, alertVars, outages, losses, late>>

\* The connection breaks while the broker goes on.
LoseConnection(b) ==
    /\ link[b] = "ok"
    /\ losses < MaxLosses
    /\ losses' = losses + 1
    /\ link' = [link EXCEPT ![b] = "broken"]
    /\ UNCHANGED <<brokerVars, process, worker, out, annotation, alertVars, crashes, outages, late>>

\* The client library notices the loss of the connection (the handler only
\* logs it); MaxReconnects(-1): it then tries for as long as it takes.
Disconnected(b) ==
    /\ link[b] = "broken"
    /\ link' = [link EXCEPT ![b] = "reconnecting"]
    /\ out' = [out EXCEPT ![b] = << >>]
    /\ dropped' = dropped \cup {x \in Range(out[b]) : x.kind = "alert"}
    /\ UNCHANGED <<brokerVars, process, worker, annotation, alerts, heard, listener, bounds>>

Reconnected(b) ==
    /\ link[b] = "reconnecting" /\ broker # "down"
    /\ link' = [link EXCEPT ![b] = "ok"]
    /\ UNCHANGED <<brokerVars, process, worker, out, annotation, alertVars, bounds>>

-----------------------------------------------------------------------------
(* The loop of startConsumer.                                              *)

Deliverable(c) ==
    {n \in 1..Len(stream[c[2]]) : /\ n > durable[c].from /\ n > expired[c[2]]
                                  /\ n \notin durable[c].acked \cup durable[c].waiting}

\* Fetch: the first messages that can be delivered.  A fetch that times out
\* or fails is tried again.
Fetch(c) ==
    /\ worker[c].pc = "fetch"
    /\ link[c[1]] = "ok"
    /\ Deliverable(c) # {}
    /\ LET batch == {n \in Deliverable(c) :
                        Cardinality({m \in Deliverable(c) : m <= n}) <= Fetched} IN
       /\ worker' = [worker EXCEPT ![c] = WorkerAt("handle", batch)]
       /\ durable' = [durable EXCEPT ![c].waiting = @ \cup batch]
    /\ UNCHANGED <<broker, created, stream, expired, process, link, out, annotation, alertVars, bounds>>

\* handleProcessMessage and handleNetworkMessage, alike in both subscribers:
\* the policies that match, none if the payload is not JSON.
handleProcessMessage(b, e) == IF e.encoding # "json" THEN {} ELSE ProcessPolicies(b, e)
handleNetworkMessage(b, e) == IF e.encoding # "json" THEN {} ELSE NetworkPolicies(b, e)

Handler(c, e) ==
    IF c[2] = "process" THEN handleProcessMessage(c[1], e) ELSE handleNetworkMessage(c[1], e)

Alert(c, n, p) == [kind |-> "alert", by |-> c, message |-> n, policy |-> p]

\* The handler decodes and evaluates the first message of the batch.
Handle(c) ==
    /\ worker[c].pc = "handle"
    /\ \E n \in worker[c].batch :
          /\ \A m \in worker[c].batch : n <= m
          /\ worker' = [worker EXCEPT ![c] = [pc |-> "report", batch |-> @.batch, message |-> n,
                                              todo |-> Handler(c, stream[c[2]][n])]]
    /\ UNCHANGED <<brokerVars, process, link, out, annotation, alertVars, bounds>>

\* The controller logs the violation, tries to annotate the pod (replacing
\* what is there), and publishes.
enforce(c, n, p) ==
    /\ annotation' \in {annotation, p}
    /\ out' = [out EXCEPT ![c[1]] = Append(@, Alert(c, n, p))]

\* The runtime evaluator logs and publishes.
publishAlert(c, n, p) ==
    /\ UNCHANGED annotation
    /\ out' = [out EXCEPT ![c[1]] = Append(@, Alert(c, n, p))]

Report(c) ==
    /\ worker[c].pc = "report"
    /\ \E p \in worker[c].todo :
          /\ worker' = [worker EXCEPT ![c].todo = @ \ {p}]
          /\ IF c[1] = "admission" THEN enforce(c, worker[c].message, p)
             ELSE publishAlert(c, worker[c].message, p)
    /\ UNCHANGED <<brokerVars, process, link, alertVars, bounds>>

\* A loop that acknowledges first.
MayAckEarly(c) == worker[c].pc = "report"

MayAck(c) == worker[c].pc = "report" /\ worker[c].todo = {}

\* msg.Ack(), through the same connection, and the next message.
Acknowledge(c) ==
    /\ MayAck(c)
    /\ LET rest == worker[c].batch \ {worker[c].message} IN
       worker' = [worker EXCEPT ![c] = WorkerAt(IF rest = {} THEN "fetch" ELSE "handle", rest)]
    /\ out' = [out EXCEPT ![c[1]] = Append(@, Ack(c, worker[c].message))]
    /\ UNCHANGED <<brokerVars, process, link, annotation, alertVars, bounds>>

\* The connection sends what is first in its buffer.
Flush(b) ==
    /\ out[b] # << >>
    /\ link[b] = "ok"
    /\ LET x == Head(out[b]) IN
       IF x.kind = "ack"
       THEN /\ durable' = [durable EXCEPT ![x.by].acked = @ \cup {x.message},
                                          ![x.by].waiting = @ \ {x.message}]
            /\ UNCHANGED <<alerts, heard>>
       ELSE /\ alerts' = alerts \cup {x}
            /\ heard' = IF listener THEN heard \cup {x} ELSE heard
            /\ UNCHANGED durable
    /\ out' = [out EXCEPT ![b] = Tail(@)]
    /\ UNCHANGED <<broker, created, stream, expired, process, worker, link, annotation, listener, dropped, bounds>>

\* Somebody subscribes to acs.alerts.
Listen ==
    /\ broker # "down" /\ ~listener
    /\ listener' = TRUE
    /\ UNCHANGED <<brokerVars, clientVars, alerts, heard, dropped, bounds>>

BusNext == \/ StartBroker \/ StopBroker \/ Listen
           \/ \E s \in Streams : createStreams(s) \/ Expire(s)
           \/ \E e \in Events : Publish(e)
           \/ \E b \in Subscribers : ConnectFails(b) \/ Start(b) \/ StartFails(b) \/ Exit(b)
                                     \/ LoseConnection(b) \/ Disconnected(b)
                                     \/ Reconnected(b) \/ Flush(b)
           \/ \E c \in Consumers : \/ Fetch(c) \/ Handle(c) \/ Report(c) \/ Acknowledge(c)
                                   \/ \E n \in 1..MaxEvents : Redeliver(c, n)

BusSpec == BusInit /\ [][BusNext]_busVars

\* The goroutines and the connections go on, what has exited is started
\* again, and an acknowledgement that does not come is noticed.
BusFairness ==
    /\ WF_busVars(StartBroker) /\ \A s \in Streams : WF_busVars(createStreams(s))
    /\ \A b \in Subscribers : /\ WF_busVars(Start(b)) /\ WF_busVars(Flush(b))
                              /\ WF_busVars(Disconnected(b)) /\ WF_busVars(Reconnected(b))
    /\ \A c \in Consumers : WF_busVars(Fetch(c) \/ Handle(c) \/ Report(c) \/ Acknowledge(c))
    /\ \A c \in Consumers : \A n \in 1..MaxEvents : WF_busVars(Redeliver(c, n))
BusFairSpec == BusSpec /\ BusFairness

-----------------------------------------------------------------------------
(* Properties.                                                             *)

\* Types of the state.
BusTypeOK ==
    /\ broker \in {"down", "listening", "up"} /\ created \subseteq Streams
    /\ \A s \in Streams : Range(stream[s]) \subseteq Events /\ expired[s] \in 0..Len(stream[s])
    /\ \A c \in Consumers : durable[c].acked \cup durable[c].waiting \subseteq 1..Len(stream[c[2]])
    /\ \A c \in Consumers : worker[c].pc \in {"off", "fetch", "handle", "report"}
    /\ process \in [Subscribers -> {"down", "detached", "up"}]
    /\ link \in [Subscribers -> {"none", "ok", "broken", "reconnecting"}]
    /\ heard \subseteq alerts

\* A message the broker counts as acknowledged has been dealt with
\* (startConsumer: the handler runs before msg.Ack(), and both use one
\* ordered connection): every alert its handler raises for it has reached
\* the broker, unless it was on its way when the connection was lost.
\* Crashes, outages and redeliveries lose none.
AckedWasReported ==
    \A c \in Consumers : \A n \in durable[c].acked :
        \A p \in Handler(c, stream[c[2]][n]) : Alert(c, n, p) \in alerts \cup dropped

\* broker.md:12 says of the broker that it "Provides delivery guarantees
\* (at-least-once via JetStream)", and :91 of the violations "Must not lose
\* violations": the alerts of an acknowledged message have reached it.
ViolationsAreKept ==
    \A c \in Consumers : \A n \in durable[c].acked :
        \A p \in Handler(c, stream[c[2]][n]) : Alert(c, n, p) \in alerts

\* Every message published after the runtime evaluator's consumer was made
\* is handled and acknowledged in the end, or grows too old: the durable
\* consumer resumes after every crash of the evaluator or the broker.
EventIsSettled ==
    \A s \in Streams : \A n \in 1..MaxEvents :
        LET c == <<"runtime", s>> IN
        (durable[c].made /\ n > durable[c].from /\ n <= Len(stream[s]))
            ~> (n \in durable[c].acked \/ n <= expired[s])

\* The runtime evaluator comes to consume, whenever the broker and its
\* streams appear: a start that fails ends the process, which is restarted.
RuntimeConsumes == []<>(process["runtime"] = "up")
=============================================================================
