# A verification of acs-next in TLA+

acs-next watches the workloads of a cluster. On every node a *collector* turns
kernel events and `/proc` into reports of processes and network connections; a
*broker* carries events; *subscribers* in the admission controller and the
runtime evaluator match them against policies. This directory models the parts
of that system whose correctness depends on the order in which things happen,
checks them with TLC on small instances and proves the central facts with TLAPS
for all instances.

Source paths below are relative to `src/`; `lib/` is `collector/collector/lib/`.

## 1. Inventory

| Component | State | Operations | What is hard about it | Correct when |
|---|---|---|---|---|
| Connection tracker (`lib/ConnTracker.*`) | status per connection and endpoint, known networks, external-IPs setting | `UpdateConnection`, `Update`, `FetchConnState`, `FetchEndpointState`, `ComputeDelta`, `ComputeDeltaAfterglow`, `UpdateOldState`, `CloseConnections...` | fed by two threads with times of their own; several raw objects are one reported object | deltas reproduce the state they are computed from |
| Network status notifier (`lib/NetworkStatusNotifier.cpp`) | stream, old states, times of scrape and report | `Run`, `RunSingle`, `CreateInfoMessage`, `OnRecvControlMessage` | non-atomic scrape, failed writes, new streams, settings that change in between | Sensor holds open what is open |
| Network signal handler, `/proc` scraper | none beyond their inputs | `HandleSignal`, `Scrape` | events lost or late, `/proc` is no snapshot | nothing found is hidden |
| System inspector (`lib/system-inspector/Service.cpp`), process signal handler | handler list, pending process requests, rate limits | `Run`, `SendExistingProcesses`, `HandleSignal`, `CleanUp` | refresh in the middle of an event, retries, finished handlers | every stream starts with the existing processes |
| Signal service client (`lib/SignalServiceClient.cpp`), stoppable thread | stream flag, writer, context, stop flag | `EstablishGRPCStream`, `PushSignals`, `Start`, `Stop` | two threads, one condition variable, shutdown | the writer has one user; the stream comes back; stop returns |
| Duplex gRPC client (`lib/DuplexGRPC.h`) | pending and done flags, read buffer | `Poll`, `Sleep`, `Write`, `Finish`, `Shutdown` | completions in any order | each operation completes once |
| Rate limiting (`lib/RateLimit.cpp`) | token buckets, bounded cache | `Allow` | refill boundary, flush at capacity | bounded per key and period |
| Process store (`lib/Process.cpp`) | weak cache, pending resolution | `Fetch`, `ProcessInfoResolved`, `WaitForProcessInfo` | expiring references, timeout against a late answer | readers get the information or time out |
| Configuration loader (`lib/ConfigLoader.cpp`, `lib/Inotify.cpp`) | watchers, runtime configuration | `WatchFile`, `HandleEvent` | file replaced, linked, moved while watched | configuration in force is the file's |
| NATS clients (`lib/NatsSignalServiceClient.cpp`, `collector-nats/`) | connection flag | `Start`, `PushSignals`, `Stop` | closed connections | events are published while a broker is there |
| Broker (`broker/`) | JetStream streams | `Start`, `createStreams`, `Shutdown` | retention | what is published is delivered |
| Subscribers (`admission-controller/internal/subscriber`, `runtime-evaluator/`) | durable consumers, policies | fetch, handle, acknowledge, alert | redelivery after a crash | every violation is alerted |
| Policy engine, webhook, evaluator (`admission-controller/internal/policy`, `webhook`, `apis/`) | policies, status counts | set, delete, evaluate, update status | reviews and updates race | a review uses one set of policies; counts count |
| Collector service (`collector.cpp`, `lib/CollectorService.cpp`, `lib/StoppableThread.cpp`) | control variable, three threads, the notifier's context | `main`, `RunForever`, `Start`, `Stop`, `PauseUntil` | notifications that come between test and wait | a signal ends the process, the inspector last |
| Profiler endpoints (`lib/ProfilerHandler.cpp`) | profiles and their lengths | requests to start, stop, empty, fetch | emptying while a profile is made, failures | the profile of the last run is served |
| Start-up and formatting (`lib/CollectorConfig.cpp`, `lib/CollectorArgs.cpp`, `lib/HostHeuristics.cpp`, `lib/ProcessSignalFormatter.cpp`) | none | conversions | many inputs, boundary values | settings and reports are what the inputs say |

Logging, statistics and the read-only introspection endpoints have no behaviour
of this kind; section 10 says what is left out. `PROJECT.json` lists every
component with what is modelled of it, and every hazard with the line where it
bites.

The parts interact as follows. Kernel events reach the inspector thread, which
hands them to the network signal handler (and so to the tracker) and to the
process signal handler (and so to a signal client). The notifier thread reads
the tracker and talks to Sensor over a duplex stream, on which Sensor sends
control messages back. The configuration loader's thread replaces the runtime
configuration that the notifier reads. Process events also go to the broker,
from which the subscribers read.

## 2. The network pipeline

### Modules

* `ConnStatus` - the status maps and the pure algorithms on them
  (`ConnTracker.h` and the templates of `ConnTracker.cpp`). A map is a total
  function; a key that is not in the map has the value `NoEntry`, whose time is
  older than any other.
* `ConnTracker` - which raw objects are fetched and how they are normalised.
  A network is the set of its addresses, so longest-prefix match is the least
  set that contains the address. One address family is modelled; the code
  keeps the same state for each.
* `NetworkStatusNotifier` - the state machine: kernel, inspector thread,
  configuration and notifier thread around one tracker.
* `MCNotifier` - the connections, endpoints, networks and control messages of
  the instances that TLC explores.
* `DeltaProofs`, `NotifierProofs` - the lemmas about the operators, and the
  theorems about the state machine.

### State and actions

| Action | Code |
|---|---|
| `OpenConnection`, `CloseConnection`, `UseConnection`, `Listen`, `Emit`, `Tick` | the kernel, the driver's event buffer and the clock (external). An event may be lost; `UseConnection` stands for the send, receive and shutdown calls, of which the last reports a connection removed while `/proc` still shows it |
| `HandleSignal` | `NetworkSignalHandler::HandleSignal` and `ConnectionTracker::UpdateConnection` |
| `SetRuntimeConfig` | `CollectorConfig::SetRuntimeConfig`, `ResetRuntimeConfig` |
| `RunSingle`, `EndStream` | `Run`: a stream is opened, `RunSingle` starts with empty old states; a failed or late write, or a stream found ended in `Sleep`, ends it, and the next one is opened after a pause |
| `OnRecvControlMessage` | the callback, wherever the notifier thread polls the stream |
| `BeginScrape`, `ScrapeContainer`, `ScrapeFails`, `Update` | `UpdateAllConnsAndEndpoints`: the time is taken, `/proc` is read container by container (a container may be unreadable; `/proc` itself may be), the tracker is updated with the time taken first |
| `SetExternalIPsConfig` | the report's time and the setting it is made under |
| `Notify` | the rest of the round: fetch, delta, closing of old representations, message, old states |
| `Write` | the write that succeeded |

`view`, `epview` and `limited` are not variables of the program: they record
what Sensor was told on the current stream and which opens the rate limiter
withheld.

Every lock-protected section is one step, because all accesses to the state it
touches take the same lock; the notifier thread is interruptible between any
two of its steps. Connections and endpoints are fetched in one step: only the
notifier thread changes endpoint states.

### What is checked

* `SensorViewExact`, `EndpointViewExact` - the incremental deltas, applied by
  Sensor one after the other, give what the notifier takes Sensor to know,
  less the opens withheld by the limiter. A zombie connection or a lost open
  is a violation.
* `NoDuplicateOpen` - nothing is opened twice on a stream.
* `ScrapedIsHeldOpen`, `ScrapedEndpointIsHeldOpen` - what a scrape found is
  held open after the report of its round.
* `RepresentationCurrent` - after a change of the external-IPs setting nothing
  stays open in the old representation.

| Run | Instance | Shows |
|---|---|---|
| `notifier_afterglow` | with afterglow of period 2, three scenarios: one server connection and two settings, clock to 3 (`server`); two UDP sockets reported as one connection, clock to 2 (`peers`); one connection, two networks and two control messages (one malformed) with scraping off, clock to 3 (`networks`) | the four invariants and `ScrapedIsHeldOpen` through open, use, shutdown, close, reopen, expiry and reconfiguration; a closed connection does not hide an open one; one that changes its reported identity is closed under the old one |
| `notifier_plain` | without afterglow, two scenarios: two client connections and one open per report, clock to 2 (`clients`); four endpoints of two containers and two processes, one ignored, clock to 3 (`endpoints`) | limiting costs no close and leaves no zombie; the endpoint properties |
| `update_marks_active` | one server connection without afterglow, clock to 2 | violated: see Findings |

A behaviour goes through one scenario, named by the variable `scenario` of
`MCNotifier`, which limits what is opened, which settings there are and how long
the clock runs. `networks` takes the steps of an instance of the module with
`TurnOffScrape` set.

Bounds: `MaxTime` bounds the clock and `MaxEvents` the event buffer. With a
period of 2, a clock that runs to 3 has a connection active, in afterglow and
expired on one stream, and the boundary of each comparison. Of two connections the
events of one are lost, so that only scrapes find it; the two are alike. One buffered event is enough to have an event
handled before, during and after the scrape that sees its connection; a second
event of the same connection arrives when the first is handled. The scrape and
retry intervals are 1, the shortest, so that every tick may start a round. The
order of rounds and events is not bounded in any other way. Control messages
without a network list are not enumerated: the code ignores them.

None of these runs assumes fairness; the runs check safety.

### What is proved

`NotifierProofs` proves, for every set of connections and endpoints, every
family of nested networks, every period, interval, limit and bound:
`TypeOK`, `SensorViewExact`, `EndpointViewExact`, `NoDuplicateOpen`,
`ScrapedIsHeldOpen` and `ScrapedEndpointIsHeldOpen`; and `RepresentationCurrent`
for every set of control messages without a network list.

The assumptions are those of the modules: sets of connections and endpoints
are finite, networks that share an address are nested and contain their own
address, periods and intervals are positive. The intervals come from the
configuration, which does not validate them; an interval of 0 would let two
scrapes have the same time. The clock never goes back.

The argument rests on lemmas about the algorithms, in `DeltaProofs`.
`DeltaTracksActivity` and `DeltaTracksAfterglow` say that the opens of a delta are what became
(recently) active and its closes contain what ceased to be: without them the
view could not be carried over a round. `ReportedNotClosing` says that what
the normalisation produces under a setting is never what a change to that
setting closes; so the closes that `CloseConnections` adds never meet an open
of the same report. `RoundDelta` puts them together for one round.

The view invariants are not inductive alone. `IInv` adds:

* `Scoped` - no message is in flight outside a write, and without a stream the
  old states and the view are empty: a new stream starts consistent;
* `TimeOrdered` - reports are made in the order of time: otherwise something
  expired at the last report could be in afterglow again at this one;
* `ScrapeInTracker` - between update and report the tracker keeps every
  connection of the scrape with a time not older than the scrape's;
* `EndpointsOlder`, `EndpointsActive` - the tracker's endpoints are older than
  the scrape that will update them, so that `Update` marks them active.

`RepresentationCurrent` needs `OldIsCurrent` besides: what is in the old state
is represented as the setting of the last report asks for, which is the
tracker's setting until the next report begins and, with afterglow, the one
that `RunSingle` keeps in `prev_config`. The hypothesis on the control messages
is needed: a network list that arrives between two reports changes at once what
counts as the right representation, and Sensor hears of it with the next report.
In the scenarios the settings change only where there are no control messages.

### Findings

`ConnTracker.cpp:64` says that `Update` inserts or marks active all current
connections. A connection opened after the scrape took its time stamp, whose
event was handled before the update, is left inactive: `EmplaceOrUpdate` keeps
the younger status that `Update` has just marked inactive. With afterglow the
connection is still reported (`ScrapedIsHeldOpen` holds); without it, it is
reported by the next scrape. The run `update_marks_active` has the trace.

## 3. The signal service client

`SignalServiceClient` models `lib/SignalServiceClient.cpp` with
`StoppableThread` and `WaitForChannelReady`; the first part of `DeliveryProofs`
has the proofs. The model has no constants and no bounds: its state space is finite.

The stream thread (`at`) goes through `TestInterrupted` (the wait's condition),
`WaitForChannelReady`, `CreateStream`, `StreamStarted` or `StreamNotReady`,
`SetFirstWrite` and `Activate`. The inspector thread (`caller`) takes an event
(`BeginEvent`), calls `PushSignals` any number of times while it handles it
(`NeedsRefresh`, `WriteSignal`, or `DropWriter`, `Deactivate` and
`NotifyInterrupted`), and after `ShutdownHandler` runs `Stop` (`StopNotify`,
`StopThread`, `Join`, `CancelContext`). A call that returns ERROR because there
is no stream changes nothing. Each access to a shared variable is a step of its
own. A condition variable has no state: `NotifyOne` wakes a thread only if it
is blocked. `refreshed` is not a variable of the program; it records whether
PushSignals has asked for a refresh on the current stream.

Fairness (`FairSpec`): both threads run when they can; the handling of an event
ends, because the process table is finite; gRPC keeps trying to connect, and of
the attempts to open a stream some succeed. Spurious wake-ups may happen and
are not assumed to.

| Run | Shows |
|---|---|
| `signal_client` | `WriterHasOneUser`, `WriterGoneBeforeContext`, `RefreshBeforeSignals`, and the liveness properties `InterruptionRepaired` (after an interruption the stream comes back, or the stream thread sleeps on because the interruption fell between its test and its wait, and for no other reason) and `StopEnds` (a stop whose flag is set before the thread has decided to wait ends it) |
| `signal_client_stop_returns` | violated: `Stop` notifies before it sets the flag |
| `signal_client_stop_is_clean` | violated: `Stop` uses a context that was never created |

Both violated properties state what `collector.cpp:56` promises of a shutdown.
The test of the wait's condition and the wait are two steps (`TestInterrupted`,
`Block`), because `NotifyInterrupted` and `Stop` do not take the mutex of the wait. An
interruption that is notified between the two is lost, and the stream stays down
until a stop (`Stranded`); a stop between the two is lost as well. Nothing in the
repository promises that an interruption is repaired, so the first is a hazard
and not a finding.

Proved: the three safety properties. They are not inductive alone. `Ownership`
says which thread the shared variables belong to, as a function of
`stream_active` and the threads' places; `WriterState` what the owner finds in
the writer; `RefreshPending` that a stream becomes active with `first_write`
set. Liveness is checked by TLC only.

## 4. The gRPC streams and the life of the process

**`DuplexGRPC`, `GrpcStream`, `ServiceProofs`** (`lib/DuplexGRPC.h`). One thread
calls the client's methods; gRPC completes what it was given in any order. The
state is the client's word of flags (`done`, `pending`, `streamError`,
`readBufValid`), gRPC's side (`issued` operations, the completion queue `ready`,
`cqShut`, `broken`) and the method in progress (`call`). A blocking method is
several steps: it starts its operation (`DoAsync`), then takes tags out of the
queue one by one until its own has come or its deadline has passed, and every
tag runs the whole of `ProcessEvent`. `received`, `taken`, `writes` and
`written` record what was exchanged.

`GrpcStream` is the abstract specification: gRPC's contract, at most one
outstanding operation of a kind, none after Finish, none after the queue was
shut down. `KeepsContract` says that the client implements it whatever its
caller does. Besides: `ErrorFinishes` (a failed stream is being finished),
`LastReadIsNull` (the callback hears the end once, and last),
`WriteOkMeansWritten` (OK is for this message and not for an earlier one whose
deadline passed), `SleepSawNoError`, `EveryMessageIsRead` (without a callback no
message is overwritten in the buffer), and the liveness property `SyncReturns`
(once the stream has ended the blocking calls return, even without a deadline).

**`CollectorService`, `ServiceProofs`** (`collector.cpp`,
`lib/CollectorService.cpp`, `lib/StoppableThread.cpp`, `NetworkStatusNotifier::Run`
and `Stop`). `main` goes from its configuration through `InitKernel`, the start
of the three threads and the loop to the stops in their order; each thread is
in its work, in front of the test of `should_stop`, between the test and the
wait ("tested"), waiting, or ended. Stop's notification wakes a thread only if it
waits; one that comes between test and wait is lost and the wait ends by its
timeout. The notifier's call is opened, used and renewed; `TryCancelComm` ends it.
A signal (`HandleShutdown`, which sets `g_control`) may come at any step. `InspectorIsLast`: the inspector is not cleaned up
while a thread that uses it is alive. `ShutsDown`: a signal ends the process.
`CleanUpInspector` closes the inspector and `StopHandlers` stops the signal handlers;
with gRPC that is `SignalServiceClient::Stop`, which may return, never return or
end the process (section 3). `ShutsDown` is therefore stated with three
exceptions, in which the code does not shut down: the notifier without gRPC, a
stream that was renewed too late to be cancelled, and a Stop of the signal client
that does not return, when all else has been stopped. They are in section 9.

## 5. The process pipeline

**`ProcessPipeline`, `RateLimit`, `CollectorProofs`**
(`lib/system-inspector/Service.cpp`, `lib/ProcessSignalHandler.cpp`,
`lib/SelfCheckHandler.cpp`). The inspector thread takes an event and hands it to
the handlers in order; a handler answers PROCESSED, IGNORED, ERROR, NEEDS_REFRESH
(all processes of the table are sent, then the event again) or FINISHED (it is
removed). The client is reduced to what callers see of it: whether there is a
stream, whether anything was pushed on it, whether a write succeeds. `sent` is
what Sensor was told on this stream. `SensorKnows`: between two events, on a
stream that was refreshed, Sensor knows every running process except those
refused by the limiter, rejected by the formatter, or swallowed by a FINISHED
self-check.

**`RateLimit`, `RateLimitClient`** (`lib/RateLimit.cpp`): token buckets in a
cache that is flushed when it is full, on a clock that may be set back and
forward. `elapsed` is the time that really passes, and `grants` when, in that time,
one key was let through. `RateIsKept` is what `RateLimit.cpp:55` says, a burst in a
refill time; the run `event_rate` shows that the code lets two through, without a
flush and with a clock that only runs. What it keeps, whatever the clock does:
`GrantsBounded` (two bursts in a refill time, and a burst and one more for every
flush and every time the clock is set forward), `RefusedForABurst` (a key is
refused for a burst in the last refill time, longer by what the clock was set
back, or until the clock has caught up), `BucketsBounded`, `TokensAreTold`.

**`ProcessStore`, `ServiceProofs`** (`lib/Process.cpp`, the request list of
`Service.cpp`): three threads, weak pointers, objects that are dying until
their destructor has removed them from the store. `OneProcessPerPid` is the
uniqueness that the comparison of endpoints assumes
(`NetworkConnection.h:359`). `RequestsAnswered` and `ShutdownEnds` are liveness:
the inspector, which alone answers requests, joins at shutdown the notifier,
which may wait for an answer; its wait has a limit of 30 s. Requests that are left
are cancelled after the handlers' Stop (`HandlersStopped`), which need not return,
as the notifier need not end: both properties say what is still owed then.

**`ProcessSignalFormatter`**: pure operators. `SanitizedIsValid`,
`ExecAndScrapeAgree` (a process is reported alike from an execve and from a
scrape), `NamesAreUsable`, `LineageIsRight` (up to the container's boundary).

## 6. Inputs of the collector

**`ProcfsScraper`, `CollectorProofs`** (`ReadContainerConnections`): one
scrape against processes that open and close sockets and exit between any two
reads. `SteadyIsFound`: a socket held open all through the scrape is found,
unless the connections of its namespace were dropped because the process they
were read with exited. **`ProcfsParse`**: `LinesReadBack`, `EndsAreTold`,
`StateIsRead`, `ContainerIsFound` and `CmdlineIsJoined` compare the parsing of
`net/tcp`, `stat`, `cgroup` and `cmdline` with what the kernel writes.

**`ConfigLoader`, `InotifyProofs`, `ConfigLoaderProofs`** (`lib/ConfigLoader.cpp`,
`lib/Inotify.cpp`): the watcher thread against the kernel's watches, descriptors
and event queue, while a regular file is written, replaced, deleted, moved away
and created again, or a ConfigMap's link is made and moved. `SettlesOnFile`: when
all events are handled the configuration in force is the file's
(`docs/references.md:150` of the collector). The run `config_file` shows that it is
not: the directory's watch does not ask for moves (`Inotify.cpp:42`), so a file
that is moved to the name, or away from it before the loader watches the file
itself, raises no event; and nothing tells of a change of a link's target between
the load of a created link and the watch on its target (`ConfigLoader.cpp:617`).
`missed` records that one of these was the last thing to happen. `FollowsFile`:
there is no other way to miss a change, the next event that is told puts the
configuration right, and, whatever was missed, there is one watcher per path and
no watch without a watcher (`WatchersAreKnown`).
**`ConfigParser`** (`ParserYaml`): `LoadReadsAsWritten`, `UnknownKeysReported`.

**`NRadix`** (`lib/NRadix.cpp`, `IPNet`'s masks): insertion, lookup, listing and
comparison bit by bit, over two words of `W` bits. `FindsSmallest` and
`TellsSubsets` compare with the definition of a prefix. In `ConnTracker` the
lookup is the operator that `FindsSmallest` justifies.

**`NetAddress`** (`lib/NetworkConnection.*`, `ConnToProto`): addresses, masks,
private and local networks. `FormsAgree`: an IPv4 address is judged alike in its
IPv6 form. `MessagesTellApart`: connections that the tracker keeps apart differ
in their messages.

**`ProfilerHandler`, `CollectorProofs`** (`lib/ProfilerHandler.cpp`): the requests
that start, stop, empty and fetch the CPU and the heap profile, one step each
because a handler holds the mutex; a profile is named by the run it is of.
`LatestIsServed`: what a GET sends after a profiler was stopped is the profile
of its last run. Unless the last heap profile could not be had: then the old one
is gone and its length is kept.

**`CollectorConfig`**: arguments, environment and JSON to settings or failure.
`SettingsKeepApart`, `AfterglowIsBounded` (what the tracker assumes of its
period), `NetworksAsWritten`, `BuffersFit` (`GetSinspBufferSize`).

## 7. Events, policies and alerts

**`NatsClient`, `CollectorProofs`** (`lib/NatsSignalServiceClient.cpp`, `collector-nats/`): an owner
that starts and stops the client, and publishers. `PublishUsesConnection`,
`KeepsWorkingConnection` (a connection is given up only when the library has);
`KeepsConnection` is both.

**`EventBus`, `DeliveryProofs`** (`broker/`, both `subscriber.go`, both `main.go`): the broker's start
with its streams, durable consumers, the loop that fetches, handles, reports and
acknowledges, crashes of broker and subscribers, connections that are lost and
made again. NATS is external: streams and consumers are on disk, what a client
sends passes through one ordered buffer, and what is in the buffer when the
client notices the loss is dropped. The engines are the constants
`ProcessPolicies` and `NetworkPolicies`, which give the policies that an event
violates. A worker's batch is a set of message numbers, handled from the least.
`ViolationsAreKept` is what `broker.md` promises (delivery at least once, no lost
violations): what the broker counts as acknowledged has had its alerts. The run
`lost_alert` shows that it has not: an alert that is on its way when the
connection is lost (`LoseConnection`, or an outage of the broker) is dropped, and the
acknowledgement of its message goes out on the next connection. `AckedWasReported`:
nothing else loses an alert (`dropped` records those), neither crashes nor outages nor
redeliveries. `EventIsSettled`: every event published after
the consumer was made is handled and acknowledged or grows too old.
`RuntimeConsumes`: the evaluator comes to consume, whenever the broker appears.

**`Admission`, `PolicyEngine`, `AdmissionProofs`** (`admission-controller/`): main,
the two informers (list, watch, lost watch, relist with tombstones), their handler
threads, the engine's policies and the reviews. An object passes from the API
server (`api`) to an informer's `store` and its `queue` of notifications, and from
there to the engine (`loaded`). `CaughtUpVerdictIsRight`: a review judged while both
informers have caught up is judged by the API server's policies.
A notification that the handler cannot convert changes nothing in the engine: that of
an object which is not well formed, and a tombstone, which is what tells of a
deletion after a lost watch (section 9). `ignored` records the keys whose last
notification was such a one, and the verdict is right but for them.
`RefusalWasAlerted`: a pod is refused after its alerts, and let in when no policy
matched. `DeletedPolicyIsRemoved`: what is loaded is in the API server, or its deletion
was such a notification. `ChangesAreLoaded`, and for liveness `EngineConverges`,
`ReviewIsAnswered`.

**`RuntimeEngine`, `MCEngines`**: the runtime evaluator's own engine; `EnginesAgree`
compares the two. **`Evaluator`, `MCEvaluator`** (`apis/evaluator`): fields, groups
and sections; `OrderIrrelevant`, `NegationSplits`, `MessagesNameEveryGroup`.

**`PolicyStatus`, third part of `DeliveryProofs`** (`UpdatePolicyStatuses`,
`crdStatusUpdater`). A call finds the violated policies, takes the read lock
(`RLock`) and then, policy by policy, computes a new status from the engine's copy
(`ComputeStatus`), reads the object (`GetPolicy`) and replaces its status
(`UpdateStatus`), which the API server refuses when the object changed since it was
read. Any number of callers hold the read lock at once. `CopyPolicy` is the
informer's handler, which takes the write lock and brings a later version, not
always the next one. `objects` keeps every status a policy has had, `seen` the one
that the engine's copy has. `StatusIsRight`: every status ever written counts as many
violations as it lists, up to the limit, and has its condition once (`Consistent`);
its newest violation is the writer's (`WrittenIsRecent`); and the counts never go
back (`NeverGoesBack`), although two callers that start from the same copy count
once. Nothing calls `UpdatePolicyStatuses` yet; the callers are those its interface
allows.

## 8. Runs, bounds, fairness and proofs

### Composite runs

The components of sections 4 to 7 share no variable with each other in the
models. A behaviour of all of them is an interleaving of one behaviour of each,
and a property of one holds of it when it holds while the others stand still in
their initial states. `MCCollector`, `MCMessages` and `MCProgress` therefore hold
several components, and a variable `which`, chosen at the start, names the one that
moves. A component whose properties are proved is extended where its names allow
it, so that the run checks the very definition of the theorem; the others are
instances. Pure algorithms are evaluated on one input `case` per behaviour.
`MCValues` has the policies, pods and events that the instances share.

The bus in `messages` is explored in two slices of `BusNext`, because all of it at
once is too large: in `Batches` only the runtime evaluator works, on batches of
process events; in `BothStreams` only the admission controller does, on one event
of each stream. Of a crash, a lost connection and a late delivery, at most two happen
in the first and one in the second. The two subscribers share nothing but the broker.
The webhook's policies change three times, or twice when a watch is lost, and once when
there is no connection for alerts, where the pod that violates nothing is reviewed too.

Each violated property has a run of its own: `config_file` is the loader, `event_rate`
the limiter with one key and a clock that only runs, `lost_alert` the slice `Batches`.

| Run | Instances |
|---|---|
| `collector` | the loader (four edits, four inodes, two valid contents); a scrape (three processes, two containers, one namespace, sockets in tcp and tcp6); the pipeline (two processes and the self-check's, burst 2, refill 2, capacity 1, two streams); the limiter (burst 2, refill 2, capacity 1, two keys of which one is recorded, to time 6, up to six grants, the clock set once by up to four, one flush or setting forward); the NATS client (two publishers, three starts, two failures); the profilers (three runs of each); the algorithms |
| `messages` | the duplex client with a callback (two writes, one read) and without (two reads); the webhook (one name, cluster and two namespaces, three changes, a lost watch, policies that do not convert); status updates (two policies, two callers, three reports); the bus (`Batches`: two process events, in formats the subscriber can and cannot decode; `BothStreams`: one event each), with a crash, a lost connection and a late acknowledgement; the engines and the evaluator over small policies |
| `progress` | service (two polls), store (two pids, three objects), duplex client, webhook (two changes, a lost watch, policies that are disabled or do not convert), bus (a crash, an outage and a lost connection), under fairness |

Where a component promises several things at once, a run checks their conjunction:

| Run | Property | Put together from |
|---|---|---|
| `collector` | `SensorKnows` | `ProcessPipeline`'s |
| | `FollowsFile` | `SettlesOnFile` unless a change was `missed`, `WatchersAreKnown` |
| | `SteadyIsFound` | `ProcfsScraper`'s |
| | `BurstsAreKept` | `GrantsBounded`, `RefusedForABurst`, `BucketsBounded`, `TokensAreTold` |
| | `KeepsConnection` | `KeepsWorkingConnection`, `PublishUsesConnection` |
| | `LatestIsServed` | `ProfilerHandler`'s |
| | `NetworksAreFound` | `FindsSmallest`, `TellsSubsets` of `NRadix`, `FormsAgree`, `MessagesTellApart` of `NetAddress` |
| | `ProcIsReadBack` | `LinesReadBack`, `EndsAreTold`, `StateIsRead`, `ContainerIsFound`, `CmdlineIsJoined` |
| | `ProcessIsReported` | `SanitizedIsValid`, `NamesAreUsable`, `ExecAndScrapeAgree`, `LineageIsRight` |
| | `SettingsAreRight` | `LoadReadsAsWritten`, `UnknownKeysReported`, `SettingsKeepApart`, `AfterglowIsBounded`, `NetworksAsWritten`, `BuffersFit` |
| `messages` | `KeepsContract`, `ErrorFinishes`, `WriteOkMeansWritten` | `DuplexGRPC`'s |
| | `ReportsAreTrue` | `SleepSawNoError`, `LastReadIsNull`, `EveryMessageIsRead`, the type invariant |
| | `ReviewIsRight` | `CaughtUpVerdictIsRight`, `RefusalWasAlerted`, `ChangesAreLoaded`, `DeletedPolicyIsRemoved`, the type invariant of `Admission` |
| | `StatusIsRight` | `WrittenIsRecent`, `NeverGoesBack`, `Consistent` of `PolicyStatus` |
| | `AckedWasReported` | `EventBus`'s |
| | `EnginesAgree` | `MCEngines`' |
| | `VerdictIsSound` | `OrderIrrelevant`, `NegationSplits`, `MessagesNameEveryGroup` |
| `progress` | `OneProcessPerPid` | `ProcessStore`'s |
| | `SyncReturns` | `DuplexGRPC`'s |
| | `ShutsDown` | `ShutsDown`, `InspectorIsLast` of `CollectorService` |
| | `StoreAnswers` | `RequestsAnswered`, `ShutdownEnds`, the type invariant |
| | `AdmissionConverges` | `EngineConverges`, `ReviewIsAnswered`, `ChangesAreLoaded` |
| | `EventsAreSettled` | `EventIsSettled`, `RuntimeConsumes`, the type invariant |

Some numbers of the code are smaller here: the list of recent violations keeps
2, a batch fetches 2 messages (10), a word of an address has 2 bits (64), a
lineage 3 entries. Each is large enough for the boundary to be met and passed:
one report more than the list holds, a batch that is not full and one that is, a
prefix that ends in the first word, at its end and in the second, a lineage
longer than its limit. Three objects are the old one of a pid, the new one, and
a third of the same pid or of another. A capacity of 1 with two keys flushes the cache
while a key is in use. One crash is enough for the hand-over it breaks, because
what survives it, the durable state, is all that a second crash would find.
Four edits make, delete and re-make a file, or move a link twice.

Deadlock is not checked in these runs, because the components may stop: a
shutdown ends, a scrape ends, a bounded environment runs out of changes.

### Fairness (`progress` only)

* `CollectorService`: threads are scheduled and waits time out. A signal need not
  come, nor Sensor answer, nor a stream break.
* `ProcessStore`: the inspector runs, the wait ends by its limit, destructors end,
  and a request of the HTTP server ends, which drops the references it holds.
  Nothing is assumed of the end of the notifier's loop, nor of the handlers' Stop.
* `DuplexGRPC`: gRPC completes every operation of a stream that has ended, and a
  waiting method takes what is in the queue. A stream that has not ended owes
  nothing.
* `Admission`: informers list and their handlers run, main goes on, a review's
  goroutine goes on. Changes, lost watches and reviews are not assumed.
* `EventBus`: Kubernetes restarts what exits, clients reconnect and flush,
  goroutines run, and NATS redelivers after AckWait. Crashes and outages are
  bounded, so they end.

### What is proved

Sections 2 and 3 have their own proofs. The others, for every value of the
constants:

| Module | Theorem | Argument |
|---|---|---|
| `ServiceProofs` | `ClientKeepsContract` | refinement: every step of the client is a step of `GrpcStream` or a stutter. The invariant ties the flags to gRPC's side: an operation is outstanding only if its pending bit is set, and Finish or Shutdown, once asked for, stay in the flags |
| `ServiceProofs` | `ErrorFinishesHolds`, `WriteOkMeansWrittenHolds`, `SleepSawNoErrorHolds`, `EveryMessageIsReadHolds`, `LastReadIsNullHolds` | from the same invariant, with what each method in progress waits for; `EveryMessageIsReadHolds` is for a client without a read callback |
| `ServiceProofs` | `InspectorIsLastHolds` | `Places` says which threads exist at each place of main, `Joined` that what main has joined has exited |
| `ServiceProofs` | `OneProcessPerPidHolds` | an object that is not gone is the one its pid maps to (`Stored`, `Entries`); references keep an object alive (`Referred`); one thread destroys it (`Destroyed`). Uniqueness alone is not inductive: `Fetch` decides by the map |
| `CollectorProofs` | `SteadyIsFoundHolds` | what the scrape has collected at each place: the sockets of the processes read (`Collected`, `Known`), the connections of the namespaces read (`Complete`), and of the one being read (`Partial`). Assumes that a socket is in tcp or tcp6 |
| `CollectorProofs` | `SensorKnowsHolds` | for any limiter. `Knows` generalises the property to the middle of an event: what Sensor was not told is due with the event in hand or still to be sent by the refresh (`Due`, `Refreshing`); `Order` says which handlers are left |
| `CollectorProofs` | `KeepsConnectionHolds` | `HasConnection`: whoever found the client connected, itself or any publisher between its test and its publish, has a connection; the owner destroys one only while nobody publishes |
| `CollectorProofs` | `LatestIsServedHolds` | `ProfilesMatch`: while the CPU profiler runs, its file is the one of this run, or was removed together with the length of the profile before it; so the length that the stop takes is never that of another file |
| `ConfigLoaderProofs` | `FollowsFileHolds` | see below |
| `DeliveryProofs` | `AckedWasReportedHolds` | see below |
| `DeliveryProofs` | `StatusIsRightHolds` | `History`: the statuses of a policy grow, and the last is at most one ahead of the engine's copy; `OnItsWay`: what a caller is about to write counts one more than the copy that the engine still has, because no handler replaces the copy while a caller holds the lock |
| `AdmissionProofs` | `ReviewIsRightHolds` | see below |

`FollowsFileHolds` is for any contents and any number of inodes and changes. The
property speaks of moments at which all events are handled, so the invariant has to
say what is owed at all others. While there is a file, it is watched, or an event is
queued, or sure to come, that makes the loader watch it (`Sees`), and the
configuration is the file's or an event is queued that makes the loader read it
(`FollowsThere`). While there is none, the configuration is the default or the event
that resets it is queued (`FollowsGone`). Both are owed only while nothing is missed;
`Sound`, below, is kept whatever is missed. None of the two survives an event that is
handled too late unless the queue is in order: the creation of the file that is there comes
after every deletion (`Ordered`), and the end of a watch after its cause (`Ends`).
`Sound` relates the loader's watchers to the kernel's watches, whose descriptors
are numbers that outlive the files. `InotifyProofs` says what each call and each
event of inotify does to `Sound` and to the queue, `ConfigLoaderProofs` has a lemma
for each step of the thread and each change of the file system.

`AckedWasReportedHolds` is for any streams, subscribers, events and policies, any size
of a batch, and any number of crashes, outages, lost connections and redeliveries. An
alert is accounted for when it is with the broker or was dropped. The invariant
follows the alerts of a message: while it is handled each is accounted for, in the
connection's buffer, or still to be published (`Handled`); an acknowledgement in the
buffer has them before it (`InOrder`); for one that arrived they are accounted for
(`Settled`). A crash empties a buffer together with the workers that rely on it; a lost
connection empties it alone, into `dropped`.

The proofs about the webhook are for any policies, namespaces, pods and reviews and
any number of changes. `ChangesAreLoaded` and the verdict speak of moments at which an
informer has nothing left to tell, so the invariant follows each object on its way:
a watch that is on has seen what the API server holds (`InStep`), and what the
informer has seen is loaded, or the last notification about it that is queued will
load it (`SeenIsTold`). Only the last one counts, because a queue may tell of one
object several times; a list queues its differences in any order, and the lemmas
`Queued` and `TailTold` say what adding and taking notifications does to the last
one. `ReviewsOK` relates a review to its verdict and its alerts, and `VerdictOfApi`
says that the engine, when it holds the API server's policies, denies exactly what
they deny. `UnseenIsGone` is the converse of `SeenIsTold`: what an informer has not
seen, or has seen deleted, is not loaded, or its deletion is queued, or the handler
ignored it. The theorem has no hypothesis on lost watches or on objects that do not
convert: what the code cannot convert is accounted for by `ignored`, key by key.

The assumptions on the constants stand in the modules that declare them. Every
property proved here is also checked by a run on a small instance, by itself or
as a part of the property named in the table above.

Only model-checked:

* liveness, and everything about what is enabled, which TLAPS does not treat:
  `InterruptionRepaired`, `StopEnds`, `SyncReturns`, `ShutsDown`, `StoreAnswers`,
  `AdmissionConverges`, `EventsAreSettled`;
* what algorithms compute from sequences and trees of any length, which needs
  induction over data: `NetworksAreFound`, `ProcIsReadBack`, `ProcessIsReported`,
  `SettingsAreRight`, `EnginesAgree`, `VerdictIsSound`. They are checked for every
  input of a bounded set;
* `BurstsAreKept`: the grants in a refill time are counted over a history, and the
  cache is folded over.

## 9. Observations

Places where the code and a comment or document differ, or where a property had
to be stated with an exception. They were met while translating the code. Six are
demonstrated by runs of their own: `update_marks_active` (section 2),
`signal_client_stop_returns` and `signal_client_stop_is_clean` (3), `event_rate` (5),
`config_file` (6) and `lost_alert` (7).

Collector:

* `TryRead` after `PollAny` may return TIMEOUT (`DuplexGRPC.h:392`, against the
  non-blocking promise at :22); a second `Finish` after a completed one is an
  illegal state (:628); the destructor stops draining at the first timeout (:552).
* Without gRPC the notifier's loop does not end (`StdoutDuplexClientWriter::Sleep`
  is always true, `DuplexGRPC.h:749`) and its join waits for it. With gRPC a context
  renewed between `TryCancel` and the store to `should_stop_` is not cancelled; and the
  Stop of the signal client, the last step of a shutdown, may wait for ever for its
  stream thread or use a context that was never created (section 3). The requests for
  process information that are left are then not cancelled.
* A self-check process is sent to Sensor as an existing one (`Service.cpp:314`); a
  handler that is FINISHED ends the handling of its event (:291); a refresh in
  which the limiter refuses a process is not repeated (:315), and an event that needed a
  refresh takes up to three tokens. `SensorKnows` leaves these processes aside.
* The limiter admits two bursts in one refill time (`RateLimit.cpp:55`) and more when
  the cache is flushed (:70), and a clock that is set back makes its tokens negative
  (:47).
* `Fetch` returns no process while the old one is being destroyed
  (`Process.cpp:22`, against `Process.h:32`).
* A configuration file that is created is loaded before its target is watched
  (`ConfigLoader.cpp:617`); one that is renamed into place is not seen
  (`Inotify.cpp:42`). Keys such as "a_b" or "AB" are neither read nor reported
  when keys are in camel case.
* One radix tree holds both address families, which shadow each other where a
  prefix of one is on the way to one of the other (`ConnTracker.cpp:345`, an
  exception that `NRadix.h:104-111` does not make); `FindsSmallest` and `TellsSubsets`
  are checked for networks that keep apart.
* The NATS client does not connect again once the library has given up
  (`NatsSignalServiceClient.cpp:133`).
* Arguments of scraped processes are sent even if
  ROX_COLLECTOR_NO_PROCESS_ARGUMENTS is set (`ProcessSignalFormatter.cpp:229`); paths
  in a lineage are not sanitized (:365).
* A network without a slash is the network of all addresses
  (`NetworkConnection.h:167`); a malformed number in the environment ends the
  process, although `EnvVar.h:52` announces the default.

Broker, subscribers, policies:

* The collector publishes protobuf, the subscribers decode JSON
  (`subscriber.go:332`): such events are acknowledged and dropped.
* Alerts go to a subject without a stream (`subscriber.go:382`, against `broker.md`),
  and an alert dropped with a lost connection is not repeated when the
  acknowledgement goes out on the next one.
* Tombstones are not handled (`main.go:163`, `engine.go:39`): a policy deleted while
  a watch was down stays in the engine until the process restarts.
* A missing namespaced CRD keeps `WaitForCacheSync` waiting (`main.go:202`); Scope and
  Exclusions are not read (`engine.go:113`); the counts written to a status start
  from the engine's copy (`engine.go:182`).
* An untagged image behind a registry with a port counts as tagged (`fields.go:72`).

## 10. Not modelled

* Introspection, logging, statistics: views and counters that no other part
  reads. Introspection of endpoints enters `ProcessStore` as a second thread that
  holds references.
* Of the tracker: the connection statistics and the second address family, which
  is handled like the first. The notifier's clock does not go back.
* Of start-up: questions to the operating system (secure boot, UEFI, kernel
  configuration), which are inputs; the list of system calls; loading the driver
  and creating channels, which are library calls. A thread whose start fails.
* Of formatting: event names, container labels, identifiers and times. The
  traversal of a process's ancestors is libsinsp's.
* Of the configuration loader: overflow of the kernel's queue, which is only
  logged, and links without a target.
* Of the informers: the resync every 30 seconds (`main.go:141`), which tells the handler
  again of objects it was told of before.
* TLS, HTTP plumbing, the wording of messages, generated code, manifests and
  images, the NATS command line tool (it subscribes and prints) and the
  integration tests (they start containers and compare).
* The notifier is not shown to implement an abstract view of Sensor, and its
  liveness is not checked: the clock of its model is absolute and bounded.
