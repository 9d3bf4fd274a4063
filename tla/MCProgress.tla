----------------------------- MODULE MCProgress -----------------------------
(***************************************************************************)
(* Small instances of the components that owe somebody progress, for TLC.  *)
(* As in MCCollector, the components share no variable and `which` names   *)
(* the one that moves; the fairness of a component's module is asked of    *)
(* that one alone.  The process store is extended, the others are          *)
(* instances.                                                              *)
(***************************************************************************)
EXTENDS ProcessStore, MCValues, Integers

VARIABLES
  which,
  mode, main, polls, mainControl, thread, should_stop, context, flow, flowLate, mainInspector,
  done, pending, streamError, readBufValid, callbacks, issued, ready, cqShut, broken, received,
  taken, writes, writing, written, call, ret,
  api, changes, breaks, watch, store, queue, phase, informed, loaded, ignored, alertPub, review,
  broker, created, stream, expired, durable, process, worker, link, out, annotation, alerts,
  heard, listener, dropped, crashes, outages, losses, late

Service == INSTANCE CollectorService WITH
  MaxPolls <- 2, g_control <- mainControl, stream <- flow, late <- flowLate,
  system_inspector <- mainInspector
Duplex == INSTANCE DuplexGRPC WITH
  Methods <- {"Write", "Finish", "Shutdown"},
  ReadCallback <- TRUE, MaxWrites <- 1, MaxReads <- 0
Webhook == INSTANCE Admission WITH
  Names <- {"p"}, Namespaces <- {"n1"}, Specs <- {Privileged, Off, Broken}, Pods <- BadPod,
  Reviews <- {"r1"}, Installed <- {"cluster", "namespaced"}, MaxChanges <- 2, MaxBreaks <- 1
Bus == INSTANCE EventBus WITH
  Streams <- {"process"}, Subscribers <- {"runtime"}, Events <- {Shell("json")},
  ProcessPolicies <- DefaultProcessPolicies, NetworkPolicies <- DefaultNetworkPolicies,
  Fetched <- 2, MaxEvents <- 1, MaxCrashes <- 1, MaxOutages <- 1,
  MaxLosses <- 1, MaxLate <- 0

serviceVars == <<mode, main, polls, mainControl, thread, should_stop, context, flow, flowLate,
                 mainInspector>>
duplexVars == <<done, pending, streamError, readBufValid, callbacks, issued, ready, cqShut,
                broken, received, taken, writes, writing, written, call, ret>>
webhookVars == <<api, changes, breaks, watch, store, queue, phase, informed, loaded, ignored,
                 alertPub, review>>
busVars == <<broker, created, stream, expired, durable, process, worker, link, out, annotation,
             alerts, heard, listener, dropped, crashes, outages, losses, late>>
mcVars == <<which, serviceVars, storeVars, duplexVars, webhookVars, busVars>>

(* A component that stands still does so in one of its initial states.     *)
MCInit ==
  /\ which \in {"service", "store", "duplex", "webhook", "bus"}
  /\ Service!ServiceInit /\ StoreInit /\ Duplex!Init /\ Bus!BusInit
  /\ Webhook!WebhookInit /\ (which # "webhook" => alertPub) /\ (which # "service" => mode = "grpc")

MCNext ==
  \/ /\ which = "service" /\ Service!ServiceNext
     /\ UNCHANGED <<which, storeVars, duplexVars, webhookVars, busVars>>
  \/ /\ which = "store" /\ StoreNext
     /\ UNCHANGED <<which, serviceVars, duplexVars, webhookVars, busVars>>
  \/ /\ which = "duplex" /\ Duplex!Next
     /\ UNCHANGED <<which, serviceVars, storeVars, webhookVars, busVars>>
  \/ /\ which = "webhook" /\ Webhook!WebhookNext
     /\ UNCHANGED <<which, serviceVars, storeVars, duplexVars, busVars>>
  \/ /\ which = "bus" /\ Bus!BusNext
     /\ UNCHANGED <<which, serviceVars, storeVars, duplexVars, webhookVars>>

MCSpec == MCInit /\ [][MCNext]_mcVars

-----------------------------------------------------------------------------
(* The fairness of CollectorService, ProcessStore, DuplexGRPC, Admission   *)
(* and EventBus.                                                           *)
ServiceFairness ==
  /\ WF_serviceVars(which = "service" /\ Service!Main)
  /\ WF_serviceVars(which = "service" /\ Service!Notifier)
  /\ \A t \in {"loader", "notifier", "exporter"} :
       WF_serviceVars(which = "service" /\ (Service!PauseUntil(t) \/ Service!Work(t)))

StoreFairness ==
  /\ WF_storeVars(which = "store" /\ Inspector)
  /\ WF_storeVars(which = "store" /\ EndWait)
  /\ \A u \in Users : WF_storeVars(which = "store" /\ DestroyProcess(u))
  /\ \A o \in Objects : WF_storeVars(which = "store" /\ o \in Existing /\ Drop("http", o))

DuplexFairness ==
  /\ WF_duplexVars(which = "duplex" /\ Duplex!Event)
  /\ WF_duplexVars(which = "duplex" /\ Duplex!GotShutdown)
  /\ \A op \in {"START", "READ", "WRITE", "WRITES_DONE", "FINISH"} :
       WF_duplexVars(which = "duplex" /\ broken /\ \E ok \in {"ok", "failed"} : Duplex!Complete(op, ok))

WebhookFairness ==
  /\ \A kind \in {"cluster", "namespaced"} :
       /\ WF_webhookVars(which = "webhook" /\ Webhook!List(kind))
       /\ WF_webhookVars(which = "webhook" /\ Webhook!HandleNotification(kind))
  /\ WF_webhookVars(which = "webhook" /\ (Webhook!StartWithDefaults \/ Webhook!StartInformers))
  /\ WF_webhookVars(which = "webhook" /\ Webhook!CacheSynced)
  /\ WF_webhookVars(which = "webhook" /\ (\/ Webhook!Evaluate("r1") \/ Webhook!PublishAlert("r1")
                                           \/ Webhook!Respond("r1")))

BusFairness ==
  LET c == <<"runtime", "process">> IN
  /\ WF_busVars(which = "bus" /\ Bus!StartBroker)
  /\ WF_busVars(which = "bus" /\ Bus!createStreams("process"))
  /\ WF_busVars(which = "bus" /\ Bus!Start("runtime"))
  /\ WF_busVars(which = "bus" /\ Bus!Flush("runtime"))
  /\ WF_busVars(which = "bus" /\ Bus!Disconnected("runtime"))
  /\ WF_busVars(which = "bus" /\ Bus!Reconnected("runtime"))
  /\ WF_busVars(which = "bus" /\ (Bus!Fetch(c) \/ Bus!Handle(c) \/ Bus!Report(c) \/ Bus!Acknowledge(c)))
  /\ WF_busVars(which = "bus" /\ Bus!Redeliver(c, 1))

MCFairSpec == /\ MCSpec
            /\ ServiceFairness /\ StoreFairness /\ DuplexFairness /\ WebhookFairness /\ BusFairness

-----------------------------------------------------------------------------
(* The properties, each put together from those of its component;          *)
(* OneProcessPerPid stands as it is in ProcessStore.                       *)

(* DoSync: a Write, WritesDone or Finish returns once the stream ended.    *)
SyncReturns == Duplex!SyncReturns

(* RunForever: after a signal the collector shuts down, but for the three  *)
(* waits that CollectorService names, and the destructor of                *)
(* CollectorService cleans the inspector up after the threads that use it  *)
(* have ended.                                                             *)
ShutsDown == Service!ShutsDown /\ []Service!InspectorIsLast

(* Every request for the information of a process is answered (by          *)
(* ServePendingProcessRequests or CleanUp) unless the shutdown stays       *)
(* before the cancelling, and no shutdown stays there because the notifier *)
(* waits for such an answer (WaitForProcessInfo).                          *)
StoreAnswers == RequestsAnswered /\ ShutdownEnds /\ []StoreTypeOK

(* The admission controller: what an informer has told is loaded, the      *)
(* engine comes to hold what the API server holds, and every review is     *)
(* answered.                                                               *)
AdmissionConverges ==
  Webhook!EngineConverges /\ Webhook!ReviewIsAnswered /\ []Webhook!ChangesAreLoaded

(* The runtime evaluator comes to consume (a Start that fails ends the     *)
(* process), and every event is acknowledged or grows too old.             *)
EventsAreSettled ==
  Bus!EventIsSettled /\ (which = "bus" => Bus!RuntimeConsumes) /\ []Bus!BusTypeOK
=============================================================================
