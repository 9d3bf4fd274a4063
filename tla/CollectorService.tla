-------------------------- MODULE CollectorService --------------------------
(***************************************************************************)
(* The life of the collector process (collector/collector/collector.cpp,   *)
(* lib/CollectorService.cpp) and of the threads it starts and stops        *)
(* (lib/StoppableThread.cpp).                                              *)
(*                                                                         *)
(* The configuration loader, the network status notifier and the           *)
(* statistics exporter each run in a StoppableThread.  Stop sets           *)
(* should_stop_ without the mutex that PauseUntil waits with, so that its  *)
(* notification may come between the test of should_stop_ and the wait; a  *)
(* wait ends by its timeout then.  The notifier's Stop cancels the call it *)
(* is in before that.                                                      *)
(***************************************************************************)
EXTENDS Integers, Sequences

CONSTANT MaxPolls   \* MAX_GRPC_CONNECTION_POLLS

VARIABLES
  mode,         \* the configuration: "grpc", "noflows" (without network flows) or "stdout"
  main,         \* where the main thread is
  polls,        \* attempts to reach Sensor that are left
  g_control,    \* RUN or STOP_COLLECTOR
  thread,       \* thread -> where its function is
  should_stop,  \* thread -> should_stop_
  context,      \* the notifier's ClientContext: "none", "fresh" or "cancelled"
  stream,       \* the notifier's stream: "none", "open", "broken" or "stdout"
  late,         \* the stream's context was made after TryCancel
  system_inspector \* "new", "running" or "clean"

threads == <<thread, should_stop>>
comm == <<context, stream, late>>
serviceVars == <<mode, main, polls, g_control, threads, comm, system_inspector>>

Threads == {"loader", "notifier", "exporter"}

ServiceInit ==
  /\ mode \in {"grpc", "noflows", "stdout"}
  /\ main = "load" /\ polls = MaxPolls /\ g_control = "RUN"
  /\ thread = [t \in Threads |-> "none"]
  /\ should_stop = [t \in Threads |-> FALSE]
  /\ context = "none" /\ stream = "none" /\ late = FALSE
  /\ system_inspector = "new"

-----------------------------------------------------------------------------
(* main.  A configuration that does not parse, a Sensor that cannot be     *)
(* reached and a kernel that cannot be initialised end the process.        *)
MainAt(l, next) == main = l /\ main' = next

LoadConfiguration ==
  /\ main = "load"
  /\ main' \in {IF mode = "stdout" THEN "install" ELSE "connect", "dead"}
  /\ UNCHANGED <<mode, polls, g_control, threads, comm, system_inspector>>

AttemptGRPCConnection ==
  /\ main = "connect"
  /\ \/ polls > 0 /\ polls' = polls - 1 /\ main' \in {"connect", "install"}
     \/ polls = 0 /\ main' = "dead" /\ UNCHANGED polls
  /\ UNCHANGED <<mode, g_control, threads, comm, system_inspector>>

InstallHandlers ==
  /\ MainAt("install", "kernel")
  /\ UNCHANGED <<mode, polls, g_control, threads, comm, system_inspector>>

InitKernel ==
  /\ main = "kernel" /\ main' \in {"start", "dead"}
  /\ UNCHANGED <<mode, polls, g_control, threads, comm, system_inspector>>

(* A signal: before the handlers are installed it ends the process.        *)
Installed == main \notin {"load", "connect", "install", "dead", "done"}
HandleShutdown ==
  /\ main \notin {"dead", "done"} /\ g_control = "RUN"
  /\ IF Installed THEN g_control' = "STOP_COLLECTOR" /\ UNCHANGED main
     ELSE main' = "dead" /\ UNCHANGED g_control
  /\ UNCHANGED <<mode, polls, threads, comm, system_inspector>>

(* RunForever: the threads, in this order, and the inspector.  There is no *)
(* notifier without network flows; without the exporter there is no        *)
(* collector.                                                              *)
StartThread(t) ==
  /\ main = "start" /\ thread[t] = "none"
  /\ t = "notifier" => mode # "noflows" /\ thread["loader"] # "none"
  /\ t = "exporter" => /\ thread["loader"] # "none"
                       /\ thread["notifier"] # "none" \/ mode = "noflows"
  /\ thread' = [thread EXCEPT ![t] = "test"]
  /\ UNCHANGED <<mode, main, polls, g_control, should_stop, comm, system_inspector>>

ExporterFails ==
  /\ MainAt("start", "dead") /\ thread["exporter"] = "none"
  /\ thread["loader"] # "none" /\ (thread["notifier"] # "none" \/ mode = "noflows")
  /\ UNCHANGED <<mode, polls, g_control, threads, comm, system_inspector>>

StartInspector ==
  /\ MainAt("start", "run") /\ thread["exporter"] # "none"
  /\ system_inspector' = "running"
  /\ UNCHANGED <<mode, polls, g_control, threads, comm>>

Interrupted ==
  /\ MainAt("run", "stop_loader") /\ g_control = "STOP_COLLECTOR"
  /\ UNCHANGED <<mode, polls, g_control, threads, comm, system_inspector>>

(* ~CollectorService.  StoppableThread::Stop sets should_stop_ and wakes   *)
(* who waits for it, then joins.  JoinNothing does not wait.               *)
Stopping == [stop_loader |-> "loader", stop_notifier |-> "notifier", stop_exporter |-> "exporter"]
Joining == [join_loader |-> "loader", join_notifier |-> "notifier", join_exporter |-> "exporter"]
AfterStop == [stop_loader |-> "join_loader", stop_notifier |-> "join_notifier",
              stop_exporter |-> "join_exporter"]
AfterJoin == [join_loader |-> IF mode = "noflows" THEN "stop_exporter" ELSE "cancel",
              join_notifier |-> "stop_exporter", join_exporter |-> "clean"]

Stop ==
  /\ main \in DOMAIN Stopping /\ main' = AfterStop[main]
  /\ should_stop' = [should_stop EXCEPT ![Stopping[main]] = TRUE]
  /\ thread' = [thread EXCEPT ![Stopping[main]] = IF @ = "wait" THEN "notified" ELSE @]
  /\ UNCHANGED <<mode, polls, g_control, comm, system_inspector>>

JoinNothing ==
  /\ main \in DOMAIN Joining /\ main' = AfterJoin[main]
  /\ UNCHANGED <<mode, polls, g_control, threads, comm, system_inspector>>

Join ==
  /\ main \in DOMAIN Joining /\ main' = AfterJoin[main]
  /\ thread[Joining[main]] = "exited"
  /\ UNCHANGED <<mode, polls, g_control, threads, comm, system_inspector>>

(* NetworkStatusNotifier::Stop begins with comm_->TryCancel.               *)
TryCancelComm ==
  /\ MainAt("cancel", "stop_notifier")
  /\ context' = IF context = "none" THEN "none" ELSE "cancelled"
  /\ UNCHANGED <<mode, polls, g_control, threads, stream, late, system_inspector>>

(* Service::CleanUp closes the inspector, and stops the signal handlers.   *)
(* SignalServiceClient::Stop may return, may wait for ever for its stream  *)
(* thread, and ends the process when there never was a stream              *)
(* (StopReturns and StopIsClean of SignalServiceClient); the client that   *)
(* writes to standard output has nothing to stop.                          *)
CleanUpInspector ==
  /\ MainAt("clean", "handlers") /\ system_inspector' = "clean"
  /\ UNCHANGED <<mode, polls, g_control, threads, comm>>

StopHandlers ==
  /\ main = "handlers"
  /\ main' \in {"done"} \cup (IF mode = "stdout" THEN {} ELSE {"stuck", "dead"})
  /\ UNCHANGED <<mode, polls, g_control, threads, comm, system_inspector>>

-----------------------------------------------------------------------------
(* The threads.  PauseUntil (for the loader, the loop's test and select):  *)
(* should_stop_ is tested, then the thread waits, and after a notification *)
(* or a timeout it is tested again.  PauseForever has no timeout.          *)
Goes(t, l) == thread' = [thread EXCEPT ![t] = l]
Mine == UNCHANGED <<mode, main, polls, g_control, should_stop, system_inspector>>

PauseForever(t) ==
  /\ \/ thread[t] = "test" /\ Goes(t, IF should_stop[t] THEN "exited" ELSE "tested")
     \/ thread[t] = "tested" /\ Goes(t, "wait")
     \/ thread[t] = "notified" /\ Goes(t, IF should_stop[t] THEN "exited" ELSE "work")
  /\ Mine /\ UNCHANGED comm

PauseUntil(t) ==
  /\ \/ thread[t] = "test" /\ Goes(t, IF should_stop[t] THEN "exited" ELSE "tested")
     \/ thread[t] = "tested" /\ Goes(t, "wait")
     \/ thread[t] \in {"wait", "notified"} /\ Goes(t, IF should_stop[t] THEN "exited" ELSE "work")
  /\ Mine /\ UNCHANGED comm

(* What the loader and the exporter do between two pauses.  The loader     *)
(* ends when its directory is gone.                                        *)
Work(t) ==
  /\ t # "notifier" /\ thread[t] = "work"
  /\ Goes(t, "test") \/ (t = "loader" /\ Goes(t, "exited"))
  /\ Mine /\ UNCHANGED comm

(* NetworkStatusNotifier::Run.                                             *)
ResetClientContext ==
  /\ thread["notifier"] = "work" /\ Goes("notifier", "connect")
  /\ context' = "fresh" /\ stream' = "none"
  /\ late' = (main = "stop_notifier")
  /\ Mine

(* WaitForConnectionReady: should_stop_ is tested before each wait for the *)
(* channel; without a channel there is nothing to wait for.                *)
CheckInterrupted ==
  /\ thread["notifier"] = "connect" /\ mode = "grpc"
  /\ Goes("notifier", IF should_stop["notifier"] THEN "exited" ELSE "poll")
  /\ Mine /\ UNCHANGED comm

WaitForConnected ==
  /\ thread["notifier"] = "poll" /\ Goes("notifier", "connect")
  /\ Mine /\ UNCHANGED comm

ConnectionReady ==
  /\ thread["notifier"] = IF mode = "grpc" THEN "poll" ELSE "connect"
  /\ Goes("notifier", "single") /\ stream' = IF mode = "grpc" THEN "open" ELSE "stdout"
  /\ Mine /\ UNCHANGED <<context, late>>

StreamBreaks ==
  /\ stream = "open" /\ stream' = "broken"
  /\ Mine /\ UNCHANGED <<thread, context, late>>

(* RunSingle goes on as long as the stream does; the writer to standard    *)
(* output never fails and knows nothing of the context.                    *)
RunSingleEnds ==
  /\ thread["notifier"] = "single"
  /\ stream = "broken" \/ (stream = "open" /\ context = "cancelled")
  /\ stream' = "none"
  /\ Goes("notifier", IF should_stop["notifier"] THEN "exited" ELSE "finish")
  /\ Mine /\ UNCHANGED <<context, late>>

Finish ==
  /\ thread["notifier"] = "finish" /\ Goes("notifier", "test")
  /\ Mine /\ UNCHANGED comm

Main ==
  \/ LoadConfiguration \/ AttemptGRPCConnection \/ InstallHandlers \/ InitKernel
  \/ (\E t \in Threads : StartThread(t)) \/ ExporterFails \/ StartInspector \/ Interrupted
  \/ Stop \/ Join \/ TryCancelComm \/ CleanUpInspector \/ StopHandlers

Notifier == \/ ResetClientContext \/ CheckInterrupted \/ WaitForConnected \/ ConnectionReady
            \/ RunSingleEnds \/ Finish

ServiceNext ==
  \/ Main \/ Notifier
  \/ \E t \in Threads : PauseUntil(t) \/ Work(t)
  \/ HandleShutdown \/ StreamBreaks

ServiceSpec == ServiceInit /\ [][ServiceNext]_serviceVars

(* Threads are scheduled and waits time out; a signal need not come, nor   *)
(* Sensor answer, nor a stream break.                                      *)
ServiceFairness ==
  /\ WF_serviceVars(Main) /\ WF_serviceVars(Notifier)
  /\ \A t \in Threads : WF_serviceVars(PauseUntil(t) \/ Work(t))

-----------------------------------------------------------------------------
(* CollectorService.cpp:90: "system_inspector_ needs to be last, since     *)
(* other components relay on it."  It is not cleaned up while a thread     *)
(* that uses it is alive, and the threads end before the process does.     *)
InspectorIsLast ==
  system_inspector = "clean" => \A t \in Threads : thread[t] \in {"none", "exited"}

(* collector.cpp:56: "Only set the control variable; the collector service *)
(* will take care of the rest."  After a signal the collector shuts down,  *)
(* whatever its threads are at and although a notification may be lost,    *)
(* unless the notifier renewed its context between TryCancel and the store *)
(* to should_stop_: nothing cancels that stream, and the join waits for as *)
(* long as Sensor keeps it open.  Without gRPC the notifier's loop has no  *)
(* end, and neither has the join.  With gRPC the last step, the Stop of    *)
(* the signal client, may not return either: all else has been stopped     *)
(* then.                                                                   *)
ShutsDown ==
  g_control = "STOP_COLLECTOR" ~>
    \/ main \in {"done", "dead"}
    \/ late \/ mode = "stdout"
    \/ main = "stuck" /\ system_inspector = "clean"
=============================================================================
