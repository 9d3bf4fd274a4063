------------------------ MODULE SignalServiceClient -------------------------
(***************************************************************************)
(* The client that streams process signals to Sensor                       *)
(* (collector/collector/lib/SignalServiceClient.cpp) and the thread it     *)
(* runs on (StoppableThread.cpp).  Two threads share it:                   *)
(*                                                                         *)
(*  - the stream thread (at) runs EstablishGRPCStream: it waits until the  *)
(*    stream is interrupted and opens another one;                         *)
(*  - the inspector thread (caller) calls PushSignals for every signal     *)
(*    and, at the end, Stop.                                               *)
(*                                                                         *)
(* The condition variable stream_interrupted_ has no state: a notification *)
(* reaches the stream thread only if that thread is blocked on it.  The    *)
(* mutex the thread waits with is a local variable, so that a notification *)
(* may also come between its test of the condition and its wait.           *)
(***************************************************************************)

VARIABLES
  control,              \* g_control: has the collector been told to stop?
  connected,            \* the channel to Sensor is connected
  stream_active,        \* stream_active_
  first_write,          \* first_write_
  context,              \* context_ is not null
  writer,               \* writer_: null, or the state of its stream
  should_stop,          \* thread_.should_stop_
  at,                   \* where the stream thread is
  caller,               \* where the inspector thread is in PushSignals or Stop
  refreshed             \* PushSignals asked for a refresh on this stream

streamVars == <<stream_active, first_write, context, writer, refreshed>>
vars == <<control, connected, streamVars, should_stop, at, caller>>

(* first_write_ is not initialised.                                        *)
Init ==
  /\ control = "RUN" /\ connected = TRUE
  /\ stream_active = FALSE /\ first_write \in BOOLEAN
  /\ context = FALSE /\ writer = "null"
  /\ should_stop = FALSE
  /\ at = "test" /\ caller = "run"
  /\ refreshed = FALSE

-----------------------------------------------------------------------------
(* The environment: a signal asks the collector to stop; the channel comes *)
(* and goes, and an open stream breaks.                                    *)
ShutdownHandler ==
  /\ control = "RUN"
  /\ control' = "STOP_COLLECTOR"
  /\ UNCHANGED <<connected, streamVars, should_stop, at, caller>>

Connect ==
  /\ ~connected
  /\ connected' = TRUE
  /\ UNCHANGED <<control, streamVars, should_stop, at, caller>>

Disconnect ==
  /\ connected
  /\ connected' = FALSE
  /\ UNCHANGED <<control, streamVars, should_stop, at, caller>>

BreakStream ==
  /\ writer = "open"
  /\ writer' = "broken"
  /\ UNCHANGED <<control, connected, stream_active, first_write, context,
                 refreshed, should_stop, at, caller>>

-----------------------------------------------------------------------------
(* The stream thread: EstablishGRPCStreamSingle, again and again.          *)
StreamThread(next) ==
  /\ at' = next
  /\ UNCHANGED <<control, connected, should_stop, caller>>

(* stream_interrupted_.wait tests its condition, and blocks if it is       *)
(* false.  Nobody else locks the mutex it holds meanwhile: the two are     *)
(* steps apart.  TestInterruptedOnly has no should_stop in the condition.  *)
TestInterruptedOnly ==
  /\ at = "test"
  /\ StreamThread(IF ~stream_active THEN "channel" ELSE "block")
  /\ UNCHANGED streamVars

TestInterrupted ==
  /\ at = "test"
  /\ StreamThread(IF ~stream_active \/ should_stop THEN "channel" ELSE "block")
  /\ UNCHANGED streamVars

Block ==
  /\ at = "block"
  /\ StreamThread("wait")
  /\ UNCHANGED streamVars

(* A blocked thread may wake up for no reason.                             *)
SpuriousWakeup ==
  /\ at = "wait"
  /\ StreamThread("test")
  /\ UNCHANGED streamVars

(* WaitForChannelReady polls the channel until it is connected.  The test  *)
(* of should_stop before it is repeated by it.                             *)
WaitForChannelReady ==
  /\ at = "channel"
  /\ should_stop \/ connected
  /\ StreamThread(IF should_stop THEN "done" ELSE "create")
  /\ UNCHANGED streamVars

CreateStream ==
  /\ at = "create"
  /\ IF should_stop
     THEN StreamThread("done") /\ UNCHANGED streamVars
     ELSE /\ StreamThread("start")
          /\ context' = TRUE
          /\ writer' = "starting"
          /\ refreshed' = FALSE
          /\ UNCHANGED <<stream_active, first_write>>

(* WaitUntilStarted: the stream is open, or it is not after 30 seconds (in *)
(* which a channel that was lost may be back).                             *)
StreamStarted ==
  /\ at = "start"
  /\ StreamThread("first")
  /\ writer' = "open"
  /\ UNCHANGED <<stream_active, first_write, context, refreshed>>

(* StreamNotReady if it finished the writer and kept it.                   *)
StreamNotReadyFinished ==
  /\ at = "start"
  /\ StreamThread("test")
  /\ writer' = "finished"
  /\ UNCHANGED <<stream_active, first_write, context, refreshed>>

StreamNotReady ==
  /\ at = "start"
  /\ StreamThread("test")
  /\ writer' = "null"
  /\ UNCHANGED <<stream_active, first_write, context, refreshed>>

(* SetFirstWrite if it forgot the assignment.                              *)
SetFirstWriteNot ==
  /\ at = "first"
  /\ StreamThread("activate")
  /\ UNCHANGED streamVars

SetFirstWrite ==
  /\ at = "first"
  /\ StreamThread("activate")
  /\ first_write' = TRUE
  /\ UNCHANGED <<stream_active, context, writer, refreshed>>

Activate ==
  /\ at = "activate"
  /\ StreamThread("test")
  /\ stream_active' = TRUE
  /\ UNCHANGED <<first_write, context, writer, refreshed>>

-----------------------------------------------------------------------------
(* The inspector thread.  Service::Run tests control before every event;   *)
(* while it handles one it may push any number of signals.                 *)
InspectorThread(next) ==
  /\ caller' = next
  /\ UNCHANGED <<control, connected>>

(* notify_one wakes the stream thread up if it is blocked.                 *)
NotifyOne == at' = IF at = "wait" THEN "test" ELSE at

BeginEvent ==
  /\ caller = "run" /\ control = "RUN"
  /\ InspectorThread("event")
  /\ UNCHANGED <<streamVars, should_stop, at>>

EndEvent ==
  /\ caller = "event"
  /\ InspectorThread("run")
  /\ UNCHANGED <<streamVars, should_stop, at>>

(* PushSignals, which returns ERROR when there is no stream, if it did not *)
(* look at stream_active_.                                                 *)
PushSignalsBlindly ==
  /\ caller = "event"
  /\ InspectorThread("push")
  /\ UNCHANGED <<streamVars, should_stop, at>>

PushSignals ==
  /\ caller = "event"
  /\ stream_active
  /\ InspectorThread("push")
  /\ UNCHANGED <<streamVars, should_stop, at>>

(* The first call on a stream returns NEEDS_REFRESH.                       *)
NeedsRefresh ==
  /\ caller = "push" /\ first_write
  /\ InspectorThread("event")
  /\ first_write' = FALSE
  /\ refreshed' = TRUE
  /\ UNCHANGED <<stream_active, context, writer, should_stop, at>>

(* Write succeeded, and PushSignals returns PROCESSED.                     *)
WriteSignal ==
  /\ caller = "push" /\ ~first_write
  /\ writer = "open"
  /\ InspectorThread("event")
  /\ UNCHANGED <<streamVars, should_stop, at>>

(* Write failed: the writer is finished and dropped, then the stream is    *)
(* marked inactive and the stream thread notified.  DropWriterNot forgets  *)
(* to drop the writer.                                                     *)
DropWriterNot ==
  /\ caller = "push" /\ ~first_write
  /\ writer = "broken"
  /\ InspectorThread("dropped")
  /\ UNCHANGED <<streamVars, should_stop, at>>

DropWriter ==
  /\ caller = "push" /\ ~first_write
  /\ writer = "broken"
  /\ InspectorThread("dropped")
  /\ writer' = "null"
  /\ UNCHANGED <<stream_active, first_write, context, refreshed, should_stop, at>>

Deactivate ==
  /\ caller = "dropped"
  /\ InspectorThread("inactive")
  /\ stream_active' = FALSE
  /\ UNCHANGED <<first_write, context, writer, refreshed, should_stop, at>>

(* NotifyInterrupted if it forgot to notify.                               *)
NotifyInterruptedNot ==
  /\ caller = "inactive"
  /\ InspectorThread("event")
  /\ UNCHANGED <<streamVars, should_stop, at>>

NotifyInterrupted ==
  /\ caller = "inactive"
  /\ InspectorThread("event")
  /\ NotifyOne
  /\ UNCHANGED <<streamVars, should_stop>>

(* Stop notifies the stream thread, then StoppableThread::Stop sets        *)
(* should_stop_ and joins it; at last the context is cancelled and         *)
(* dropped.  Without a context that is a call through a null pointer.      *)
StopNotify ==
  /\ caller = "run" /\ control = "STOP_COLLECTOR"
  /\ InspectorThread("stop")
  /\ NotifyOne
  /\ UNCHANGED <<streamVars, should_stop>>

StopThread ==
  /\ caller = "stop"
  /\ InspectorThread("join")
  /\ should_stop' = TRUE
  /\ UNCHANGED <<streamVars, at>>

Join ==
  /\ caller = "join" /\ at = "done"
  /\ InspectorThread("cancel")
  /\ UNCHANGED <<streamVars, should_stop, at>>

CancelContext ==
  /\ caller = "cancel"
  /\ InspectorThread(IF context THEN "stopped" ELSE "crashed")
  /\ context' = FALSE
  /\ UNCHANGED <<stream_active, first_write, writer, refreshed, should_stop, at>>

StreamStep == \/ TestInterrupted \/ Block \/ WaitForChannelReady \/ CreateStream
              \/ StreamStarted \/ StreamNotReady \/ SetFirstWrite \/ Activate

CallStep == \/ NeedsRefresh \/ WriteSignal \/ DropWriter \/ Deactivate
            \/ NotifyInterrupted

StopStep == StopNotify \/ StopThread \/ Join \/ CancelContext

Next == \/ ShutdownHandler \/ Connect \/ Disconnect \/ BreakStream
        \/ StreamStep \/ SpuriousWakeup
        \/ BeginEvent \/ EndEvent \/ PushSignals
        \/ CallStep \/ StopStep

(* Threads that can run do run; the handling of an event ends, because the *)
(* process table is finite; a channel that is not connected connects in    *)
(* the end, which gRPC keeps trying, and an attempt to open a stream on it *)
(* that is repeated often enough succeeds.  Nothing is assumed of spurious *)
(* wake-ups, of interruptions and of the signals that are pushed.          *)
Fairness ==
  /\ WF_vars(StreamStep) /\ WF_vars(CallStep) /\ WF_vars(StopStep)
  /\ SF_vars(EndEvent)
  /\ WF_vars(Connect) /\ SF_vars(WaitForChannelReady) /\ SF_vars(StreamStarted)

Spec == Init /\ [][Next]_vars

FairSpec == Spec /\ Fairness

-----------------------------------------------------------------------------
(* The variables of the client keep their types.                           *)
TypeOK ==
  /\ control \in {"RUN", "STOP_COLLECTOR"} /\ connected \in BOOLEAN
  /\ stream_active \in BOOLEAN /\ first_write \in BOOLEAN
  /\ context \in BOOLEAN /\ writer \in {"null", "starting", "open", "broken"}
  /\ should_stop \in BOOLEAN /\ refreshed \in BOOLEAN
  /\ at \in {"test", "block", "wait", "channel", "create", "start", "first", "activate", "done"}
  /\ caller \in {"run", "event", "push", "dropped", "inactive",
                 "stop", "join", "cancel", "stopped", "crashed"}

(* writer_, first_write_ and context_ are not protected by a lock: they    *)
(* belong to the thread that stream_active_ names.  The stream thread      *)
(* never creates or drops a writer while PushSignals uses one, and what    *)
(* PushSignals uses is an open or a broken stream, never a null pointer or *)
(* a stream that is being set up.                                          *)
WriterHasOneUser ==
  caller = "push" => /\ at \notin {"create", "start", "first", "activate"}
                     /\ writer \in {"open", "broken"} /\ context

(* No stream is ever given up while it has a writer: when the stream       *)
(* thread creates a context and a writer, the previous writer, which uses  *)
(* the previous context, is gone.                                          *)
WriterGoneBeforeContext == at \in {"channel", "create"} => writer = "null" \/ should_stop

(* Sensor is never sent a signal on a stream on which PushSignals has not  *)
(* asked for the existing processes first.                                 *)
RefreshBeforeSignals ==
  caller = "push" /\ ~first_write => refreshed

(* The stream thread sleeps although there is no stream, and no            *)
(* notification is on its way.                                             *)
Stranded == at = "wait" /\ ~stream_active /\ caller # "inactive"

(* The stream comes back after every interruption, unless the collector    *)
(* stops or the interruption fell between the test of the wait's condition *)
(* and the wait (EstablishGRPCStreamSingle): in no other way is the thread *)
(* left asleep without a stream.                                           *)
InterruptionRepaired ==
  /\ ~stream_active ~> stream_active \/ Stranded \/ control = "STOP_COLLECTOR"
  /\ [][Stranded' => Stranded \/ at = "block"]_vars

(* A stop whose flag is set before the stream thread has decided to wait   *)
(* ends that thread, wherever it is and whether or not there is a channel. *)
StopEnds == caller = "join" /\ at \notin {"block", "wait"} ~> caller \in {"stopped", "crashed"}

(* collector.cpp:56 says of the control variable: "Only set the control    *)
(* variable; the collector service will take care of the rest."  A         *)
(* collector that is told to stop ends its stream thread.                  *)
StopReturns == control = "STOP_COLLECTOR" ~> at = "done"

(* The same line, for the end of Stop: the collector does not crash.       *)
StopIsClean == caller # "crashed"
=============================================================================
