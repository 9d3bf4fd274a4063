-------------------------- MODULE ProcessPipeline ---------------------------
(***************************************************************************)
(* The inspector thread (collector/collector/lib/system-inspector/         *)
(* Service.cpp): it takes events from the driver and hands them to the     *)
(* signal handlers in their order: the two self-check handlers             *)
(* (SelfCheckHandler.cpp) and the handler of process signals               *)
(* (ProcessSignalHandler.cpp), which limits their rate (RateLimit) and     *)
(* pushes them to Sensor.  The client is the one of SignalServiceClient,   *)
(* reduced to what its callers see: whether there is a stream, whether     *)
(* anything was pushed on it, and whether a write on it succeeds.          *)
(*                                                                         *)
(* The process table of libsinsp is external.  A process enters it by a    *)
(* clone, which no handler takes, shortly before its execve; the two are   *)
(* one event here.                                                         *)
(***************************************************************************)
EXTENDS RateLimit, Integers, Sequences, FiniteSets

CONSTANTS
  Processes,            \* processes of containers
  Self,                 \* the self-check process, which runs in one too
  compute_process_key,  \* the key the limiter knows each of them by
  Unresolved,           \* processes the formatter makes no message of
  MaxTime, MaxStreams   \* bounds of the instance

VARIABLES
  control,              \* g_control
  now,                  \* NowMicros(), for the limiter
  timedOut,             \* the self-check handlers have waited for 5 seconds
  handlers,             \* signal_handlers_
  table,                \* the processes in the thread table
  cache,                \* the limiter of the process handler
  stream,               \* "none", "open", or "broken": open until a write fails
  first_write,          \* first_write_
  streams,              \* streams opened so far
  at,                   \* where Run is
  evt,                  \* the event it handles
  index,                \* the handler it is at
  todo,                 \* processes SendExistingProcesses has still to send
  sent,                 \* ghost: processes written to this stream
  limited,              \* ghost: refused by the limiter while this stream is up
  swallowed             \* ghost: executed, but never given to the process handler

runVars == <<at, evt, index, todo>>
streamVars == <<stream, first_write, streams>>
ghosts == <<sent, limited, swallowed>>
vars == <<control, now, timedOut, handlers, table, cache, streamVars, runVars, ghosts>>

None == [type |-> "none"]
All == Processes \cup {Self}

(* The constructor of Service.                                             *)
Handlers == <<"SelfCheckProcess", "SelfCheckNetwork", "Process">>

Init ==
  /\ control = "RUN" /\ now = 1 /\ timedOut = FALSE
  /\ handlers = Handlers
  /\ table \in SUBSET Processes
  /\ cache = [k \in {} |-> TokenBucket]
  /\ stream = "none" /\ first_write = FALSE /\ streams = 0
  /\ at = "poll" /\ evt = None /\ index = 1 /\ todo = {}
  /\ sent = {} /\ limited = {} /\ swallowed = {}

-----------------------------------------------------------------------------
(* The environment: time passes, the stream thread opens a stream, a       *)
(* stream breaks, processes exit (an event no handler takes), and the      *)
(* collector is told to stop.                                              *)
Elapse ==
  /\ now < MaxTime /\ now' = now + 1
  /\ timedOut' \in {timedOut, TRUE}
  /\ UNCHANGED <<control, handlers, table, cache, streamVars, runVars, ghosts>>

EstablishStream ==
  /\ stream = "none" /\ streams < MaxStreams
  /\ stream' = "open" /\ first_write' = TRUE /\ streams' = streams + 1
  /\ sent' = {} /\ limited' = {} /\ swallowed' = {}
  /\ UNCHANGED <<control, now, timedOut, handlers, table, cache, runVars>>

BreakStream ==
  /\ stream = "open" /\ stream' = "broken"
  /\ UNCHANGED <<control, now, timedOut, handlers, table, cache, first_write, streams, runVars, ghosts>>

ShutdownHandler ==
  /\ control = "RUN" /\ control' = "STOP_COLLECTOR"
  /\ UNCHANGED <<now, timedOut, handlers, table, cache, streamVars, runVars, ghosts>>

-----------------------------------------------------------------------------
(* The relevant events of the handlers.                                    *)
ShouldHandle(h, e) ==
  CASE h = "SelfCheckProcess" -> e.type = "execve"
    [] h = "SelfCheckNetwork" -> e.type = "connect"
    [] h = "Process" -> e.type = "execve"

(* HandleSignal of the two self-check handlers: FINISHED, or IGNORED.  A   *)
(* connection event counts when it is one of the self-check process to its *)
(* port.                                                                   *)
SelfCheckFinished(e) ==
  \/ timedOut
  \/ e.process = Self /\ (e.type = "connect" => e.port = "self-check")

(* GetNext returns an event that passes the filters: an execve, by which   *)
(* the process is in the table, or a network event.                        *)
GetNext ==
  /\ at = "poll" /\ control = "RUN"
  /\ \/ \E p \in All \ table :
          /\ evt' = [type |-> "execve", process |-> p]
          /\ table' = table \cup {p}
     \/ \E p \in table, port \in {"self-check", "other"} :
          /\ evt' = [type |-> "connect", process |-> p, port |-> port]
          /\ UNCHANGED table
  /\ at' = "dispatch" /\ index' = 1
  /\ UNCHANGED <<control, now, timedOut, handlers, cache, streamVars, todo, ghosts>>

(* GetNext returns null for an event that is filtered out; an exit removes *)
(* the process from the table.                                             *)
GetNextNull ==
  /\ at = "poll" /\ control = "RUN"
  /\ \E p \in table : table' = table \ {p}
  /\ sent' = sent \ (All \ table') /\ limited' = limited \cap table'
  /\ swallowed' = swallowed \cap table'
  /\ UNCHANGED <<control, now, timedOut, handlers, cache, streamVars, runVars>>

NextHandler ==
  /\ at = "dispatch"
  /\ IF index > Len(handlers)
     THEN at' = "poll" /\ evt' = None /\ UNCHANGED index
     ELSE ~ShouldHandle(handlers[index], evt) /\ index' = index + 1 /\ UNCHANGED <<at, evt>>
  /\ UNCHANGED <<control, now, timedOut, handlers, table, cache, streamVars, todo, ghosts>>

(* A handler that has finished is erased, and the iteration stops: the     *)
(* handlers after it do not get the event.                                 *)
SelfCheck ==
  /\ at = "dispatch" /\ index <= Len(handlers)
  /\ handlers[index] # "Process" /\ ShouldHandle(handlers[index], evt)
  /\ IF SelfCheckFinished(evt)
     THEN /\ handlers' = SubSeq(handlers, 1, index - 1) \o SubSeq(handlers, index + 1, Len(handlers))
          /\ at' = "poll" /\ evt' = None /\ UNCHANGED index
          /\ swallowed' = IF evt.type = "execve" THEN swallowed \cup {evt.process}
                          ELSE swallowed
     ELSE index' = index + 1 /\ UNCHANGED <<at, evt, handlers, swallowed>>
  /\ UNCHANGED <<control, now, timedOut, table, cache, streamVars, todo, sent, limited>>

-----------------------------------------------------------------------------
(* PushSignals of one message, and the result it returns.                  *)
PushSignals(p, result) ==
  CASE stream = "none" ->
         result = "ERROR" /\ UNCHANGED <<streamVars, sent>>
    [] stream # "none" /\ first_write ->
         /\ result = "NEEDS_REFRESH" /\ first_write' = FALSE
         /\ UNCHANGED <<stream, streams, sent>>
    [] stream = "open" /\ ~first_write ->
         result = "PROCESSED" /\ sent' = sent \cup {p} /\ UNCHANGED streamVars
    [] stream = "broken" /\ ~first_write ->
         /\ result = "ERROR" /\ stream' = "none"
         /\ UNCHANGED <<first_write, streams, sent>>

(* HandleSignal and HandleExistingProcess of ProcessSignalHandler, which   *)
(* differ in where the message comes from.                                 *)
Handle(p, result) ==
  LET r == Allow(cache, compute_process_key[p], now) IN
  IF p \in Unresolved
  THEN result = "IGNORED" /\ UNCHANGED <<cache, streamVars, sent, limited>>
  ELSE /\ cache' = r.cache
       /\ IF r.ok THEN PushSignals(p, result) /\ UNCHANGED limited
          ELSE /\ result = "IGNORED" /\ limited' = limited \cup {p}
               /\ UNCHANGED <<streamVars, sent>>

Results == {"PROCESSED", "IGNORED", "ERROR", "NEEDS_REFRESH"}

(* The process handler gets the event for the first time.  When the client *)
(* asks for a refresh, the loop over the existing processes comes first.   *)
HandleSignal ==
  /\ at = "dispatch" /\ index <= Len(handlers)
  /\ handlers[index] = "Process" /\ ShouldHandle("Process", evt)
  /\ \E result \in Results :
       /\ Handle(evt.process, result)
       /\ IF result = "NEEDS_REFRESH"
          THEN at' = "refresh" /\ todo' = table /\ UNCHANGED index
          ELSE index' = index + 1 /\ UNCHANGED <<at, todo>>
  /\ UNCHANGED <<control, now, timedOut, handlers, table, evt, swallowed>>

(* SendExistingProcesses: one process after the other, in the order of a   *)
(* hash table, until a message is not sent.  Where a process of the table  *)
(* is refused by the limiter the loop goes on.  ExistingStopsEarly gives   *)
(* up at a process that is ignored.                                        *)
ExistingStopsEarly(p) ==
  /\ at = "refresh"
  /\ \E result \in Results :
       /\ Handle(p, result)
       /\ IF result # "PROCESSED"
          THEN at' = "dispatch" /\ index' = index + 1 /\ todo' = {}
          ELSE todo' = todo \ {p} /\ UNCHANGED <<at, index>>
  /\ UNCHANGED <<control, now, timedOut, handlers, table, evt, swallowed>>

HandleExistingProcess(p) ==
  /\ at = "refresh"
  /\ \E result \in Results :
       /\ Handle(p, result)
       /\ IF result \in {"ERROR", "NEEDS_REFRESH"}
          THEN at' = "dispatch" /\ index' = index + 1 /\ todo' = {}
          ELSE todo' = todo \ {p} /\ UNCHANGED <<at, index>>
  /\ UNCHANGED <<control, now, timedOut, handlers, table, evt, swallowed>>

SendExistingProcesses == \E p \in todo : HandleExistingProcess(p)

(* After the loop the event is handled again, whatever comes of it.        *)
HandleSignalAgain ==
  /\ at = "refresh" /\ todo = {}
  /\ \E result \in Results : Handle(evt.process, result)
  /\ at' = "dispatch" /\ index' = index + 1
  /\ UNCHANGED <<control, now, timedOut, handlers, table, evt, todo, swallowed>>

(* The loop of Run has ended, and CollectorService cleans up: the handlers *)
(* are stopped, which resets the limiter, and dropped.                     *)
CleanUp ==
  /\ at = "poll" /\ control # "RUN"
  /\ at' = "stopped" /\ handlers' = <<>>
  /\ cache' = [k \in {} |-> TokenBucket]
  /\ stream' = "none" /\ table' = {}
  /\ UNCHANGED <<control, now, timedOut, first_write, streams, evt, index, todo, ghosts>>

Run == \/ GetNext \/ GetNextNull \/ NextHandler \/ SelfCheck \/ HandleSignal
       \/ SendExistingProcesses \/ HandleSignalAgain \/ CleanUp

Next == Elapse \/ EstablishStream \/ BreakStream \/ ShutdownHandler \/ Run

Spec == Init /\ [][Next]_vars

-----------------------------------------------------------------------------
(* Between two events, on a stream on which the existing processes were    *)
(* asked for, Sensor knows every running process, but for those that the   *)
(* limiter refused, that the formatter rejects, or whose event ended the   *)
(* work of a self-check handler.  A refresh that fails half-way leaves no  *)
(* stream on which it could be taken for complete.                         *)
SensorKnows ==
  at = "poll" /\ stream = "open" /\ ~first_write =>
    table \subseteq sent \cup limited \cup Unresolved \cup swallowed
=============================================================================
