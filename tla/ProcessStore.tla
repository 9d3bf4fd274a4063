---------------------------- MODULE ProcessStore ----------------------------
(***************************************************************************)
(* Process objects and the store that shares them                          *)
(* (collector/collector/lib/Process.cpp), between the threads that use     *)
(* them:                                                                   *)
(*                                                                         *)
(*  - the notifier thread fetches the processes of listening sockets       *)
(*    (ProcfsScraper.cpp), reads them for its reports and drops them;      *)
(*  - the introspection thread copies endpoints, with their processes, out *)
(*    of the tracker (NetworkStatusInspector.cpp) and drops the copies;    *)
(*  - the inspector thread answers the requests for process information    *)
(*    (Service.cpp) and, when the collector stops, joins the other two,    *)
(*    stops the signal handlers and cancels the requests that are left.    *)
(*                                                                         *)
(* The store holds weak pointers.  An object without references is         *)
(* "dying" until its destructor has erased it from the store, and "gone"   *)
(* after that; the callback it registered can be locked until it is gone.  *)
(***************************************************************************)
EXTENDS Naturals, Sequences

CONSTANTS Pids,
          MaxObjects    \* Process objects created in a behaviour

Users == {"notifier", "http"}
Objects == 1..MaxObjects
null == 0

VARIABLES
  object,     \* the Process objects made so far
  refs,       \* the shared pointers to an object, by the thread that holds them
  cache,      \* cache_: the object a pid is mapped to, or null
  requests,   \* pending_process_requests_
  user,       \* what the notifier and the introspection thread do, and to what
  inspector,  \* the inspector thread: where it is, and the callback it holds
  control,    \* g_control
  fetched     \* what Fetch returned last

storeVars == <<object, refs, cache, requests, user, inspector, control, fetched>>

NoCall == [at |-> "idle", process |-> null]

StoreInit ==
  /\ object = <<>> /\ refs = [o \in Objects |-> {}]
  /\ cache = [p \in Pids |-> null] /\ requests = <<>>
  /\ user = [u \in Users |-> NoCall]
  /\ inspector = NoCall
  /\ control = "RUN" /\ fetched = "nothing"

(* process_requests_mutex_ is held while requests are served.              *)
MutexFree == inspector.at \notin {"serving", "cancelling"}

Living(o) == o # null /\ object[o].phase = "living"

-----------------------------------------------------------------------------
(* ProcessStore::Fetch by the notifier thread.  An entry whose object is   *)
(* dying cannot be locked, and null is returned.  A new object asks for    *)
(* its information while it is constructed.                                *)
Create(p) ==
  LET o == Len(object) + 1 IN
  /\ o \in Objects /\ MutexFree
  /\ object' = Append(object, [pid |-> p, phase |-> "living", pending |-> "yes"])
  /\ requests' = Append(requests, o)
  /\ cache' = [cache EXCEPT ![p] = o]
  /\ refs' = [refs EXCEPT ![o] = {"notifier"}]
  /\ fetched' = "process"

(* FetchAnew makes a new object where the entry cannot be locked.          *)
FetchAnew(p) ==
  /\ user["notifier"] = NoCall
  /\ IF Living(cache[p])
     THEN /\ refs' = [refs EXCEPT ![cache[p]] = @ \cup {"notifier"}]
          /\ fetched' = "process"
          /\ UNCHANGED <<object, cache, requests>>
     ELSE Create(p)
  /\ UNCHANGED <<user, inspector, control>>

Fetch(p) ==
  /\ user["notifier"] = NoCall
  /\ IF cache[p] # null
     THEN /\ IF Living(cache[p])
             THEN /\ refs' = [refs EXCEPT ![cache[p]] = @ \cup {"notifier"}]
                  /\ fetched' = "process"
             ELSE fetched' = "null" /\ UNCHANGED refs
          /\ UNCHANGED <<object, cache, requests>>
     ELSE Create(p)
  /\ UNCHANGED <<user, inspector, control>>

(* An accessor: WaitForProcessInfo blocks while the information is         *)
(* pending, until the condition is notified, until the thread wakes up for *)
(* no reason, or for at most 30 seconds.                                   *)
Access(o) ==
  /\ user["notifier"] = NoCall /\ "notifier" \in refs[o]
  /\ object[o].pending = "yes"
  /\ user' = [user EXCEPT !["notifier"] = [at |-> "waiting", process |-> o]]
  /\ UNCHANGED <<object, refs, cache, requests, inspector, control, fetched>>

(* EndWaitNotified waits without a limit.                                  *)
EndWaitNotified ==
  /\ user["notifier"].at = "waiting"
  /\ object[user["notifier"].process].pending = "no"
  /\ user' = [user EXCEPT !["notifier"] = NoCall]
  /\ UNCHANGED <<object, refs, cache, requests, inspector, control, fetched>>

EndWait ==
  /\ user["notifier"].at = "waiting"
  /\ user' = [user EXCEPT !["notifier"] = NoCall]
  /\ UNCHANGED <<object, refs, cache, requests, inspector, control, fetched>>

(* handleGetEndpoints copies what the tracker holds, while the server is   *)
(* open.                                                                   *)
CopyEndpoints(o) ==
  /\ inspector.at \in {"idle", "serving"}
  /\ user["http"] = NoCall /\ "notifier" \in refs[o]
  /\ refs' = [refs EXCEPT ![o] = @ \cup {"http"}]
  /\ UNCHANGED <<object, cache, requests, user, inspector, control, fetched>>

(* The last reference is dropped: the destructor runs on that thread.      *)
Drop(u, o) ==
  /\ user[u] = NoCall /\ u \in refs[o]
  /\ refs' = [refs EXCEPT ![o] = @ \ {u}]
  /\ IF refs[o] = {u}
     THEN /\ object' = [object EXCEPT ![o].phase = "dying"]
          /\ user' = [user EXCEPT ![u] = [at |-> "destroying", process |-> o]]
     ELSE UNCHANGED <<object, user>>
  /\ UNCHANGED <<cache, requests, inspector, control, fetched>>

(* ~Process: the entry of the store is removed with the object.           *)
DestroyProcess(u) ==
  /\ user[u].at = "destroying"
  /\ object' = [object EXCEPT ![user[u].process].phase = "gone"]
  /\ cache' = [cache EXCEPT ![object[user[u].process].pid] = null]
  /\ user' = [user EXCEPT ![u] = NoCall]
  /\ UNCHANGED <<refs, requests, inspector, control, fetched>>

-----------------------------------------------------------------------------
(* ServePendingProcessRequests, under the mutex: take the first request,   *)
(* lock its callback, call it with what is found, remove the request.      *)
At(where, o) == inspector' = [at |-> where, process |-> o]

ServePendingProcessRequests ==
  /\ inspector.at = "idle" /\ control = "RUN"
  /\ requests # <<>>
  /\ At("serving", null)
  /\ UNCHANGED <<object, refs, cache, requests, user, control, fetched>>

LockCallback ==
  /\ inspector.at \in {"serving", "cancelling"} /\ inspector.process = null
  /\ IF requests = <<>>
     THEN At(IF inspector.at = "serving" THEN "idle" ELSE "done", null) /\ UNCHANGED requests
     ELSE IF object[Head(requests)].phase = "gone"
     THEN requests' = Tail(requests) /\ UNCHANGED inspector
     ELSE At(inspector.at, Head(requests)) /\ UNCHANGED requests
  /\ UNCHANGED <<object, refs, cache, user, control, fetched>>

(* ProcessInfoResolved, with the information or with null.                 *)
ProcessInfoResolved ==
  /\ inspector.at \in {"serving", "cancelling"} /\ inspector.process # null
  /\ object' = [object EXCEPT ![inspector.process].pending = "no"]
  /\ requests' = Tail(requests)
  /\ At(inspector.at, null)
  /\ UNCHANGED <<refs, cache, user, control, fetched>>

(* The collector stops: Run ends, and the destructor of CollectorService   *)
(* closes the server, joins the notifier, and cleans up.                   *)
ShutdownHandler ==
  /\ control = "RUN" /\ control' = "STOP_COLLECTOR"
  /\ UNCHANGED <<object, refs, cache, requests, user, inspector, fetched>>

(* server_.close() takes no more requests, and waits for the open ones.    *)
CloseServer ==
  /\ inspector.at = "idle" /\ control # "RUN"
  /\ At("closing", null)
  /\ UNCHANGED <<object, refs, cache, requests, user, control, fetched>>

ServerClosed ==
  /\ inspector.at = "closing" /\ user["http"] = NoCall
  /\ \A o \in Objects : "http" \notin refs[o]
  /\ user' = [user EXCEPT !["http"] = [at |-> "stopped", process |-> null]]
  /\ At("joining", null)
  /\ UNCHANGED <<object, refs, cache, requests, control, fetched>>

StopNotifier ==
  /\ inspector.at = "joining" /\ user["notifier"] = NoCall
  /\ user' = [user EXCEPT !["notifier"] = [at |-> "stopped", process |-> null]]
  /\ UNCHANGED <<object, refs, cache, requests, inspector, control, fetched>>

(* CleanUpNoCancel drops the requests.                                     *)
CleanUpNoCancel ==
  /\ inspector.at = "joining" /\ user["notifier"].at = "stopped"
  /\ At("done", null) /\ requests' = <<>>
  /\ UNCHANGED <<object, refs, cache, user, control, fetched>>

CleanUp ==
  /\ inspector.at = "joining" /\ user["notifier"].at = "stopped"
  /\ At("handlers", null)
  /\ UNCHANGED <<object, refs, cache, requests, user, control, fetched>>

(* The Stop of the signal handlers has returned.                           *)
HandlersStopped ==
  /\ inspector.at = "handlers"
  /\ At("cancelling", null)
  /\ UNCHANGED <<object, refs, cache, requests, user, control, fetched>>

Inspector == \/ ServePendingProcessRequests \/ LockCallback \/ ProcessInfoResolved
             \/ CloseServer \/ ServerClosed \/ CleanUp

Existing == DOMAIN object

StoreNext ==
  \/ \E p \in Pids : Fetch(p)
  \/ \E o \in Existing : Access(o) \/ CopyEndpoints(o)
  \/ EndWait
  \/ \E u \in Users : DestroyProcess(u) \/ \E o \in Existing : Drop(u, o)
  \/ Inspector \/ HandlersStopped \/ StopNotifier \/ ShutdownHandler

(* Threads that can run do; a wait ends, at the latest by its time limit;  *)
(* and a request of the server ends, which drops what it copied.  Nothing  *)
(* says that a notifier that is told to stop comes to the end of its loop, *)
(* nor that the handlers' Stop returns (ShutsDown of CollectorService).    *)
Fairness ==
  /\ WF_storeVars(Inspector)
  /\ WF_storeVars(EndWait)
  /\ \A u \in Users : WF_storeVars(DestroyProcess(u))
  /\ \A o \in Objects : WF_storeVars(o \in Existing /\ Drop("http", o))

StoreSpec == StoreInit /\ [][StoreNext]_storeVars

StoreFairSpec == StoreSpec /\ Fairness

-----------------------------------------------------------------------------
(* The variables keep their types, and the store maps a pid to an object   *)
(* of that pid which is not gone.                                          *)
StoreTypeOK ==
  /\ Existing = 1..Len(object)
  /\ \A p \in Pids : cache[p] # null =>
       cache[p] \in Existing /\ object[cache[p]].pid = p /\ object[cache[p]].phase # "gone"
  /\ \A o \in Objects : refs[o] # {} => o \in Existing /\ object[o].phase = "living"
  /\ fetched \in {"nothing", "process", "null"}

(* NetworkConnection.h:359: the comparison of endpoints "uses the          *)
(* assumption that there can be only one Process object per process in the *)
(* system [...] This uniqueness is guaranteed by the ProcessStore."        *)
OneProcessPerPid ==
  \A o1, o2 \in Existing :
    Living(o1) /\ Living(o2) /\ object[o1].pid = object[o2].pid => o1 = o2

(* Every request is answered, by the inspector or by the clean-up, unless  *)
(* nobody waits for it any more; or the shutdown stays for ever where it   *)
(* waits for the notifier to end or for the handlers to stop.              *)
RequestsAnswered ==
  []<>(inspector.at \notin {"joining", "handlers"}) =>
    \A o \in Objects :
      o \in Existing ~> o \in Existing /\ (object[o].pending = "no" \/ object[o].phase = "gone")

(* A collector that is told to stop gets to the join of the notifier; the  *)
(* notifier is not kept from ending by a wait for an answer that only the  *)
(* thread which joins it could give; and the clean-up ends once the        *)
(* handlers are stopped.                                                   *)
ShutdownEnds ==
  /\ control = "STOP_COLLECTOR" ~> inspector.at \in {"joining", "handlers", "cancelling", "done"}
  /\ user["notifier"].at = "waiting" ~> user["notifier"].at # "waiting"
  /\ inspector.at = "cancelling" ~> inspector.at = "done"
=============================================================================
