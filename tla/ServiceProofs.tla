---------------------------- MODULE ServiceProofs ---------------------------
(***************************************************************************)
(* The collector's threads and what they share.                            *)
(*                                                                         *)
(* The inspector is cleaned up last (CollectorService.cpp:90), for every   *)
(* number of connection attempts and every mode of the collector.          *)
(* InspectorIsLast is a fact about the end of the shutdown only.           *)
(* ServiceIInv says what each stage of it has established: which threads   *)
(* have not been started, and which have been joined, at every place of    *)
(* main.                                                                   *)
(*                                                                         *)
(* The store keeps one Process object per process, for every set of pids   *)
(* and every number of objects.  OneProcessPerPid is not inductive: a      *)
(* destructor that ran twice, or late, would erase the entry of a newer    *)
(* object of the same pid, and the next Fetch would make a second one.     *)
(* IInv adds that an object which is not gone is the one its pid is mapped *)
(* to, and that an object is destroyed by one thread, after the last       *)
(* reference to it.                                                        *)
(*                                                                         *)
(* The duplex client (DuplexGRPC.h) keeps gRPC's contract, GrpcStream, for *)
(* every set of methods its caller uses, with and without a read callback, *)
(* and for every number of messages.  The flags are all that DoAsync       *)
(* tests.  Flags says that they are right: an operation is outstanding     *)
(* exactly when its pending flag is set, and the queue is shut down        *)
(* exactly when one of the SHUTDOWN flags is.                              *)
(***************************************************************************)
EXTENDS DuplexGRPC, CollectorService, ProcessStore, Integers, TLAPS

-----------------------------------------------------------------------------
(* The shutdown.                                                           *)

BeforeStart == {"load", "connect", "install", "kernel"}
LoaderJoined == {"cancel", "stop_notifier", "join_notifier", "stop_exporter",
                 "join_exporter", "clean", "handlers", "stuck", "done"}
NotifierJoined == {"stop_exporter", "join_exporter", "clean", "handlers", "stuck", "done"}
ExporterJoined == {"clean", "handlers", "stuck", "done"}

(* The places of a thread's function.                                      *)
Locations == {"none", "test", "tested", "wait", "notified", "work", "exited",
              "connect", "poll", "single", "finish"}

(* The places of main, and the threads there are.                          *)
Places == /\ thread \in [Threads -> Locations]
          /\ main \in BeforeStart \cup {"start", "run", "stop_loader", "join_loader", "dead"}
                      \cup LoaderJoined
          /\ mode = "noflows" => thread["notifier"] = "none"

(* What has been joined has exited.                                        *)
Joined == /\ main \in LoaderJoined => thread["loader"] = "exited"
          /\ main \in NotifierJoined => thread["notifier"] = "exited" \/ mode = "noflows"
          /\ main \in ExporterJoined => thread["exporter"] = "exited"
          /\ system_inspector = "clean" =>
               /\ main \in {"handlers", "stuck", "done", "dead"}
               /\ thread["loader"] = "exited" /\ thread["exporter"] = "exited"
               /\ thread["notifier"] = "exited" \/ mode = "noflows"

ServiceIInv == Places /\ Joined

(* A thread that has exited, and one that was never started, stays so once *)
(* main is past the start: only StartThread leaves "none", and nothing     *)
(* leaves "exited".                                                        *)
LEMMA ExitedForGood ==
  ASSUME Places, [ServiceNext]_serviceVars, NEW t \in Threads
  PROVE  /\ thread[t] = "exited" => thread'[t] = "exited"
         /\ mode = "noflows" => thread'["notifier"] = "none"
         /\ thread' \in [Threads -> Locations]
<1> USE DEF Places, Threads, Locations
<1>1. CASE \E u \in Threads : StartThread(u)
  BY <1>1 DEF StartThread
<1>2. CASE Stop
  <2>1. main \in {"stop_loader", "stop_notifier", "stop_exporter"}
    BY <1>2 DEF Stop, Stopping
  <2>2. Stopping[main] \in Threads
    BY <2>1 DEF Stopping
  <2>. QED  BY <1>2, <2>2 DEF Stop
<1>3. CASE \E u \in Threads : PauseUntil(u) \/ Work(u)
  BY <1>3 DEF PauseUntil, Work, Goes, Mine
<1>4. CASE Notifier
  BY <1>4 DEF Notifier, ResetClientContext, CheckInterrupted, WaitForConnected,
              ConnectionReady, RunSingleEnds, Finish, Goes, Mine
<1>5. CASE UNCHANGED <<thread, mode>>
  BY <1>5
<1>. QED
  BY <1>1, <1>2, <1>3, <1>4, <1>5
  DEF ServiceNext, Main, LoadConfiguration, AttemptGRPCConnection, InstallHandlers, InitKernel,
      ExporterFails, StartInspector, Interrupted, Join, TryCancelComm, CleanUpInspector,
      StopHandlers, HandleShutdown, StreamBreaks, Mine, serviceVars, threads

(* One step of main or of a thread keeps what the stages have established. *)
LEMMA ServiceStepKeepsIInv ==
  ASSUME ServiceIInv, [ServiceNext]_serviceVars
  PROVE  ServiceIInv'
<1>1. Places /\ Joined
  BY DEF ServiceIInv
<1>2. /\ \A t \in Threads : thread[t] = "exited" => thread'[t] = "exited"
      /\ mode = "noflows" => thread'["notifier"] = "none"
      /\ thread' \in [Threads -> Locations]
  BY <1>1, ExitedForGood DEF Threads
<1>. USE DEF BeforeStart, LoaderJoined, NotifierJoined, ExporterJoined
<1>3. CASE UNCHANGED <<mode, main, system_inspector>>
  BY <1>1, <1>2, <1>3 DEF Places, Joined, ServiceIInv, Threads
<1>4. CASE \/ LoadConfiguration \/ AttemptGRPCConnection \/ InstallHandlers \/ InitKernel
           \/ ExporterFails \/ StartInspector \/ Interrupted \/ HandleShutdown
  <2>1. /\ UNCHANGED <<mode, system_inspector>> \/ (mode' = mode /\ system_inspector' = "running")
        /\ \/ main' = main /\ UNCHANGED system_inspector
           \/ main' = "dead" /\ main # "done" /\ UNCHANGED system_inspector
           \/ main \in BeforeStart /\ main' \in BeforeStart \cup {"start"}
           \/ main \in {"start", "run"} /\ main' \in {"run", "stop_loader"}
    BY <1>1, <1>4
    DEF Places, LoadConfiguration, AttemptGRPCConnection, InstallHandlers, InitKernel,
        ExporterFails, StartInspector, Interrupted, HandleShutdown, MainAt
  <2>. QED  BY <1>1, <1>2, <2>1 DEF Places, Joined, ServiceIInv, Threads
<1>5. CASE Stop
  <2>1. \/ main = "stop_loader" /\ main' = "join_loader"
        \/ main = "stop_notifier" /\ main' = "join_notifier"
        \/ main = "stop_exporter" /\ main' = "join_exporter"
    BY <1>5 DEF Stop, Stopping, AfterStop
  <2>. QED  BY <1>1, <1>2, <1>5, <2>1 DEF Places, Joined, ServiceIInv, Stop, Threads
<1>6. CASE Join
  <2>1. /\ \/ main = "join_loader" /\ main' = IF mode = "noflows" THEN "stop_exporter" ELSE "cancel"
           \/ main = "join_notifier" /\ main' = "stop_exporter"
           \/ main = "join_exporter" /\ main' = "clean"
        /\ main = "join_loader" => thread["loader"] = "exited"
        /\ main = "join_notifier" => thread["notifier"] = "exited"
        /\ main = "join_exporter" => thread["exporter"] = "exited"
    BY <1>6 DEF Join, Joining, AfterJoin
  <2>. QED  BY <1>1, <1>2, <1>6, <2>1 DEF Places, Joined, ServiceIInv, Join, Threads
<1>7. CASE TryCancelComm \/ CleanUpInspector \/ StopHandlers
  BY <1>1, <1>2, <1>7
  DEF Places, Joined, ServiceIInv, TryCancelComm, CleanUpInspector, StopHandlers, MainAt, Threads
<1>. QED
  BY <1>3, <1>4, <1>5, <1>6, <1>7
  DEF ServiceNext, Main, Notifier, StartThread, PauseUntil, Work, ResetClientContext,
      CheckInterrupted, WaitForConnected, ConnectionReady, RunSingleEnds, Finish,
      StreamBreaks, Mine, serviceVars

(* CollectorService.cpp:90, "system_inspector_ needs to be last": when the *)
(* destructor cleans the inspector up no thread that uses it is alive,     *)
(* wherever the signal found them.                                         *)
THEOREM InspectorIsLastHolds == ServiceSpec => []InspectorIsLast
<1>1. ServiceInit => ServiceIInv
  BY DEF ServiceInit, ServiceIInv, Places, Joined, BeforeStart, LoaderJoined, NotifierJoined,
         ExporterJoined, Threads, Locations
<1>2. ServiceIInv /\ [ServiceNext]_serviceVars => ServiceIInv'
  BY ServiceStepKeepsIInv
<1>3. ServiceIInv => InspectorIsLast
  BY DEF ServiceIInv, Places, Joined, InspectorIsLast, LoaderJoined, NotifierJoined,
         ExporterJoined, Threads
<1>. QED
  BY <1>1, <1>2, <1>3, PTL DEF ServiceSpec

-----------------------------------------------------------------------------
(* The process store.                                                      *)

Process == [pid : Pids, phase : {"living", "dying", "gone"}, pending : {"yes", "no"}]

Types ==
  /\ object \in Seq(Process) /\ Existing \subseteq Objects
  /\ refs \in [Objects -> SUBSET Users]
  /\ cache \in [Pids -> Nat]
  /\ user \in [Users -> [at : {"idle", "waiting", "destroying", "stopped"}, process : Nat]]

(* An entry of the store is an object of that pid, and not gone.           *)
Entries ==
  \A p \in Pids : cache[p] # null =>
    cache[p] \in Existing /\ object[cache[p]].pid = p /\ object[cache[p]].phase # "gone"

(* An object that is not gone is the one in the store.                     *)
Stored == \A o \in Existing : object[o].phase # "gone" => cache[object[o].pid] = o

(* Only a living object is referred to.                                    *)
Referred == \A o \in Objects : refs[o] # {} => o \in Existing /\ object[o].phase = "living"

(* An object is destroyed once.                                            *)
Destroyed ==
  \A u \in Users : user[u].at = "destroying" =>
    /\ user[u].process \in Existing /\ object[user[u].process].phase = "dying"
    /\ \A v \in Users : v # u /\ user[v].at = "destroying" => user[v].process # user[u].process

IInv == Types /\ Entries /\ Stored /\ Referred /\ Destroyed

(* Fetch finds the object of the pid or makes the first one.               *)
LEMMA FetchKeeps ==
  ASSUME IInv, NEW p \in Pids, Fetch(p)
  PROVE  IInv'
<1>1. CASE cache[p] # null
  <2>1. UNCHANGED <<object, cache, user>>
    BY <1>1 DEF Fetch
  <2>2. refs' = refs \/ (Living(cache[p]) /\ refs' = [refs EXCEPT ![cache[p]] = @ \cup {"notifier"}])
    BY <1>1 DEF Fetch
  <2>3. \A o \in Objects : refs'[o] # refs[o] => o = cache[p] /\ Living(cache[p])
    BY <2>2 DEF IInv, Types
  <2>4. Types'
    BY <2>1, <2>2 DEF IInv, Types, Users, Existing
  <2>5. Referred'
    BY <1>1, <2>1, <2>3 DEF IInv, Referred, Entries, Living, Existing
  <2>. QED  BY <2>1, <2>4, <2>5 DEF IInv, Entries, Stored, Destroyed, Existing
<1>2. CASE cache[p] = null
  <2> DEFINE o == Len(object) + 1
             new == [pid |-> p, phase |-> "living", pending |-> "yes"]
  <2>1. /\ o \in Objects /\ object' = Append(object, new)
        /\ cache' = [cache EXCEPT ![p] = o] /\ refs' = [refs EXCEPT ![o] = {"notifier"}]
        /\ user' = user
    BY <1>2 DEF Fetch, Create
  <2>2. new \in Process
    BY DEF Process
  <2>3. /\ Existing = 1..Len(object) /\ Existing' = 1..o /\ object'[o] = new /\ o \notin Existing
        /\ \A q \in Existing : object'[q] = object[q] /\ q # o
    BY <2>1 DEF IInv, Types, Existing
  <2>4. Existing' = Existing \cup {o}
    BY <2>3 DEF IInv, Types
  <2>12. Types'
    BY <2>1, <2>2, <2>4 DEF IInv, Types, Users
  <2> HIDE DEF o
  <2>5. \A q \in Existing : object[q].pid = p => object[q].phase = "gone"
    BY <1>2 DEF IInv, Stored, null, Existing, Types
  <2>6. \A q \in Existing : object[q].pid \in Pids
    <3>1. \A q \in Existing : object[q] \in Process
      BY DEF IInv, Types, Existing
    <3>. QED  BY <3>1 DEF Process
  <2>7. \A q \in Pids : cache'[q] = IF q = p THEN o ELSE cache[q]
    BY <2>1 DEF IInv, Types
  <2>8. Entries'
    BY <2>3, <2>4, <2>7 DEF IInv, Entries
  <2>9. Stored'
    BY <2>3, <2>4, <2>5, <2>6, <2>7 DEF IInv, Stored
  <2>10. Referred'
    <3>1. \A q \in Objects : refs'[q] = IF q = o THEN {"notifier"} ELSE refs[q]
      BY <2>1 DEF IInv, Types
    <3>. QED  BY <2>3, <2>4, <3>1 DEF IInv, Referred
  <2>11. Destroyed'
    BY <2>1, <2>3, <2>4 DEF IInv, Destroyed
  <2>. QED  BY <2>12, <2>8, <2>9, <2>10, <2>11 DEF IInv
<1>. QED  BY <1>1, <1>2

(* Dropping the last reference makes the dropping thread the only one that *)
(* destroys the object.                                                    *)
LEMMA DropKeeps ==
  ASSUME IInv, NEW u \in Users, NEW o \in Existing, Drop(u, o)
  PROVE  IInv'
<1>1. user[u] = NoCall /\ u \in refs[o] /\ refs' = [refs EXCEPT ![o] = @ \ {u}] /\ cache' = cache
  BY DEF Drop
<1>2. o \in Objects /\ object[o].phase = "living" /\ object[o] \in Process
  BY <1>1 DEF IInv, Types, Referred, Existing
<1>3. CASE refs[o] = {u}
  <2> DEFINE dying == [object[o] EXCEPT !.phase = "dying"]
  <2>1. /\ object' = [object EXCEPT ![o] = dying]
        /\ user' = [user EXCEPT ![u] = [at |-> "destroying", process |-> o]]
    BY <1>3 DEF Drop
  <2>2. dying \in Process /\ dying.pid = object[o].pid /\ dying.phase = "dying"
    BY <1>2 DEF Process
  <2>3. Existing' = Existing /\ \A q \in Existing : object'[q] = IF q = o THEN dying ELSE object[q]
    BY <2>1, <2>2 DEF IInv, Types, Existing
  <2>4. refs'[o] = {} /\ \A q \in Objects : q # o => refs'[q] = refs[q]
    BY <1>1, <1>2, <1>3 DEF IInv, Types
  <2>5. /\ user'[u].at = "destroying" /\ user'[u].process = o
        /\ \A v \in Users : v # u => user'[v] = user[v]
    BY <2>1 DEF IInv, Types
  <2>6. Types'
    <3>1. object' \in Seq(Process)
      BY <2>1, <2>2 DEF IInv, Types, Existing
    <3>2. o \in Nat
      BY DEF IInv, Types, Existing
    <3>. QED  BY <1>1, <2>1, <2>3, <3>1, <3>2 DEF IInv, Types
  <2> HIDE DEF dying
  <2>7. Entries'
    BY <1>1, <2>2, <2>3 DEF IInv, Entries
  <2>8. Stored'
    BY <1>1, <1>2, <2>2, <2>3 DEF IInv, Stored
  <2>9. Referred'
    BY <2>3, <2>4 DEF IInv, Referred
  <2>10. Destroyed'
    BY <1>2, <2>2, <2>3, <2>5 DEF IInv, Destroyed
  <2>. QED  BY <2>6, <2>7, <2>8, <2>9, <2>10 DEF IInv
<1>4. CASE refs[o] # {u}
  <2>1. UNCHANGED <<object, user>>
    BY <1>4 DEF Drop
  <2>2. Types'
    BY <1>1, <2>1 DEF IInv, Types, Existing
  <2>3. Referred'
    BY <1>1, <1>2, <2>1 DEF IInv, Types, Referred, Existing
  <2>. QED  BY <1>1, <2>1, <2>2, <2>3 DEF IInv, Entries, Stored, Destroyed, Existing
<1>. QED  BY <1>3, <1>4

(* The destructor erases the entry of its own object.                      *)
LEMMA DestroyKeeps ==
  ASSUME IInv, NEW u \in Users, DestroyProcess(u)
  PROVE  IInv'
<1> DEFINE o == user[u].process
           after == [object[o] EXCEPT !.phase = "gone"]
           p == object[o].pid
<1>1. /\ user[u].at = "destroying" /\ object' = [object EXCEPT ![o] = after]
      /\ cache' = [cache EXCEPT ![p] = null] /\ user' = [user EXCEPT ![u] = NoCall] /\ refs' = refs
  BY DEF DestroyProcess
<1>2. o \in Existing /\ object[o].phase = "dying"
  BY <1>1 DEF IInv, Destroyed
<1>3. object[o] \in Process /\ cache[p] = o
  BY <1>2 DEF IInv, Types, Stored, Existing
<1>4. after \in Process /\ after.pid = p /\ after.phase = "gone" /\ p \in Pids
  BY <1>3 DEF Process
<1>5. Existing' = Existing /\ \A q \in Existing : object'[q] = IF q = o THEN after ELSE object[q]
  BY <1>1, <1>2, <1>4 DEF IInv, Types, Existing
<1>6. \A q \in Pids : cache'[q] = IF q = p THEN null ELSE cache[q]
  BY <1>1 DEF IInv, Types
<1>7. user'[u] = NoCall /\ \A v \in Users : v # u => user'[v] = user[v]
  BY <1>1 DEF IInv, Types
<1>8. Types'
  <2>1. object' \in Seq(Process)
    BY <1>1, <1>2, <1>4 DEF IInv, Types, Existing
  <2>2. cache' \in [Pids -> Nat] /\ user' \in [Users -> [at : {"idle", "waiting", "destroying", "stopped"}, process : Nat]]
    BY <1>1, Zenon DEF IInv, Types, NoCall, null
  <2>. QED  BY <1>1, <1>5, <2>1, <2>2 DEF IInv, Types
<1>. HIDE DEF after, o, p
<1>9. Entries'
  BY <1>3, <1>4, <1>5, <1>6 DEF IInv, Entries
<1>10. Stored'
  <2>1. \A q \in Existing : object[q] \in Process
    BY DEF IInv, Types, Existing
  <2>2. \A q \in Existing : object[q].pid \in Pids
    BY <2>1 DEF Process
  <2>. QED  BY <1>3, <1>4, <1>5, <1>6, <2>2 DEF IInv, Stored
<1>11. Referred'
  BY <1>1, <1>2, <1>5 DEF IInv, Referred
<1>12. Destroyed'
  <2>1. \A v \in Users : v # u /\ user[v].at = "destroying" => user[v].process # o
    BY <1>1 DEF IInv, Destroyed, o
  <2>. QED  BY <1>5, <1>7, <2>1 DEF IInv, Destroyed, NoCall
<1>. QED  BY <1>8, <1>9, <1>10, <1>11, <1>12 DEF IInv

(* Waiting, serving, copying and stopping create and destroy nothing.      *)
LEMMA OtherKeeps ==
  ASSUME IInv, cache' = cache,
         object' = object \/ \E o : object' = [object EXCEPT ![o].pending = "no"],
         user' = user \/ \E u \in Users, at \in {"idle", "waiting", "stopped"}, n \in Nat :
                           /\ user[u].at # "destroying"
                           /\ user' = [user EXCEPT ![u] = [at |-> at, process |-> n]],
         refs' = refs \/ \E o \in Existing : /\ "notifier" \in refs[o]
                                             /\ refs' = [refs EXCEPT ![o] = @ \cup {"http"}]
  PROVE  IInv'
<1>1. /\ object' \in Seq(Process) /\ Existing' = Existing
      /\ \A q \in Existing : object'[q].pid = object[q].pid /\ object'[q].phase = object[q].phase
  <2>1. CASE object' = object
    BY <2>1 DEF IInv, Types, Existing
  <2>2. ASSUME NEW o, object' = [object EXCEPT ![o].pending = "no"]
        PROVE  <1>1
    <3> DEFINE answered == [object[o] EXCEPT !.pending = "no"]
    <3>1. object' = [object EXCEPT ![o] = answered]
      BY <2>2
    <3>2. CASE o \in Existing
      <4>1. object[o] \in Process
        BY <3>2 DEF IInv, Types, Existing
      <4>2. answered \in Process /\ answered.pid = object[o].pid /\ answered.phase = object[o].phase
        BY <4>1 DEF Process
      <4>. HIDE DEF answered
      <4>. QED  BY <3>1, <3>2, <4>2 DEF IInv, Types, Existing
    <3>3. CASE o \notin Existing
      <4>. HIDE DEF answered
      <4>1. object' = object
        BY <3>1, <3>3 DEF IInv, Types, Existing
      <4>. QED  BY <4>1 DEF IInv, Types, Existing
    <3>. QED  BY <3>2, <3>3
  <2>. QED  BY <2>1, <2>2
<1>2. /\ user' \in [Users -> [at : {"idle", "waiting", "destroying", "stopped"}, process : Nat]]
      /\ \A v \in Users : user'[v].at = "destroying" => user'[v] = user[v]
  <2>1. CASE user' = user
    BY <2>1 DEF IInv, Types
  <2>2. ASSUME NEW u \in Users, NEW at \in {"idle", "waiting", "stopped"}, NEW n \in Nat,
               user' = [user EXCEPT ![u] = [at |-> at, process |-> n]]
        PROVE  <1>2
    <3>1. user' \in [Users -> [at : {"idle", "waiting", "destroying", "stopped"}, process : Nat]]
      BY <2>2 DEF IInv, Types
    <3>2. \A v \in Users : user'[v] = IF v = u THEN [at |-> at, process |-> n] ELSE user[v]
      BY <2>2, Zenon DEF IInv, Types
    <3>. QED  BY <3>1, <3>2
  <2>. QED  BY <2>1, <2>2
<1>3. /\ refs' \in [Objects -> SUBSET Users]
      /\ \A q \in Objects : refs'[q] # {} => refs[q] # {}
  <2>1. CASE refs' = refs
    BY <2>1 DEF IInv, Types
  <2>2. ASSUME NEW o \in Existing, "notifier" \in refs[o],
               refs' = [refs EXCEPT ![o] = @ \cup {"http"}]
        PROVE  <1>3
    <3>1. \A q \in Objects : refs'[q] = IF q = o THEN refs[q] \cup {"http"} ELSE refs[q]
      BY <2>2, Zenon DEF IInv, Types
    <3>2. refs' \in [Objects -> SUBSET Users]
      BY <2>2 DEF IInv, Types, Users
    <3>. QED  BY <2>2, <3>1, <3>2
  <2>. QED  BY <2>1, <2>2
<1>4. Types'
  BY <1>1, <1>2, <1>3 DEF IInv, Types
<1>5. Entries' /\ Stored' /\ Referred'
  BY <1>1, <1>3 DEF IInv, Entries, Stored, Referred
<1>6. Destroyed'
  BY <1>1, <1>2 DEF IInv, Destroyed
<1>. QED  BY <1>4, <1>5, <1>6 DEF IInv

(* Every step keeps the invariant.                                         *)
LEMMA StepKeepsIInv ==
  ASSUME IInv, [StoreNext]_storeVars
  PROVE  IInv'
<1>1. ASSUME NEW p \in Pids, Fetch(p)
      PROVE  IInv'
  BY <1>1, FetchKeeps
<1>2. ASSUME NEW u \in Users, NEW o \in Existing, Drop(u, o)
      PROVE  IInv'
  BY <1>2, DropKeeps
<1>3. ASSUME NEW u \in Users, DestroyProcess(u)
      PROVE  IInv'
  BY <1>3, DestroyKeeps
<1>4. ASSUME NEW o \in Existing, Access(o)
      PROVE  IInv'
  <2>1. o \in Nat
    BY DEF IInv, Types, Existing
  <2>2. user["notifier"].at # "destroying"
    BY <1>4 DEF Access, NoCall
  <2>. QED  BY <1>4, <2>1, <2>2, OtherKeeps, Zenon DEF Access, Users
<1>5. ASSUME NEW o \in Existing, CopyEndpoints(o)
      PROVE  IInv'
  BY <1>5, OtherKeeps, Zenon DEF CopyEndpoints
<1>6. CASE EndWait
  BY <1>6, OtherKeeps, Zenon DEF EndWait, NoCall, null, Users
<1>7. CASE ProcessInfoResolved
  BY <1>7, OtherKeeps, Zenon DEF ProcessInfoResolved
<1>8. CASE ServerClosed \/ StopNotifier
  BY <1>8, OtherKeeps DEF ServerClosed, StopNotifier, NoCall, null, Users
<1>9. CASE ServePendingProcessRequests \/ LockCallback \/ CloseServer \/ CleanUp
          \/ HandlersStopped
          \/ ShutdownHandler \/ UNCHANGED storeVars
  <2>1. UNCHANGED <<object, refs, cache, user>>
    BY <1>9 DEF ServePendingProcessRequests, LockCallback, CloseServer, CleanUp, HandlersStopped,
                ShutdownHandler, storeVars
  <2>. QED  BY <2>1, OtherKeeps
<1>. QED
  BY <1>1, <1>2, <1>3, <1>4, <1>5, <1>6, <1>7, <1>8, <1>9 DEF StoreNext, Inspector

(* There is one Process object per process: two living objects of one pid  *)
(* never exist, whichever threads fetch, drop and destroy them, so that    *)
(* comparing the pointers compares the processes (NetworkConnection.h).    *)
THEOREM OneProcessPerPidHolds == StoreSpec => []OneProcessPerPid
<1>1. StoreInit => IInv
  BY DEF StoreInit, IInv, Types, Entries, Stored, Referred, Destroyed, Existing, Process, NoCall, null, Users
<1>2. IInv /\ [StoreNext]_storeVars => IInv'
  BY StepKeepsIInv
<1>3. IInv => OneProcessPerPid
  BY DEF IInv, Stored, OneProcessPerPid, Living
<1>. QED  BY <1>1, <1>2, <1>3, PTL DEF StoreSpec

-----------------------------------------------------------------------------
(* The duplex client.                                                      *)

(* The flags, gRPC's operations and the queue.                             *)
FlagTypes ==
  /\ done \subseteq Ops \cup {"SHUTDOWN"} /\ pending \subseteq Ops \cup {"SHUTDOWN"}
  /\ streamError \in BOOLEAN /\ cqShut \in BOOLEAN
  /\ issued \in [Ops -> Nat] /\ ready \in [Ops -> {"no", "ok", "failed"}]

Flags ==
  /\ FlagTypes
  /\ \A op \in Ops : Outstanding[op] = IF op \in pending THEN 1 ELSE 0
  /\ cqShut <=> "SHUTDOWN" \in done \cup pending

(* What DoAsync starts, it starts with nothing of its kind outstanding,    *)
(* before Finish and before Shutdown.                                      *)
LEMMA DoAsyncStarts ==
  ASSUME NEW d, NEW p, NEW op \in Ops
  PROVE  /\ DoAsync(d, p, op) \in {{}, {op}}
         /\ DoAsync(d, p, op) = {op} =>
              op \notin p /\ "FINISH" \notin d \cup p /\ "SHUTDOWN" \notin d \cup p
         /\ DoAsync(d, p, op) = {} /\ op # "WRITES_DONE" =>
              op \in p \/ "FINISH" \in d \cup p \/ "SHUTDOWN" \in d \cup p
<1>1. CASE op = "WRITES_DONE"
  BY <1>1 DEF DoAsync, DoAsyncError, IdempotentAsync
<1>2. CASE op # "WRITES_DONE"
  BY <1>2 DEF DoAsync, DoAsyncError, IdempotentAsync
<1>. QED  BY <1>1, <1>2

(* A method that starts an operation: the flags stay right, and gRPC sees  *)
(* a start it allows, or nothing.                                          *)
LEMMA StartKeeps ==
  ASSUME Flags, NEW op \in {"WRITE", "WRITES_DONE", "FINISH"},
         Started(DoAsync(done, pending, op)),
         UNCHANGED <<streamError, ready, cqShut>>
  PROVE  Flags' /\ [Contract!Next]_(Contract!gvars)
<1> DEFINE started == DoAsync(done, pending, op)
<1>1. started \in {{}, {op}}
  BY DoAsyncStarts DEF Ops
<1>2. CASE started = {}
  <2>1. UNCHANGED <<done, pending, issued>>
    <3>1. issued' = [o \in Ops |-> issued[o]]
      BY <1>2 DEF Started, Flags, FlagTypes
    <3>. QED  BY <3>1, <1>2 DEF Started, Flags, FlagTypes
  <2>2. Outstanding' = Outstanding
    BY <2>1 DEF Outstanding
  <2>. QED  BY <2>1, <2>2 DEF Flags, FlagTypes, Contract!gvars
<1>3. CASE started = {op}
  <2>1. /\ op \notin pending /\ "FINISH" \notin done \cup pending
        /\ "SHUTDOWN" \notin done \cup pending
    BY <1>3, DoAsyncStarts DEF Ops
  <2>2. /\ done' = done \ {op} /\ pending' = pending \cup {op}
        /\ issued' = [o \in Ops |-> issued[o] + IF o = op THEN 1 ELSE 0]
    BY <1>3 DEF Started
  <2>3. issued' \in [Ops -> Nat] /\ \A o \in Ops : issued'[o] = issued[o] + IF o = op THEN 1 ELSE 0
    BY <2>2 DEF Flags, FlagTypes
  <2>4. Outstanding' = [Outstanding EXCEPT ![op] = @ + 1]
    BY <2>3 DEF Outstanding, Flags, FlagTypes, Ops
  <2>5. Flags'
    <3>1. FlagTypes'
      BY <2>2, <2>3 DEF Flags, FlagTypes, Ops
    <3>2. \A o \in Ops : Outstanding'[o] = IF o \in pending' THEN 1 ELSE 0
      BY <2>1, <2>2, <2>4 DEF Flags, Outstanding, Ops
    <3>3. cqShut' <=> "SHUTDOWN" \in done' \cup pending'
      BY <2>1, <2>2 DEF Flags, Ops
    <3>. QED  BY <3>1, <3>2, <3>3 DEF Flags
  <2>6. Contract!Start(op)
    <3>1. Outstanding[op] = 0 /\ ~cqShut
      BY <2>1 DEF Flags, Ops
    <3>2. ("FINISH" \in done' \cup pending') <=> op = "FINISH"
      BY <2>1, <2>2
    <3>. QED  BY <2>1, <2>4, <3>1, <3>2 DEF Contract!Start, Contract!MayStart
  <2>. QED  BY <2>5, <2>6 DEF Contract!Next, Contract!Ops, Ops
<1>. QED  BY <1>1, <1>2, <1>3

(* What the handling of an event starts: Finish after a failure, or a read *)
(* after a read that succeeded, and never both.                            *)
LEMMA EventStarts ==
  ASSUME Flags, NEW op \in Ops, NEW ok \in {"ok", "failed"}, ready[op] = ok
  PROVE  LET started == StartedByEvent(op, ok) \cup ReadNext(op, ok) IN
         /\ op \in pending
         /\ \/ started = {} /\ Finishing(ok) = {}
            \/ /\ started = {"FINISH"} /\ Finishing(ok) = {"FINISH"}
               /\ op # "FINISH" /\ "FINISH" \notin done \cup pending
               /\ "SHUTDOWN" \notin done \cup pending
            \/ /\ started = {"READ"} /\ Finishing(ok) = {} /\ ok = "ok"
               /\ op # "FINISH" /\ "READ" \notin pending \ {op}
               /\ "FINISH" \notin done \cup pending
               /\ "SHUTDOWN" \notin done \cup pending
         /\ ok = "failed" => started = Finishing(ok)
<1>1. op \in pending
  BY DEF Flags, FlagTypes, Outstanding, Ops
<1> DEFINE again == DoAsync(DoneAfter(op, ok), PendingAfter(op, ok), "READ")
<1>2. /\ StartedByEvent(op, ok) \in {Finishing(ok), Finishing(ok) \cup again}
      /\ ReadNext(op, ok) \in {{}, again}
  BY DEF StartedByEvent, ReadNext
<1>3. again \in {{}, {"READ"}}
  BY DoAsyncStarts DEF Ops
<1>4. CASE ok = "ok"
  <2>1. Finishing(ok) = {}
    BY <1>4 DEF Finishing
  <2>2. again = {"READ"} => /\ op # "FINISH" /\ "READ" \notin pending \ {op}
                            /\ "FINISH" \notin done \cup pending
                            /\ "SHUTDOWN" \notin done \cup pending
    <3>1. DoneAfter(op, ok) = done \cup {op} /\ PendingAfter(op, ok) = pending \ {op}
      BY <2>1 DEF DoneAfter, PendingAfter
    <3>2. "READ" \in Ops /\ op # "SHUTDOWN"
      BY DEF Ops
    <3>. QED  BY <3>1, <3>2, DoAsyncStarts
  <2>. QED  BY <1>1, <1>2, <1>3, <1>4, <2>1, <2>2
<1>5. CASE ok = "failed"
  <2>1. Finishing(ok) = DoAsync(done, pending, "FINISH")
    BY <1>5 DEF Finishing
  <2>2. /\ Finishing(ok) \in {{}, {"FINISH"}}
        /\ Finishing(ok) = {"FINISH"} =>
             "FINISH" \notin done \cup pending /\ "SHUTDOWN" \notin done \cup pending
        /\ Finishing(ok) = {} =>
             "FINISH" \in done \cup pending \/ "SHUTDOWN" \in done \cup pending
    BY <2>1, DoAsyncStarts DEF Ops
  <2>3. {"FINISH", "SHUTDOWN"} \cap (DoneAfter(op, ok) \cup PendingAfter(op, ok)) # {}
    <3>1. CASE Finishing(ok) = {"FINISH"}
      <4>1. op # "FINISH"
        BY <1>1, <2>2, <3>1
      <4>. QED  BY <3>1, <4>1 DEF PendingAfter
    <3>2. CASE Finishing(ok) = {}
      <4>1. DoneAfter(op, ok) = done \cup {op} /\ PendingAfter(op, ok) = pending \ {op}
        BY <3>2 DEF DoneAfter, PendingAfter
      <4>. QED  BY <2>2, <3>2, <4>1
    <3>. QED  BY <2>2, <3>1, <3>2
  <2>4. again = {}
    <3>1. again = {"READ"} => /\ "FINISH" \notin DoneAfter(op, ok) \cup PendingAfter(op, ok)
                              /\ "SHUTDOWN" \notin DoneAfter(op, ok) \cup PendingAfter(op, ok)
      BY DoAsyncStarts DEF Ops
    <3>. QED  BY <1>3, <2>3, <3>1
  <2>. QED  BY <1>1, <1>2, <1>5, <2>2, <2>4
<1>. QED  BY <1>4, <1>5

(* An event: gRPC sees its tag taken, and at most one operation started,   *)
(* which it allows.                                                        *)
LEMMA EventKeeps ==
  ASSUME Flags, NEW op \in Ops, NEW ok \in {"ok", "failed"}, GotEvent(op, ok)
  PROVE  Flags' /\ Contract!Next
<1> DEFINE started == StartedByEvent(op, ok) \cup ReadNext(op, ok)
<1>1. /\ ready[op] = ok /\ ready' = [ready EXCEPT ![op] = "no"]
      /\ done' = DoneAfter(op, ok) \ started
      /\ pending' = PendingAfter(op, ok) \cup started
      /\ issued' = [o \in Ops |-> issued[o] + IF o \in started THEN 1 ELSE 0]
      /\ streamError' = (streamError \/ ok = "failed")
      /\ cqShut' = cqShut
  BY DEF GotEvent, ProcessEvent, grpcVars
<1>2. /\ op \in pending
      /\ \/ started = {} /\ Finishing(ok) = {}
         \/ /\ started = {"FINISH"} /\ Finishing(ok) = {"FINISH"}
            /\ op # "FINISH" /\ "FINISH" \notin done \cup pending
            /\ "SHUTDOWN" \notin done \cup pending
         \/ /\ started = {"READ"} /\ Finishing(ok) = {} /\ ok = "ok"
            /\ op # "FINISH" /\ "READ" \notin pending \ {op}
            /\ "FINISH" \notin done \cup pending
            /\ "SHUTDOWN" \notin done \cup pending
  BY <1>1, EventStarts
<1>3. /\ done' = (done \cup {op}) \ started
      /\ pending' = (pending \ {op}) \cup started
  BY <1>1, <1>2 DEF DoneAfter, PendingAfter
<1>4. /\ issued' \in [Ops -> Nat]
      /\ \A o \in Ops : issued'[o] = issued[o] + IF o \in started THEN 1 ELSE 0
      /\ ready' \in [Ops -> {"no", "ok", "failed"}]
      /\ \A o \in Ops : ready'[o] = IF o = op THEN "no" ELSE ready[o]
  BY <1>1 DEF Flags, FlagTypes
<1>5. \A o \in Ops : Outstanding'[o] = (Outstanding[o] - (IF o = op THEN 1 ELSE 0))
                                       + (IF o \in started THEN 1 ELSE 0)
  BY <1>1, <1>4 DEF Outstanding, Flags, FlagTypes
<1>6. Outstanding[op] = 1 /\ Outstanding \in [Ops -> Nat] /\ Outstanding' \in [Ops -> Nat]
  BY <1>2, <1>4 DEF Flags, FlagTypes, Outstanding
<1>7. Flags'
  <2>1. started \subseteq Ops
    BY <1>2 DEF Ops
  <2>2. FlagTypes'
    BY <1>1, <1>3, <1>4, <2>1 DEF Flags, FlagTypes
  <2>3. \A o \in Ops : Outstanding'[o] = IF o \in pending' THEN 1 ELSE 0
    BY <1>2, <1>3, <1>5 DEF Flags
  <2>4. "SHUTDOWN" \in done' \cup pending' <=> "SHUTDOWN" \in done \cup pending
    <3>1. op # "SHUTDOWN" /\ "SHUTDOWN" \notin started
      BY <2>1 DEF Ops
    <3>. QED  BY <1>3, <3>1
  <2>. QED  BY <1>1, <2>2, <2>3, <2>4 DEF Flags
<1>8. CASE started = {}
  <2>1. ("FINISH" \in done' \cup pending') <=> ("FINISH" \in done \cup pending)
    BY <1>2, <1>3, <1>8
  <2>2. Outstanding' = [Outstanding EXCEPT ![op] = @ - 1]
    BY <1>5, <1>6, <1>8
  <2>3. Contract!Take(op)
    BY <1>1, <1>6, <2>1, <2>2 DEF Contract!Take, Contract!Taken
  <2>. QED  BY <1>7, <2>3 DEF Contract!Next, Contract!Ops, Ops
<1>9. CASE started # {}
  <2>1. PICK next \in {"FINISH", "READ"} : started = {next}
    BY <1>2, <1>9
  <2>2. /\ "FINISH" \notin done \cup pending /\ ~cqShut
        /\ next = op \/ next \notin pending
    BY <1>2, <2>1 DEF Flags
  <2>3. ("FINISH" \in done' \cup pending') <=> next = "FINISH"
    BY <1>2, <1>3, <2>1
  <2> DEFINE T == Contract!Taken(op)
  <2>4. T = [Outstanding EXCEPT ![op] = @ - 1]
    BY DEF Contract!Taken
  <2>5. T[next] = 0
    BY <1>6, <2>2, <2>4 DEF Flags, Outstanding, Ops
  <2>6. Outstanding' = [T EXCEPT ![next] = @ + 1]
    <3>1. /\ T \in [Ops -> Int] /\ next \in Ops
          /\ \A o \in Ops : T[o] = Outstanding[o] - IF o = op THEN 1 ELSE 0
      BY <1>6, <2>4 DEF Ops
    <3> HIDE DEF T
    <3>. QED  BY <1>5, <1>6, <2>1, <3>1
  <2>7. Contract!TakeAndStart(op, next)
    BY <1>1, <1>6, <2>2, <2>3, <2>5, <2>6 DEF Contract!TakeAndStart, Contract!MayStart
  <2>. QED  BY <1>7, <2>7 DEF Contract!Next, Contract!Ops, Ops
<1>. QED  BY <1>8, <1>9

(* gRPC completing an operation is no step of the contract: its tag is     *)
(* still to be taken.                                                      *)
LEMMA CompleteKeeps ==
  ASSUME Flags, NEW op \in Ops, NEW ok \in {"ok", "failed"}, Complete(op, ok)
  PROVE  Flags' /\ UNCHANGED Contract!gvars
<1>1. /\ issued[op] > 0 /\ ready[op] = "no" /\ UNCHANGED <<done, pending, streamError, cqShut>>
      /\ issued' = [issued EXCEPT ![op] = @ - 1] /\ ready' = [ready EXCEPT ![op] = ok]
  BY DEF Complete, flagVars
<1>2. /\ issued' \in [Ops -> Nat] /\ ready' \in [Ops -> {"no", "ok", "failed"}]
      /\ \A o \in Ops : issued'[o] = issued[o] - IF o = op THEN 1 ELSE 0
      /\ \A o \in Ops : ready'[o] = IF o = op THEN ok ELSE ready[o]
  BY <1>1 DEF Flags, FlagTypes
<1>3. \A o \in Ops : Outstanding'[o] = Outstanding[o]
  BY <1>1, <1>2 DEF Outstanding, Flags, FlagTypes
<1>4. Outstanding' = Outstanding
  BY <1>3 DEF Outstanding
<1>. QED  BY <1>1, <1>2, <1>4 DEF Flags, FlagTypes, Contract!gvars

(* Shutdown and the destructor shut the queue down at most once.           *)
LEMMA ShutdownKeeps ==
  ASSUME Flags, ShutdownStep
  PROVE  Flags' /\ [Contract!Next]_(Contract!gvars)
<1>1. /\ pending' = IF "SHUTDOWN" \in done THEN pending ELSE pending \cup {"SHUTDOWN"}
      /\ cqShut' = (cqShut \/ "SHUTDOWN" \notin done \cup pending)
      /\ UNCHANGED <<done, streamError, issued, ready>>
  BY DEF ShutdownStep
<1>2. Outstanding' = Outstanding
  BY <1>1 DEF Outstanding
<1>3. cqShut' = TRUE /\ "SHUTDOWN" \in done' \cup pending'
  BY <1>1, Zenon DEF Flags, FlagTypes
<1>4. \A o \in Ops : o \in pending' <=> o \in pending
  BY <1>1 DEF Ops
<1>5. Flags'
  BY <1>1, <1>2, <1>3, <1>4 DEF Flags, FlagTypes
<1>6. ("FINISH" \in done' \cup pending') = ("FINISH" \in done \cup pending)
  BY <1>1, <1>4 DEF Ops
<1>7. CASE cqShut
  BY <1>2, <1>3, <1>5, <1>6, <1>7 DEF Contract!gvars, Flags, FlagTypes
<1>8. CASE ~cqShut
  <2>1. Contract!ShutDown
    BY <1>2, <1>3, <1>6, <1>8, SMTT(30) DEF Contract!ShutDown
  <2>. QED  BY <1>5, <2>1 DEF Contract!Next
<1>. QED  BY <1>7, <1>8

(* Every step of the client and of gRPC.                                   *)
LEMMA StepKeepsFlags ==
  ASSUME Flags, [Next]_vars
  PROVE  Flags' /\ [Contract!Next]_(Contract!gvars)
<1>1. ASSUME NEW op \in {"WRITE", "WRITES_DONE", "FINISH"},
             AsyncMethod(op) \/ \E timed \in BOOLEAN : SyncMethod(op, timed)
      PROVE  Flags' /\ [Contract!Next]_(Contract!gvars)
  <2>1. Started(DoAsync(done, pending, op)) /\ UNCHANGED <<streamError, ready, cqShut>>
    BY <1>1 DEF AsyncMethod, SyncMethod, grpcVars
  <2>. QED  BY <2>1, StartKeeps
<1>2. ASSUME NEW op \in Ops, NEW ok \in {"ok", "failed"}, GotEvent(op, ok)
      PROVE  Flags' /\ [Contract!Next]_(Contract!gvars)
  BY <1>2, EventKeeps
<1>3. ASSUME NEW op \in Ops, NEW ok \in {"ok", "failed"}, Complete(op, ok)
      PROVE  Flags' /\ [Contract!Next]_(Contract!gvars)
  BY <1>3, CompleteKeeps
<1>4. CASE Shutdown \/ Destroy
  <2>1. ShutdownStep
    BY <1>4, Zenon DEF Shutdown, Destroy
  <2>. QED  BY <2>1, ShutdownKeeps
<1>5. CASE GotShutdown
  <2>1. /\ done' = done \cup {"SHUTDOWN"} /\ UNCHANGED <<pending, streamError, issued, ready, cqShut>>
        /\ cqShut
    BY <1>5 DEF GotShutdown, Drained, grpcVars
  <2>2. Outstanding' = Outstanding
    BY <2>1 DEF Outstanding
  <2>3. ("FINISH" \in done' \cup pending') = ("FINISH" \in done \cup pending)
    BY <2>1
  <2>. QED  BY <2>1, <2>2, <2>3 DEF Flags, FlagTypes, Contract!gvars
<1>6. CASE UNCHANGED <<done, pending, streamError, issued, ready, cqShut>>
  <2>1. Outstanding' = Outstanding
    BY <1>6 DEF Outstanding
  <2>. QED  BY <1>6, <2>1 DEF Flags, FlagTypes, Contract!gvars
<1>. QED
  BY <1>1, <1>2, <1>3, <1>4, <1>5, <1>6
  DEF Next, Method, Event, Grpc, PollMethod, Timeout, TryCancel, flagVars, grpcVars, vars

(* The flags of a new client.                                              *)
LEMMA InitFlags == Init => Flags
<1>1. Init => FlagTypes
  <2>1. Init => issued \in [Ops -> Nat] /\ ready \in [Ops -> {"no", "ok", "failed"}]
    BY DEF Init
  <2>2. Init => done \subseteq Ops \cup {"SHUTDOWN"} /\ pending \subseteq Ops \cup {"SHUTDOWN"}
    BY DEF Init, Ops
  <2>. QED  BY <2>1, <2>2, Zenon DEF Init, FlagTypes
<1>2. Init => \A op \in Ops : Outstanding[op] = IF op \in pending THEN 1 ELSE 0
  BY DEF Init, Outstanding
<1>. QED  BY <1>1, <1>2 DEF Init, Flags

(* The client implements gRPC's contract: whatever its caller does, and in *)
(* whatever order completions come, DoAsync's tests of the flags let no    *)
(* second operation of a kind start, none after Finish and none after      *)
(* Shutdown, and the queue is shut down once.                              *)
THEOREM ClientKeepsContract == Spec => KeepsContract
<1>1. Init => Flags
  BY InitFlags
<1>2. Init => Contract!Init
  BY DEF Init, Contract!Init, Contract!Ops, Outstanding, Ops
<1>3. Flags /\ [Next]_vars => Flags' /\ [Contract!Next]_(Contract!gvars)
  BY StepKeepsFlags
<1>. QED
  BY <1>1, <1>2, <1>3, PTL DEF Spec, KeepsContract, Contract!Spec

-----------------------------------------------------------------------------
(* What the caller may rely on.                                            *)

(* FINISH and SHUTDOWN, once in the flags, stay there, pending or done.    *)
LEMMA FlagsStay ==
  ASSUME Flags, [Next]_vars
  PROVE  /\ "FINISH" \in done \cup pending => "FINISH" \in done' \cup pending'
         /\ "SHUTDOWN" \in done \cup pending => "SHUTDOWN" \in done' \cup pending'
<1>1. Flags' /\ [Contract!Next]_(Contract!gvars)
  BY StepKeepsFlags
<1>2. /\ cqShut => cqShut'
      /\ ("FINISH" \in done \cup pending) => ("FINISH" \in done' \cup pending')
  BY <1>1 DEF Contract!Next, Contract!Start, Contract!Take, Contract!TakeAndStart,
              Contract!ShutDown, Contract!MayStart, Contract!gvars
<1>. QED  BY <1>1, <1>2 DEF Flags

(* An event that failed leaves a client that is finishing or shut down.    *)
LEMMA FailureFinishes ==
  ASSUME Flags, NEW op \in Ops, GotEvent(op, "failed")
  PROVE  {"FINISH", "SHUTDOWN"} \cap (done' \cup pending') # {}
<1>1. /\ ready[op] = "failed"
      /\ pending' = PendingAfter(op, "failed")
                    \cup (StartedByEvent(op, "failed") \cup ReadNext(op, "failed"))
  BY DEF GotEvent, ProcessEvent
<1>2. CASE Finishing("failed") = {}
  <2>1. "FINISH" \in done \cup pending \/ "SHUTDOWN" \in done \cup pending
    BY <1>2, DoAsyncStarts DEF Finishing, Ops
  <2>2. [Next]_vars
    BY DEF Next, Event
  <2>. QED  BY <2>1, <2>2, FlagsStay
<1>3. CASE Finishing("failed") # {}
  <2>1. "FINISH" \in Finishing("failed")
    BY <1>3, DoAsyncStarts DEF Finishing, Ops
  <2>. QED  BY <1>1, <2>1 DEF StartedByEvent
<1>. QED  BY <1>2, <1>3

(* Once an operation failed, Finish or Shutdown stays started.             *)
LEMMA StepKeepsErrorFinishes ==
  ASSUME Flags, ErrorFinishes, [Next]_vars
  PROVE  ErrorFinishes'
<1>1. CASE streamError
  BY <1>1, FlagsStay DEF ErrorFinishes
<1>2. CASE ~streamError /\ streamError'
  <2>1. PICK op \in Ops, ok \in {"ok", "failed"} : GotEvent(op, ok)
    BY <1>2, Zenon
    DEF Next, Method, Event, GotShutdown, Timeout, Grpc, TryCancel, AsyncMethod, SyncMethod,
        PollMethod, Shutdown, Destroy, ShutdownStep, Complete, flagVars, vars
  <2>2. ok = "failed"
    BY <1>2, <2>1, Zenon DEF GotEvent, ProcessEvent
  <2>. QED  BY <2>1, <2>2, FailureFinishes DEF ErrorFinishes
<1>. QED  BY <1>1, <1>2 DEF ErrorFinishes

(* A stream that failed is being finished, unless the client is shut down: *)
(* ProcessEvent starts Finish with the first failed event.                 *)
THEOREM ErrorFinishesHolds == Spec => []ErrorFinishes
<1>1. Init => Flags /\ ErrorFinishes
  BY InitFlags DEF Init, ErrorFinishes
<1>2. Flags /\ ErrorFinishes /\ [Next]_vars => (Flags /\ ErrorFinishes)'
  BY StepKeepsFlags, StepKeepsErrorFinishes
<1>. QED  BY <1>1, <1>2, PTL DEF Spec

(* The method the caller is in, and the message it writes.  A write that   *)
(* waits is for the message gRPC was handed last; a write that completed   *)
(* well has written it; and a Sleep knows whether it was entered with a    *)
(* stream that had failed.                                                 *)
Calls ==
  /\ call.name = "Write" => call.op = "WRITE" /\ writing = writes
  /\ call.name \in PollMethods => call.op = "none"
  /\ ready["WRITE"] = "ok" => writing \in written
  /\ call.name = "Sleep" /\ streamError => call.was

(* What a step may return under the names of Write and of Sleep.           *)
Returns ==
  /\ ret'.name = "Write" /\ ret'.status = "OK" => writes' \in written'
  /\ call.name = "Sleep" /\ ret'.name = "Sleep" /\ ret'.status = "TIMEOUT"
       => (streamError' => call.was)

(* A method that starts an operation keeps the facts about the call.       *)
LEMMA StartMethodCalls ==
  ASSUME Flags, Calls, NEW op \in {"WRITE", "WRITES_DONE", "FINISH"},
         AsyncMethod(op) \/ \E timed \in BOOLEAN : SyncMethod(op, timed)
  PROVE  Calls' /\ Returns
<1> DEFINE started == DoAsync(done, pending, op)
           err == DoAsyncError(done, pending, op)
<1>1. /\ call = Idle /\ WriteStep(op, started)
      /\ ready' = ready /\ streamError' = streamError
  BY DEF AsyncMethod, SyncMethod
<1>2. call.name = "idle"
  BY <1>1 DEF Idle
<1>3. "WRITE" \in started => ready["WRITE"] = "no" /\ op = "WRITE" /\ writing' = writes'
  <2>1. "WRITE" \in started => op = "WRITE" /\ "WRITE" \notin pending
    BY DoAsyncStarts DEF Ops
  <2>. QED  BY <1>1, <2>1 DEF WriteStep, Flags, FlagTypes, Outstanding, Ops
<1>4. written' = written /\ ("WRITE" \notin started => writing' = writing)
  BY <1>1 DEF WriteStep
<1>5. CASE AsyncMethod(op)
  <2>1. call' = call /\ ret' = [name |-> AsyncMethodOf(op), status |-> err]
    BY <1>5 DEF AsyncMethod, Return
  <2>2. AsyncMethodOf(op) \in {"WriteAsync", "WritesDoneAsync", "FinishAsync"}
    BY DEF AsyncMethodOf
  <2>3. ret'.name # "Write"
    BY <2>1, <2>2
  <2>. QED  BY <1>1, <1>2, <1>3, <1>4, <2>1, <2>3 DEF Calls, Returns, PollMethods
<1>6. CASE \E timed \in BOOLEAN : SyncMethod(op, timed)
  <2>1. PICK timed \in BOOLEAN : SyncMethod(op, timed)
    BY <1>6
  <2>2. /\ MethodOf(op) \in {"Write", "WritesDone", "Finish"}
        /\ MethodOf(op) = "Write" => op = "WRITE"
    BY DEF MethodOf
  <2>3. CASE Waits(err, op)
    <3>1. /\ call' = [name |-> MethodOf(op), op |-> op, timed |-> timed,
                      prev |-> IF MethodOf(op) = "TryRead" THEN "none" ELSE "none",
                      was |-> MethodOf(op) = "Sleep" /\ streamError]
          /\ ret' = Nothing
      BY <2>1, <2>3, Zenon DEF SyncMethod, Enter
    <3>2. call'.name = MethodOf(op) /\ call'.op = op /\ ret'.name = "none"
      BY <3>1 DEF Nothing
    <3>3. op = "WRITE" => "WRITE" \in started
      BY <2>3 DEF Waits, IdempotentSync, DoAsync
    <3>. QED  BY <1>1, <1>2, <1>3, <1>4, <2>2, <3>2, <3>3, SMTT(30) DEF Calls, Returns, PollMethods
  <2>4. CASE ~Waits(err, op)
    <3>1. call' = call /\ ret' = [name |-> MethodOf(op), status |-> err]
      BY <2>1, <2>4 DEF SyncMethod, Return
    <3>2. err # "OK"
      BY <2>4 DEF Waits
    <3>3. ret'.status # "OK"
      BY <3>1, <3>2
    <3>. QED  BY <1>1, <1>2, <1>3, <1>4, <3>1, <3>3, SMTT(30) DEF Calls, Returns, PollMethods
  <2>. QED  BY <2>3, <2>4
<1>. QED  BY <1>5, <1>6

(* Processing an event keeps the facts about the call in progress.         *)
LEMMA EventCalls ==
  ASSUME Flags, Calls, NEW op \in Ops, NEW ok \in {"ok", "failed"}, GotEvent(op, ok)
  PROVE  Calls' /\ Returns
<1> DEFINE satisfied == Satisfied(call.name, DoneAfter(op, ok), streamError \/ ok = "failed")
           reads == call.name \in {"Read", "TryRead"}
           valid == IF op = "READ" THEN ok = "ok" ELSE readBufValid
<1>1. /\ ready[op] = ok /\ ready' = [ready EXCEPT ![op] = "no"]
      /\ streamError' = (streamError \/ ok = "failed")
      /\ UNCHANGED <<writes, writing, written>>
  BY DEF GotEvent, ProcessEvent, writeVars
<1>2. ready'["WRITE"] = "ok" => ready["WRITE"] = "ok"
  BY <1>1 DEF Flags, FlagTypes, Ops
<1>3. CASE call.op = op
  <2>1. call.name \notin PollMethods
    BY <1>3 DEF Calls, Ops
  <2>2. Finished(IF ok = "ok" THEN "OK" ELSE "ERROR")
    BY <1>3, <2>1, Zenon DEF GotEvent
  <2>3. /\ ret' = [name |-> call.name, status |-> IF ok = "ok" THEN "OK" ELSE "ERROR"]
        /\ call'.name \in {"idle", "gone"}
    BY <2>2 DEF Finished, Return, Idle, Gone
  <2>4. ret'.name = "Write" /\ ret'.status = "OK" => writes \in written
    BY <1>1, <1>3, <2>3 DEF Calls
  <2>. QED  BY <1>1, <1>2, <2>1, <2>3, <2>4 DEF Calls, Returns, PollMethods
<1>4. CASE call.op # op /\ call.name \in PollMethods /\ satisfied
  <2>1. Finished(IF reads /\ ~valid THEN "ERROR" ELSE "OK")
    BY <1>4, Zenon DEF GotEvent
  <2>2. /\ ret' = [name |-> call.name, status |-> IF reads /\ ~valid THEN "ERROR" ELSE "OK"]
        /\ call'.name \in {"idle", "gone"}
    BY <2>1 DEF Finished, Return, Idle, Gone
  <2>3. ret'.name = call.name /\ ret'.status \in {"OK", "ERROR"}
    BY <2>2
  <2>. QED  BY <1>1, <1>2, <1>4, <2>2, <2>3 DEF Calls, Returns, PollMethods
<1>5. CASE call.op # op /\ ~(call.name \in PollMethods /\ satisfied)
  <2>1. call' = call /\ ret' = Nothing
    BY <1>5, Zenon DEF GotEvent
  <2>2. call.name = "Sleep" => ~streamError'
    <3>1. call.name = "Sleep" => satisfied = ((streamError \/ ok = "failed") \/ "FINISH" \in DoneAfter(op, ok))
      BY DEF Satisfied
    <3>. QED  BY <1>1, <1>5, <3>1, Zenon DEF PollMethods
  <2>3. ret'.name = "none"
    BY <2>1 DEF Nothing
  <2>. QED  BY <1>1, <1>2, <2>1, <2>2, <2>3 DEF Calls, Returns
<1>. QED  BY <1>3, <1>4, <1>5

(* Every step keeps the facts about the call in progress.                  *)
LEMMA StepKeepsCalls ==
  ASSUME Flags, Calls, [Next]_vars
  PROVE  Calls' /\ (Returns \/ UNCHANGED vars)
<1>1. ASSUME NEW op \in {"WRITE", "WRITES_DONE", "FINISH"},
             AsyncMethod(op) \/ \E timed \in BOOLEAN : SyncMethod(op, timed)
      PROVE  Calls' /\ Returns
  BY <1>1, StartMethodCalls
<1>2. ASSUME NEW op \in Ops, NEW ok \in {"ok", "failed"}, GotEvent(op, ok)
      PROVE  Calls' /\ Returns
  BY <1>2, EventCalls
<1>3. ASSUME NEW op \in Ops, NEW ok \in {"ok", "failed"}, Complete(op, ok)
      PROVE  Calls' /\ Returns
  <2>1. /\ ready' = [ready EXCEPT ![op] = ok]
        /\ written' = IF ok = "ok" /\ op = "WRITE" THEN written \cup {writing} ELSE written
        /\ ret' = Nothing /\ UNCHANGED <<streamError, writes, writing, call>>
    BY <1>3 DEF Complete, flagVars
  <2>2. ready'["WRITE"] = "ok" => writing' \in written'
    BY <2>1 DEF Calls, Flags, FlagTypes, Ops
  <2>. QED  BY <2>1, <2>2 DEF Calls, Returns, Nothing
<1>4. ASSUME NEW name \in PollMethods, NEW timed \in BOOLEAN, PollMethod(name, timed)
      PROVE  Calls' /\ Returns
  <2>1. call.name = "idle" /\ UNCHANGED <<streamError, writes, writing, written, ready>>
    BY <1>4 DEF PollMethod, flagVars, writeVars, Idle
  <2>2. CASE ReadCallback /\ name \in {"Read", "TryRead"}
    <3>1. call' = call /\ ret' = [name |-> name, status |-> "ILLEGAL_STATE"]
      BY <1>4, <2>2 DEF PollMethod, Return
    <3>. QED  BY <2>1, <3>1 DEF Calls, Returns, PollMethods
  <2>3. CASE ~(ReadCallback /\ name \in {"Read", "TryRead"})
    <3>1. Enter(name, "none", timed, IF ret.status = "OK" THEN ret.name ELSE "none")
      BY <1>4, <2>3 DEF PollMethod
    <3>2. call'.name = name /\ call'.op = "none" /\ call'.was = (name = "Sleep" /\ streamError)
      BY <3>1 DEF Enter
    <3>3. ret'.name = "none"
      BY <3>1 DEF Enter, Nothing
    <3>. QED  BY <2>1, <3>2, <3>3, Zenon DEF Calls, Returns, PollMethods
  <2>. QED  BY <2>2, <2>3
<1>5. CASE Shutdown
  <2>1. /\ call.name = "idle" /\ call' = call /\ UNCHANGED <<streamError, writes, writing, written, ready>>
    BY <1>5, Zenon DEF Shutdown, ShutdownStep, writeVars, Idle
  <2>2. \E status : ret' = [name |-> "Shutdown", status |-> status]
    BY <1>5, Zenon DEF Shutdown, Return
  <2>. QED  BY <2>1, <2>2 DEF Calls, Returns, PollMethods
<1>6. CASE Destroy
  <2>1. /\ call.name = "idle" /\ UNCHANGED <<streamError, writes, writing, written, ready>>
        /\ call'.name = "destroy" /\ ret'.name = "none"
    BY <1>6 DEF Destroy, ShutdownStep, writeVars, Idle, Enter, Nothing
  <2>. QED  BY <2>1 DEF Calls, Returns, PollMethods
<1>7. CASE GotShutdown \/ Timeout
  <2>1. PICK status \in {"SHUTDOWN", "TIMEOUT"} : Finished(status)
    BY <1>7 DEF GotShutdown, Timeout
  <2>2. /\ call'.name \in {"idle", "gone"} /\ ret'.name = call.name /\ ret'.status # "OK"
        /\ UNCHANGED <<streamError, writes, writing, written, ready>>
    BY <1>7, <2>1 DEF Finished, Return, Idle, Gone, GotShutdown, Timeout, flagVars, writeVars
  <2>. QED  BY <2>2 DEF Calls, Returns, PollMethods
<1>8. CASE TryCancel
  <2>1. ret'.name = "none" /\ UNCHANGED <<streamError, writes, writing, written, ready, call>>
    BY <1>8 DEF TryCancel, Nothing, flagVars, writeVars
  <2>. QED  BY <2>1 DEF Calls, Returns
<1>9. CASE UNCHANGED vars
  BY <1>9 DEF Calls, vars, flagVars, writeVars
<1>. QED
  BY <1>1, <1>2, <1>3, <1>4, <1>5, <1>6, <1>7, <1>8, <1>9 DEF Next, Method, Event, Grpc

(* A Write that returns OK has written its own message: a write that was   *)
(* left pending by a deadline is not taken for it (DoSync), and no write   *)
(* starts while one is pending.                                            *)
THEOREM WriteOkMeansWrittenHolds == Spec => []WriteOkMeansWritten
<1> DEFINE I == Flags /\ Calls /\ WriteOkMeansWritten
<1>1. Init => I
  BY InitFlags DEF Init, Calls, WriteOkMeansWritten, Idle, Nothing, PollMethods, Ops
<1>2. I /\ [Next]_vars => I'
  <2>1. I /\ UNCHANGED vars => WriteOkMeansWritten'
    BY DEF WriteOkMeansWritten, vars, writeVars
  <2>2. Returns => WriteOkMeansWritten'
    BY DEF Returns, WriteOkMeansWritten
  <2>. QED  BY <2>1, <2>2, StepKeepsFlags, StepKeepsCalls
<1>3. I => WriteOkMeansWritten
  OBVIOUS
<1>. QED  BY <1>1, <1>2, <1>3, PTL DEF Spec

(* A Sleep that ran until its deadline slept through no error of the       *)
(* stream: an event that fails while it sleeps ends it.                    *)
THEOREM SleepSawNoErrorHolds == Spec => SleepSawNoError
<1>1. Init => Flags /\ Calls
  BY InitFlags DEF Init, Calls, Idle, PollMethods, Ops
<1>2. Flags /\ Calls /\ [Next]_vars => (Flags /\ Calls)'
  BY StepKeepsFlags, StepKeepsCalls
<1>3. Flags /\ Calls /\ [Next]_vars =>
        [call.name = "Sleep" /\ ret'.name = "Sleep" /\ ret'.status = "TIMEOUT"
           => (streamError' => call.was)]_vars
  BY StepKeepsCalls DEF Returns
<1>. QED  BY <1>1, <1>2, <1>3, PTL DEF Spec, SleepSawNoError

-----------------------------------------------------------------------------
(* Reads.                                                                  *)

(* Without a callback: the buffer is not read into while it holds a        *)
(* message nobody has taken.                                               *)
Buffer ==
  /\ received \in Nat /\ taken \in Nat /\ readBufValid \in BOOLEAN
  /\ readBufValid => "READ" \notin pending
  /\ EveryMessageIsRead

(* Processing an event loses no message of the read buffer.                *)
LEMMA EventKeepsBuffer ==
  ASSUME ReadCallback = FALSE, Flags, Buffer,
         NEW op \in Ops, NEW ok \in {"ok", "failed"}, GotEvent(op, ok)
  PROVE  Buffer'
<1> DEFINE reads == call.name \in {"Read", "TryRead"}
           valid == IF op = "READ" THEN ok = "ok" ELSE readBufValid
           started == StartedByEvent(op, ok) \cup ReadNext(op, ok)
<1>1. /\ ready[op] = ok /\ ready' = [ready EXCEPT ![op] = "no"]
      /\ pending' = PendingAfter(op, ok) \cup started /\ received' = received
  BY DEF GotEvent, ProcessEvent, grpcVars
<1>2. /\ op \in pending
      /\ Finishing(ok) \subseteq {"FINISH"}
  BY <1>1, EventStarts, SMTT(30)
<1>3. /\ "READ" \in pending' => "READ" \in started \/ ("READ" \in pending /\ op # "READ")
      /\ "READ" \in started => reads /\ "READ" \in DoneAfter(op, ok) /\ valid
  <2>1. StartedByEvent(op, ok) = Finishing(ok)
    BY DEF StartedByEvent
  <2>. QED  BY <1>1, <1>2, <2>1 DEF PendingAfter, ReadNext
<1>4. /\ ready'["READ"] = IF op = "READ" THEN "no" ELSE ready["READ"]
      /\ ready["READ"] # "no" => "READ" \in pending
  BY <1>1 DEF Flags, FlagTypes, Outstanding, Ops
<1>5. CASE reads /\ "READ" \in DoneAfter(op, ok)
  <2>1. Satisfied(call.name, DoneAfter(op, ok), streamError \/ ok = "failed")
    BY <1>5 DEF Satisfied
  <2>2. readBufValid' = FALSE /\ taken' = IF valid THEN taken + 1 ELSE taken
    BY <1>5, <2>1, Zenon DEF GotEvent
  <2>3. received' = taken' + IF ready'["READ"] = "ok" \/ readBufValid' THEN 1 ELSE 0
    BY <1>1, <1>4, <2>2 DEF Buffer, EveryMessageIsRead
  <2>. QED  BY <1>1, <2>2, <2>3, Zenon DEF Buffer, EveryMessageIsRead
<1>6. CASE ~(reads /\ "READ" \in DoneAfter(op, ok))
  <2>1. reads => ~Satisfied(call.name, DoneAfter(op, ok), streamError \/ ok = "failed")
    BY <1>6 DEF Satisfied
  <2>2. HandleRead(op, ok) /\ taken' = taken
    BY <2>1, Zenon DEF GotEvent
  <2>3. readBufValid' = valid
    BY <2>2 DEF HandleRead
  <2>4. readBufValid' => "READ" \notin pending'
    BY <1>2, <1>3, <1>6, <2>3, Zenon DEF Buffer
  <2>5. received' = taken' + IF ready'["READ"] = "ok" \/ readBufValid' THEN 1 ELSE 0
    <3>1. CASE op = "READ"
      <4>1. ~readBufValid
        BY <1>2, <3>1 DEF Buffer
      <4>2. received = taken + IF ok = "ok" THEN 1 ELSE 0
        BY <1>1, <3>1, <4>1 DEF Buffer, EveryMessageIsRead
      <4>3. readBufValid' <=> ok = "ok"
        BY <2>3, <3>1, Zenon
      <4>. QED  BY <1>1, <1>4, <2>2, <3>1, <4>2, <4>3
    <3>2. CASE op # "READ"
      BY <1>1, <1>4, <2>2, <2>3, <3>2 DEF Buffer, EveryMessageIsRead
    <3>. QED  BY <3>1, <3>2
  <2>. QED  BY <1>1, <2>2, <2>3, <2>4, <2>5, Zenon DEF Buffer, EveryMessageIsRead
<1>. QED  BY <1>5, <1>6

(* Every step keeps the read buffer in order.                              *)
LEMMA StepKeepsBuffer ==
  ASSUME ReadCallback = FALSE, Flags, Buffer, [Next]_vars
  PROVE  Buffer'
<1>1. CASE Event
  BY <1>1, EventKeepsBuffer, Zenon DEF Event
<1>2. ASSUME NEW op \in Ops, NEW ok \in {"ok", "failed"}, Complete(op, ok)
      PROVE  Buffer'
  <2>1. /\ issued[op] > 0 /\ ready[op] = "no" /\ ready' = [ready EXCEPT ![op] = ok]
        /\ received' = IF ok = "ok" /\ op = "READ" THEN received + 1 ELSE received
        /\ UNCHANGED <<pending, readBufValid, taken>>
    BY <1>2 DEF Complete, flagVars, readVars
  <2>2. op \in pending
    BY <2>1 DEF Flags, FlagTypes, Outstanding
  <2>3. ready'["READ"] = IF op = "READ" THEN ok ELSE ready["READ"]
    BY <2>1 DEF Flags, FlagTypes, Ops
  <2>. QED  BY <2>1, <2>2, <2>3 DEF Buffer, EveryMessageIsRead
<1>3. CASE UNCHANGED <<ready, readBufValid, received, taken>>
           /\ ("READ" \in pending' => "READ" \in pending)
  BY <1>3 DEF Buffer, EveryMessageIsRead
<1>4. ASSUME NEW op \in {"WRITE", "WRITES_DONE", "FINISH"}, NEW timed \in BOOLEAN,
             AsyncMethod(op) \/ SyncMethod(op, timed)
      PROVE  Buffer'
  <2>1. UNCHANGED <<ready, readBufValid, received, taken>>
        /\ pending' = pending \cup DoAsync(done, pending, op)
    <3>1. CASE AsyncMethod(op)
      BY <3>1 DEF AsyncMethod, Started, readVars, grpcVars
    <3>2. CASE SyncMethod(op, timed)
      BY <3>2 DEF SyncMethod, Started, readVars, grpcVars
    <3>. QED  BY <1>4, <3>1, <3>2
  <2>2. DoAsync(done, pending, op) \subseteq {op}
    BY DoAsyncStarts DEF Ops
  <2>. QED  BY <1>3, <2>1, <2>2
<1>5. CASE Shutdown \/ Destroy
  <2>1. UNCHANGED <<ready, readBufValid, received, taken>>
        /\ pending' \subseteq pending \cup {"SHUTDOWN"}
    <3>1. ShutdownStep
      BY <1>5, Zenon DEF Shutdown, Destroy
    <3>. QED  BY <3>1 DEF ShutdownStep, readVars
  <2>. QED  BY <1>3, <2>1
<1>6. CASE GotShutdown \/ Timeout \/ TryCancel \/ UNCHANGED vars
           \/ \E name \in PollMethods, timed \in BOOLEAN : PollMethod(name, timed)
  <2>1. UNCHANGED <<ready, readBufValid, received, taken, pending>>
    BY <1>6, Zenon
    DEF GotShutdown, Timeout, TryCancel, PollMethod, vars, flagVars, readVars, grpcVars
  <2>. QED  BY <1>3, <2>1
<1>7. ASSUME NEW op \in {"WRITE", "WRITES_DONE", "FINISH"}, AsyncMethod(op)
      PROVE  Buffer'
  BY <1>4, <1>7, Zenon
<1>. QED
  BY <1>1, <1>2, <1>4, <1>5, <1>6, <1>7 DEF Next, Method, Grpc

(* Every message that gRPC has read is with the caller or waits for it: a  *)
(* client without a callback starts the next read only with the message    *)
(* that Read returns.                                                      *)
THEOREM EveryMessageIsReadHolds ==
  ASSUME ReadCallback = FALSE
  PROVE  Spec => []EveryMessageIsRead
<1>1. Init => Flags /\ Buffer
  <2>1. Init => ~readBufValid /\ readBufValid \in BOOLEAN
    BY Zenon DEF Init
  <2>2. Init => received = 0 /\ taken = 0 /\ ready["READ"] = "no"
    BY DEF Init, Ops
  <2>3. Init => EveryMessageIsRead
    BY <2>1, <2>2 DEF EveryMessageIsRead
  <2>. QED  BY <2>1, <2>2, <2>3, InitFlags DEF Buffer
<1>2. Flags /\ Buffer /\ [Next]_vars => (Flags /\ Buffer)'
  BY StepKeepsFlags, StepKeepsBuffer, Zenon
<1>3. Buffer => EveryMessageIsRead
  BY DEF Buffer
<1>. QED  BY <1>1, <1>2, <1>3, PTL DEF Spec

(* With a callback: once it was told the end, no read is pending and none  *)
(* can be started.                                                         *)
Told == \E i \in 1 .. Len(callbacks) : callbacks[i] = "null"

Callbacks ==
  /\ callbacks \in Seq({"message", "null"})
  /\ Told => /\ "READ" \notin pending
             /\ {"FINISH", "SHUTDOWN"} \cap (done \cup pending) # {}
  /\ LastReadIsNull

(* A step that tells the callback nothing and, once the end was told,      *)
(* starts no read.                                                         *)
LEMMA QuietStep ==
  ASSUME Flags, Callbacks, [Next]_vars, callbacks' = callbacks,
         "READ" \in pending' => "READ" \in pending \/ ~Told
  PROVE  Callbacks'
<1>1. Told => {"FINISH", "SHUTDOWN"} \cap (done' \cup pending') # {}
  BY FlagsStay DEF Callbacks
<1>2. Told' = Told
  BY DEF Told
<1>. QED  BY <1>1, <1>2 DEF Callbacks, LastReadIsNull

(* Processing an event tells the callback nothing after the end.           *)
LEMMA EventKeepsCallbacks ==
  ASSUME Flags, Callbacks, NEW op \in Ops, NEW ok \in {"ok", "failed"}, GotEvent(op, ok)
  PROVE  Callbacks'
<1> DEFINE started == StartedByEvent(op, ok) \cup ReadNext(op, ok)
           what == IF ok = "ok" THEN "message" ELSE "null"
<1>1. ready[op] = ok /\ pending' = PendingAfter(op, ok) \cup started
  BY SMTT(30) DEF GotEvent, ProcessEvent
<1>2. /\ op \in pending /\ Finishing(ok) \subseteq {"FINISH"}
      /\ "READ" \in started => /\ "FINISH" \notin done \cup pending
                               /\ "SHUTDOWN" \notin done \cup pending
      /\ ok = "failed" => started = Finishing(ok)
  BY <1>1, EventStarts
<1>3. "READ" \in pending' => ("READ" \in pending /\ op # "READ") \/ "READ" \in started
  BY <1>1, <1>2 DEF PendingAfter
<1>4. CASE callbacks' = callbacks
  <2>1. [Next]_vars
    BY DEF Next, Event
  <2>2. "READ" \in pending' => "READ" \in pending \/ ~Told
    BY <1>2, <1>3 DEF Callbacks
  <2>. QED  BY <1>4, <2>1, <2>2, QuietStep
<1>5. CASE callbacks' # callbacks
  <2>1. op = "READ" /\ callbacks' = Append(callbacks, what)
    <3>1. HandleRead(op, ok) \/ UNCHANGED callbacks
      BY Zenon DEF GotEvent
    <3>. QED  BY <1>5, <3>1 DEF HandleRead
  <2>2. ~Told
    BY <1>2, <2>1 DEF Callbacks
  <2>3. /\ callbacks' \in Seq({"message", "null"}) /\ Len(callbacks') = Len(callbacks) + 1
        /\ \A i \in 1 .. Len(callbacks) : callbacks'[i] = callbacks[i]
        /\ callbacks'[Len(callbacks) + 1] = what
    BY <2>1 DEF Callbacks
  <2>4. LastReadIsNull'
    BY <2>2, <2>3 DEF LastReadIsNull, Told, Callbacks
  <2>5. Told' => ok = "failed"
    BY <2>2, <2>3 DEF Told, Callbacks
  <2>6. Told' => "READ" \notin pending'
    BY <1>2, <1>3, <2>1, <2>5
  <2>7. Told' => {"FINISH", "SHUTDOWN"} \cap (done' \cup pending') # {}
    BY <2>5, FailureFinishes
  <2>. QED  BY <2>3, <2>4, <2>6, <2>7 DEF Callbacks
<1>. QED  BY <1>4, <1>5

(* Every step keeps the facts about the callback.                          *)
LEMMA StepKeepsCallbacks ==
  ASSUME Flags, Callbacks, [Next]_vars
  PROVE  Callbacks'
<1>1. CASE Event
  BY <1>1, EventKeepsCallbacks DEF Event
<1>2. ASSUME NEW op \in {"WRITE", "WRITES_DONE", "FINISH"},
             AsyncMethod(op) \/ \E timed \in BOOLEAN : SyncMethod(op, timed)
      PROVE  Callbacks'
  <2>1. callbacks' = callbacks /\ pending' = pending \cup DoAsync(done, pending, op)
    BY <1>2 DEF AsyncMethod, SyncMethod, Started, readVars
  <2>2. DoAsync(done, pending, op) \subseteq {op}
    BY DoAsyncStarts DEF Ops
  <2>. QED  BY <2>1, <2>2, QuietStep, SMTT(30)
<1>3. CASE Shutdown \/ Destroy
  <2>1. ShutdownStep
    BY <1>3, Zenon DEF Shutdown, Destroy
  <2>2. callbacks' = callbacks /\ pending' \subseteq pending \cup {"SHUTDOWN"}
    BY <2>1 DEF ShutdownStep, readVars
  <2>. QED  BY <2>2, QuietStep
<1>4. CASE GotShutdown \/ Timeout \/ TryCancel \/ Grpc \/ UNCHANGED vars
           \/ \E name \in PollMethods, timed \in BOOLEAN : PollMethod(name, timed)
  <2>1. callbacks' = callbacks /\ pending' = pending
    BY <1>4, Zenon
    DEF GotShutdown, Timeout, TryCancel, Grpc, Complete, PollMethod, vars, flagVars, readVars
  <2>. QED  BY <2>1, QuietStep
<1>. QED  BY <1>1, <1>2, <1>3, <1>4 DEF Next, Method

(* The read callback is told the end of the stream at most once, and       *)
(* nothing after it: the failed read starts Finish before HandleRead tries *)
(* to read on.                                                             *)
THEOREM LastReadIsNullHolds == Spec => []LastReadIsNull
<1>1. Init => Flags /\ Callbacks
  BY InitFlags DEF Init, Callbacks, Told, LastReadIsNull
<1>2. Flags /\ Callbacks /\ [Next]_vars => (Flags /\ Callbacks)'
  BY StepKeepsFlags, StepKeepsCallbacks
<1>3. Callbacks => LastReadIsNull
  BY DEF Callbacks
<1>. QED  BY <1>1, <1>2, <1>3, PTL DEF Spec
=============================================================================
